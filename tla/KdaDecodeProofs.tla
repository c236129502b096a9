-------------------------- MODULE KdaDecodeProofs --------------------------
(***************************************************************************)
(* Decoding with the KDA kernels, for all shapes and any number of rounds. *)
(***************************************************************************)
EXTENDS KdaDecode, FiniteSetTheorems, TLAPS

-----------------------------------------------------------------------------
(* Arithmetic.                                                             *)

\* Quotient and remainder.
LEMMA DivMod ==
    ASSUME NEW m \in Nat, NEW d \in Nat \ {0}
    PROVE  /\ m \div d \in Nat /\ m % d \in 0 .. d - 1
           /\ m = d * (m \div d) + (m % d)
OBVIOUS

\* A product grows with its factor, and only with it.
LEMMA TimesGrows ==
    ASSUME NEW d \in Nat \ {0}, NEW a \in Nat, NEW b \in Nat
    PROVE  /\ d * a \in Nat /\ d * b \in Nat
           /\ a < b => d * a + d <= d * b
           /\ a <= b => d * a <= d * b
           /\ d * a < d * b => a < b
<1>1. d * a \in Nat /\ d * b \in Nat
  OBVIOUS
<1>2. ASSUME NEW x \in Nat, NEW y \in Nat, x < y PROVE d * x + d <= d * y
  <2>1. PICK k \in Nat : y = x + 1 + k
    <3>1. y - x - 1 \in Nat /\ y = x + 1 + (y - x - 1)
      BY <1>2
    <3> QED
      BY <3>1
  <2>2. d * y = d * x + d + d * k /\ d * k \in Nat /\ d * x \in Nat
    BY <2>1
  <2> QED
    BY <2>2
<1>3. a < b => d * a + d <= d * b
  BY <1>2
<1>4. a <= b => d * a <= d * b
  BY <1>1, <1>3
<1>5. d * a < d * b => a < b
  <2>1. b < a => d * b + d <= d * a
    BY <1>2
  <2> QED
    BY <1>1, <2>1
<1> QED
  BY <1>1, <1>3, <1>4, <1>5

\* Quotient and remainder are unique.
LEMMA DivIs ==
    ASSUME NEW d \in Nat \ {0}, NEW q \in Nat, NEW r \in 0 .. d - 1,
           NEW x \in Nat, NEW s \in 0 .. d - 1, d * q + r = d * x + s
    PROVE  q = x /\ r = s
<1>1. /\ d * q \in Nat /\ d * x \in Nat
      /\ q < x => d * q + d <= d * x
      /\ x < q => d * x + d <= d * q
  BY TimesGrows
<1>2. q = x
  BY <1>1
<1> QED
  BY <1>1, <1>2

\* Enough groups of d for a things.
LEMMA CeilFits ==
    ASSUME NEW a \in Nat \ {0}, NEW d \in Nat \ {0}
    PROVE  /\ (a + d - 1) \div d \in Nat \ {0}
           /\ a <= d * ((a + d - 1) \div d)
           /\ d * ((a + d - 1) \div d) < a + d
<1> DEFINE m == a + d - 1    c == m \div d
<1>1. m \in Nat
  OBVIOUS
<1>2. c \in Nat /\ m % d \in 0 .. d - 1 /\ m = d * c + (m % d)
  BY <1>1, DivMod
<1>3. m = a + d - 1
  OBVIOUS
<1> HIDE DEF m, c
<1>4. d * c \in Nat /\ a <= d * c /\ d * c < a + d
  BY <1>2, <1>3
<1>5. c # 0
  BY <1>4
<1> QED
  BY <1>2, <1>4, <1>5 DEF m, c

-----------------------------------------------------------------------------
(* The schedules deal every row of every head to exactly one item.         *)

\* Blocks of rows of bh heads.
ItemsOf(bh) == [head : 0 .. bh - 1, first : 0 .. TILE - 1, rows : 1 .. TILE]

\* The item holds row q of head h.
Covers(i, h, q) == i.head = h /\ q \in ItemRows(i)

\* W deals out bh heads to the lanes: works of one or two items that end
\* within their heads, and one item for every row.
Deals(W, bh, lanes) ==
  /\ \A l \in 0 .. lanes - 1 :
       /\ W[l] \in Seq(Seq(ItemsOf(bh)))
       /\ \A w \in DOMAIN W[l] :
            /\ DOMAIN W[l][w] \in {1 .. 1, 1 .. 2}
            /\ \A a \in DOMAIN W[l][w] : W[l][w][a].first + W[l][w][a].rows <= TILE
  /\ \A h \in 0 .. bh - 1, q \in Rows :
       \E l0 \in 0 .. lanes - 1 : \E w0 \in DOMAIN W[l0] : \E a0 \in DOMAIN W[l0][w0] :
         \A l \in 0 .. lanes - 1 : \A w \in DOMAIN W[l] : \A a \in DOMAIN W[l][w] :
           Covers(W[l][w][a], h, q) <=> l = l0 /\ w = w0 /\ a = a0

\* A list given by its entries, also when it is empty.
LEMMA ListOf ==
    ASSUME NEW S, NEW n \in Int, NEW f, f = [i \in 1 .. n |-> f[i]],
           \A i \in 1 .. n : f[i] \in S
    PROVE  f \in Seq(S)
<1>1. CASE n \in Nat
  BY <1>1
<1>2. CASE n \notin Nat
  <2>1. 1 .. n = 1 .. 0
    BY <1>2
  <2> QED
    BY <2>1
<1> QED
  BY <1>1, <1>2

\* The blocks of n rows, numbered over the heads.
Blocks(bh, n) == bh * (TILE \div n)

\* The blocks lie within their heads, and every row is in one block only.
LEMMA BlockFacts ==
    ASSUME NEW bh \in Nat \ {0}, NEW n \in Nat \ {0}, TILE % n = 0
    PROVE  /\ Blocks(bh, n) \in Nat \ {0}
           /\ \A w \in 0 .. Blocks(bh, n) - 1 :
                /\ Block(w, n) \in ItemsOf(bh)
                /\ Block(w, n).first + Block(w, n).rows <= TILE
           /\ \A h \in 0 .. bh - 1, q \in Rows :
                \E w0 \in 0 .. Blocks(bh, n) - 1 : \A w \in 0 .. Blocks(bh, n) - 1 :
                  Covers(Block(w, n), h, q) <=> w = w0
<1> DEFINE parts == TILE \div n
<1>1. TILE \in Nat \ {0}
  BY ScheduleAssumption
<1>2. parts \in Nat /\ TILE = n * parts
  BY <1>1, DivMod
<1>3. parts # 0
  BY <1>1, <1>2
<1>4. parts \in Nat \ {0} /\ n * parts = TILE
  BY <1>2, <1>3
<1> HIDE DEF parts
<1>5. bh * parts \in Nat \ {0} /\ bh * parts = parts * bh
  BY <1>4
<1>6. ASSUME NEW w \in 0 .. bh * parts - 1
      PROVE  LET h == w \div parts    r == w % parts IN
             /\ h \in 0 .. bh - 1 /\ r \in 0 .. parts - 1 /\ w = parts * h + r
             /\ n * r \in 0 .. TILE - n /\ r * n = n * r
             /\ Block(w, n) = [head |-> h, first |-> n * r, rows |-> n]
  <2> DEFINE h == w \div parts    r == w % parts
  <2>0. w \in Nat
    BY <1>5
  <2>1. w \in Nat /\ h \in Nat /\ r \in 0 .. parts - 1 /\ w = parts * h + r
    BY <1>4, <2>0, DivMod
  <2>2. Block(w, n) = [head |-> h, first |-> r * n, rows |-> n]
    BY DEF Block, Item, parts
  <2> HIDE DEF h, r
  <2>3. parts * h < parts * bh
    BY <1>4, <1>5, <2>1
  <2>4. h < bh
    BY <1>4, <2>1, <2>3, TimesGrows
  <2>5. r \in Nat /\ r < parts
    BY <1>4, <2>1
  <2>6. n * r \in Nat /\ n * r + n <= n * parts
    BY <1>4, <2>5, TimesGrows
  <2>7. n * r \in 0 .. TILE - n
    BY <1>1, <1>4, <2>6
  <2>8. r * n = n * r
    BY <2>5
  <2> QED
    BY <2>1, <2>2, <2>4, <2>7, <2>8 DEF h, r
<1>7. ASSUME NEW w \in 0 .. bh * parts - 1
      PROVE  /\ Block(w, n) \in ItemsOf(bh)
             /\ Block(w, n).first + Block(w, n).rows <= TILE
  <2>1. n \in 1 .. TILE
    <3>1. n * 1 <= n * parts
      BY <1>4, TimesGrows
    <3> QED
      BY <1>1, <1>4, <3>1
  <2> QED
    BY <1>1, <1>6, <2>1 DEF ItemsOf
<1>8. ASSUME NEW h \in 0 .. bh - 1, NEW q \in Rows
      PROVE  \E w0 \in 0 .. bh * parts - 1 : \A w \in 0 .. bh * parts - 1 :
               Covers(Block(w, n), h, q) <=> w = w0
  <2> DEFINE p == q \div n    s == q % n
  <2>1. q \in Nat /\ q < TILE
    BY <1>1 DEF Rows
  <2>2. p \in Nat /\ s \in 0 .. n - 1 /\ q = n * p + s
    BY <2>1, DivMod
  <2> HIDE DEF p, s
  <2>3. n * p < n * parts
    BY <1>4, <2>1, <2>2
  <2>4. p \in 0 .. parts - 1
    BY <1>4, <2>2, <2>3, TimesGrows
  <2> DEFINE w0 == parts * h + p
  <2>5. parts * h + parts <= parts * bh /\ parts * h \in Nat
    BY <1>4, TimesGrows
  <2>6. w0 \in 0 .. bh * parts - 1
    BY <1>4, <1>5, <2>4, <2>5
  <2>7. ASSUME NEW w \in 0 .. bh * parts - 1
        PROVE  Covers(Block(w, n), h, q) <=> w = w0
    <3> DEFINE g == w \div parts    r == w % parts
    <3>1. /\ g \in 0 .. bh - 1 /\ r \in 0 .. parts - 1 /\ w = parts * g + r
          /\ n * r \in 0 .. TILE - n
          /\ Block(w, n) = [head |-> g, first |-> n * r, rows |-> n]
      BY <1>6
    <3> HIDE DEF g, r
    <3>2. Covers(Block(w, n), h, q) <=> g = h /\ q \in n * r .. n * r + n - 1
      BY <3>1 DEF Covers, ItemRows
    <3>3. ASSUME q \in n * r .. n * r + n - 1 PROVE r = p
      <4>1. q - n * r \in 0 .. n - 1 /\ q = n * r + (q - n * r) /\ r \in Nat
        BY <1>1, <2>1, <3>1, <3>3
      <4> QED
        BY <2>2, <4>1, DivIs
    <3>4. ASSUME r = p PROVE q \in n * r .. n * r + n - 1
      BY <2>2, <3>1, <3>4
    <3>5. ASSUME w = w0 PROVE g = h /\ r = p
      BY <1>4, <2>4, <3>1, <3>5, DivIs
    <3>6. ASSUME g = h, r = p PROVE w = w0
      BY <3>1, <3>6
    <3> QED
      BY <3>2, <3>3, <3>4, <3>5, <3>6
  <2> QED
    BY <2>6, <2>7
<1> QED
  BY <1>5, <1>7, <1>8, Zenon DEF parts, Blocks

\* Lanes that take numbered blocks, every number once, deal them: lane l has
\* cnt[l] works, and its i-th one is block num[l][i].
TakeBlocks(W, bh, n, lanes, num, cnt) ==
  /\ \A l \in 0 .. lanes - 1 :
       /\ cnt[l] \in Int
       /\ W[l] = [i \in 1 .. cnt[l] |-> <<Block(num[l][i], n)>>]
       /\ \A i \in 1 .. cnt[l] : num[l][i] \in 0 .. Blocks(bh, n) - 1
  /\ \A x \in 0 .. Blocks(bh, n) - 1 :
       \E l0 \in 0 .. lanes - 1 : \E i0 \in 1 .. cnt[l0] :
         \A l \in 0 .. lanes - 1 : \A i \in 1 .. cnt[l] :
           num[l][i] = x <=> l = l0 /\ i = i0

\* Lanes that take blocks one after the other deal out all the rows.
LEMMA BlocksDeal ==
    ASSUME NEW bh \in Nat \ {0}, NEW n \in Nat \ {0}, TILE % n = 0, NEW lanes \in Nat \ {0},
           NEW W, NEW num, NEW cnt, TakeBlocks(W, bh, n, lanes, num, cnt)
    PROVE  Deals(W, bh, lanes)
<1> DEFINE total == Blocks(bh, n)
<1>1. \A x \in 0 .. total - 1 :
        /\ Block(x, n) \in ItemsOf(bh)
        /\ Block(x, n).first + Block(x, n).rows <= TILE
  BY BlockFacts, Zenon
<1>2. \A h \in 0 .. bh - 1, q \in Rows :
        \E x0 \in 0 .. total - 1 : \A x \in 0 .. total - 1 :
          Covers(Block(x, n), h, q) <=> x = x0
  BY BlockFacts, Zenon
<1>3. ASSUME NEW l \in 0 .. lanes - 1
      PROVE  /\ cnt[l] \in Int
             /\ W[l] = [i \in 1 .. cnt[l] |-> <<Block(num[l][i], n)>>]
             /\ \A i \in 1 .. cnt[l] : num[l][i] \in 0 .. total - 1
  BY Zenon DEF TakeBlocks
<1>4. \A x \in 0 .. total - 1 :
        \E l0 \in 0 .. lanes - 1 : \E i0 \in 1 .. cnt[l0] :
          \A l \in 0 .. lanes - 1 : \A i \in 1 .. cnt[l] :
            num[l][i] = x <=> l = l0 /\ i = i0
  BY Zenon DEF TakeBlocks
<1> HIDE DEF total
<1>5. ASSUME NEW l \in 0 .. lanes - 1, NEW w \in 1 .. cnt[l]
      PROVE  /\ DOMAIN W[l][w] = 1 .. 1 /\ W[l][w] \in Seq(ItemsOf(bh))
             /\ W[l][w][1] = Block(num[l][w], n)
             /\ W[l][w][1].first + W[l][w][1].rows <= TILE
  <2>0. W[l] = [i \in 1 .. cnt[l] |-> <<Block(num[l][i], n)>>]
    BY <1>3, Zenon
  <2> DEFINE b == Block(num[l][w], n)
  <2>1. b \in ItemsOf(bh) /\ b.first + b.rows <= TILE
    BY <1>1, <1>3, Zenon
  <2>2. W[l][w] = <<b>>
    BY <2>0, Zenon
  <2> HIDE DEF b
  <2>3. DOMAIN W[l][w] = 1 .. 1 /\ W[l][w] \in Seq(ItemsOf(bh)) /\ W[l][w][1] = b
    BY <2>1, <2>2
  <2> QED
    BY <2>1, <2>3 DEF b
<1>6. ASSUME NEW l \in 0 .. lanes - 1
      PROVE  DOMAIN W[l] = 1 .. cnt[l] /\ W[l] \in Seq(Seq(ItemsOf(bh)))
  <2>1. DOMAIN W[l] = 1 .. cnt[l] /\ W[l] = [i \in 1 .. cnt[l] |-> W[l][i]]
    BY <1>3, Zenon
  <2>2. \A i \in 1 .. cnt[l] : W[l][i] \in Seq(ItemsOf(bh))
    BY <1>5, Zenon
  <2> QED
    BY <1>3, <2>1, <2>2, ListOf, Zenon
<1>7. ASSUME NEW h \in 0 .. bh - 1, NEW q \in Rows
      PROVE  \E l0 \in 0 .. lanes - 1 : \E w0 \in DOMAIN W[l0] : \E a0 \in DOMAIN W[l0][w0] :
               \A l \in 0 .. lanes - 1 : \A w \in DOMAIN W[l] : \A a \in DOMAIN W[l][w] :
                 Covers(W[l][w][a], h, q) <=> l = l0 /\ w = w0 /\ a = a0
  <2>1. PICK x0 \in 0 .. total - 1 : \A x \in 0 .. total - 1 :
               Covers(Block(x, n), h, q) <=> x = x0
    BY <1>2, Zenon
  <2>2. PICK l0 \in 0 .. lanes - 1 : \E i0 \in 1 .. cnt[l0] :
               \A l \in 0 .. lanes - 1 : \A i \in 1 .. cnt[l] :
                 num[l][i] = x0 <=> l = l0 /\ i = i0
    BY <1>4, Zenon
  <2>3. PICK i0 \in 1 .. cnt[l0] :
               \A l \in 0 .. lanes - 1 : \A i \in 1 .. cnt[l] :
                 num[l][i] = x0 <=> l = l0 /\ i = i0
    BY <2>2, Zenon
  <2>4. i0 \in DOMAIN W[l0] /\ 1 \in DOMAIN W[l0][i0]
    <3>1. i0 \in DOMAIN W[l0] /\ DOMAIN W[l0][i0] = 1 .. 1
      BY <1>5, <1>6, Zenon
    <3> QED
      BY <3>1
  <2>5. ASSUME NEW l \in 0 .. lanes - 1, NEW w \in DOMAIN W[l], NEW a \in DOMAIN W[l][w]
        PROVE  Covers(W[l][w][a], h, q) <=> l = l0 /\ w = i0 /\ a = 1
    <3>1. w \in 1 .. cnt[l]
      BY <1>6, Zenon
    <3>2. DOMAIN W[l][w] = 1 .. 1
      BY <1>5, <3>1, Zenon
    <3>3. a = 1
      BY <3>2
    <3>4. W[l][w][1] = Block(num[l][w], n) /\ num[l][w] \in 0 .. total - 1
      BY <1>3, <1>5, <3>1, Zenon
    <3>5. Covers(W[l][w][a], h, q) <=> num[l][w] = x0
      BY <2>1, <3>3, <3>4, Zenon
    <3> QED
      BY <2>3, <3>1, <3>3, <3>5, Zenon
  <2> QED
    BY <2>4, <2>5, Zenon
<1>8. ASSUME NEW l \in 0 .. lanes - 1, NEW w \in DOMAIN W[l]
      PROVE  /\ DOMAIN W[l][w] \in {1 .. 1, 1 .. 2}
             /\ \A a \in DOMAIN W[l][w] : W[l][w][a].first + W[l][w][a].rows <= TILE
  <2>1. w \in 1 .. cnt[l]
    BY <1>6, Zenon
  <2>2. DOMAIN W[l][w] = 1 .. 1 /\ W[l][w][1].first + W[l][w][1].rows <= TILE
    BY <1>5, <2>1, Zenon
  <2>3. \A a \in 1 .. 1 : a = 1
    OBVIOUS
  <2> QED
    BY <2>2, <2>3, Zenon
<1> QED
  BY <1>6, <1>7, <1>8, Zenon DEF Deals

\* Verify: runs of adjacent blocks.
LEMMA AdjacentDeals ==
    ASSUME NEW bh \in Nat \ {0}, NEW n \in Nat \ {0}, TILE % n = 0, NEW lanes \in Nat \ {0}
    PROVE  Deals([l \in 0 .. lanes - 1 |-> AdjacentBlocks(bh, lanes, l, n)], bh, lanes)
<1> DEFINE total == Blocks(bh, n)
           share == (total + lanes - 1) \div lanes
           end(l) == IF (l + 1) * share > total THEN total ELSE (l + 1) * share
           W == [l \in 0 .. lanes - 1 |-> AdjacentBlocks(bh, lanes, l, n)]
           cnt == [l \in 0 .. lanes - 1 |-> end(l) - l * share]
           num == [l \in 0 .. lanes - 1 |-> [i \in 1 .. cnt[l] |-> l * share + i - 1]]
<1>1. total \in Nat \ {0}
  BY BlockFacts
<1>2. \A l \in 0 .. lanes - 1 :
        AdjacentBlocks(bh, lanes, l, n)
          = [i \in 1 .. end(l) - l * share |-> <<Block(l * share + i - 1, n)>>]
  BY Zenon DEF AdjacentBlocks, Blocks
<1> HIDE DEF total
<1>3. share \in Nat \ {0} /\ total <= lanes * share
  BY <1>1, CeilFits
<1> HIDE DEF share
<1>4. ASSUME NEW l \in 0 .. lanes - 1
      PROVE  /\ l * share \in Nat /\ (l + 1) * share = l * share + share
             /\ l * share = share * l
             /\ end(l) \in Nat /\ end(l) <= total /\ end(l) <= l * share + share
             /\ \A x \in Nat : x < total /\ x < l * share + share => x < end(l)
  BY <1>1, <1>3
<1> HIDE DEF end
<1>5. \A l \in 0 .. lanes - 1 : \A i \in 1 .. cnt[l] : num[l][i] = l * share + i - 1
  OBVIOUS
<1>6. \A l \in 0 .. lanes - 1 : cnt[l] = end(l) - l * share
  OBVIOUS
<1>7. ASSUME NEW l \in 0 .. lanes - 1
      PROVE  W[l] = [i \in 1 .. cnt[l] |-> <<Block(num[l][i], n)>>]
  <2>1. W[l] = [i \in 1 .. cnt[l] |-> <<Block(l * share + i - 1, n)>>]
    BY <1>2, <1>6
  <2> QED
    BY <1>5, <2>1
<1> HIDE DEF W, cnt, num
<1>8. ASSUME NEW l \in 0 .. lanes - 1, NEW i \in 1 .. cnt[l]
      PROVE  num[l][i] \in 0 .. total - 1
  BY <1>1, <1>4, <1>5, <1>6
<1>9. ASSUME NEW x \in 0 .. total - 1
      PROVE  \E l0 \in 0 .. lanes - 1 : \E i0 \in 1 .. cnt[l0] :
               \A l \in 0 .. lanes - 1 : \A i \in 1 .. cnt[l] :
                 num[l][i] = x <=> l = l0 /\ i = i0
  <2> DEFINE l0 == x \div share    r == x % share
  <2>1. x \in Nat /\ x < total
    BY <1>1
  <2>2. l0 \in Nat /\ r \in 0 .. share - 1 /\ x = share * l0 + r
    BY <1>3, <2>1, DivMod
  <2> HIDE DEF l0, r
  <2>3. share * l0 < share * lanes
    <3>1. share * lanes = lanes * share /\ share * l0 \in Nat
      BY <1>3, <2>2
    <3> QED
      BY <1>1, <1>3, <2>1, <2>2, <3>1
  <2>4. l0 \in 0 .. lanes - 1
    BY <1>3, <2>2, <2>3, TimesGrows
  <2>5. r + 1 \in 1 .. cnt[l0]
    BY <1>1, <1>3, <1>4, <1>6, <2>1, <2>2, <2>4
  <2>6. ASSUME NEW l \in 0 .. lanes - 1, NEW i \in 1 .. cnt[l]
        PROVE  num[l][i] = x <=> l = l0 /\ i = r + 1
    <3>1. /\ num[l][i] = share * l + (i - 1) /\ i - 1 \in 0 .. share - 1 /\ l \in Nat
          /\ i = (i - 1) + 1
      BY <1>3, <1>4, <1>5, <1>6
    <3>2. ASSUME num[l][i] = x PROVE l = l0 /\ i - 1 = r
      <4>1. share * l0 + r = share * l + (i - 1)
        BY <2>2, <3>1, <3>2
      <4> QED
        BY <1>3, <2>2, <3>1, <4>1, DivIs
    <3>3. ASSUME l = l0, i = r + 1 PROVE num[l][i] = x
      BY <2>2, <3>1, <3>3
    <3> QED
      BY <2>2, <3>1, <3>2, <3>3
  <2> QED
    BY <2>4, <2>5, <2>6
<1>10. Deals(W, bh, lanes)
  <2>1. \A l \in 0 .. lanes - 1 : cnt[l] \in Int
    BY <1>4, <1>6
  <2>2. TakeBlocks(W, bh, n, lanes, num, cnt)
    BY <1>7, <1>8, <1>9, <2>1, ZenonT(40) DEF TakeBlocks, total
  <2> QED
    BY <2>2, BlocksDeal, Zenon
<1> QED
  BY <1>10 DEF W

\* How often a lane of a strided loop comes around.
LEMMA StridedCount ==
    ASSUME NEW total \in Nat \ {0}, NEW lanes \in Nat \ {0}, NEW l \in 0 .. lanes - 1
    PROVE  LET c == (total - l + lanes - 1) \div lanes IN
           /\ c \in Int
           /\ \A i \in Nat \ {0} : i <= c <=> lanes * (i - 1) + l < total
<1> DEFINE c == (total - l + lanes - 1) \div lanes
<1>1. CASE l < total
  <2>1. total - l \in Nat \ {0}
    BY <1>1
  <2>2. /\ c \in Nat \ {0} /\ total - l <= lanes * c
        /\ lanes * c < total - l + lanes
    BY <2>1, CeilFits
  <2> HIDE DEF c
  <2>3. ASSUME NEW i \in Nat \ {0}
        PROVE  i <= c <=> lanes * (i - 1) + l < total
    <3>1. /\ i - 1 \in Nat /\ lanes * (i - 1) \in Nat /\ lanes * c \in Nat
          /\ i - 1 < c => lanes * (i - 1) + lanes <= lanes * c
          /\ c <= i - 1 => lanes * c <= lanes * (i - 1)
      BY <2>2, TimesGrows
    <3> QED
      BY <1>1, <2>2, <3>1
  <2> QED
    BY <2>2, <2>3
<1>2. CASE ~ (l < total)
  <2> DEFINE m == total - l + lanes - 1
  <2>1. m \in 0 .. lanes - 1
    BY <1>2
  <2>2. m \div lanes = 0
    <3>0. m \in Nat
      BY <2>1
    <3>1. m = lanes * (m \div lanes) + (m % lanes) /\ m \div lanes \in Nat
          /\ m % lanes \in 0 .. lanes - 1
      BY <3>0, DivMod
    <3>2. m = lanes * 0 + m
      BY <2>1
    <3> HIDE DEF m
    <3> QED
      BY <2>1, <3>1, <3>2, DivIs
  <2>3. c = 0
    BY <2>2
  <2> HIDE DEF c
  <2>4. ASSUME NEW i \in Nat \ {0}
        PROVE  i <= c <=> lanes * (i - 1) + l < total
    <3>1. i - 1 \in Nat /\ lanes * (i - 1) \in Nat
      BY TimesGrows
    <3> QED
      BY <1>2, <2>3, <3>1
  <2> QED
    BY <2>3, <2>4
<1> QED
  BY <1>1, <1>2

\* Commit: every lanes-th block.
LEMMA StridedDeals ==
    ASSUME NEW bh \in Nat \ {0}, NEW n \in Nat \ {0}, TILE % n = 0, NEW lanes \in Nat \ {0}
    PROVE  Deals([l \in 0 .. lanes - 1 |-> StridedBlocks(bh, lanes, l, n)], bh, lanes)
<1> DEFINE total == Blocks(bh, n)
           W == [l \in 0 .. lanes - 1 |-> StridedBlocks(bh, lanes, l, n)]
           c(l) == (total - l + lanes - 1) \div lanes
           cnt == [l \in 0 .. lanes - 1 |-> c(l)]
           num == [l \in 0 .. lanes - 1 |-> [i \in 1 .. cnt[l] |-> l + (i - 1) * lanes]]
<1>1. total \in Nat \ {0}
  BY BlockFacts
<1>2. \A l \in 0 .. lanes - 1 :
        StridedBlocks(bh, lanes, l, n) = [i \in 1 .. c(l) |-> <<Block(l + (i - 1) * lanes, n)>>]
  BY Zenon DEF StridedBlocks, Blocks
<1> HIDE DEF total
<1>3. ASSUME NEW l \in 0 .. lanes - 1
      PROVE  /\ c(l) \in Int
             /\ \A i \in Nat \ {0} : i <= c(l) <=> lanes * (i - 1) + l < total
  BY <1>1, StridedCount
<1> HIDE DEF c
<1>4. \A l \in 0 .. lanes - 1 :
        /\ cnt[l] = c(l)
        /\ \A i \in 1 .. cnt[l] : num[l][i] = l + (i - 1) * lanes
  OBVIOUS
<1>5. ASSUME NEW l \in 0 .. lanes - 1
      PROVE  W[l] = [i \in 1 .. cnt[l] |-> <<Block(num[l][i], n)>>]
  <2>1. W[l] = [i \in 1 .. cnt[l] |-> <<Block(l + (i - 1) * lanes, n)>>]
    BY <1>2, <1>4
  <2> QED
    BY <1>4, <2>1
<1> HIDE DEF W, cnt, num
<1>6. ASSUME NEW l \in 0 .. lanes - 1, NEW i \in 1 .. cnt[l]
      PROVE  /\ i - 1 \in Nat /\ num[l][i] = lanes * (i - 1) + l
             /\ num[l][i] \in 0 .. total - 1
  <2>1. i \in Nat \ {0} /\ i <= c(l)
    BY <1>3, <1>4
  <2>2. i - 1 \in Nat /\ num[l][i] = lanes * (i - 1) + l /\ lanes * (i - 1) \in Nat
    BY <1>4, <2>1, TimesGrows
  <2> QED
    BY <1>1, <1>3, <2>1, <2>2
<1>7. ASSUME NEW x \in 0 .. total - 1
      PROVE  \E l0 \in 0 .. lanes - 1 : \E i0 \in 1 .. cnt[l0] :
               \A l \in 0 .. lanes - 1 : \A i \in 1 .. cnt[l] :
                 num[l][i] = x <=> l = l0 /\ i = i0
  <2> DEFINE p == x \div lanes    l0 == x % lanes
  <2>1. x \in Nat
    BY <1>1
  <2>2. p \in Nat /\ l0 \in 0 .. lanes - 1 /\ x = lanes * p + l0
    BY <2>1, DivMod
  <2> HIDE DEF p, l0
  <2>3. p + 1 \in 1 .. cnt[l0]
    <3>1. p + 1 \in Nat \ {0} /\ (p + 1) - 1 = p
      BY <2>2
    <3>2. lanes * ((p + 1) - 1) + l0 < total
      BY <1>1, <2>2, <3>1
    <3> QED
      BY <1>3, <1>4, <2>2, <3>1, <3>2
  <2>4. ASSUME NEW l \in 0 .. lanes - 1, NEW i \in 1 .. cnt[l]
        PROVE  num[l][i] = x <=> l = l0 /\ i = p + 1
    <3>1. i - 1 \in Nat /\ num[l][i] = lanes * (i - 1) + l /\ i = (i - 1) + 1
      BY <1>3, <1>4, <1>6
    <3>2. ASSUME num[l][i] = x PROVE l = l0 /\ i - 1 = p
      BY <2>2, <3>1, <3>2, DivIs
    <3>3. ASSUME l = l0, i = p + 1 PROVE num[l][i] = x
      BY <2>2, <3>1, <3>3
    <3> QED
      BY <2>2, <3>1, <3>2, <3>3
  <2> QED
    BY <2>2, <2>3, <2>4
<1>8. Deals(W, bh, lanes)
  <2>1. \A l \in 0 .. lanes - 1 : cnt[l] \in Int
    BY <1>3, <1>4
  <2>2. TakeBlocks(W, bh, n, lanes, num, cnt)
    BY <1>5, <1>6, <1>7, <2>1, ZenonT(40) DEF TakeBlocks, total
  <2> QED
    BY <2>2, BlocksDeal, Zenon
<1> QED
  BY <1>8 DEF W
\* A whole head, and half number r of the heads from g on.
LEMMA FullFacts ==
    ASSUME NEW bh \in Nat \ {0}, NEW g \in 0 .. bh - 1
    PROVE  LET i == Item(g, 0, TILE) IN
           /\ i \in ItemsOf(bh) /\ i.first + i.rows <= TILE
           /\ \A h \in 0 .. bh - 1, q \in Rows : Covers(i, h, q) <=> g = h
<1>1. TILE \in Nat \ {0}
  BY ScheduleAssumption
<1>2. Item(g, 0, TILE) = [head |-> g, first |-> 0, rows |-> TILE]
  BY <1>1 DEF Item
<1> QED
  BY <1>1, <1>2 DEF ItemsOf, Covers, ItemRows, Rows

\* A half of a head holds the rows of its half and no other.
LEMMA HalfFacts ==
    ASSUME NEW bh \in Nat \ {0}, NEW g \in Nat, NEW r \in Nat, 2 * g + r < 2 * bh
    PROVE  LET i == Half(g, r) IN
           /\ i \in ItemsOf(bh) /\ i.first + i.rows <= TILE
           /\ \A h \in 0 .. bh - 1, q \in Rows :
                Covers(i, h, q) <=> r = 2 * (h - g) + (IF q < VL THEN 0 ELSE 1)
<1>1. TILE = 2 * VL /\ VL \in Nat \ {0}
  BY ScheduleAssumption
<1> DEFINE p == r \div 2    s == r % 2
<1>2. p \in Nat /\ s \in 0 .. 1 /\ r = 2 * p + s
  OBVIOUS
<1>3. Half(g, r) = [head |-> g + p, first |-> s * VL, rows |-> VL]
  BY DEF Half, Item
<1> HIDE DEF p, s
<1>4. (s = 0 /\ s * VL = 0) \/ (s = 1 /\ s * VL = VL)
  BY <1>1, <1>2
<1> QED
  BY <1>1, <1>2, <1>3, <1>4 DEF ItemsOf, Covers, ItemRows, Rows

\* A list and one more entry.
LEMMA AppendOne ==
    ASSUME NEW S, NEW f \in Seq(S), NEW x \in S
    PROVE  /\ f \o <<x>> \in Seq(S) /\ DOMAIN (f \o <<x>>) = 1 .. Len(f) + 1
           /\ \A i \in 1 .. Len(f) : (f \o <<x>>)[i] = f[i]
           /\ (f \o <<x>>)[Len(f) + 1] = x
           /\ f \o <<>> = f
OBVIOUS

\* Appending the empty list adds nothing.
LEMMA AddNothing ==
    ASSUME NEW n \in Nat, NEW f, f = [i \in 1 .. n |-> f[i]], NEW z
    PROVE  f \o <<>> = f /\ (f \o <<z>>) \o <<>> = f \o <<z>>
<1> DEFINE S == {f[i] : i \in 1 .. n} \cup {z}
<1>1. \A i \in 1 .. n : f[i] \in S
  OBVIOUS
<1>2. z \in S
  OBVIOUS
<1> HIDE DEF S
<1>3. f \in Seq(S)
  BY <1>1, ListOf
<1>4. f \o <<z>> \in Seq(S)
  BY <1>2, <1>3
<1> QED
  BY <1>3, <1>4

\* Lane l gets the whole heads from start on, full of them, and half
\* number rank of the heads from split on when it gets one.
HeadsAndHalf(works, start, full, half, split, rank) ==
  /\ DOMAIN works = 1 .. full + (IF half THEN 1 ELSE 0)
  /\ \A i \in 1 .. full : works[i] = <<Item(start + i - 1, 0, TILE)>>
  /\ half => works[full + 1] = <<Half(split, rank)>>

\* A run of whole heads with or without a half at its end is a list of works.
LEMMA HeadsAndHalfIs ==
    ASSUME NEW bh \in Nat \ {0}, NEW start \in Nat, NEW full \in Nat, NEW half \in BOOLEAN,
           NEW split \in Nat, NEW rank \in Int, start + full <= bh,
           half => rank \in Nat /\ 2 * split + rank < 2 * bh,
           NEW works,
           works = [i \in 1 .. full |-> <<Item(start + i - 1, 0, TILE)>>]
                     \o (IF half THEN << <<Half(split, rank)>> >> ELSE <<>>)
    PROVE  /\ HeadsAndHalf(works, start, full, half, split, rank)
           /\ works \in Seq(Seq(ItemsOf(bh)))
<1> DEFINE f == [i \in 1 .. full |-> <<Item(start + i - 1, 0, TILE)>>]
<1>1. \A i \in 1 .. full : f[i] = <<Item(start + i - 1, 0, TILE)>>
  OBVIOUS
<1>2. ASSUME NEW i \in 1 .. full PROVE f[i] \in Seq(ItemsOf(bh))
  <2>1. start + i - 1 \in 0 .. bh - 1
    OBVIOUS
  <2> DEFINE x == Item(start + i - 1, 0, TILE)
  <2>2. x \in ItemsOf(bh) /\ f[i] = <<x>>
    BY <1>1, <2>1, FullFacts
  <2> HIDE DEF x, f
  <2> QED
    BY <2>2
<1>3. f = [i \in 1 .. full |-> f[i]]
  OBVIOUS
<1>4. works = f \o (IF half THEN << <<Half(split, rank)>> >> ELSE <<>>)
  OBVIOUS
<1> HIDE DEF f
<1>5. f \in Seq(Seq(ItemsOf(bh))) /\ Len(f) = full /\ DOMAIN f = 1 .. full
  <2>1. f \in Seq(Seq(ItemsOf(bh)))
    BY <1>2, <1>3, ListOf
  <2> QED
    BY <1>3, <2>1
<1>6. CASE half
  <2> DEFINE x == <<Half(split, rank)>>
  <2>1. Half(split, rank) \in ItemsOf(bh)
    BY <1>6, HalfFacts
  <2>2. x \in Seq(ItemsOf(bh))
    BY <2>1
  <2>3. works = f \o <<x>>
    BY <1>4, <1>6
  <2> HIDE DEF x
  <2>4. /\ works \in Seq(Seq(ItemsOf(bh))) /\ DOMAIN works = 1 .. full + 1
        /\ \A i \in 1 .. full : works[i] = f[i]
        /\ works[full + 1] = x
    <3> DEFINE S == Seq(ItemsOf(bh))
    <3>1. f \in Seq(S) /\ x \in S /\ Len(f) = full
      BY <1>5, <2>2
    <3> HIDE DEF S
    <3>2. /\ f \o <<x>> \in Seq(S) /\ DOMAIN (f \o <<x>>) = 1 .. Len(f) + 1
          /\ \A i \in 1 .. Len(f) : (f \o <<x>>)[i] = f[i]
          /\ (f \o <<x>>)[Len(f) + 1] = x
      BY <3>1, AppendOne
    <3> QED
      BY <2>3, <3>1, <3>2 DEF S
  <2> QED
    BY <1>1, <1>6, <2>4 DEF HeadsAndHalf, x
<1>7. CASE ~ half
  <2>1. works = f
    BY <1>3, <1>4, <1>7, AddNothing
  <2>2. full + (IF half THEN 1 ELSE 0) = full
    BY <1>7
  <2> QED
    BY <1>1, <1>5, <1>7, <2>1, <2>2 DEF HeadsAndHalf
<1> QED
  BY <1>6, <1>7

\* The numbers of the minimal split: b heads for every lane, one more for the
\* first "more" of them, and halves, from lane "off" on, of the heads that are
\* left over.
MinimalNumbers(bh, lanes, b, more, off, halves) ==
  /\ b \in Nat \ {0} /\ more \in 0 .. lanes /\ off \in Nat /\ halves \in Nat
  /\ off + halves <= lanes
  /\ 2 * (lanes * b + more) + halves = 2 * bh

\* A lane's first head, and how many heads it has to itself.
StartOf(b, more, l) == l * b + (IF l < more THEN l ELSE more)
FullOf(b, more, l) == IF l < more THEN b + 1 ELSE b

\* The works of the whole heads of a lane.
Wholes(b, more, l) ==
  [i \in 1 .. FullOf(b, more, l) |-> <<Item(StartOf(b, more, l) + i - 1, 0, TILE)>>]

\* The minimal split in these numbers.
SplitsAs(bh, lanes, b, more, off, halves) ==
  \A l \in 0 .. lanes - 1 :
    MinimalSplit(bh, lanes, l)
      = Wholes(b, more, l) \o (IF l - off \in 0 .. halves - 1
                              THEN << <<Half(lanes * b + more, l - off)>> >> ELSE <<>>)

\* The minimal split has such numbers for every shape and any number of lanes.
LEMMA MinimalIs ==
    ASSUME NEW bh \in Nat \ {0}, NEW lanes \in 1 .. bh
    PROVE  \E b, more, off, halves \in Nat :
             /\ MinimalNumbers(bh, lanes, b, more, off, halves)
             /\ SplitsAs(bh, lanes, b, more, off, halves)
<1> DEFINE base  == (2 * bh) \div lanes
           extra == 2 * bh - base * lanes
           wide  == (base + 1) \div 2
           delta == wide - base \div 2
           fulls(l) == IF l < extra THEN wide ELSE base \div 2
           start(l) == l * (base \div 2) + (IF l < extra THEN l ELSE extra) * delta
           split == lanes * (base \div 2) + extra * delta
           b == base \div 2
<1>1. ASSUME NEW l \in 0 .. lanes - 1
      PROVE  MinimalSplit(bh, lanes, l) =
               [i \in 1 .. fulls(l) |-> <<Item(start(l) + i - 1, 0, TILE)>>]
               \o (IF base % 2 = 0 /\ l < extra THEN <<<<Half(split, l)>>>> ELSE <<>>)
               \o (IF base % 2 = 1 /\ l >= extra THEN <<<<Half(split, l - extra)>>>> ELSE <<>>)
  BY Zenon DEF MinimalSplit
<1>2. base \in Nat /\ (2 * bh) % lanes \in 0 .. lanes - 1
      /\ 2 * bh = lanes * base + ((2 * bh) % lanes)
  <2>1. 2 * bh \in Nat /\ lanes \in Nat \ {0}
    OBVIOUS
  <2> QED
    BY <2>1, DivMod
<1>3. extra = 2 * bh - base * lanes
  OBVIOUS
<1> HIDE DEF base
<1>4. lanes * base = base * lanes /\ base * lanes \in Nat
  BY <1>2
<1>5. extra \in 0 .. lanes - 1 /\ 2 * bh = lanes * base + extra
  BY <1>2, <1>3, <1>4
<1> HIDE DEF extra
<1>6. base >= 2
  <2>1. base < 2 => lanes * base + lanes <= lanes * 2
    BY <1>2, TimesGrows
  <2> QED
    BY <1>2, <1>5, <2>1
<1>7. /\ b \in Nat \ {0} /\ base % 2 \in {0, 1} /\ base = 2 * b + (base % 2)
      /\ wide = b + (base % 2) /\ delta = base % 2
  <2>1. /\ b \in Nat /\ base % 2 \in 0 .. 1 /\ base = 2 * b + (base % 2)
    BY <1>2, DivMod, SMTT(30)
  <2>2. PICK e \in Nat, x \in 0 .. 1 : e = b /\ x = base % 2 /\ base = 2 * e + x
    BY <2>1
  <2>3. wide = e + x
    BY <2>2
  <2>4. e # 0
    BY <1>6, <2>2
  <2> QED
    BY <2>1, <2>2, <2>3, <2>4
<1> DEFINE par == base % 2
<1>8. /\ \A l \in 0 .. lanes - 1 : /\ fulls(l) = IF l < extra THEN b + par ELSE b
                                   /\ start(l) = l * b + (IF l < extra THEN l ELSE extra) * par
      /\ split = lanes * b + extra * par
  BY <1>7
<1>9. par \in {0, 1} /\ base = 2 * b + par /\ lanes \in Nat
  BY <1>7
<1> HIDE DEF wide, delta, b
<1>10. lanes * b \in Nat /\ lanes * base = 2 * (lanes * b) + lanes * par
  <2>1. b \in Nat
    BY <1>7
  <2> QED
    BY <1>9, <2>1
<1>11. CASE par = 0
  <2>1. MinimalNumbers(bh, lanes, b, 0, 0, extra)
    BY <1>5, <1>7, <1>9, <1>10, <1>11 DEF MinimalNumbers
  <2>2. ASSUME NEW l \in 0 .. lanes - 1
        PROVE  MinimalSplit(bh, lanes, l) = Wholes(b, 0, l)
                 \o (IF l - 0 \in 0 .. extra - 1
                     THEN << <<Half(lanes * b + 0, l - 0)>> >> ELSE <<>>)
    <3> DEFINE z == <<Half(lanes * b + 0, l - 0)>>
               u == [i \in 1 .. fulls(l) |-> <<Item(start(l) + i - 1, 0, TILE)>>]
    <3>1. fulls(l) = FullOf(b, 0, l) /\ start(l) = StartOf(b, 0, l) /\ split = lanes * b + 0
      <4>1. /\ fulls(l) = IF l < extra THEN b + 0 ELSE b
            /\ start(l) = l * b + (IF l < extra THEN l ELSE extra) * 0
            /\ split = lanes * b + extra * 0
        BY <1>5, <1>7, <1>8, <1>11
      <4> HIDE DEF fulls, start, split
      <4>2. l * b \in Nat /\ b + 0 = b /\ ~ (l < 0)
        BY <1>7
      <4> QED
        BY <1>5, <1>7, <1>10, <4>1, <4>2 DEF FullOf, StartOf
    <3>2. l - 0 = l /\ (l \in 0 .. extra - 1 <=> l < extra)
      BY <1>5
    <3>3. base % 2 = 0 /\ ~ (base % 2 = 1)
      BY <1>11
    <3>4. MinimalSplit(bh, lanes, l) = u
            \o (IF base % 2 = 0 /\ l < extra THEN <<<<Half(split, l)>>>> ELSE <<>>)
            \o (IF base % 2 = 1 /\ l >= extra THEN <<<<Half(split, l - extra)>>>> ELSE <<>>)
      BY <1>1, Zenon
    <3> HIDE DEF fulls, start, split, par
    <3>5. u = Wholes(b, 0, l)
      BY <3>1 DEF Wholes
    <3> HIDE DEF u
    <3>6. MinimalSplit(bh, lanes, l) = Wholes(b, 0, l)
            \o (IF l < extra THEN <<z>> ELSE <<>>) \o <<>>
      BY <3>1, <3>2, <3>3, <3>4, <3>5
    <3>7. FullOf(b, 0, l) \in Nat
      BY <1>7 DEF FullOf
    <3>8. Wholes(b, 0, l) = [i \in 1 .. FullOf(b, 0, l) |-> Wholes(b, 0, l)[i]]
      BY DEF Wholes
    <3> HIDE DEF z
    <3>9. /\ Wholes(b, 0, l) \o <<>> = Wholes(b, 0, l)
          /\ (Wholes(b, 0, l) \o <<z>>) \o <<>> = Wholes(b, 0, l) \o <<z>>
      BY <3>7, <3>8, AddNothing
    <3>10. MinimalSplit(bh, lanes, l)
             = Wholes(b, 0, l) \o (IF l \in 0 .. extra - 1 THEN <<z>> ELSE <<>>)
      BY <3>2, <3>6, <3>9
    <3> QED
      BY <3>2, <3>10 DEF z
  <2>3. SplitsAs(bh, lanes, b, 0, 0, extra)
    BY <2>2, Zenon DEF SplitsAs
  <2>4. b \in Nat /\ 0 \in Nat /\ extra \in Nat
    BY <1>5, <1>7
  <2> QED
    BY <2>1, <2>3, <2>4, Zenon
<1>12. CASE par = 1
  <2>1. MinimalNumbers(bh, lanes, b, extra, extra, lanes - extra)
    BY <1>5, <1>7, <1>9, <1>10, <1>12 DEF MinimalNumbers
  <2>2. ASSUME NEW l \in 0 .. lanes - 1
        PROVE  MinimalSplit(bh, lanes, l) = Wholes(b, extra, l)
                 \o (IF l - extra \in 0 .. (lanes - extra) - 1
                     THEN << <<Half(lanes * b + extra, l - extra)>> >> ELSE <<>>)
    <3> DEFINE z == <<Half(lanes * b + extra, l - extra)>>
               u == [i \in 1 .. fulls(l) |-> <<Item(start(l) + i - 1, 0, TILE)>>]
    <3>1. /\ fulls(l) = FullOf(b, extra, l) /\ start(l) = StartOf(b, extra, l)
          /\ split = lanes * b + extra
      <4>1. /\ fulls(l) = IF l < extra THEN b + 1 ELSE b
            /\ start(l) = l * b + (IF l < extra THEN l ELSE extra) * 1
            /\ split = lanes * b + extra * 1
        BY <1>5, <1>7, <1>8, <1>12
      <4> HIDE DEF fulls, start, split
      <4> QED
        BY <1>5, <1>7, <1>10, <4>1 DEF FullOf, StartOf
    <3>2. l - extra \in 0 .. (lanes - extra) - 1 <=> l >= extra
      BY <1>5
    <3>3. base % 2 = 1 /\ ~ (base % 2 = 0)
      BY <1>12
    <3>4. MinimalSplit(bh, lanes, l) = u
            \o (IF base % 2 = 0 /\ l < extra THEN <<<<Half(split, l)>>>> ELSE <<>>)
            \o (IF base % 2 = 1 /\ l >= extra THEN <<<<Half(split, l - extra)>>>> ELSE <<>>)
      BY <1>1, Zenon
    <3> HIDE DEF fulls, start, split, par
    <3>5. u = Wholes(b, extra, l)
      BY <3>1 DEF Wholes
    <3> HIDE DEF u
    <3>6. MinimalSplit(bh, lanes, l) = Wholes(b, extra, l)
            \o <<>> \o (IF l >= extra THEN <<z>> ELSE <<>>)
      BY <3>1, <3>3, <3>4, <3>5
    <3>7. FullOf(b, extra, l) \in Nat
      BY <1>7 DEF FullOf
    <3>8. Wholes(b, extra, l) = [i \in 1 .. FullOf(b, extra, l) |-> Wholes(b, extra, l)[i]]
      BY DEF Wholes
    <3> HIDE DEF z
    <3>9. Wholes(b, extra, l) \o <<>> = Wholes(b, extra, l)
      BY <3>7, <3>8, AddNothing
    <3>10. MinimalSplit(bh, lanes, l)
             = Wholes(b, extra, l)
               \o (IF l - extra \in 0 .. (lanes - extra) - 1 THEN <<z>> ELSE <<>>)
      BY <3>2, <3>6, <3>9
    <3> QED
      BY <3>10 DEF z
  <2>3. SplitsAs(bh, lanes, b, extra, extra, lanes - extra)
    BY <2>2, Zenon DEF SplitsAs
  <2>4. b \in Nat /\ extra \in Nat /\ lanes - extra \in Nat
    BY <1>5, <1>7
  <2> QED
    BY <2>1, <2>3, <2>4, Zenon
<1> QED
  BY <1>9, <1>11, <1>12

\* The whole heads of the lanes lie one behind the other, up to the split.
Runs(bh, lanes, b, more) ==
  /\ lanes * b + more \in 0 .. bh
  /\ \A l \in 0 .. lanes - 1 :
       /\ StartOf(b, more, l) \in Nat /\ FullOf(b, more, l) \in Nat
       /\ StartOf(b, more, l) + FullOf(b, more, l) <= lanes * b + more
       /\ \A k \in 0 .. lanes - 1 :
            l < k => StartOf(b, more, l) + FullOf(b, more, l) <= StartOf(b, more, k)
  /\ \A h \in 0 .. lanes * b + more - 1 : \E l \in 0 .. lanes - 1 :
       h - StartOf(b, more, l) \in 0 .. FullOf(b, more, l) - 1

\* The runs of whole heads of the lanes are disjoint and leave no head out.
LEMMA MinimalRuns ==
    ASSUME NEW bh \in Nat \ {0}, NEW lanes \in 1 .. bh,
           NEW b \in Nat, NEW more \in Nat, NEW off \in Nat, NEW halves \in Nat,
           MinimalNumbers(bh, lanes, b, more, off, halves)
    PROVE  Runs(bh, lanes, b, more)
<1>1. /\ b \in Nat \ {0} /\ more \in 0 .. lanes
      /\ 2 * (lanes * b + more) + halves = 2 * bh
  BY DEF MinimalNumbers
<1>2. lanes \in Nat \ {0} /\ lanes * b \in Nat /\ lanes * b = b * lanes
  BY <1>1
<1>3. lanes * b + more \in 0 .. bh
  BY <1>1, <1>2
<1>4. ASSUME NEW l \in 0 .. lanes - 1, NEW k \in 0 .. lanes, l < k
      PROVE  /\ l * b \in Nat /\ l * b = b * l /\ k * b = b * k /\ k * b \in Nat
             /\ l * b + b <= k * b
  <2>1. l \in Nat /\ k \in Nat
    BY <1>2
  <2> QED
    BY <1>1, <1>4, <2>1, TimesGrows
<1>5. ASSUME NEW l \in 0 .. lanes - 1
      PROVE  /\ StartOf(b, more, l) \in Nat /\ FullOf(b, more, l) \in Nat
             /\ StartOf(b, more, l) + FullOf(b, more, l) <= lanes * b + more
             /\ \A k \in 0 .. lanes - 1 :
                  l < k => StartOf(b, more, l) + FullOf(b, more, l) <= StartOf(b, more, k)
  <2>1. /\ l * b \in Nat /\ l * b + b <= lanes * b
    <3>1. lanes \in 0 .. lanes /\ l < lanes
      BY <1>2
    <3> QED
      BY <1>4, <3>1
  <2>2. StartOf(b, more, l) \in Nat /\ FullOf(b, more, l) \in Nat
    BY <1>1, <2>1 DEF StartOf, FullOf
  <2>3. StartOf(b, more, l) + FullOf(b, more, l) <= lanes * b + more
    BY <1>1, <1>2, <2>1 DEF StartOf, FullOf
  <2>4. ASSUME NEW k \in 0 .. lanes - 1, l < k
        PROVE  StartOf(b, more, l) + FullOf(b, more, l) <= StartOf(b, more, k)
    <3>1. l * b + b <= k * b /\ k * b \in Nat
      BY <1>2, <1>4, <2>4
    <3> QED
      BY <1>1, <1>2, <2>1, <2>4, <3>1 DEF StartOf, FullOf
  <2> QED
    BY <2>2, <2>3, <2>4
<1>6. ASSUME NEW h \in 0 .. lanes * b + more - 1
      PROVE  \E l \in 0 .. lanes - 1 : h - StartOf(b, more, l) \in 0 .. FullOf(b, more, l) - 1
  <2>1. h \in Nat /\ h < lanes * b + more
    BY <1>1, <1>2
  <2> DEFINE d == b + 1
  <2>2. d \in Nat \ {0} /\ d * more \in Nat /\ d * more = b * more + more /\ b * more \in Nat
    BY <1>1
  <2>3. CASE h < d * more
    <3> DEFINE l == h \div d    r == h % d
    <3>1. l \in Nat /\ r \in 0 .. d - 1 /\ h = d * l + r
      BY <2>1, <2>2, DivMod
    <3>2. d * l = l * b + l
      BY <1>1, <3>1
    <3> HIDE DEF l, r, d
    <3>3. l < more
      <4>1. d * l < d * more
        BY <2>1, <2>2, <2>3, <3>1
      <4> QED
        BY <2>2, <3>1, <4>1, TimesGrows
    <3>4. l \in 0 .. lanes - 1
      BY <1>1, <1>2, <3>1, <3>3
    <3>5. StartOf(b, more, l) = l * b + l /\ FullOf(b, more, l) = b + 1
      BY <3>3 DEF StartOf, FullOf
    <3>6. h - StartOf(b, more, l) = r
      BY <3>1, <3>2, <3>5, <2>2
    <3>7. r \in 0 .. (b + 1) - 1
      BY <3>1 DEF d
    <3> QED
      BY <3>4, <3>5, <3>6, <3>7
  <2>4. CASE d * more <= h
    <3> DEFINE y == h - d * more
    <3>1. y \in Nat
      BY <2>1, <2>2, <2>4
    <3> DEFINE e == y \div b    r == y % b    l == more + e
    <3>2. e \in Nat /\ r \in 0 .. b - 1 /\ y = b * e + r
      BY <1>1, <3>1, DivMod
    <3>3. y = h - d * more
      OBVIOUS
    <3>4. b * (more + e) = b * more + b * e /\ b * e \in Nat /\ l * b = b * (more + e)
      BY <1>1, <3>2
    <3>5. l = more + e
      OBVIOUS
    <3> HIDE DEF y, e, r, l, d
    <3>6. l < lanes
      <4>1. b * l < b * lanes
        BY <1>1, <1>2, <2>1, <2>2, <3>2, <3>3, <3>4, <3>5
      <4>2. l \in Nat
        BY <1>1, <3>2, <3>5
      <4> QED
        BY <1>1, <1>2, <4>1, <4>2, TimesGrows
    <3>7. l \in 0 .. lanes - 1 /\ ~ (l < more)
      BY <1>1, <1>2, <3>2, <3>5, <3>6
    <3>8. StartOf(b, more, l) = l * b + more /\ FullOf(b, more, l) = b
      BY <3>7 DEF StartOf, FullOf
    <3>9. h - StartOf(b, more, l) = r
      BY <2>1, <2>2, <1>1, <3>2, <3>3, <3>4, <3>8
    <3> QED
      BY <3>2, <3>7, <3>8, <3>9
  <2> QED
    BY <2>1, <2>2, <2>3, <2>4
<1> QED
  BY <1>3, <1>5, <1>6, Zenon DEF Runs

\* Half heads dealt out evenly.
LEMMA MinimalDeals ==
    ASSUME NEW bh \in Nat \ {0}, NEW lanes \in 1 .. bh
    PROVE  Deals([l \in 0 .. lanes - 1 |-> MinimalSplit(bh, lanes, l)], bh, lanes)
<1> DEFINE W == [l \in 0 .. lanes - 1 |-> MinimalSplit(bh, lanes, l)]
<1>1. PICK b, more, off, halves \in Nat :
        /\ MinimalNumbers(bh, lanes, b, more, off, halves)
        /\ SplitsAs(bh, lanes, b, more, off, halves)
  BY MinimalIs
<1>20. Runs(bh, lanes, b, more)
  BY <1>1, MinimalRuns
<1> HIDE DEF W
<1>21. /\ lanes * b + more \in 0 .. bh
       /\ \A l \in 0 .. lanes - 1 :
            /\ StartOf(b, more, l) \in Nat /\ FullOf(b, more, l) \in Nat
            /\ StartOf(b, more, l) + FullOf(b, more, l) <= lanes * b + more
            /\ \A k \in 0 .. lanes - 1 :
                 l < k => StartOf(b, more, l) + FullOf(b, more, l) <= StartOf(b, more, k)
       /\ \A h \in 0 .. lanes * b + more - 1 : \E l \in 0 .. lanes - 1 :
            h - StartOf(b, more, l) \in 0 .. FullOf(b, more, l) - 1
  BY <1>20 DEF Runs
<1> DEFINE start(l) == StartOf(b, more, l)
           full(l) == FullOf(b, more, l)
           split == lanes * b + more
           half(l) == l - off \in 0 .. halves - 1
<1>2. /\ split \in 0 .. bh
      /\ \A l \in 0 .. lanes - 1 :
           /\ start(l) \in Nat /\ full(l) \in Nat /\ start(l) + full(l) <= split
           /\ \A k \in 0 .. lanes - 1 : l < k => start(l) + full(l) <= start(k)
      /\ \A h \in 0 .. split - 1 : \E l \in 0 .. lanes - 1 : h - start(l) \in 0 .. full(l) - 1
  BY <1>21
<1>3. /\ off + halves <= lanes /\ 2 * split + halves = 2 * bh
  BY <1>1 DEF MinimalNumbers
<1>40. \A l \in 0 .. lanes - 1 : W[l] = MinimalSplit(bh, lanes, l)
  BY DEF W
<1>4. \A l \in 0 .. lanes - 1 :
        W[l] = Wholes(b, more, l) \o (IF half(l) THEN << <<Half(split, l - off)>> >> ELSE <<>>)
  BY <1>1, <1>40, Zenon DEF SplitsAs
<1>5. \A l \in 0 .. lanes - 1 :
        Wholes(b, more, l) = [i \in 1 .. full(l) |-> <<Item(start(l) + i - 1, 0, TILE)>>]
  BY Zenon DEF Wholes
<1> HIDE DEF W, start, full, split
<1>6. ASSUME NEW l \in 0 .. lanes - 1
      PROVE  /\ HeadsAndHalf(W[l], start(l), full(l), half(l), split, l - off)
             /\ W[l] \in Seq(Seq(ItemsOf(bh)))
  <2>1. /\ start(l) \in Nat /\ full(l) \in Nat /\ half(l) \in BOOLEAN /\ split \in Nat
        /\ l - off \in Int /\ start(l) + full(l) <= bh
        /\ half(l) => l - off \in Nat /\ 2 * split + (l - off) < 2 * bh
    BY <1>2, <1>3
  <2>2. W[l] = [i \in 1 .. full(l) |-> <<Item(start(l) + i - 1, 0, TILE)>>]
                 \o (IF half(l) THEN << <<Half(split, l - off)>> >> ELSE <<>>)
    BY <1>4, <1>5, Zenon
  <2> HIDE DEF half
  <2> QED
    BY <2>1, <2>2, HeadsAndHalfIs
<1>7. ASSUME NEW l \in 0 .. lanes - 1
      PROVE  /\ DOMAIN W[l] = 1 .. full(l) + (IF half(l) THEN 1 ELSE 0)
             /\ \A w \in DOMAIN W[l] :
                  \/ w \in 1 .. full(l) /\ W[l][w] = <<Item(start(l) + w - 1, 0, TILE)>>
                  \/ half(l) /\ w = full(l) + 1 /\ W[l][w] = <<Half(split, l - off)>>
  <2>1. full(l) \in Nat
    BY <1>2
  <2>2. /\ DOMAIN W[l] = 1 .. full(l) + (IF half(l) THEN 1 ELSE 0)
        /\ \A i \in 1 .. full(l) : W[l][i] = <<Item(start(l) + i - 1, 0, TILE)>>
        /\ half(l) => W[l][full(l) + 1] = <<Half(split, l - off)>>
    BY <1>6, Zenon DEF HeadsAndHalf
  <2> HIDE DEF half
  <2>3. ASSUME NEW w \in DOMAIN W[l], w \notin 1 .. full(l)
        PROVE  half(l) /\ w = full(l) + 1
    <3>1. CASE half(l)
      BY <2>1, <2>2, <2>3, <3>1
    <3>2. CASE ~ half(l)
      BY <2>1, <2>2, <2>3, <3>2
    <3> QED
      BY <3>1, <3>2
  <2> QED
    BY <2>2, <2>3, Zenon
<1>8. ASSUME NEW l \in 0 .. lanes - 1, NEW w \in DOMAIN W[l]
      PROVE  /\ DOMAIN W[l][w] = 1 .. 1
             /\ W[l][w][1].first + W[l][w][1].rows <= TILE
             /\ w \in 1 .. full(l) =>
                  \A h \in 0 .. bh - 1, q \in Rows :
                    Covers(W[l][w][1], h, q) <=> h = start(l) + w - 1
             /\ w \notin 1 .. full(l) =>
                  /\ half(l) /\ w = full(l) + 1
                  /\ \A h \in 0 .. bh - 1, q \in Rows :
                       Covers(W[l][w][1], h, q)
                         <=> l - off = 2 * (h - split) + (IF q < VL THEN 0 ELSE 1)
  <2>1. CASE w \in 1 .. full(l) /\ W[l][w] = <<Item(start(l) + w - 1, 0, TILE)>>
    <3> DEFINE g == start(l) + w - 1    i == Item(g, 0, TILE)
    <3>1. g \in 0 .. bh - 1
      BY <1>2, <2>1
    <3>2. /\ i.first + i.rows <= TILE
          /\ \A h \in 0 .. bh - 1, q \in Rows : Covers(i, h, q) <=> g = h
      BY <3>1, FullFacts
    <3>3. W[l][w] = <<i>>
      BY <2>1
    <3> HIDE DEF i, g
    <3>4. DOMAIN W[l][w] = 1 .. 1 /\ W[l][w][1] = i
      BY <3>3
    <3> QED
      BY <2>1, <3>2, <3>4 DEF g
  <2>2. CASE half(l) /\ w = full(l) + 1 /\ W[l][w] = <<Half(split, l - off)>>
    <3> DEFINE i == Half(split, l - off)
    <3>1. l - off \in Nat /\ 2 * split + (l - off) < 2 * bh /\ split \in Nat
      BY <1>2, <1>3, <2>2
    <3>2. /\ i.first + i.rows <= TILE
          /\ \A h \in 0 .. bh - 1, q \in Rows :
               Covers(i, h, q) <=> l - off = 2 * (h - split) + (IF q < VL THEN 0 ELSE 1)
      BY <3>1, HalfFacts
    <3>3. W[l][w] = <<i>>
      BY <2>2
    <3> HIDE DEF i
    <3>4. DOMAIN W[l][w] = 1 .. 1 /\ W[l][w][1] = i
      BY <3>3
    <3>5. w \notin 1 .. full(l)
      BY <1>2, <2>2
    <3> QED
      BY <2>2, <3>2, <3>4, <3>5
  <2> QED
    BY <1>7, <2>1, <2>2
<1>81. ASSUME NEW l \in 0 .. lanes - 1, NEW w \in DOMAIN W[l]
       PROVE  DOMAIN W[l][w] = 1 .. 1 /\ W[l][w][1].first + W[l][w][1].rows <= TILE
  <2> HIDE DEF half
  <2> QED
    BY <1>8
<1>9. ASSUME NEW h \in 0 .. bh - 1, NEW q \in Rows
      PROVE  \E l0 \in 0 .. lanes - 1 : \E w0 \in DOMAIN W[l0] : \E a0 \in DOMAIN W[l0][w0] :
               \A l \in 0 .. lanes - 1 : \A w \in DOMAIN W[l] : \A a \in DOMAIN W[l][w] :
                 Covers(W[l][w][a], h, q) <=> l = l0 /\ w = w0 /\ a = a0
  <2>1. SUFFICES \E l0 \in 0 .. lanes - 1 : \E w0 \in DOMAIN W[l0] :
               \A l \in 0 .. lanes - 1 : \A w \in DOMAIN W[l] :
                 Covers(W[l][w][1], h, q) <=> l = l0 /\ w = w0
    <3>1. PICK l0 \in 0 .. lanes - 1 : \E w0 \in DOMAIN W[l0] :
               \A l \in 0 .. lanes - 1 : \A w \in DOMAIN W[l] :
                 Covers(W[l][w][1], h, q) <=> l = l0 /\ w = w0
      BY <2>1, Zenon
    <3>2. PICK w0 \in DOMAIN W[l0] :
               \A l \in 0 .. lanes - 1 : \A w \in DOMAIN W[l] :
                 Covers(W[l][w][1], h, q) <=> l = l0 /\ w = w0
      BY <3>1, Zenon
    <3>3. 1 \in 1 .. 1 /\ \A a \in 1 .. 1 : a = 1
      OBVIOUS
    <3>4. 1 \in DOMAIN W[l0][w0]
      BY <1>81, <3>3, Zenon
    <3>5. ASSUME NEW l \in 0 .. lanes - 1, NEW w \in DOMAIN W[l], NEW a \in DOMAIN W[l][w]
          PROVE  Covers(W[l][w][a], h, q) <=> l = l0 /\ w = w0 /\ a = 1
      <4>1. a = 1
        <5>1. DOMAIN W[l][w] = 1 .. 1
          BY <1>81, Zenon
        <5>2. a \in 1 .. 1
          BY <5>1, Zenon
        <5> QED
          BY <3>3, <5>2, Zenon
      <4> QED
        BY <3>2, <4>1, Zenon
    <3> QED
      BY <3>4, <3>5, Zenon
  <2>2. CASE h < split
    <3>1. PICK l0 \in 0 .. lanes - 1 : h - start(l0) \in 0 .. full(l0) - 1
      BY <1>2, <2>2
    <3> DEFINE w0 == h - start(l0) + 1
    <3>2. w0 \in 1 .. full(l0) /\ w0 \in DOMAIN W[l0]
      <4>1. start(l0) \in Nat /\ full(l0) \in Nat
        BY <1>2
      <4>2. w0 \in 1 .. full(l0)
        BY <3>1, <4>1
      <4>3. DOMAIN W[l0] = 1 .. full(l0) + (IF half(l0) THEN 1 ELSE 0)
        BY <1>7
      <4> HIDE DEF w0, half
      <4> QED
        BY <4>1, <4>2, <4>3
    <3>3. ASSUME NEW l \in 0 .. lanes - 1, NEW w \in DOMAIN W[l]
          PROVE  Covers(W[l][w][1], h, q) <=> l = l0 /\ w = w0
      <4>1. CASE w \in 1 .. full(l)
        <5>1. Covers(W[l][w][1], h, q) <=> h = start(l) + w - 1
          BY <1>8, <4>1
        <5>2. /\ l < l0 => start(l) + full(l) <= start(l0)
              /\ l0 < l => start(l0) + full(l0) <= start(l)
              /\ start(l) \in Nat /\ full(l) \in Nat /\ start(l0) \in Nat /\ full(l0) \in Nat
          BY <1>2
        <5>3. ASSUME h = start(l) + w - 1 PROVE l = l0
          BY <3>1, <4>1, <5>2, <5>3
        <5> QED
          BY <3>1, <4>1, <5>1, <5>2, <5>3
      <4>2. CASE w \notin 1 .. full(l)
        <5>1. /\ half(l) /\ w = full(l) + 1
              /\ Covers(W[l][w][1], h, q)
                   <=> l - off = 2 * (h - split) + (IF q < VL THEN 0 ELSE 1)
          BY <1>8, <4>2
        <5>2. l - off # 2 * (h - split) + (IF q < VL THEN 0 ELSE 1)
          BY <1>2, <2>2, <5>1
        <5>3. w # w0 \/ l # l0
          BY <3>2, <4>2
        <5> QED
          BY <5>1, <5>2, <5>3
      <4> QED
        BY <4>1, <4>2
    <3> QED
      BY <3>2, <3>3
  <2>3. CASE split <= h
    <3> DEFINE r == 2 * (h - split) + (IF q < VL THEN 0 ELSE 1)
               l0 == off + r    w0 == full(l0) + 1
    <3>1. r \in 0 .. halves - 1 /\ l0 \in 0 .. lanes - 1 /\ l0 - off = r
      BY <1>2, <1>3, <2>3
    <3>2. half(l0)
      BY <3>1
    <3>3. w0 \in DOMAIN W[l0] /\ w0 \notin 1 .. full(l0)
      BY <1>2, <1>7, <3>1, <3>2
    <3>4. r = 2 * (h - split) + (IF q < VL THEN 0 ELSE 1) /\ l0 = off + r /\ w0 = full(l0) + 1
      OBVIOUS
    <3> HIDE DEF r, l0, w0
    <3>5. ASSUME NEW l \in 0 .. lanes - 1, NEW w \in DOMAIN W[l]
          PROVE  Covers(W[l][w][1], h, q) <=> l = l0 /\ w = w0
      <4>1. CASE w \in 1 .. full(l)
        <5>1. Covers(W[l][w][1], h, q) <=> h = start(l) + w - 1
          BY <1>8, <4>1
        <5>2. h # start(l) + w - 1
          BY <1>2, <2>3, <4>1
        <5> QED
          BY <3>3, <4>1, <5>1, <5>2
      <4>2. CASE w \notin 1 .. full(l)
        <5>1. /\ half(l) /\ w = full(l) + 1
              /\ Covers(W[l][w][1], h, q) <=> l - off = r
          BY <1>8, <3>4, <4>2
        <5>2. l - off = r <=> l = l0
          BY <3>1, <3>4
        <5> QED
          BY <3>4, <5>1, <5>2
      <4> QED
        BY <4>1, <4>2
    <3> QED
      BY <3>1, <3>3, <3>5
  <2> QED
    <3>1. h \in Nat /\ split \in Nat
      BY <1>2
    <3> QED
      BY <2>2, <2>3, <3>1
<1>10. Deals(W, bh, lanes)
  <2>1. \A l \in 0 .. lanes - 1 : \A w \in DOMAIN W[l] :
          /\ DOMAIN W[l][w] \in {1 .. 1, 1 .. 2}
          /\ \A a \in DOMAIN W[l][w] : W[l][w][a].first + W[l][w][a].rows <= TILE
    <3>1. \A a \in 1 .. 1 : a = 1
      OBVIOUS
    <3> QED
      BY <1>81, <3>1, Zenon
  <2> QED
    BY <1>6, <1>9, <2>1, Zenon DEF Deals
<1> QED
  BY <1>10 DEF W

\* An item that fits, and a lane's work of one or two of them.
Fits(i, bh) == i \in ItemsOf(bh) /\ i.first + i.rows <= TILE

\* A work of one item, and one of two.
LEMMA WorkOf ==
    ASSUME NEW bh \in Nat \ {0}, NEW x, NEW y, Fits(x, bh), Fits(y, bh)
    PROVE  /\ <<x>> \in Seq(ItemsOf(bh)) /\ DOMAIN <<x>> = 1 .. 1 /\ <<x>>[1] = x
           /\ <<x, y>> \in Seq(ItemsOf(bh)) /\ DOMAIN <<x, y>> = 1 .. 2
           /\ <<x, y>>[1] = x /\ <<x, y>>[2] = y
BY DEF Fits

\* A pair of whole heads holds the rows of both.
LEMMA FullPairFacts ==
    ASSUME NEW bh \in Nat \ {0}, NEW p \in Nat, 2 * p + 1 < bh
    PROVE  /\ FullPair(p) \in Seq(ItemsOf(bh)) /\ DOMAIN FullPair(p) = 1 .. 2
           /\ Fits(FullPair(p)[1], bh) /\ Fits(FullPair(p)[2], bh)
           /\ \A h \in 0 .. bh - 1, q \in Rows :
                /\ Covers(FullPair(p)[1], h, q) <=> h = 2 * p
                /\ Covers(FullPair(p)[2], h, q) <=> h = 2 * p + 1
<1> DEFINE x == Item(2 * p, 0, TILE)    y == Item(2 * p + 1, 0, TILE)
<1>1. 2 * p \in 0 .. bh - 1 /\ 2 * p + 1 \in 0 .. bh - 1
  OBVIOUS
<1>2. Fits(x, bh) /\ Fits(y, bh)
  BY <1>1, FullFacts DEF Fits
<1>3. \A h \in 0 .. bh - 1, q \in Rows : Covers(x, h, q) <=> h = 2 * p
  BY <1>1, FullFacts
<1>4. \A h \in 0 .. bh - 1, q \in Rows : Covers(y, h, q) <=> h = 2 * p + 1
  BY <1>1, FullFacts
<1>5. FullPair(p) = <<x, y>>
  BY DEF FullPair
<1> HIDE DEF x, y
<1> QED
  BY <1>2, <1>3, <1>4, <1>5, WorkOf

\* Lanes with at most one work each.
LEMMA OneWorkEach ==
    ASSUME NEW bh \in Nat \ {0}, NEW lanes \in Nat \ {0}, NEW W, NEW V,
           \A l \in 0 .. lanes - 1 : W[l] = <<V[l]>>,
           \A l \in 0 .. lanes - 1 :
             /\ V[l] \in Seq(ItemsOf(bh)) /\ DOMAIN V[l] \in {1 .. 1, 1 .. 2}
             /\ \A a \in DOMAIN V[l] : Fits(V[l][a], bh),
           \A h \in 0 .. bh - 1, q \in Rows :
             \E l0 \in 0 .. lanes - 1 : \E a0 \in DOMAIN V[l0] :
               \A l \in 0 .. lanes - 1 : \A a \in DOMAIN V[l] :
                 Covers(V[l][a], h, q) <=> l = l0 /\ a = a0
    PROVE  Deals(W, bh, lanes)
<1>1. ASSUME NEW l \in 0 .. lanes - 1
      PROVE  /\ W[l] \in Seq(Seq(ItemsOf(bh))) /\ DOMAIN W[l] = 1 .. 1 /\ W[l][1] = V[l]
             /\ \A w \in DOMAIN W[l] : w = 1
  <2> DEFINE S == Seq(ItemsOf(bh))    v == V[l]
  <2>1. W[l] = <<v>> /\ v \in S
    OBVIOUS
  <2> HIDE DEF v, S
  <2>2. W[l] \in Seq(S) /\ DOMAIN W[l] = 1 .. 1 /\ W[l][1] = v
    BY <2>1
  <2>3. \A w \in 1 .. 1 : w = 1
    OBVIOUS
  <2> QED
    BY <2>2, <2>3 DEF v, S
<1>2. ASSUME NEW l \in 0 .. lanes - 1, NEW w \in DOMAIN W[l]
      PROVE  /\ W[l][w] = V[l] /\ DOMAIN W[l][w] \in {1 .. 1, 1 .. 2}
             /\ \A a \in DOMAIN W[l][w] : W[l][w][a].first + W[l][w][a].rows <= TILE
  <2>1. W[l][w] = V[l]
    BY <1>1, Zenon
  <2> QED
    BY <2>1, Zenon DEF Fits
<1>3. ASSUME NEW h \in 0 .. bh - 1, NEW q \in Rows
      PROVE  \E l0 \in 0 .. lanes - 1 : \E w0 \in DOMAIN W[l0] : \E a0 \in DOMAIN W[l0][w0] :
               \A l \in 0 .. lanes - 1 : \A w \in DOMAIN W[l] : \A a \in DOMAIN W[l][w] :
                 Covers(W[l][w][a], h, q) <=> l = l0 /\ w = w0 /\ a = a0
  <2>1. PICK l0 \in 0 .. lanes - 1 : \E a0 \in DOMAIN V[l0] :
               \A l \in 0 .. lanes - 1 : \A a \in DOMAIN V[l] :
                 Covers(V[l][a], h, q) <=> l = l0 /\ a = a0
    BY Zenon
  <2>2. PICK a0 \in DOMAIN V[l0] :
               \A l \in 0 .. lanes - 1 : \A a \in DOMAIN V[l] :
                 Covers(V[l][a], h, q) <=> l = l0 /\ a = a0
    BY <2>1, Zenon
  <2>3. 1 \in DOMAIN W[l0] /\ a0 \in DOMAIN W[l0][1]
    <3>1. 1 \in 1 .. 1
      OBVIOUS
    <3> QED
      BY <1>1, <3>1, Zenon
  <2>4. ASSUME NEW l \in 0 .. lanes - 1, NEW w \in DOMAIN W[l], NEW a \in DOMAIN W[l][w]
        PROVE  Covers(W[l][w][a], h, q) <=> l = l0 /\ w = 1 /\ a = a0
    <3>1. W[l][w] = V[l] /\ w = 1
      BY <1>1, <1>2
    <3>2. a \in DOMAIN V[l]
      BY <3>1
    <3>3. Covers(V[l][a], h, q) <=> l = l0 /\ a = a0
      BY <2>2, <3>2
    <3> QED
      BY <3>1, <3>3
  <2>5. \E a1 \in DOMAIN W[l0][1] :
          \A l \in 0 .. lanes - 1 : \A w \in DOMAIN W[l] : \A a \in DOMAIN W[l][w] :
            Covers(W[l][w][a], h, q) <=> l = l0 /\ w = 1 /\ a = a1
    BY <2>3, <2>4, Zenon
  <2>6. \E w1 \in DOMAIN W[l0] : \E a1 \in DOMAIN W[l0][w1] :
          \A l \in 0 .. lanes - 1 : \A w \in DOMAIN W[l] : \A a \in DOMAIN W[l][w] :
            Covers(W[l][w][a], h, q) <=> l = l0 /\ w = w1 /\ a = a1
    BY <2>3, <2>5, Zenon
  <2> QED
    BY <2>6, Zenon
<1> QED
  BY <1>1, <1>2, <1>3, Zenon DEF Deals

\* An even number of heads: pairs.
LEMMA PairedDeals ==
    ASSUME NEW bh \in Nat \ {0}, bh % 2 = 0, NEW lanes \in 1 .. bh
    PROVE  Deals([l \in 0 .. lanes - 1 |-> Paired(bh, lanes, l)], bh, lanes)
<1> DEFINE W == [l \in 0 .. lanes - 1 |-> Paired(bh, lanes, l)]
           m == bh \div 2
           splitters == 2 * bh - 3 * lanes
           pairs == bh - lanes
<1>1. m \in Nat \ {0} /\ bh = 2 * m
  <2>1. bh \in Nat /\ 2 \in Nat \ {0}
    OBVIOUS
  <2>2. m \in Nat /\ bh = 2 * m + (bh % 2)
    BY <2>1, DivMod
  <2> QED
    BY <2>2
<1>2. \A l \in 0 .. lanes - 1 : W[l] = Paired(bh, lanes, l)
  OBVIOUS
<1>3. lanes \in Nat \ {0} /\ lanes <= bh /\ splitters = 4 * m - 3 * lanes /\ pairs = 2 * m - lanes
  BY <1>1
<1>4. bh \div 2 = m
  OBVIOUS
<1> HIDE DEF W, m
<1>5. CASE lanes >= bh
  <2> DEFINE V == [l \in 0 .. lanes - 1 |-> <<Item(l, 0, TILE)>>]
  <2>1. lanes = bh
    BY <1>3, <1>5
  <2>2. ASSUME NEW l \in 0 .. lanes - 1
        PROVE  W[l] = << <<Item(l, 0, TILE)>> >>
    <3>1. /\ l < bh /\ ~ (lanes <= bh \div 2) /\ ~ (lanes < bh)
          /\ ~ (lanes > bh \div 2 /\ 3 * lanes <= 2 * bh)
      BY <1>1, <1>4, <2>1
    <3>2. Paired(bh, lanes, l) = << <<Item(l, 0, TILE)>> >>
      BY <1>5, <2>1, <3>1 DEF Paired
    <3> QED
      BY <1>2, <3>2
  <2>3. ASSUME NEW l \in 0 .. lanes - 1
        PROVE  /\ V[l] \in Seq(ItemsOf(bh)) /\ DOMAIN V[l] = 1 .. 1
               /\ \A a \in DOMAIN V[l] :
                    /\ Fits(V[l][a], bh)
                    /\ \A h \in 0 .. bh - 1, q \in Rows : Covers(V[l][a], h, q) <=> l = h
    <3> DEFINE x == Item(l, 0, TILE)
    <3>1. Fits(x, bh) /\ \A h \in 0 .. bh - 1, q \in Rows : Covers(x, h, q) <=> l = h
      BY <2>1, FullFacts DEF Fits
    <3>2. V[l] = <<x>>
      OBVIOUS
    <3> HIDE DEF x, V
    <3>3. V[l] \in Seq(ItemsOf(bh)) /\ DOMAIN V[l] = 1 .. 1 /\ V[l][1] = x
      BY <3>1, <3>2, WorkOf
    <3>4. \A a \in 1 .. 1 : a = 1
      OBVIOUS
    <3> QED
      BY <3>1, <3>3, <3>4, Zenon
  <2>4. \A l \in 0 .. lanes - 1 : W[l] = <<V[l]>>
    BY <2>2
  <2> HIDE DEF V
  <2>5. ASSUME NEW h \in 0 .. bh - 1, NEW q \in Rows
        PROVE  \E l0 \in 0 .. lanes - 1 : \E a0 \in DOMAIN V[l0] :
                 \A l \in 0 .. lanes - 1 : \A a \in DOMAIN V[l] :
                   Covers(V[l][a], h, q) <=> l = l0 /\ a = a0
    <3>1. h \in 0 .. lanes - 1
      BY <2>1
    <3>2. 1 \in DOMAIN V[h]
      BY <2>3, <3>1
    <3>3. ASSUME NEW l \in 0 .. lanes - 1, NEW a \in DOMAIN V[l]
          PROVE  Covers(V[l][a], h, q) <=> l = h /\ a = 1
      <4>1. a = 1
        BY <2>3
      <4>2. Covers(V[l][a], h, q) <=> l = h
        BY <2>3, Zenon
      <4> QED
        BY <4>1, <4>2
    <3> QED
      BY <3>1, <3>2, <3>3, Zenon
  <2>6. \A l \in 0 .. lanes - 1 :
          /\ V[l] \in Seq(ItemsOf(bh)) /\ DOMAIN V[l] \in {1 .. 1, 1 .. 2}
          /\ \A a \in DOMAIN V[l] : Fits(V[l][a], bh)
    BY <2>3, Zenon
  <2> QED
    BY <2>4, <2>5, <2>6, <1>3, OneWorkEach DEF W
<1>6. CASE lanes <= m
  <2> DEFINE c(l) == (m - l + lanes - 1) \div lanes
             p(l, w) == l + (w - 1) * lanes
  <2>1. ASSUME NEW l \in 0 .. lanes - 1
        PROVE  /\ c(l) \in Int
               /\ \A i \in Nat \ {0} : i <= c(l) <=> lanes * (i - 1) + l < m
    BY <1>1, <1>3, StridedCount
  <2>2. ASSUME NEW l \in 0 .. lanes - 1
        PROVE  W[l] = [i \in 1 .. c(l) |-> FullPair(p(l, i))]
    <3>1. /\ ~ (lanes >= bh) /\ lanes <= bh \div 2 /\ bh \div 2 = m
          /\ ~ (lanes > bh \div 2) /\ ~ (3 * lanes > 2 * bh)
      BY <1>1, <1>4, <1>3, <1>6
    <3>2. Paired(bh, lanes, l)
            = [i \in 1 .. (bh \div 2 - l + lanes - 1) \div lanes |-> FullPair(l + (i - 1) * lanes)]
      BY <3>1 DEF Paired
    <3> QED
      BY <1>2, <3>1, <3>2
  <2> HIDE DEF c
  <2>3. ASSUME NEW l \in 0 .. lanes - 1, NEW w \in 1 .. c(l)
        PROVE  /\ w - 1 \in Nat /\ p(l, w) = lanes * (w - 1) + l
               /\ p(l, w) \in Nat /\ p(l, w) < m /\ 2 * p(l, w) + 1 < bh
    <3>1. w \in Nat \ {0} /\ w <= c(l)
      BY <2>1
    <3>2. w - 1 \in Nat /\ (w - 1) * lanes = lanes * (w - 1) /\ lanes * (w - 1) \in Nat
      BY <1>3, <3>1, TimesGrows
    <3>3. lanes * (w - 1) + l < m
      BY <2>1, <3>1
    <3> QED
      BY <1>1, <1>3, <3>2, <3>3
  <2> HIDE DEF p
  <2>4. ASSUME NEW l \in 0 .. lanes - 1, NEW w \in 1 .. c(l)
        PROVE  /\ W[l][w] \in Seq(ItemsOf(bh)) /\ DOMAIN W[l][w] = 1 .. 2
               /\ W[l][w][1].first + W[l][w][1].rows <= TILE
               /\ W[l][w][2].first + W[l][w][2].rows <= TILE
               /\ \A h \in 0 .. bh - 1, q \in Rows :
                    /\ Covers(W[l][w][1], h, q) <=> h = 2 * p(l, w)
                    /\ Covers(W[l][w][2], h, q) <=> h = 2 * p(l, w) + 1
    <3>1. W[l][w] = FullPair(p(l, w))
      BY <2>2, Zenon
    <3>2. p(l, w) \in Nat /\ 2 * p(l, w) + 1 < bh
      BY <2>3
    <3> QED
      BY <3>1, <3>2, FullPairFacts, Zenon DEF Fits
  <2>5. ASSUME NEW l \in 0 .. lanes - 1
        PROVE  DOMAIN W[l] = 1 .. c(l) /\ W[l] \in Seq(Seq(ItemsOf(bh)))
    <3>1. DOMAIN W[l] = 1 .. c(l) /\ W[l] = [i \in 1 .. c(l) |-> W[l][i]]
      BY <2>2, Zenon
    <3>2. \A i \in 1 .. c(l) : W[l][i] \in Seq(ItemsOf(bh))
      BY <2>4, Zenon
    <3> QED
      BY <2>1, <3>1, <3>2, ListOf, Zenon
  <2>6. ASSUME NEW l \in 0 .. lanes - 1, NEW w \in DOMAIN W[l]
        PROVE  /\ DOMAIN W[l][w] \in {1 .. 1, 1 .. 2}
               /\ \A a \in DOMAIN W[l][w] : W[l][w][a].first + W[l][w][a].rows <= TILE
    <3>1. w \in 1 .. c(l)
      BY <2>5, Zenon
    <3>2. \A a \in 1 .. 2 : a = 1 \/ a = 2
      OBVIOUS
    <3> QED
      BY <2>4, <3>1, <3>2, Zenon
  <2>7. ASSUME NEW h \in 0 .. bh - 1, NEW q \in Rows
        PROVE  \E l0 \in 0 .. lanes - 1 : \E w0 \in DOMAIN W[l0] : \E a0 \in DOMAIN W[l0][w0] :
                 \A l \in 0 .. lanes - 1 : \A w \in DOMAIN W[l] : \A a \in DOMAIN W[l][w] :
                   Covers(W[l][w][a], h, q) <=> l = l0 /\ w = w0 /\ a = a0
    <3> DEFINE x == h \div 2    e == h % 2
    <3>1. x \in Nat /\ e \in 0 .. 1 /\ h = 2 * x + e /\ x < m
      BY <1>1
    <3> HIDE DEF x, e
    <3> DEFINE y == x \div lanes    l0 == x % lanes
    <3>2. y \in Nat /\ l0 \in 0 .. lanes - 1 /\ x = lanes * y + l0
      BY <1>3, <3>1, DivMod
    <3> HIDE DEF y, l0
    <3>3. y + 1 \in 1 .. c(l0)
      <4>1. y + 1 \in Nat \ {0} /\ (y + 1) - 1 = y
        BY <3>2
      <4>2. lanes * ((y + 1) - 1) + l0 < m
        BY <3>1, <3>2, <4>1
      <4> QED
        BY <2>1, <3>2, <4>1, <4>2
    <3>4. y + 1 \in DOMAIN W[l0] /\ e + 1 \in DOMAIN W[l0][y + 1]
      <4>1. e + 1 \in 1 .. 2
        BY <3>1
      <4> QED
        BY <2>4, <2>5, <3>2, <3>3, <4>1, Zenon
    <3>5. ASSUME NEW l \in 0 .. lanes - 1, NEW w \in DOMAIN W[l], NEW a \in DOMAIN W[l][w]
          PROVE  Covers(W[l][w][a], h, q) <=> l = l0 /\ w = y + 1 /\ a = e + 1
      <4>1. w \in 1 .. c(l)
        BY <2>5, Zenon
      <4>2. DOMAIN W[l][w] = 1 .. 2
        BY <2>4, <4>1, Zenon
      <4>3. a \in {1, 2}
        BY <4>2
      <4>4. Covers(W[l][w][a], h, q) <=> h = 2 * p(l, w) + (a - 1)
        <5>1. p(l, w) \in Nat
          BY <2>3, <4>1
        <5>2. /\ Covers(W[l][w][1], h, q) <=> h = 2 * p(l, w)
              /\ Covers(W[l][w][2], h, q) <=> h = 2 * p(l, w) + 1
          BY <2>4, <4>1, Zenon
        <5> QED
          BY <4>3, <5>1, <5>2
      <4>5. /\ w - 1 \in Nat /\ p(l, w) = lanes * (w - 1) + l /\ p(l, w) \in Nat
            /\ w = (w - 1) + 1
        BY <2>1, <2>3, <4>1
      <4>6. h = 2 * p(l, w) + (a - 1) <=> p(l, w) = x /\ a = e + 1
        <5>1. a - 1 \in 0 .. 1 /\ p(l, w) \in Nat
          BY <4>3, <4>5
        <5> QED
          BY <3>1, <5>1
      <4>7. ASSUME p(l, w) = x PROVE w - 1 = y /\ l = l0
        <5>1. lanes * (w - 1) + l = lanes * y + l0
          BY <3>2, <4>5, <4>7
        <5>2. PICK k \in Nat : k = w - 1
          BY <4>5
        <5>3. lanes * k + l = lanes * y + l0
          BY <5>1, <5>2
        <5>4. k = y /\ l = l0
          BY <1>3, <3>2, <5>3, DivIs
        <5> QED
          BY <5>2, <5>4
      <4>8. ASSUME w = y + 1, l = l0 PROVE p(l, w) = x
        BY <3>2, <4>5, <4>8
      <4>9. w - 1 = y <=> w = y + 1
        <5>1. PICK k \in Nat : k = w - 1 /\ w = k + 1
          BY <4>5, Zenon
        <5>2. k = y <=> k + 1 = y + 1
          BY <3>2
        <5> QED
          BY <5>1, <5>2, Zenon
      <4> QED
        BY <4>4, <4>6, <4>7, <4>8, <4>9, Zenon
    <3> QED
      BY <3>2, <3>4, <3>5, Zenon
  <2>8. Deals(W, bh, lanes)
    BY <2>5, <2>6, <2>7, Zenon DEF Deals
  <2> QED
    BY <2>8 DEF W
<1>7. CASE lanes > m /\ 3 * lanes <= 2 * bh
  <2> DEFINE rank(l) == l - splitters
             solo(l) == Item(2 * splitters + rank(l), 0, TILE)
             part(l) == Half(2 * splitters + (lanes - splitters), rank(l))
             V == [l \in 0 .. lanes - 1 |->
                     IF l < splitters THEN FullPair(l) ELSE <<solo(l), part(l)>>]
  <2>1. /\ splitters \in Nat /\ splitters < lanes
        /\ bh = splitters + lanes + (2 * lanes - 2 * m)
        /\ lanes - splitters = 2 * (2 * lanes - 2 * m)
    BY <1>1, <1>3, <1>7
  <2>2. ASSUME NEW l \in 0 .. lanes - 1
        PROVE  W[l] = <<V[l]>>
    <3>1. ~ (lanes >= bh) /\ ~ (lanes <= bh \div 2) /\ lanes > bh \div 2 /\ bh \div 2 = m
      BY <1>1, <1>4, <1>3, <1>7
    <3>2. Paired(bh, lanes, l) = IF l < splitters THEN <<FullPair(l)>>
                                 ELSE << <<solo(l), part(l)>> >>
      BY <1>7, <3>1 DEF Paired
    <3>3. W[l] = Paired(bh, lanes, l)
      BY <1>2
    <3>4. V[l] = IF l < splitters THEN FullPair(l) ELSE <<solo(l), part(l)>>
      OBVIOUS
    <3> HIDE DEF V, solo, part, splitters
    <3> QED
      BY <3>2, <3>3, <3>4
  <2>3. ASSUME NEW l \in 0 .. lanes - 1
        PROVE  /\ V[l] \in Seq(ItemsOf(bh)) /\ DOMAIN V[l] = 1 .. 2
               /\ \A a \in DOMAIN V[l] : (a = 1 \/ a = 2) /\ Fits(V[l][a], bh)
               /\ \A h \in 0 .. bh - 1, q \in Rows :
                    /\ Covers(V[l][1], h, q)
                         <=> h = IF l < splitters THEN 2 * l ELSE splitters + l
                    /\ Covers(V[l][2], h, q)
                         <=> IF l < splitters THEN h = 2 * l + 1
                             ELSE l - splitters = 2 * (h - (splitters + lanes))
                                                    + (IF q < VL THEN 0 ELSE 1)
    <3>0. \A a \in 1 .. 2 : a = 1 \/ a = 2
      OBVIOUS
    <3>1. CASE l < splitters
      <4>1. V[l] = FullPair(l) /\ l \in Nat /\ 2 * l + 1 < bh
        BY <2>1, <3>1
      <4> HIDE DEF V, splitters
      <4>2. /\ V[l] \in Seq(ItemsOf(bh)) /\ DOMAIN V[l] = 1 .. 2
            /\ Fits(V[l][1], bh) /\ Fits(V[l][2], bh)
            /\ \A h \in 0 .. bh - 1, q \in Rows :
                 /\ Covers(V[l][1], h, q) <=> h = 2 * l
                 /\ Covers(V[l][2], h, q) <=> h = 2 * l + 1
        BY <4>1, FullPairFacts
      <4>3. \A a \in DOMAIN V[l] : (a = 1 \/ a = 2) /\ Fits(V[l][a], bh)
        BY <3>0, <4>2, Zenon
      <4> QED
        BY <3>1, <4>2, <4>3
    <3>2. CASE ~ (l < splitters)
      <4> DEFINE x == solo(l)    y == part(l)    g == 2 * splitters + (lanes - splitters)
      <4>1. /\ 2 * splitters + rank(l) \in 0 .. bh - 1 /\ 2 * splitters + rank(l) = splitters + l
            /\ rank(l) \in Nat /\ g \in Nat /\ 2 * g + rank(l) < 2 * bh
            /\ g = splitters + lanes /\ rank(l) = l - splitters
        BY <1>1, <1>3, <2>1, <3>2
      <4>2. V[l] = <<x, y>>
        BY <3>2
      <4>3. x = Item(2 * splitters + rank(l), 0, TILE) /\ y = Half(g, rank(l))
        OBVIOUS
      <4> HIDE DEF V, x, y, g, rank, solo, part, splitters
      <4>4. /\ Fits(x, bh)
            /\ \A h \in 0 .. bh - 1, q \in Rows : Covers(x, h, q) <=> h = splitters + l
        <5>1. LET i == Item(2 * splitters + rank(l), 0, TILE) IN
              /\ i \in ItemsOf(bh) /\ i.first + i.rows <= TILE
              /\ \A h \in 0 .. bh - 1, q \in Rows :
                   Covers(i, h, q) <=> 2 * splitters + rank(l) = h
          BY <4>1, FullFacts
        <5> QED
          BY <4>1, <4>3, <5>1 DEF Fits
      <4>5. /\ Fits(y, bh)
            /\ \A h \in 0 .. bh - 1, q \in Rows :
                 Covers(y, h, q) <=> l - splitters = 2 * (h - (splitters + lanes))
                                                       + (IF q < VL THEN 0 ELSE 1)
        <5>1. LET i == Half(g, rank(l)) IN
              /\ i \in ItemsOf(bh) /\ i.first + i.rows <= TILE
              /\ \A h \in 0 .. bh - 1, q \in Rows :
                   Covers(i, h, q) <=> rank(l) = 2 * (h - g) + (IF q < VL THEN 0 ELSE 1)
          <6>1. PICK r : r = rank(l)
            OBVIOUS
          <6>2. r \in Nat /\ g \in Nat /\ 2 * g + r < 2 * bh
            BY <4>1, <6>1, Zenon
          <6>3. LET i == Half(g, r) IN
                /\ i \in ItemsOf(bh) /\ i.first + i.rows <= TILE
                /\ \A h \in 0 .. bh - 1, q \in Rows :
                     Covers(i, h, q) <=> r = 2 * (h - g) + (IF q < VL THEN 0 ELSE 1)
            BY <6>2, HalfFacts, Zenon
          <6> QED
            BY <6>1, <6>3, Zenon
        <5> QED
          BY <4>1, <4>3, <5>1 DEF Fits
      <4>6. /\ V[l] \in Seq(ItemsOf(bh)) /\ DOMAIN V[l] = 1 .. 2 /\ V[l][1] = x /\ V[l][2] = y
        BY <4>2, <4>4, <4>5, WorkOf
      <4>7. \A a \in DOMAIN V[l] : (a = 1 \/ a = 2) /\ Fits(V[l][a], bh)
        BY <3>0, <4>4, <4>5, <4>6, Zenon
      <4> QED
        BY <3>2, <4>4, <4>5, <4>6, <4>7
    <3> QED
      BY <3>1, <3>2
  <2> HIDE DEF V, splitters
  <2>4. ASSUME NEW h \in 0 .. bh - 1, NEW q \in Rows
        PROVE  \E l0 \in 0 .. lanes - 1 : \E a0 \in DOMAIN V[l0] :
                 \A l \in 0 .. lanes - 1 : \A a \in DOMAIN V[l] :
                   Covers(V[l][a], h, q) <=> l = l0 /\ a = a0
    <3> DEFINE side == IF q < VL THEN 0 ELSE 1
               z == splitters + 2 * (h - (splitters + lanes)) + side
               l0 == IF h < 2 * splitters THEN h \div 2
                     ELSE IF h < splitters + lanes THEN h - splitters ELSE z
               a0 == IF h < 2 * splitters THEN (h % 2) + 1
                     ELSE IF h < splitters + lanes THEN 1 ELSE 2
    <3>0. side \in {0, 1} /\ side = IF q < VL THEN 0 ELSE 1
      BY ScheduleAssumption DEF Rows
    <3>1. l0 \in 0 .. lanes - 1 /\ a0 \in {1, 2}
      BY <1>1, <2>1, <3>0
    <3>2. ASSUME NEW l \in 0 .. lanes - 1
          PROVE  /\ (h = IF l < splitters THEN 2 * l ELSE splitters + l) <=> l = l0 /\ 1 = a0
                 /\ (IF l < splitters THEN h = 2 * l + 1
                     ELSE l - splitters = 2 * (h - (splitters + lanes)) + side)
                      <=> l = l0 /\ 2 = a0
      BY <1>1, <2>1, <3>0
    <3> HIDE DEF side, z, l0, a0
    <3>3. a0 \in DOMAIN V[l0]
      BY <2>3, <3>1
    <3>4. ASSUME NEW l \in 0 .. lanes - 1, NEW a \in DOMAIN V[l]
          PROVE  Covers(V[l][a], h, q) <=> l = l0 /\ a = a0
      <4>1. a = 1 \/ a = 2
        BY <2>3
      <4>2. /\ Covers(V[l][1], h, q) <=> h = IF l < splitters THEN 2 * l ELSE splitters + l
            /\ Covers(V[l][2], h, q)
                 <=> IF l < splitters THEN h = 2 * l + 1
                     ELSE l - splitters = 2 * (h - (splitters + lanes))
                                            + (IF q < VL THEN 0 ELSE 1)
        BY <2>3
      <4> QED
        BY <3>0, <3>2, <4>1, <4>2
    <3> QED
      BY <3>1, <3>3, <3>4, Zenon
  <2>5. \A l \in 0 .. lanes - 1 :
          /\ V[l] \in Seq(ItemsOf(bh)) /\ DOMAIN V[l] \in {1 .. 1, 1 .. 2}
          /\ \A a \in DOMAIN V[l] : Fits(V[l][a], bh)
    BY <2>3, Zenon
  <2> QED
    BY <1>3, <2>2, <2>4, <2>5, OneWorkEach DEF W
<1>8. CASE lanes < bh /\ 3 * lanes > 2 * bh
  <2> DEFINE V == [l \in 0 .. lanes - 1 |->
                     IF l < pairs THEN FullPair(l) ELSE <<Item(pairs + l, 0, TILE)>>]
  <2>1. pairs \in Nat \ {0} /\ pairs < lanes /\ bh = pairs + lanes
    BY <1>1, <1>3, <1>8
  <2>2. ASSUME NEW l \in 0 .. lanes - 1
        PROVE  W[l] = <<V[l]>>
    <3>1. /\ ~ (lanes >= bh) /\ ~ (lanes <= bh \div 2) /\ bh \div 2 = m
          /\ ~ (lanes > bh \div 2 /\ 3 * lanes <= 2 * bh)
      BY <1>1, <1>4, <1>3, <1>8
    <3>2. Paired(bh, lanes, l) = IF l < pairs THEN <<FullPair(l)>>
                                 ELSE << <<Item(pairs + l, 0, TILE)>> >>
      BY <1>8, <3>1 DEF Paired
    <3>3. W[l] = Paired(bh, lanes, l)
      BY <1>2
    <3>4. V[l] = IF l < pairs THEN FullPair(l) ELSE <<Item(pairs + l, 0, TILE)>>
      OBVIOUS
    <3> HIDE DEF V, pairs
    <3> QED
      BY <3>2, <3>3, <3>4
  <2>3. ASSUME NEW l \in 0 .. lanes - 1
        PROVE  /\ V[l] \in Seq(ItemsOf(bh))
               /\ DOMAIN V[l] = 1 .. (IF l < pairs THEN 2 ELSE 1)
               /\ \A a \in DOMAIN V[l] :
                    /\ a \in 1 .. (IF l < pairs THEN 2 ELSE 1) /\ Fits(V[l][a], bh)
                    /\ \A h \in 0 .. bh - 1, q \in Rows :
                         Covers(V[l][a], h, q)
                           <=> h = IF l < pairs THEN 2 * l + (a - 1) ELSE pairs + l
    <3>1. CASE l < pairs
      <4>1. V[l] = FullPair(l) /\ l \in Nat /\ 2 * l + 1 < bh
        BY <2>1, <3>1
      <4> HIDE DEF V, pairs
      <4>2. /\ V[l] \in Seq(ItemsOf(bh)) /\ DOMAIN V[l] = 1 .. 2
            /\ Fits(V[l][1], bh) /\ Fits(V[l][2], bh)
            /\ \A h \in 0 .. bh - 1, q \in Rows :
                 /\ Covers(V[l][1], h, q) <=> h = 2 * l
                 /\ Covers(V[l][2], h, q) <=> h = 2 * l + 1
        BY <4>1, FullPairFacts
      <4>3. 2 * l = 2 * l + (1 - 1) /\ 2 * l + 1 = 2 * l + (2 - 1)
        BY <4>1
      <4>4. ASSUME NEW a \in DOMAIN V[l]
            PROVE  /\ Fits(V[l][a], bh)
                   /\ \A h \in 0 .. bh - 1, q \in Rows :
                        Covers(V[l][a], h, q) <=> h = 2 * l + (a - 1)
        <5>1. a = 1 \/ a = 2
          BY <4>2
        <5> QED
          BY <4>2, <4>3, <5>1, Zenon
      <4> QED
        BY <3>1, <4>2, <4>4
    <3>2. CASE ~ (l < pairs)
      <4> DEFINE x == Item(pairs + l, 0, TILE)
      <4>1. pairs + l \in 0 .. bh - 1
        BY <2>1
      <4>2. Fits(x, bh) /\ \A h \in 0 .. bh - 1, q \in Rows : Covers(x, h, q) <=> h = pairs + l
        BY <4>1, FullFacts DEF Fits
      <4>3. V[l] = <<x>>
        BY <3>2
      <4> HIDE DEF V, x, pairs
      <4>4. V[l] \in Seq(ItemsOf(bh)) /\ DOMAIN V[l] = 1 .. 1 /\ V[l][1] = x
        BY <4>2, <4>3, WorkOf
      <4>5. ASSUME NEW a \in DOMAIN V[l]
            PROVE  V[l][a] = x
        <5>1. a = 1
          BY <4>4
        <5> QED
          BY <4>4, <5>1
      <4> QED
        BY <3>2, <4>2, <4>4, <4>5
    <3> QED
      BY <3>1, <3>2
  <2> HIDE DEF V, pairs
  <2>4. ASSUME NEW h \in 0 .. bh - 1, NEW q \in Rows
        PROVE  \E l0 \in 0 .. lanes - 1 : \E a0 \in DOMAIN V[l0] :
                 \A l \in 0 .. lanes - 1 : \A a \in DOMAIN V[l] :
                   Covers(V[l][a], h, q) <=> l = l0 /\ a = a0
    <3> DEFINE l0 == IF h < 2 * pairs THEN h \div 2 ELSE h - pairs
               a0 == IF h < 2 * pairs THEN (h % 2) + 1 ELSE 1
    <3>1. l0 \in 0 .. lanes - 1 /\ a0 \in 1 .. (IF l0 < pairs THEN 2 ELSE 1)
      BY <1>1, <2>1
    <3>2. ASSUME NEW l \in 0 .. lanes - 1, NEW a \in 1 .. (IF l < pairs THEN 2 ELSE 1)
          PROVE  (h = IF l < pairs THEN 2 * l + (a - 1) ELSE pairs + l) <=> l = l0 /\ a = a0
      BY <1>1, <2>1
    <3> HIDE DEF l0, a0
    <3>3. a0 \in DOMAIN V[l0]
      BY <2>3, <3>1
    <3>4. ASSUME NEW l \in 0 .. lanes - 1, NEW a \in DOMAIN V[l]
          PROVE  Covers(V[l][a], h, q) <=> l = l0 /\ a = a0
      BY <2>3, <3>2
    <3> QED
      BY <3>1, <3>3, <3>4, Zenon
  <2>5. \A l \in 0 .. lanes - 1 :
          /\ V[l] \in Seq(ItemsOf(bh)) /\ DOMAIN V[l] \in {1 .. 1, 1 .. 2}
          /\ \A a \in DOMAIN V[l] : Fits(V[l][a], bh)
    BY <2>3
  <2> QED
    BY <1>3, <2>2, <2>4, <2>5, OneWorkEach DEF W
<1> QED
  BY <1>1, <1>3, <1>5, <1>6, <1>7, <1>8

\* The launch: at least one lane, a block size that divides the tile, and no
\* more lanes than heads when heads are dealt out whole.
LEMMA LaunchFacts ==
    ASSUME NEW bh \in Nat \ {0}, NEW aic \in Nat \ {0}
    PROVE  /\ RowBlock(bh) \in Nat \ {0} /\ TILE % RowBlock(bh) = 0
           /\ Launch(bh, aic) \in Nat \ {0}
           /\ bh > MediumLimit => Launch(bh, aic) <= bh
<1>1. TILE \in Nat \ {0} /\ VL \in Nat \ {0} /\ TILE = 2 * VL /\ MediumLimit \in Nat
      /\ SmallLimit \in Nat /\ SmallLimit <= MediumLimit
  BY ScheduleAssumption
<1>2. ASSUME NEW n \in Nat \ {0}, NEW k \in Nat, TILE = n * k
      PROVE  TILE % n = 0
  <2>1. TILE \div n \in Nat /\ TILE % n \in 0 .. n - 1 /\ TILE = n * (TILE \div n) + (TILE % n)
    BY <1>1, DivMod
  <2> DEFINE a == TILE \div n    r == TILE % n
  <2>2. n * a + r = n * k + 0 /\ a \in Nat /\ r \in 0 .. n - 1 /\ 0 \in 0 .. n - 1
    BY <1>2, <2>1
  <2> HIDE DEF a, r
  <2>3. r = 0
    BY <2>2, DivIs
  <2> QED
    BY <2>3 DEF r
<1>3. TILE % VL = 0 /\ TILE % TILE = 0
  <2>1. TILE = VL * 2 /\ TILE = TILE * 1
    BY <1>1
  <2> QED
    BY <1>1, <1>2, <2>1
<1>4. RowBlock(bh) \in Nat \ {0} /\ TILE % RowBlock(bh) = 0
  BY <1>1, <1>3, ScheduleAssumption DEF RowBlock
<1>5. Blocks(bh, RowBlock(bh)) \in Nat \ {0}
  BY <1>4, BlockFacts
<1>6. Launch(bh, aic) = IF Blocks(bh, RowBlock(bh)) < 2 * aic THEN Blocks(bh, RowBlock(bh))
                        ELSE 2 * aic
  BY DEF Launch, Blocks
<1>7. ASSUME bh > MediumLimit PROVE Launch(bh, aic) <= bh
  <2>1. RowBlock(bh) = TILE
    BY <1>1, <1>7 DEF RowBlock
  <2>2. TILE \div TILE = 1
    BY <1>1
  <2>3. Blocks(bh, RowBlock(bh)) = bh
    BY <2>1, <2>2 DEF Blocks
  <2> QED
    BY <1>6, <2>3
<1> QED
  BY <1>4, <1>5, <1>6, <1>7

\* Both kernels deal out all heads.
LEMMA WorksDeal ==
    ASSUME NEW bh \in Nat \ {0}, NEW aic \in Nat \ {0}
    PROVE  LET lanes == Launch(bh, aic) IN
           /\ Deals([l \in 0 .. lanes - 1 |-> VerifyWorks(bh, lanes, l)], bh, lanes)
           /\ Deals([l \in 0 .. lanes - 1 |-> CommitWorks(bh, lanes, l)], bh, lanes)
<1> DEFINE lanes == Launch(bh, aic)    n == RowBlock(bh)
<1>1. /\ n \in Nat \ {0} /\ TILE % n = 0 /\ lanes \in Nat \ {0}
      /\ bh > MediumLimit => lanes \in 1 .. bh
  BY LaunchFacts
<1> HIDE DEF lanes
<1>2. bh > MediumLimit <=> ~ (bh <= MediumLimit)
  BY ScheduleAssumption
<1>3. Deals([l \in 0 .. lanes - 1 |-> VerifyWorks(bh, lanes, l)], bh, lanes)
  <2>1. CASE bh > MediumLimit
    <3>1. \A l \in 0 .. lanes - 1 : VerifyWorks(bh, lanes, l) = MinimalSplit(bh, lanes, l)
      BY <2>1 DEF VerifyWorks
    <3>2. [l \in 0 .. lanes - 1 |-> VerifyWorks(bh, lanes, l)]
            = [l \in 0 .. lanes - 1 |-> MinimalSplit(bh, lanes, l)]
      BY <3>1, Zenon
    <3>3. lanes \in 1 .. bh
      BY <1>1, <2>1
    <3> QED
      BY <3>2, <3>3, MinimalDeals
  <2>2. CASE ~ (bh > MediumLimit)
    <3>1. \A l \in 0 .. lanes - 1 : VerifyWorks(bh, lanes, l) = AdjacentBlocks(bh, lanes, l, n)
      BY <2>2 DEF VerifyWorks
    <3>2. [l \in 0 .. lanes - 1 |-> VerifyWorks(bh, lanes, l)]
            = [l \in 0 .. lanes - 1 |-> AdjacentBlocks(bh, lanes, l, n)]
      BY <3>1, Zenon
    <3> HIDE DEF n
    <3> QED
      BY <1>1, <3>2, AdjacentDeals
  <2> QED
    BY <2>1, <2>2
<1>4. Deals([l \in 0 .. lanes - 1 |-> CommitWorks(bh, lanes, l)], bh, lanes)
  <2>1. CASE bh <= MediumLimit
    <3>1. \A l \in 0 .. lanes - 1 : CommitWorks(bh, lanes, l) = StridedBlocks(bh, lanes, l, n)
      BY <2>1 DEF CommitWorks
    <3>2. [l \in 0 .. lanes - 1 |-> CommitWorks(bh, lanes, l)]
            = [l \in 0 .. lanes - 1 |-> StridedBlocks(bh, lanes, l, n)]
      BY <3>1, Zenon
    <3> HIDE DEF n
    <3> QED
      BY <1>1, <3>2, StridedDeals
  <2>2. CASE ~ (bh <= MediumLimit) /\ bh % 2 = 0
    <3>1. \A l \in 0 .. lanes - 1 : CommitWorks(bh, lanes, l) = Paired(bh, lanes, l)
      BY <2>2 DEF CommitWorks
    <3>2. [l \in 0 .. lanes - 1 |-> CommitWorks(bh, lanes, l)]
            = [l \in 0 .. lanes - 1 |-> Paired(bh, lanes, l)]
      BY <3>1, Zenon
    <3>3. lanes \in 1 .. bh
      BY <1>1, <1>2, <2>2
    <3> QED
      BY <2>2, <3>2, <3>3, PairedDeals
  <2>3. CASE ~ (bh <= MediumLimit) /\ ~ (bh % 2 = 0)
    <3>1. \A l \in 0 .. lanes - 1 : CommitWorks(bh, lanes, l) = MinimalSplit(bh, lanes, l)
      BY <2>3 DEF CommitWorks
    <3>2. [l \in 0 .. lanes - 1 |-> CommitWorks(bh, lanes, l)]
            = [l \in 0 .. lanes - 1 |-> MinimalSplit(bh, lanes, l)]
      BY <3>1, Zenon
    <3>3. lanes \in 1 .. bh
      BY <1>1, <1>2, <2>3
    <3> QED
      BY <3>2, <3>3, MinimalDeals
  <2> QED
    BY <2>1, <2>2, <2>3
<1> QED
  BY <1>3, <1>4 DEF lanes

\* A function of numbers on a finite set has a greatest value.
LEMMA GreatestValue ==
    ASSUME NEW S, S # {}, IsFiniteSet(S), NEW f, \A s \in S : f[s] \in Int
    PROVE  \E m \in S : \A k \in S : f[k] <= f[m]
<1> DEFINE above(k) == {x \in S : f[x] >= f[k]}
           C == {above(k) : k \in S}
<1>1. IsWellFoundedOn(StrictSubsetOrdering(S), FiniteSubsetsOf(S))
  BY FS_StrictSubsetOrderingWellFounded
<1>2. C \subseteq FiniteSubsetsOf(S) /\ C # {}
  <2>1. \A k \in S : above(k) \in SUBSET S /\ IsFiniteSet(above(k))
    BY FS_Subset
  <2> QED
    BY <2>1 DEF FiniteSubsetsOf
<1>3. PICK x \in C : \A y \in C : <<y, x>> \notin StrictSubsetOrdering(S)
  BY <1>1, <1>2, WFMin
<1>4. PICK m \in S : x = above(m)
  BY <1>3
<1>5. ASSUME NEW k \in S, f[m] < f[k] PROVE FALSE
  <2>1. m \in above(m) /\ m \notin above(k)
    BY <1>5
  <2>2. above(k) \subseteq above(m)
    BY <1>5
  <2>3. above(k) \in C /\ above(k) \in SUBSET S /\ above(m) \in SUBSET S
    OBVIOUS
  <2> HIDE DEF above, C
  <2> QED
    BY <1>3, <1>4, <2>1, <2>2, <2>3 DEF StrictSubsetOrdering
<1> QED
  BY <1>5

\* Numbers over a batch of B times N, and their sequences.
LEMMA BatchNumbers ==
    ASSUME NEW B \in Nat \ {0}, NEW N \in Nat \ {0}
    PROVE  /\ B * N \in Nat \ {0}
           /\ \A h \in 0 .. B * N - 1 : h \in Nat /\ h \div N + 1 \in 1 .. B
           /\ \A s \in 1 .. B : \E h \in 0 .. B * N - 1 : h \div N + 1 = s
<1>1. B * N \in Nat \ {0} /\ B * N = N * B
  OBVIOUS
<1>2. ASSUME NEW h \in 0 .. B * N - 1 PROVE h \in Nat /\ h \div N + 1 \in 1 .. B
  <2>1. h \in Nat /\ h < N * B
    BY <1>1
  <2> DEFINE x == h \div N    r == h % N
  <2>2. x \in Nat /\ r \in 0 .. N - 1 /\ h = N * x + r
    BY <2>1, DivMod
  <2> HIDE DEF x, r
  <2>3. r \in Nat /\ N * x \in Nat
    BY <2>2, TimesGrows
  <2>4. N * x < N * B
    BY <1>1, <2>1, <2>2, <2>3
  <2>5. x < B
    BY <2>2, <2>4, TimesGrows
  <2>6. x + 1 \in 1 .. B
    BY <2>2, <2>5
  <2> QED
    BY <2>1, <2>6 DEF x
<1>3. ASSUME NEW s \in 1 .. B PROVE \E h \in 0 .. B * N - 1 : h \div N + 1 = s
  <2> DEFINE x == s - 1    h == N * x
  <2>1. x \in Nat /\ x < B
    OBVIOUS
  <2>2. h \in Nat /\ h + N <= N * B
    BY <2>1, TimesGrows
  <2>3. h \in 0 .. B * N - 1
    BY <1>1, <2>2
  <2> DEFINE a == h \div N    r == h % N
  <2>4. a \in Nat /\ r \in 0 .. N - 1 /\ h = N * a + r
    BY <2>2, DivMod
  <2> HIDE DEF a, r, x
  <2>5. N * a + r = N * x + 0 /\ 0 \in 0 .. N - 1
    BY <2>2, <2>4
  <2>6. a = x
    BY <2>1, <2>4, <2>5, DivIs
  <2>7. h \div N + 1 = s
    BY <2>6 DEF a, x
  <2> QED
    BY <2>3, <2>7
<1> QED
  BY <1>1, <1>2, <1>3

-----------------------------------------------------------------------------
(* What a call's shape says.                                               *)

\* What the shapes of a call are.
LEMMA ShapeFacts ==
    ASSUME shape \in Shapes
    PROVE  /\ Seqs = 1 .. Len(shape.length) /\ Len(shape.length) \in Nat \ {0}
           /\ \A s \in Seqs : shape.length[s] \in Nat \ {0}
           /\ LongestSequence \in Nat \ {0}
           /\ \A s \in Seqs : shape.length[s] <= LongestSequence
           /\ shape.least \in Nat /\ shape.rounds \in Nat \ {0}
           /\ BatchHeads \in Nat \ {0} /\ LaneCount \in Nat \ {0}
           /\ \A h \in Heads : h \in Nat /\ SeqOf(h) \in Seqs
           /\ \A s \in Seqs : \E h \in Heads : SeqOf(h) = s
<1> DEFINE B == Len(shape.length)    N == shape.N
<1>1. /\ shape.length \in Seq(Nat \ {0}) /\ shape.length # <<>> /\ N \in Nat \ {0}
      /\ shape.aic \in Nat \ {0} /\ shape.least \in Nat /\ shape.rounds \in Nat \ {0}
  BY ShapesAssumption
<1>2. /\ B \in Nat \ {0} /\ Seqs = 1 .. B
      /\ \A s \in Seqs : shape.length[s] \in Nat \ {0}
  BY <1>1 DEF Seqs
<1>3. B * N \in Nat \ {0} /\ B * N = N * B
  BY <1>1, <1>2
<1>4. BatchHeads = B * N
  BY DEF BatchHeads
<1>5. LaneCount \in Nat \ {0}
  BY <1>1, <1>3, <1>4, LaunchFacts DEF LaneCount
<1>6. \E n \in {shape.length[s] : s \in Seqs} : \A s \in Seqs : shape.length[s] <= n
  <2>1. IsFiniteSet(Seqs) /\ Seqs # {} /\ \A s \in Seqs : shape.length[s] \in Int
    <3>1. B \in Int /\ 1 \in Int /\ 1 \in 1 .. B
      BY <1>2
    <3>2. IsFiniteSet(1 .. B)
      BY <3>1, FS_Interval
    <3> HIDE DEF B
    <3> QED
      BY <1>2, <3>1, <3>2
  <2>2. PICK m \in Seqs : \A k \in Seqs : shape.length[k] <= shape.length[m]
    BY <2>1, GreatestValue
  <2> QED
    BY <2>2
<1>7. /\ LongestSequence \in {shape.length[s] : s \in Seqs}
      /\ \A s \in Seqs : shape.length[s] <= LongestSequence
  BY <1>6, Zenon DEF LongestSequence
<1>8. LongestSequence \in Nat \ {0}
  BY <1>2, <1>7
<1>9. /\ \A h \in Heads : h \in Nat /\ SeqOf(h) \in Seqs
      /\ \A s \in Seqs : \E h \in Heads : SeqOf(h) = s
  <2>1. Heads = 0 .. B * N - 1 /\ \A h \in Heads : SeqOf(h) = h \div N + 1
    BY DEF Heads, SeqOf, BatchHeads
  <2> HIDE DEF B, N
  <2>2. /\ \A h \in 0 .. B * N - 1 : h \in Nat /\ h \div N + 1 \in 1 .. B
        /\ \A s \in 1 .. B : \E h \in 0 .. B * N - 1 : h \div N + 1 = s
    BY <1>1, <1>2, BatchNumbers
  <2>3. ASSUME NEW h \in Heads PROVE h \in Nat /\ SeqOf(h) \in Seqs
    <3>1. h \in 0 .. B * N - 1 /\ SeqOf(h) = h \div N + 1
      BY <2>1, Zenon
    <3>2. h \in Nat /\ h \div N + 1 \in 1 .. B
      BY <2>2, <3>1, Zenon
    <3> QED
      BY <1>2, <3>1, <3>2, Zenon
  <2>4. ASSUME NEW s \in Seqs PROVE \E h \in Heads : SeqOf(h) = s
    <3>1. s \in 1 .. B
      BY <1>2, Zenon
    <3>2. PICK h \in 0 .. B * N - 1 : h \div N + 1 = s
      BY <2>2, <3>1, Zenon
    <3>3. h \in Heads /\ SeqOf(h) = s
      BY <2>1, <3>2, Zenon
    <3> QED
      BY <3>3
  <2> QED
    BY <2>3, <2>4
<1> HIDE DEF B, N
<1> QED
  BY <1>1, <1>2, <1>3, <1>4, <1>5, <1>7, <1>8, <1>9 DEF B, N
-----------------------------------------------------------------------------
(* A lane on its way through its list of works.                            *)

\* Blocks of rows of the heads, and the tokens that texts are made of.
Items == ItemsOf(BatchHeads)
\* Sequences of tokens: a round and a number in it.
Texts == Seq(Nat \X Nat)

\* How many works of the list S a lane has drained, which of the items are
\* behind it, which one is before it, and how many of its n[item] tokens it
\* has served.
Drained(S, st) == Len(S) - Len(st.works)
Past(S, st, w, a) == w <= Drained(S, st) \/ (w = Drained(S, st) + 1 /\ a < st.at)
Now(S, st, w, a) == w = Drained(S, st) + 1 /\ a = st.at
Served(S, n, st, w, a) ==
  IF Past(S, st, w, a) THEN n[S[w][a]] ELSE IF Now(S, st, w, a) THEN st.tok ELSE 0

\* A list of works of one or two items each.
ListOK(I, S) == S \in Seq(Seq(I)) /\ \A w \in DOMAIN S : DOMAIN S[w] \in {1 .. 1, 1 .. 2}

\* The lane has drained the first works of S and is somewhere in the next one.
OnList(I, S, n, st) ==
  /\ st.works \in Seq(Seq(I)) /\ Len(st.works) <= Len(S)
  /\ \A w \in DOMAIN st.works : st.works[w] = S[Drained(S, st) + w]
  /\ st.tok \in Nat
  /\ IF st.works = <<>> THEN st.at = 1 /\ st.tok = 0
     ELSE /\ st.at \in DOMAIN Head(st.works)
          /\ st.tok > 0 => st.tok < n[Head(st.works)[st.at]]

\* One token of k on: the item's next token, the work's next item or the next work.
Moved(st, st2, k) ==
  IF st.tok + 1 < k THEN st2.works = st.works /\ st2.at = st.at /\ st2.tok = st.tok + 1
  ELSE /\ st2.tok = 0
       /\ IF st.at < Len(Head(st.works)) THEN st2.works = st.works /\ st2.at = st.at + 1
          ELSE st2.works = Tail(st.works) /\ st2.at = 1

\* A list and the items in it.
LEMMA ListFacts ==
    ASSUME NEW I, NEW S, ListOK(I, S)
    PROVE  /\ Len(S) \in Nat /\ DOMAIN S = 1 .. Len(S)
           /\ \A w \in DOMAIN S :
                /\ w \in Nat \ {0} /\ w <= Len(S) /\ S[w] \in Seq(I)
                /\ 1 \in DOMAIN S[w] /\ DOMAIN S[w] = 1 .. Len(S[w]) /\ Len(S[w]) \in {1, 2}
                /\ \A a \in DOMAIN S[w] : a \in {1, 2} /\ S[w][a] \in I
<1>1. S \in Seq(Seq(I)) /\ \A w \in DOMAIN S : DOMAIN S[w] \in {1 .. 1, 1 .. 2}
  BY DEF ListOK
<1>2. Len(S) \in Nat /\ DOMAIN S = 1 .. Len(S) /\ \A w \in DOMAIN S : S[w] \in Seq(I)
  BY <1>1
<1>3. ASSUME NEW w \in DOMAIN S
      PROVE  /\ w \in Nat \ {0} /\ w <= Len(S)
             /\ 1 \in DOMAIN S[w] /\ DOMAIN S[w] = 1 .. Len(S[w]) /\ Len(S[w]) \in {1, 2}
             /\ \A a \in DOMAIN S[w] : a \in {1, 2} /\ S[w][a] \in I
  <2> DEFINE x == S[w]
  <2>1. x \in Seq(I) /\ DOMAIN x \in {1 .. 1, 1 .. 2}
    BY <1>1, <1>2
  <2>2. w \in Nat \ {0} /\ w <= Len(S)
    BY <1>2
  <2> HIDE DEF x
  <2>3. DOMAIN x = 1 .. Len(x) /\ Len(x) \in Nat /\ \A a \in DOMAIN x : x[a] \in I
    BY <2>1
  <2>4. Len(x) \in {1, 2} /\ 1 \in DOMAIN x /\ \A a \in DOMAIN x : a \in {1, 2}
    BY <2>1, <2>3
  <2> QED
    BY <2>2, <2>3, <2>4 DEF x
<1> QED
  BY <1>2, <1>3

\* The head and the tail of a sequence.
LEMMA TailFacts ==
    ASSUME NEW X, NEW f \in Seq(X), f # <<>>
    PROVE  /\ Tail(f) \in Seq(X) /\ Len(Tail(f)) = Len(f) - 1
           /\ DOMAIN Tail(f) = 1 .. Len(f) - 1
           /\ \A w \in DOMAIN Tail(f) : w + 1 \in DOMAIN f /\ Tail(f)[w] = f[w + 1]
           /\ Head(f) = f[1] /\ 1 \in DOMAIN f /\ Len(f) \in Nat \ {0}
OBVIOUS

\* The work that a lane is at.
LEMMA FirstWork ==
    ASSUME NEW I, NEW S, ListOK(I, S), NEW n, NEW st, OnList(I, S, n, st), st.works # <<>>
    PROVE  LET w == Drained(S, st) + 1 IN
           /\ w \in DOMAIN S /\ w \in 1 .. Len(S) /\ Head(st.works) = S[w]
           /\ DOMAIN S[w] = 1 .. Len(S[w]) /\ Len(S[w]) \in {1, 2} /\ S[w] \in Seq(I)
           /\ st.at \in DOMAIN S[w] /\ S[w][st.at] \in I
           /\ Len(st.works) \in Nat \ {0} /\ Len(S) \in Nat
           /\ DOMAIN st.works = 1 .. Len(st.works)
<1>1. /\ st.works \in Seq(Seq(I)) /\ S \in Seq(Seq(I)) /\ Len(st.works) <= Len(S)
      /\ \A w \in DOMAIN st.works : st.works[w] = S[Drained(S, st) + w]
      /\ st.at \in DOMAIN Head(st.works)
  BY DEF OnList, ListOK
<1>2. /\ 1 \in DOMAIN st.works /\ Head(st.works) = st.works[1] /\ Len(st.works) \in Nat \ {0}
      /\ DOMAIN st.works = 1 .. Len(st.works) /\ Len(S) \in Nat /\ DOMAIN S = 1 .. Len(S)
  BY <1>1
<1>3. Drained(S, st) + 1 \in 1 .. Len(S)
  BY <1>1, <1>2 DEF Drained
<1> DEFINE w == Drained(S, st) + 1
<1>4. w \in DOMAIN S /\ Head(st.works) = S[w]
  BY <1>1, <1>2, <1>3
<1>5. S[w] \in Seq(I) /\ DOMAIN S[w] \in {1 .. 1, 1 .. 2}
  BY <1>1, <1>4 DEF ListOK
<1> HIDE DEF w
<1>6. DOMAIN S[w] = 1 .. Len(S[w]) /\ Len(S[w]) \in {1, 2}
  <2> DEFINE x == S[w]
  <2>1. x \in Seq(I) /\ DOMAIN x \in {1 .. 1, 1 .. 2}
    BY <1>5
  <2> HIDE DEF x
  <2>2. DOMAIN x = 1 .. Len(x) /\ Len(x) \in Nat
    BY <2>1
  <2>3. Len(x) \in {1, 2}
    BY <2>1, <2>2
  <2> QED
    BY <2>2, <2>3 DEF x
<1>7. st.at \in DOMAIN S[w] /\ S[w][st.at] \in I
  <2>1. st.at \in DOMAIN S[w]
    BY <1>1, <1>4, Zenon
  <2>2. \A x \in Seq(I) : \A a \in DOMAIN x : x[a] \in I
    OBVIOUS
  <2> QED
    BY <1>5, <2>1, <2>2, Zenon
<1> QED
  BY <1>2, <1>3, <1>4, <1>5, <1>6, <1>7 DEF w

\* How a move of a lane changes what is served of an item of its list.
ServesResult(S, n, st, st2) ==
  LET w0 == Drained(S, st) + 1
      k == n[S[w0][st.at]]
  IN  \A w \in DOMAIN S : \A a \in DOMAIN S[w] :
        Served(S, n, st2, w, a)
          = IF w = w0 /\ a = st.at THEN (IF k = 0 THEN 0 ELSE st.tok + 1)
            ELSE Served(S, n, st, w, a)

\* A move of a lane serves one token more of its item, and nothing of the others.
LEMMA MoveOn ==
    ASSUME NEW I, NEW S, ListOK(I, S), NEW n, \A i \in I : n[i] \in Nat,
           NEW st, OnList(I, S, n, st), st.works # <<>>, NEW st2,
           Moved(st, st2, n[Head(st.works)[st.at]])
    PROVE  OnList(I, S, n, st2) /\ ServesResult(S, n, st, st2)
<1> DEFINE w0 == Drained(S, st) + 1
           k == n[S[w0][st.at]]
<1>1. /\ w0 \in 1 .. Len(S) /\ Head(st.works) = S[w0]
      /\ DOMAIN S[w0] = 1 .. Len(S[w0]) /\ Len(S[w0]) \in {1, 2} /\ S[w0] \in Seq(I)
      /\ st.at \in DOMAIN S[w0] /\ S[w0][st.at] \in I
      /\ Len(st.works) \in Nat \ {0} /\ Len(S) \in Nat
      /\ DOMAIN st.works = 1 .. Len(st.works) /\ DOMAIN S = 1 .. Len(S)
  BY FirstWork DEF ListOK
<1>2. /\ st.works \in Seq(Seq(I)) /\ Len(st.works) <= Len(S)
      /\ \A w \in DOMAIN st.works : st.works[w] = S[Drained(S, st) + w]
      /\ st.tok \in Nat /\ (st.tok > 0 => st.tok < k) /\ k \in Nat
  BY <1>1 DEF OnList
<1>20. st.tok \in Nat /\ (st.tok > 0 => st.tok < k) /\ k \in Nat
  BY <1>2
<1>21. w0 \in Nat /\ st.at \in {1, 2} /\ st.at <= Len(S[w0]) /\ Drained(S, st) \in Nat
       /\ \A w \in DOMAIN S : \A a \in DOMAIN S[w] : w \in Nat /\ a \in {1, 2}
  <2>1. \A w \in DOMAIN S : \A a \in DOMAIN S[w] : w \in Nat /\ a \in {1, 2}
    BY ListFacts
  <2>2. w0 \in Nat /\ st.at \in {1, 2} /\ st.at <= Len(S[w0])
    BY <1>1
  <2>3. Len(st.works) <= Len(S)
    BY <1>2
  <2>4. Drained(S, st) \in Nat
    BY <1>1, <2>3 DEF Drained
  <2> QED
    BY <2>1, <2>2, <2>4
<1>3. Moved(st, st2, k) /\ w0 = Drained(S, st) + 1
  BY <1>1
<1> HIDE DEF ServesResult, w0, k
<1>4. CASE st.tok + 1 < k
  <2>1. st2.works = st.works /\ st2.at = st.at /\ st2.tok = st.tok + 1
    BY <1>3, <1>4 DEF Moved
  <2>2. Drained(S, st2) = Drained(S, st)
    BY <2>1 DEF Drained
  <2>3. OnList(I, S, n, st2)
    <3>1. n[Head(st.works)[st.at]] = k
      BY <1>1 DEF k
    <3>2. st.at \in DOMAIN Head(st.works)
      BY <1>1
    <3>3. st2.tok \in Nat /\ st2.tok < k
      BY <1>2, <1>4, <2>1
    <3> QED
      BY <1>2, <2>1, <2>2, <3>1, <3>2, <3>3 DEF OnList
  <2>4. ASSUME NEW w \in DOMAIN S, NEW a \in DOMAIN S[w]
        PROVE  Served(S, n, st2, w, a)
                 = IF w = w0 /\ a = st.at THEN (IF k = 0 THEN 0 ELSE st.tok + 1)
                   ELSE Served(S, n, st, w, a)
    <3>1. k # 0
      BY <1>2, <1>4
    <3>2. CASE w = w0 /\ a = st.at
      <4>1. ~ Past(S, st2, w, a) /\ Now(S, st2, w, a)
        BY <1>21, <1>3, <2>1, <2>2, <3>2 DEF Past, Now
      <4> QED
        BY <2>1, <3>1, <3>2, <4>1 DEF Served
    <3>3. CASE ~ (w = w0 /\ a = st.at)
      <4>1. /\ Past(S, st2, w, a) <=> Past(S, st, w, a)
            /\ ~ Now(S, st2, w, a) /\ ~ Now(S, st, w, a)
        BY <1>3, <2>1, <2>2, <3>3 DEF Past, Now
      <4> QED
        BY <3>3, <4>1 DEF Served
    <3> QED
      BY <3>2, <3>3
  <2> QED
    BY <2>3, <2>4 DEF ServesResult, w0, k
<1>5. CASE ~ (st.tok + 1 < k)
  <2>0. k = 0 \/ k = st.tok + 1
    BY <1>20, <1>5
  <2>1. CASE st.at < Len(S[w0])
    <3>1. st2.works = st.works /\ st2.at = st.at + 1 /\ st2.tok = 0
      BY <1>1, <1>3, <1>5, <2>1 DEF Moved
    <3>2. Drained(S, st2) = Drained(S, st)
      BY <3>1 DEF Drained
    <3>3. OnList(I, S, n, st2)
      <4>1. st.at + 1 \in DOMAIN Head(st.works)
        BY <1>1, <2>1
      <4>2. st2.works # <<>>
        BY <3>1
      <4>3. st2.tok \in Nat /\ ~ (st2.tok > 0)
        BY <3>1
      <4> QED
        BY <1>2, <3>1, <3>2, <4>1, <4>2, <4>3 DEF OnList
    <3>4. ASSUME NEW w \in DOMAIN S, NEW a \in DOMAIN S[w]
          PROVE  Served(S, n, st2, w, a)
                   = IF w = w0 /\ a = st.at THEN (IF k = 0 THEN 0 ELSE st.tok + 1)
                     ELSE Served(S, n, st, w, a)
      <4>1. CASE w = w0 /\ a = st.at
        <5>1. Past(S, st2, w, a)
          BY <1>1, <1>3, <3>1, <3>2, <4>1 DEF Past
        <5>2. n[S[w][a]] = k
          BY <4>1 DEF k
        <5> QED
          BY <2>0, <4>1, <5>1, <5>2 DEF Served
      <4>2. CASE w = w0 /\ a # st.at
        <5>0. a \in {1, 2} /\ st.at = 1
          BY <1>1, <2>1, <4>2
        <5>1. ~ Past(S, st2, w, a) /\ ~ Past(S, st, w, a) /\ ~ Now(S, st, w, a)
              /\ st2.tok = 0
          BY <1>3, <1>21, <3>1, <3>2, <4>2, <5>0 DEF Past, Now
        <5> QED
          BY <4>2, <5>1 DEF Served
      <4>3. CASE w # w0
        <5>1. /\ Past(S, st2, w, a) <=> Past(S, st, w, a)
              /\ ~ Now(S, st2, w, a) /\ ~ Now(S, st, w, a)
          BY <1>3, <3>2, <4>3 DEF Past, Now
        <5> QED
          BY <4>3, <5>1 DEF Served
      <4> QED
        BY <4>1, <4>2, <4>3
    <3> QED
      BY <3>3, <3>4 DEF ServesResult, w0, k
  <2>2. CASE ~ (st.at < Len(S[w0]))
    <3>1. st2.works = Tail(st.works) /\ st2.at = 1 /\ st2.tok = 0
      BY <1>1, <1>3, <1>5, <2>2 DEF Moved
    <3>2. /\ st2.works \in Seq(Seq(I)) /\ Len(st2.works) = Len(st.works) - 1
          /\ \A w \in DOMAIN st2.works : w + 1 \in DOMAIN st.works /\ st2.works[w] = st.works[w + 1]
          /\ DOMAIN st2.works = 1 .. Len(st2.works)
      <4> DEFINE f == st.works    X == Seq(I)
      <4>1. f \in Seq(X) /\ f # <<>>
        BY <1>2
      <4> HIDE DEF f, X
      <4>2. /\ Tail(f) \in Seq(X) /\ Len(Tail(f)) = Len(f) - 1
            /\ DOMAIN Tail(f) = 1 .. Len(f) - 1
            /\ \A w \in DOMAIN Tail(f) : w + 1 \in DOMAIN f /\ Tail(f)[w] = f[w + 1]
        BY <4>1, TailFacts
      <4> QED
        BY <3>1, <4>2 DEF f, X
    <3>21. Len(st2.works) \in Nat /\ Len(st2.works) = Len(st.works) - 1
      BY <1>1, <3>2
    <3>3. Drained(S, st2) = Drained(S, st) + 1
      BY <1>1, <3>21 DEF Drained
    <3>4. \A w \in DOMAIN st2.works : st2.works[w] = S[Drained(S, st2) + w]
      <4> TAKE w \in DOMAIN st2.works
      <4>1. w + 1 \in DOMAIN st.works /\ st2.works[w] = st.works[w + 1]
        BY <3>2
      <4>2. w \in Nat
        BY <3>2, <3>21
      <4>3. Drained(S, st) + (w + 1) = Drained(S, st2) + w
        BY <1>21, <3>3, <4>2
      <4> QED
        BY <1>2, <4>1, <4>3
    <3>5. OnList(I, S, n, st2)
      <4>1. CASE st2.works = <<>>
        <5>1. /\ st2.tok \in Nat /\ st2.at = 1 /\ st2.tok = 0 /\ Len(st2.works) <= Len(S)
          BY <1>1, <1>2, <3>1, <3>21
        <5>2. st2.works \in Seq(Seq(I))
          BY <3>2
        <5> QED
          BY <3>4, <4>1, <5>1, <5>2, Zenon DEF OnList
      <4>2. CASE st2.works # <<>>
        <5>1. /\ 1 \in DOMAIN st2.works /\ Head(st2.works) = st2.works[1]
              /\ st2.works[1] = S[Drained(S, st2) + 1]
          BY <3>2, <3>4, <4>2, SMTT(30)
        <5>2. Drained(S, st2) + 1 \in DOMAIN S
          <6>1. Len(st2.works) # 0
            BY <3>2, <5>1, SMTT(30)
          <6>2. Len(st.works) <= Len(S)
            BY <1>2
          <6>3. Len(st2.works) \in Nat \ {0} /\ Len(st2.works) <= Len(S) /\ Len(S) \in Nat
            BY <1>1, <3>21, <6>1, <6>2
          <6>4. Drained(S, st2) + 1 \in 1 .. Len(S)
            BY <6>3 DEF Drained
          <6> QED
            BY <1>1, <6>4
        <5>3. 1 \in DOMAIN Head(st2.works)
          BY <5>1, <5>2, ListFacts
        <5>4. /\ st2.tok \in Nat /\ ~ (st2.tok > 0) /\ st2.at = 1
              /\ Len(st2.works) <= Len(S)
          BY <1>1, <1>2, <3>1, <3>21
        <5>5. st2.works \in Seq(Seq(I))
          BY <3>2
        <5> QED
          BY <3>4, <4>2, <5>3, <5>4, <5>5, Zenon DEF OnList
      <4> QED
        BY <4>1, <4>2
    <3>6. ASSUME NEW w \in DOMAIN S, NEW a \in DOMAIN S[w]
          PROVE  Served(S, n, st2, w, a)
                   = IF w = w0 /\ a = st.at THEN (IF k = 0 THEN 0 ELSE st.tok + 1)
                     ELSE Served(S, n, st, w, a)
      <4>1. CASE w = w0 /\ a = st.at
        <5>1. Past(S, st2, w, a)
          BY <1>1, <1>3, <3>3, <4>1 DEF Past
        <5>2. n[S[w][a]] = k
          BY <4>1 DEF k
        <5> QED
          BY <2>0, <4>1, <5>1, <5>2 DEF Served
      <4>2. CASE w = w0 /\ a # st.at
        <5>0. a < st.at
          BY <1>1, <2>2, <4>2
        <5>1. Past(S, st2, w, a) /\ Past(S, st, w, a)
          BY <1>1, <1>3, <3>3, <4>2, <5>0 DEF Past
        <5> QED
          BY <4>2, <5>1 DEF Served
      <4>3. CASE w # w0
        <5>0. w \in Nat /\ a \in {1, 2} /\ Drained(S, st) \in Int
          BY <1>21
        <5>1. /\ Past(S, st2, w, a) <=> Past(S, st, w, a)
              /\ ~ Now(S, st, w, a)
              /\ Now(S, st2, w, a) => st2.tok = 0
          BY <1>3, <3>1, <3>3, <4>3, <5>0 DEF Past, Now
        <5> QED
          BY <3>1, <4>3, <5>1 DEF Served
      <4> QED
        BY <4>1, <4>2, <4>3
    <3> QED
      BY <3>5, <3>6 DEF ServesResult, w0, k
  <2> QED
    BY <2>1, <2>2
<1> QED
  BY <1>4, <1>5

\* At the start nothing is served, in the end everything.
LEMMA StartOnList ==
    ASSUME NEW I, NEW S, ListOK(I, S), NEW n
    PROVE  /\ OnList(I, S, n, Start(S))
           /\ \A w \in DOMAIN S : \A a \in DOMAIN S[w] : Served(S, n, Start(S), w, a) = 0
<1> DEFINE st == Start(S)
<1>1. st.works = S /\ st.at = 1 /\ st.tok = 0
  BY DEF Start
<1> HIDE DEF st
<1>2. S \in Seq(Seq(I)) /\ Len(S) \in Nat /\ DOMAIN S = 1 .. Len(S)
  BY DEF ListOK
<1>3. Drained(S, st) = 0
  BY <1>1, <1>2 DEF Drained
<1>4. OnList(I, S, n, st)
  <2>1. S # <<>> => 1 \in DOMAIN S /\ Head(S) = S[1]
    BY <1>2
  <2>2. S # <<>> => 1 \in DOMAIN Head(S)
    BY <2>1, ListFacts
  <2> QED
    BY <1>1, <1>2, <1>3, <2>2 DEF OnList
<1>5. ASSUME NEW w \in DOMAIN S, NEW a \in DOMAIN S[w]
      PROVE  Served(S, n, st, w, a) = 0
  <2>1. w \in Nat \ {0} /\ a \in Nat \ {0}
    BY ListFacts
  <2>2. ~ Past(S, st, w, a)
    BY <1>1, <1>3, <2>1 DEF Past
  <2> QED
    BY <1>1, <2>2 DEF Served
<1> QED
  BY <1>4, <1>5 DEF st

\* A lane without works has served everything on its list.
LEMMA EndOnList ==
    ASSUME NEW I, NEW S, ListOK(I, S), NEW n, NEW st, st.works = <<>>
    PROVE  \A w \in DOMAIN S : \A a \in DOMAIN S[w] : Served(S, n, st, w, a) = n[S[w][a]]
<1>1. S \in Seq(Seq(I)) /\ Len(S) \in Nat /\ DOMAIN S = 1 .. Len(S) /\ Len(st.works) = 0
  BY DEF ListOK
<1>2. Drained(S, st) = Len(S)
  BY <1>1 DEF Drained
<1> QED
  BY <1>1, <1>2 DEF Served, Past
-----------------------------------------------------------------------------
(* The ring and the tiles of a lane.                                       *)

\* A ring and a lane's record, by their parts.
RingRec(s, h, e) == [slot |-> s, head |-> h, tail |-> e]
\* A lane from its parts.
LaneRec(w, a, k, u, r) == [works |-> w, at |-> a, tok |-> k, ub |-> u, ring |-> r]

\* A ring with m inputs in it.
RingOK(r, m) ==
  /\ r = RingRec(r.slot, r.head, r.tail)
  /\ r.slot = [j \in 0 .. DEPTH - 1 |-> r.slot[j]]
  /\ r.tail \in Nat
  /\ r.head = r.tail + m

\* The parts of a ring, the ring without its front, and its front.
LEMMA RingParts ==
    ASSUME NEW s, NEW h, NEW e
    PROVE  /\ RingRec(s, h, e).slot = s /\ RingRec(s, h, e).head = h /\ RingRec(s, h, e).tail = e
           /\ Pop(RingRec(s, h, e)) = RingRec(s, h, e + 1)
           /\ Front(RingRec(s, h, e)) = s[e % 2]
<1> DEFINE p == RingRec(s, h, e)
<1>1. p.slot = s /\ p.head = h /\ p.tail = e
  BY DEF RingRec
<1>2. Pop(p) = RingRec(s, h, e + 1)
  BY <1>1 DEF Pop, RingRec
<1>3. Front(p) = s[e % 2]
  BY <1>1 DEF Front, DEPTH
<1> QED
  BY <1>1, <1>2, <1>3

\* The ring with one input more.
LEMMA RingPush ==
    ASSUME NEW s, NEW h, NEW e, NEW x
    PROVE  Push(RingRec(s, h, e), x) = RingRec([s EXCEPT ![h % 2] = x], h + 1, e)
<1> DEFINE p == RingRec(s, h, e)
           s1 == [p.slot EXCEPT ![p.head % DEPTH] = x]
           p1 == [p EXCEPT !.slot = s1]
<1>1. p.slot = s /\ p.head = h /\ p.tail = e
  BY RingParts
<1>2. s1 = [s EXCEPT ![h % 2] = x]
  BY <1>1 DEF DEPTH
<1> HIDE DEF s1
<1>3. p1 = RingRec(s1, h, e)
  BY DEF RingRec
<1> HIDE DEF p, p1
<1>4. p1.head = h
  BY <1>3, RingParts
<1>5. [p1 EXCEPT !.head = h + 1] = RingRec(s1, h + 1, e)
  BY <1>3 DEF RingRec
<1>6. Push(p, x) = [p1 EXCEPT !.head = h + 1]
  BY <1>1, <1>4 DEF Push, p1, s1
<1> QED
  BY <1>2, <1>5, <1>6 DEF p

\* A ring from its parts.
LEMMA RingIs ==
    ASSUME NEW s, NEW h, NEW e \in Nat, NEW m \in Nat, s = [j \in 0 .. 1 |-> s[j]],
           h = e + m
    PROVE  RingOK(RingRec(s, h, e), m)
BY RingParts DEF RingOK, DEPTH

\* The ring that a lane starts with is empty.
LEMMA RingEmpty == RingOK(EmptyRing, 0)
BY DEF RingOK, RingRec, EmptyRing, DEPTH

\* Writing to an empty ring.
LEMMA RingFill ==
    ASSUME NEW r, NEW x, RingOK(r, 0)
    PROVE  RingOK(Push(r, x), 1) /\ Front(Push(r, x)) = x
<1> DEFINE s == r.slot    e == r.tail    s2 == [s EXCEPT ![e % 2] = x]
<1>1. r = RingRec(s, e, e) /\ s = [j \in 0 .. 1 |-> s[j]] /\ e \in Nat /\ e % 2 \in 0 .. 1
  BY DEF RingOK, DEPTH
<1> HIDE DEF s, e
<1>2. Push(r, x) = RingRec(s2, e + 1, e)
  BY <1>1, RingPush
<1>3. s2 = [j \in 0 .. 1 |-> s2[j]] /\ s2[e % 2] = x
  BY <1>1
<1> HIDE DEF s2
<1>4. RingOK(RingRec(s2, e + 1, e), 1)
  <2>1. e + 1 = e + 1
    OBVIOUS
  <2> QED
    BY <1>1, <1>3, <2>1, RingIs
<1>5. Front(RingRec(s2, e + 1, e)) = x
  BY <1>3, RingParts
<1> QED
  BY <1>2, <1>4, <1>5

\* Reading what is in a ring, and writing before that.
LEMMA RingDrain ==
    ASSUME NEW r, RingOK(r, 1)
    PROVE  /\ RingOK(Pop(r), 0)
           /\ \A x : /\ Front(Push(r, x)) = Front(r)
                     /\ RingOK(Pop(Push(r, x)), 1) /\ Front(Pop(Push(r, x))) = x
<1> DEFINE s == r.slot    e == r.tail    h == e + 1
<1>1. /\ r = RingRec(s, h, e) /\ s = [j \in 0 .. 1 |-> s[j]] /\ e \in Nat
      /\ e % 2 \in 0 .. 1 /\ h % 2 \in 0 .. 1 /\ h % 2 # e % 2 /\ h \in Nat
  BY DEF RingOK, DEPTH
<1> HIDE DEF s, e
<1>2. RingOK(Pop(r), 0)
  <2>1. Pop(r) = RingRec(s, h, h)
    BY <1>1, RingParts
  <2>2. h = h + 0
    BY <1>1
  <2>3. RingOK(RingRec(s, h, h), 0)
    BY <1>1, <2>2, RingIs
  <2> QED
    BY <2>1, <2>3
<1>3. ASSUME NEW x
      PROVE  /\ Front(Push(r, x)) = Front(r)
             /\ RingOK(Pop(Push(r, x)), 1) /\ Front(Pop(Push(r, x))) = x
  <2> DEFINE s2 == [s EXCEPT ![h % 2] = x]
  <2>1. s2 = [j \in 0 .. 1 |-> s2[j]] /\ s2[h % 2] = x /\ s2[e % 2] = s[e % 2]
    BY <1>1
  <2>2. Push(r, x) = RingRec(s2, h + 1, e)
    BY <1>1, RingPush
  <2> HIDE DEF s2, h
  <2>3. Front(Push(r, x)) = s2[e % 2] /\ Front(r) = s[e % 2]
    BY <1>1, <2>2, RingParts
  <2>4. Pop(Push(r, x)) = RingRec(s2, h + 1, h)
    <3>1. Pop(RingRec(s2, h + 1, e)) = RingRec(s2, h + 1, e + 1)
      BY RingParts
    <3> QED
      BY <2>2, <3>1 DEF h
  <2>5. RingOK(RingRec(s2, h + 1, h), 1)
    <3>1. h + 1 = h + 1
      OBVIOUS
    <3> QED
      BY <1>1, <2>1, <3>1, RingIs
  <2>6. Front(RingRec(s2, h + 1, h)) = x
    BY <2>1, RingParts
  <2> QED
    BY <2>1, <2>3, <2>4, <2>5, <2>6
<1> QED
  BY <1>2, <1>3

\* A lane's record whose tiles are a pair.
Made(st) ==
  /\ st = LaneRec(st.works, st.at, st.tok, st.ub, st.ring)
  /\ st.ub = <<st.ub[1], st.ub[2]>>

\* The parts of a lane.
LEMMA RecParts ==
    ASSUME NEW w, NEW a, NEW k, NEW u, NEW r
    PROVE  LET st == LaneRec(w, a, k, u, r) IN
           st.works = w /\ st.at = a /\ st.tok = k /\ st.ub = u /\ st.ring = r
BY DEF LaneRec

\* A lane from its parts is well made.
LEMMA RecMade ==
    ASSUME NEW w, NEW a, NEW k, NEW x1, NEW x2, NEW r
    PROVE  Made(LaneRec(w, a, k, <<x1, x2>>, r))
<1> DEFINE u == <<x1, x2>>    st == LaneRec(w, a, k, u, r)
<1>1. u = <<u[1], u[2]>>
  OBVIOUS
<1> HIDE DEF u
<1>2. st.works = w /\ st.at = a /\ st.tok = k /\ st.ub = u /\ st.ring = r
  BY RecParts
<1> HIDE DEF st
<1>3. Made(st)
  BY <1>1, <1>2 DEF Made, st
<1> QED
  BY <1>3 DEF st, u

\* The steps of a lane: its ring alone, a tile and the ring, with or without a
\* token served, and the way to the next item.
SetRing(st, g) == [st EXCEPT !.ring = g]
SetTile(st, a, v, g) == [st EXCEPT !.ub[a] = v, !.ring = g]
SetAll(st, a, v, g, t) == [st EXCEPT !.ub[a] = v, !.ring = g, !.tok = t]

\* A change of the ring alone.
LEMMA RecSetRing ==
    ASSUME NEW w, NEW a, NEW k, NEW u, NEW r, NEW g
    PROVE  SetRing(LaneRec(w, a, k, u, r), g) = LaneRec(w, a, k, u, g)
BY DEF LaneRec, SetRing

\* A change of one tile and of the ring.
LEMMA RecSetTile ==
    ASSUME NEW w, NEW a, NEW k, NEW u, NEW r, NEW i, NEW v, NEW g, NEW t
    PROVE  /\ SetTile(LaneRec(w, a, k, u, r), i, v, g)
                = LaneRec(w, a, k, [u EXCEPT ![i] = v], g)
           /\ SetAll(LaneRec(w, a, k, u, r), i, v, g, t)
                = LaneRec(w, a, t, [u EXCEPT ![i] = v], g)
<1> DEFINE st == LaneRec(w, a, k, u, r)
           u2 == [st.ub EXCEPT ![i] = v]
           s1 == [st EXCEPT !.ub = u2]
           s2 == [s1 EXCEPT !.ring = g]
           s3 == [s2 EXCEPT !.tok = t]
<1>1. u2 = [u EXCEPT ![i] = v]
  BY DEF LaneRec
<1> HIDE DEF u2
<1>2. s1 = LaneRec(w, a, k, u2, r)
  BY DEF LaneRec
<1> HIDE DEF s1
<1>3. s2 = LaneRec(w, a, k, u2, g)
  BY <1>2 DEF LaneRec
<1> HIDE DEF s2
<1>4. s3 = LaneRec(w, a, t, u2, g)
  BY <1>3 DEF LaneRec
<1> HIDE DEF s3, st
<1>5. SetTile(st, i, v, g) = s2 /\ SetAll(st, i, v, g, t) = s3
  BY DEF SetTile, SetAll, s3, s2, s1, u2
<1> QED
  BY <1>1, <1>3, <1>4, <1>5 DEF st

\* The next item is of the same work or of the next one.
LEMMA RecNext ==
    ASSUME NEW w, NEW a, NEW k, NEW u, NEW r
    PROVE  NextItem(LaneRec(w, a, k, u, r))
             = IF a < Len(Head(w)) THEN LaneRec(w, a + 1, 0, u, r)
               ELSE LaneRec(Tail(w), 1, 0, u, r)
<1> DEFINE w2 == Tail(w)
           st == LaneRec(w, a, k, u, r)
           s1 == [st EXCEPT !.at = a + 1]
           s2 == [s1 EXCEPT !.tok = 0]
           s3 == [st EXCEPT !.works = w2]
           s4 == [s3 EXCEPT !.at = 1]
           s5 == [s4 EXCEPT !.tok = 0]
<1>0. st.works = w /\ st.at = a /\ st.tok = k /\ st.ub = u /\ st.ring = r
  BY RecParts
<1> HIDE DEF w2
<1>1. s1 = LaneRec(w, a + 1, k, u, r)
  BY DEF LaneRec
<1>2. s3 = LaneRec(w2, a, k, u, r)
  BY DEF LaneRec
<1> HIDE DEF s1, s3
<1>3. s2 = LaneRec(w, a + 1, 0, u, r)
  BY <1>1 DEF LaneRec
<1>4. s4 = LaneRec(w2, 1, k, u, r)
  BY <1>2 DEF LaneRec
<1> HIDE DEF s2, s4
<1>5. s5 = LaneRec(w2, 1, 0, u, r)
  BY <1>4 DEF LaneRec
<1> HIDE DEF s5, st
<1>6. NextItem(st) = IF a < Len(Head(w)) THEN s2 ELSE s5
  BY <1>0 DEF NextItem, s1, s2, s3, s4, s5, w2
<1> QED
  BY <1>3, <1>5, <1>6 DEF st, w2

\* What a step leaves of the record's parts.
Parts(st, w, a, k, r) ==
  Made(st) /\ st.works = w /\ st.at = a /\ st.tok = k /\ st.ring = r

\* The parts of a lane with two tiles.
LEMMA MadeParts ==
    ASSUME NEW w, NEW a, NEW k, NEW x1, NEW x2, NEW r
    PROVE  LET st == LaneRec(w, a, k, <<x1, x2>>, r) IN
           Parts(st, w, a, k, r) /\ st.ub[1] = x1 /\ st.ub[2] = x2
<1> DEFINE u == <<x1, x2>>    s1 == LaneRec(w, a, k, u, r)
<1>1. u[1] = x1 /\ u[2] = x2
  OBVIOUS
<1>2. Made(s1)
  BY RecMade
<1> HIDE DEF u
<1>3. s1.works = w /\ s1.at = a /\ s1.tok = k /\ s1.ub = u /\ s1.ring = r
  BY RecParts
<1> HIDE DEF s1
<1>4. Parts(s1, w, a, k, r) /\ s1.ub[1] = x1 /\ s1.ub[2] = x2
  BY <1>1, <1>2, <1>3 DEF Parts
<1> QED
  BY <1>4 DEF s1, u

\* A change of the ring keeps all other parts.
LEMMA MadeSetRing ==
    ASSUME NEW st, Made(st), NEW g
    PROVE  /\ Parts(SetRing(st, g), st.works, st.at, st.tok, g)
           /\ SetRing(st, g).ub[1] = st.ub[1] /\ SetRing(st, g).ub[2] = st.ub[2]
<1> DEFINE w == st.works    p == st.at    k == st.tok    r == st.ring
           x1 == st.ub[1]    x2 == st.ub[2]    s2 == SetRing(st, g)
<1>1. st = LaneRec(w, p, k, <<x1, x2>>, r)
  BY DEF Made
<1> HIDE DEF w, p, k, r, x1, x2
<1>2. s2 = LaneRec(w, p, k, <<x1, x2>>, g)
  BY <1>1, RecSetRing
<1> HIDE DEF s2
<1>3. Parts(s2, w, p, k, g) /\ s2.ub[1] = x1 /\ s2.ub[2] = x2
  BY <1>2, MadeParts
<1> QED
  BY <1>3 DEF w, p, k, r, x1, x2, s2

\* A change of one tile keeps the other.
LEMMA MadeSetTile ==
    ASSUME NEW st, Made(st), NEW a \in {1, 2}, NEW v, NEW g, NEW t
    PROVE  /\ Parts(SetTile(st, a, v, g), st.works, st.at, st.tok, g)
           /\ SetTile(st, a, v, g).ub[a] = v
           /\ SetTile(st, a, v, g).ub[3 - a] = st.ub[3 - a]
           /\ Parts(SetAll(st, a, v, g, t), st.works, st.at, t, g)
           /\ SetAll(st, a, v, g, t).ub[a] = v
           /\ SetAll(st, a, v, g, t).ub[3 - a] = st.ub[3 - a]
<1> DEFINE w == st.works    p == st.at    k == st.tok    r == st.ring
           x1 == st.ub[1]    x2 == st.ub[2]
           y1 == IF a = 1 THEN v ELSE x1    y2 == IF a = 1 THEN x2 ELSE v
           s2 == SetTile(st, a, v, g)    s3 == SetAll(st, a, v, g, t)
<1>1. st = LaneRec(w, p, k, <<x1, x2>>, r)
  BY DEF Made
<1>2. \/ a = 1 /\ 3 - a = 2 /\ y1 = v /\ y2 = x2
      \/ a = 2 /\ 3 - a = 1 /\ y1 = x1 /\ y2 = v
  OBVIOUS
<1>3. [<<x1, x2>> EXCEPT ![a] = v] = <<y1, y2>>
  <2>1. CASE a = 1
    BY <2>1
  <2>2. CASE a = 2
    BY <2>2
  <2> QED
    BY <2>1, <2>2
<1> HIDE DEF w, p, k, r, y1, y2
<1>4. s2 = LaneRec(w, p, k, [<<x1, x2>> EXCEPT ![a] = v], g)
      /\ s3 = LaneRec(w, p, t, [<<x1, x2>> EXCEPT ![a] = v], g)
  BY <1>1, RecSetTile
<1> HIDE DEF x1, x2, s2, s3
<1>5. s2 = LaneRec(w, p, k, <<y1, y2>>, g) /\ s3 = LaneRec(w, p, t, <<y1, y2>>, g)
  BY <1>3, <1>4
<1>6. Parts(s2, w, p, k, g) /\ s2.ub[1] = y1 /\ s2.ub[2] = y2
  BY <1>5, MadeParts
<1>7. Parts(s3, w, p, t, g) /\ s3.ub[1] = y1 /\ s3.ub[2] = y2
  BY <1>5, MadeParts
<1>8. st.ub[1] = x1 /\ st.ub[2] = x2
  BY DEF x1, x2
<1>9. s2.ub[a] = v /\ s2.ub[3 - a] = st.ub[3 - a]
  BY <1>2, <1>6, <1>8
<1>10. s3.ub[a] = v /\ s3.ub[3 - a] = st.ub[3 - a]
  BY <1>2, <1>7, <1>8
<1> QED
  BY <1>6, <1>7, <1>9, <1>10 DEF w, p, k, s2, s3

\* Going on to the next item keeps the tiles and the ring.
LEMMA MadeNext ==
    ASSUME NEW st, Made(st)
    PROVE  LET s2 == NextItem(st)
               w2 == IF st.at < Len(Head(st.works)) THEN st.works ELSE Tail(st.works)
               a2 == IF st.at < Len(Head(st.works)) THEN st.at + 1 ELSE 1
           IN  Parts(s2, w2, a2, 0, st.ring) /\ s2.ub[1] = st.ub[1] /\ s2.ub[2] = st.ub[2]
<1> DEFINE w == st.works    p == st.at    k == st.tok    r == st.ring
           x1 == st.ub[1]    x2 == st.ub[2]    s2 == NextItem(st)
           c == p < Len(Head(w))
           w2 == IF c THEN w ELSE Tail(w)    a2 == IF c THEN p + 1 ELSE 1
<1>1. st = LaneRec(w, p, k, <<x1, x2>>, r)
  BY DEF Made
<1> HIDE DEF w, p, k, r, x1, x2
<1>2. s2 = IF c THEN LaneRec(w, p + 1, 0, <<x1, x2>>, r) ELSE LaneRec(Tail(w), 1, 0, <<x1, x2>>, r)
  BY <1>1, RecNext
<1> HIDE DEF s2, c
<1>3. s2 = LaneRec(w2, a2, 0, <<x1, x2>>, r)
  BY <1>2
<1> HIDE DEF w2, a2
<1>4. Parts(s2, w2, a2, 0, r) /\ s2.ub[1] = x1 /\ s2.ub[2] = x2
  BY <1>3, MadeParts
<1> QED
  BY <1>4 DEF w, p, r, x1, x2, s2, c, w2, a2

\* The input or record of the token before a lane has been fetched.
Fetched(commit, n, st) ==
  /\ st.works # <<>>
  /\ \/ st.tok > 0
     \/ /\ commit /\ st.at = 2
        /\ n[Head(st.works)[1]] # 0 /\ n[Head(st.works)[2]] # 0

\* A lane is somewhere on its list, with an input in its ring if one was fetched.
LaneAt(I, S, n, commit, st) ==
  /\ Made(st) /\ OnList(I, S, n, st) /\ RingOK(st.ring, IF Fetched(commit, n, st) THEN 1 ELSE 0)

\* The ring of the kernels that fetch one token ahead.
LEMMA AheadRing ==
    ASSUME NEW st, NEW i, NEW len, st.tok \in Nat, RingOK(st.ring, IF st.tok > 0 THEN 1 ELSE 0)
    PROVE  /\ Front(Opened(st, i)) = IF st.tok = 0 THEN Input(i, 0) ELSE Front(st.ring)
           /\ RingOK(Ahead(st, i, len), IF st.tok + 1 < len THEN 1 ELSE 0)
           /\ st.tok + 1 < len => Front(Ahead(st, i, len)) = Input(i, st.tok + 1)
<1> DEFINE o == Opened(st, i)    y == Input(i, st.tok + 1)    g == Ahead(st, i, len)
<1>1. RingOK(o, 1) /\ Front(o) = IF st.tok = 0 THEN Input(i, 0) ELSE Front(st.ring)
  <2>1. CASE st.tok = 0
    <3>1. RingOK(st.ring, 0)
      BY <2>1
    <3>2. o = Push(st.ring, Input(i, 0))
      BY <2>1 DEF Opened
    <3> QED
      BY <2>1, <3>1, <3>2, RingFill
  <2>2. CASE st.tok # 0
    <3>1. o = st.ring
      BY <2>2 DEF Opened
    <3>2. RingOK(st.ring, 1)
      BY <2>2
    <3> QED
      BY <2>2, <3>1, <3>2
  <2> QED
    BY <2>1, <2>2
<1>2. g = IF st.tok + 1 < len THEN Push(Pop(o), y) ELSE Pop(o)
  BY DEF Ahead
<1> HIDE DEF o, y, g
<1>3. RingOK(Pop(o), 0)
  BY <1>1, RingDrain
<1>4. RingOK(Push(Pop(o), y), 1) /\ Front(Push(Pop(o), y)) = y
  BY <1>3, RingFill
<1>5. RingOK(g, IF st.tok + 1 < len THEN 1 ELSE 0) /\ (st.tok + 1 < len => Front(g) = y)
  <2>1. CASE st.tok + 1 < len
    <3>1. (st.tok + 1 < len) = TRUE
      BY <2>1
    <3> QED
      BY <1>2, <1>4, <2>1, <3>1
  <2>2. CASE ~ (st.tok + 1 < len)
    <3>1. (st.tok + 1 < len) = FALSE
      BY <2>2
    <3> QED
      BY <1>2, <1>3, <2>2, <3>1
  <2> QED
    BY <2>1, <2>2
<1> QED
  BY <1>1, <1>5 DEF o, y, g

\* A token of the verify or of the snapshot kernel.
AheadResult(I, S, n, st, v) ==
  LET i    == Head(st.works)[st.at]
      len  == n[i]
      step == SetAll(st, 1, v, Ahead(st, i, len), st.tok + 1)
      st2  == IF st.tok + 1 < len THEN step ELSE NextItem(step)
  IN  /\ LaneAt(I, S, n, FALSE, st2) /\ Moved(st, st2, len)
      /\ Front(Opened(st, i)) = IF st.tok = 0 THEN Input(i, 0) ELSE Front(st.ring)
      /\ IF st.tok + 1 < len
         THEN /\ st2.works = st.works /\ st2.at = st.at /\ st2.tok = st.tok + 1
              /\ st2.ub[1] = v /\ Front(st2.ring) = Input(i, st2.tok)
         ELSE st2.tok = 0

\* A step of a kernel that fetches one token ahead keeps the lane on its list.
LEMMA AheadMove ==
    ASSUME NEW I, NEW S, ListOK(I, S), NEW n, \A i \in I : n[i] \in Nat,
           NEW st, LaneAt(I, S, n, FALSE, st), st.works # <<>>, NEW v
    PROVE  AheadResult(I, S, n, st, v)
<1> DEFINE i == Head(st.works)[st.at]    len == n[i]    g == Ahead(st, i, len)
           step == SetAll(st, 1, v, g, st.tok + 1)
           st2 == IF st.tok + 1 < len THEN step ELSE NextItem(step)
<1>0. Made(st) /\ OnList(I, S, n, st) /\ st.tok \in Nat /\ RingOK(st.ring, IF Fetched(FALSE, n, st) THEN 1 ELSE 0)
  BY DEF LaneAt, OnList
<1>1. /\ Front(Opened(st, i)) = IF st.tok = 0 THEN Input(i, 0) ELSE Front(st.ring)
      /\ RingOK(g, IF st.tok + 1 < len THEN 1 ELSE 0)
      /\ st.tok + 1 < len => Front(g) = Input(i, st.tok + 1)
  <2>1. Fetched(FALSE, n, st) <=> st.tok > 0
    BY <1>0 DEF Fetched
  <2>2. RingOK(st.ring, IF st.tok > 0 THEN 1 ELSE 0)
    BY <1>0, <2>1
  <2> HIDE DEF i, len
  <2> QED
    BY <1>0, <2>2, AheadRing
<1> HIDE DEF i, len, g
<1>2. Parts(step, st.works, st.at, st.tok + 1, g) /\ step.ub[1] = v
  BY <1>0, MadeSetTile
<1> HIDE DEF step
<1>3. Parts(NextItem(step), IF st.at < Len(Head(st.works)) THEN st.works ELSE Tail(st.works),
            IF st.at < Len(Head(st.works)) THEN st.at + 1 ELSE 1, 0, g)
  BY <1>2, MadeNext DEF Parts
<1>4. CASE st.tok + 1 < len
  <2>1. st2 = step
    BY <1>4
  <2>2. Moved(st, st2, len)
    BY <1>2, <1>4, <2>1 DEF Parts, Moved
  <2>3. OnList(I, S, n, st2)
    BY <1>0, <2>2, MoveOn DEF i, len
  <2>4. Fetched(FALSE, n, st2) <=> st.tok + 1 < len
    BY <1>0, <1>2, <1>4, <2>1 DEF Fetched, Parts
  <2>5. RingOK(st2.ring, IF Fetched(FALSE, n, st2) THEN 1 ELSE 0)
    BY <1>1, <1>2, <2>1, <2>4 DEF Parts
  <2>6. LaneAt(I, S, n, FALSE, st2)
    BY <1>2, <2>1, <2>3, <2>5 DEF LaneAt, Parts
  <2>7. /\ st2.works = st.works /\ st2.at = st.at /\ st2.tok = st.tok + 1
        /\ st2.ub[1] = v /\ Front(st2.ring) = Input(i, st2.tok)
    BY <1>1, <1>2, <1>4, <2>1 DEF Parts
  <2> QED
    BY <1>1, <1>4, <2>2, <2>6, <2>7 DEF AheadResult, i, len, g, step
<1>5. CASE ~ (st.tok + 1 < len)
  <2>1. st2 = NextItem(step)
    BY <1>5
  <2> HIDE DEF st2
  <2>2. Moved(st, st2, len)
    BY <1>3, <1>5, <2>1 DEF Parts, Moved
  <2>3. OnList(I, S, n, st2)
    BY <1>0, <2>2, MoveOn DEF i, len
  <2>4. (Fetched(FALSE, n, st2) <=> st.tok + 1 < len) /\ st2.tok = 0
    BY <1>3, <1>5, <2>1 DEF Fetched, Parts
  <2>5. RingOK(st2.ring, IF Fetched(FALSE, n, st2) THEN 1 ELSE 0)
    BY <1>1, <1>3, <2>1, <2>4 DEF Parts
  <2>6. LaneAt(I, S, n, FALSE, st2)
    BY <1>3, <2>1, <2>3, <2>5 DEF LaneAt, Parts
  <2> QED
    BY <1>1, <1>5, <2>2, <2>4, <2>6 DEF AheadResult, i, len, g, step, st2
<1> QED
  BY <1>4, <1>5
-----------------------------------------------------------------------------
(* The commit kernel fetches the next record, or the pair's other item.    *)

\* An item's rows and first record are fetched when the lane comes to it, unless
\* the fetch was made with the last token of the pair's first item.
OpenAt(n, st) ==
  IF st.tok = 0 /\ ~ (st.at = 2 /\ n[Head(st.works)[1]] # 0) THEN FetchItem(st, st.at) ELSE st

\* Then the record of the next token is fetched, or the pair's second item, or nothing.
FetchAt(n, st) ==
  LET i == Head(st.works)[st.at]
      last == st.tok + 1 = n[i]
  IN  CASE ~last -> FetchNextToken(OpenAt(n, st), i)
        [] last /\ st.at < Len(Head(st.works)) /\ n[Head(st.works)[2]] > 0 ->
             FetchItem(OpenAt(n, st), 2)
        [] OTHER -> OpenAt(n, st)

\* The two ways of fetching, as changes of the tile and of the ring.
LEMMA FetchIs ==
    ASSUME NEW st, Made(st), NEW a \in {1, 2}, NEW i
    PROVE  /\ FetchItem(st, a) = SetTile(st, a, LoadRows(Head(st.works)[a]),
                                         Push(st.ring, Record(Head(st.works)[a], 0)))
           /\ FetchNextToken(st, i) = SetRing(st, Push(st.ring, Record(i, st.tok + 1)))
<1>1. FetchNextToken(st, i) = SetRing(st, Push(st.ring, Record(i, st.tok + 1)))
  BY DEF FetchNextToken, SetRing
<1> DEFINE j == Head(st.works)[a]    y == Record(j, 0)    x == LoadRows(j)
           s1 == [st EXCEPT !.ub[a] = x]
<1>2. FetchItem(st, a) = [st EXCEPT !.ub[a] = x, !.ring = Push(st.ring, y)]
  BY DEF FetchItem
<1> QED
  BY <1>1, <1>2 DEF SetTile

\* The lane in whose ring and tile the record and the state are.
LEMMA OpenFacts ==
    ASSUME NEW I, NEW S, ListOK(I, S), NEW n, \A i \in I : n[i] \in Nat,
           NEW st, LaneAt(I, S, n, TRUE, st), st.works # <<>>, n[Head(st.works)[st.at]] > 0
    PROVE  LET o == OpenAt(n, st)
               i == Head(st.works)[st.at]
           IN  /\ Parts(o, st.works, st.at, st.tok, o.ring) /\ RingOK(o.ring, 1)
               /\ IF Fetched(TRUE, n, st)
                  THEN Front(o.ring) = Front(st.ring) /\ o.ub[st.at] = st.ub[st.at]
                  ELSE Front(o.ring) = Record(i, 0) /\ o.ub[st.at] = LoadRows(i) /\ st.tok = 0
<1> DEFINE o == OpenAt(n, st)    i == Head(st.works)[st.at]
           fa == st.at = 2 /\ n[Head(st.works)[1]] # 0
<1>1. Made(st) /\ OnList(I, S, n, st) /\ RingOK(st.ring, IF Fetched(TRUE, n, st) THEN 1 ELSE 0)
      /\ st.tok \in Nat
  BY DEF LaneAt, OnList
<1>2. st.at \in {1, 2}
  <2> DEFINE w == Drained(S, st) + 1
  <2>1. st.at \in DOMAIN S[w] /\ w \in DOMAIN S
    BY <1>1, FirstWork
  <2> HIDE DEF w
  <2> QED
    BY <2>1, ListFacts
<1>3. Fetched(TRUE, n, st) <=> st.tok # 0 \/ fa
  BY <1>1 DEF Fetched
<1>10. o = IF st.tok = 0 /\ ~ fa THEN FetchItem(st, st.at) ELSE st
  BY DEF OpenAt
<1> HIDE DEF fa
<1>4. CASE st.tok = 0 /\ ~ fa
  <2> DEFINE g == Push(st.ring, Record(i, 0))
  <2>1. o = SetTile(st, st.at, LoadRows(i), g)
    BY <1>1, <1>2, <1>4, <1>10, FetchIs
  <2>20. ~ Fetched(TRUE, n, st)
    BY <1>3, <1>4, Zenon
  <2>2. RingOK(st.ring, 0)
    BY <1>1, <2>20
  <2>3. RingOK(g, 1) /\ Front(g) = Record(i, 0)
    BY <2>2, RingFill
  <2> HIDE DEF o, i, g
  <2>4. Parts(o, st.works, st.at, st.tok, g) /\ o.ub[st.at] = LoadRows(i)
    BY <1>1, <1>2, <2>1, MadeSetTile
  <2>5. ~ Fetched(TRUE, n, st)
    BY <1>3, <1>4, Zenon
  <2> QED
    BY <1>4, <2>3, <2>4, <2>5 DEF Parts, o, i
<1>5. CASE ~ (st.tok = 0 /\ ~ fa)
  <2>1. o = st
    BY <1>5, <1>10
  <2>2. Fetched(TRUE, n, st)
    BY <1>3, <1>5, Zenon
  <2>3. RingOK(o.ring, 1)
    BY <1>1, <2>1, <2>2
  <2> HIDE DEF o
  <2> QED
    BY <1>1, <2>1, <2>2, <2>3 DEF Parts, o
<1> QED
  BY <1>4, <1>5

\* Of two tiles the lower one is the first.
LEMMA OneOfTwo == ASSUME NEW a \in {1, 2}, NEW b \in {1, 2}, a < b PROVE a = 1
OBVIOUS

\* What FetchAt leaves: the front of the ring as it was, and behind it what the
\* lane will need next.
FetchResult(n, st) ==
  LET f == FetchAt(n, st)
      o == OpenAt(n, st)
      i == Head(st.works)[st.at]
      i2 == Head(st.works)[2]
      next == st.at < Len(Head(st.works)) /\ n[i2] > 0
  IN  /\ Parts(f, st.works, st.at, st.tok, f.ring)
      /\ Front(f.ring) = Front(o.ring) /\ f.ub[st.at] = o.ub[st.at]
      /\ st.tok + 1 # n[i] =>
           RingOK(Pop(f.ring), 1) /\ Front(Pop(f.ring)) = Record(i, st.tok + 1)
      /\ st.tok + 1 = n[i] /\ next =>
           /\ RingOK(Pop(f.ring), 1) /\ Front(Pop(f.ring)) = Record(i2, 0)
           /\ st.at = 1 /\ f.ub[2] = LoadRows(i2)
      /\ st.tok + 1 = n[i] /\ ~ next => RingOK(Pop(f.ring), 0)

\* The commit kernel always has the record it is going to use in front of its ring.
LEMMA FetchFacts ==
    ASSUME NEW I, NEW S, ListOK(I, S), NEW n, \A i \in I : n[i] \in Nat,
           NEW st, LaneAt(I, S, n, TRUE, st), st.works # <<>>, n[Head(st.works)[st.at]] > 0
    PROVE  FetchResult(n, st)
<1> DEFINE f == FetchAt(n, st)    o == OpenAt(n, st)    i == Head(st.works)[st.at]
           i2 == Head(st.works)[2]
           next == st.at < Len(Head(st.works)) /\ n[i2] > 0
<1>1. Parts(o, st.works, st.at, st.tok, o.ring) /\ RingOK(o.ring, 1)
  BY OpenFacts
<1>2. st.at \in {1, 2} /\ Len(Head(st.works)) \in {1, 2}
  <2> DEFINE w == Drained(S, st) + 1
  <2>1. st.at \in DOMAIN S[w] /\ w \in DOMAIN S /\ Head(st.works) = S[w]
    BY FirstWork DEF LaneAt
  <2> HIDE DEF w
  <2> QED
    BY <2>1, ListFacts
<1>3. f = CASE ~ (st.tok + 1 = n[i]) -> FetchNextToken(o, i)
            [] st.tok + 1 = n[i] /\ next -> FetchItem(o, 2)
            [] OTHER -> o
  BY DEF FetchAt
<1>4. /\ FetchNextToken(o, i) = SetRing(o, Push(o.ring, Record(i, st.tok + 1)))
      /\ FetchItem(o, 2) = SetTile(o, 2, LoadRows(i2), Push(o.ring, Record(i2, 0)))
  <2> HIDE DEF o, i
  <2>1. Made(o) /\ o.works = st.works /\ o.tok = st.tok
    BY <1>1 DEF Parts
  <2> QED
    BY <2>1, FetchIs
<1>20. next => st.at = 1
  BY <1>2, OneOfTwo
<1> HIDE DEF o, i, i2, next
<1>5. CASE st.tok + 1 # n[i]
  <2> DEFINE g == Push(o.ring, Record(i, st.tok + 1))
  <2>1. f = SetRing(o, g)
    BY <1>3, <1>4, <1>5
  <2>2. Front(g) = Front(o.ring) /\ RingOK(Pop(g), 1) /\ Front(Pop(g)) = Record(i, st.tok + 1)
    BY <1>1, RingDrain
  <2> HIDE DEF f, g
  <2>3. Parts(f, st.works, st.at, st.tok, g) /\ f.ub[1] = o.ub[1] /\ f.ub[2] = o.ub[2]
    BY <1>1, <2>1, MadeSetRing DEF Parts
  <2>4. f.ub[st.at] = o.ub[st.at] /\ f.ring = g
    BY <1>2, <2>3 DEF Parts
  <2> QED
    BY <1>5, <2>2, <2>3, <2>4 DEF FetchResult, f, o, i, i2, next
<1>6. CASE st.tok + 1 = n[i] /\ next
  <2> DEFINE g == Push(o.ring, Record(i2, 0))
  <2>1. f = SetTile(o, 2, LoadRows(i2), g)
    BY <1>3, <1>4, <1>6
  <2>2. Front(g) = Front(o.ring) /\ RingOK(Pop(g), 1) /\ Front(Pop(g)) = Record(i2, 0)
    BY <1>1, RingDrain
  <2>0. st.at = 1
    BY <1>20, <1>6
  <2> HIDE DEF f, g
  <2>3. Parts(f, st.works, st.at, st.tok, g) /\ f.ub[2] = LoadRows(i2) /\ f.ub[3 - 2] = o.ub[3 - 2]
    BY <1>1, <2>1, MadeSetTile DEF Parts
  <2>4. f.ub[st.at] = o.ub[st.at] /\ f.ring = g
    BY <2>0, <2>3 DEF Parts
  <2> QED
    BY <1>6, <2>0, <2>2, <2>3, <2>4 DEF FetchResult, f, o, i, i2, next
<1>7. CASE st.tok + 1 = n[i] /\ ~ next
  <2>1. f = o
    BY <1>3, <1>7
  <2>2. RingOK(Pop(o.ring), 0)
    BY <1>1, RingDrain
  <2> HIDE DEF f
  <2> QED
    BY <1>1, <1>7, <2>1, <2>2 DEF FetchResult, f, o, i, i2, next
<1>8. \/ st.tok + 1 # n[i]
      \/ st.tok + 1 = n[i] /\ next
      \/ st.tok + 1 = n[i] /\ ~ next
  OBVIOUS
<1> QED
  BY <1>5, <1>6, <1>7, <1>8

\* A token of the commit kernel.
CommitResult(I, S, n, st, v) ==
  LET f    == FetchAt(n, st)
      i    == Head(st.works)[st.at]
      step == SetAll(f, st.at, v, Pop(f.ring), st.tok + 1)
      st2  == IF st.tok + 1 = n[i] THEN NextItem(step) ELSE step
      i2   == Head(st2.works)[st2.at]
  IN  /\ LaneAt(I, S, n, TRUE, st2) /\ Moved(st, st2, n[i])
      /\ st.tok + 1 # n[i] =>
           /\ st2.works = st.works /\ st2.at = st.at /\ st2.tok = st.tok + 1
           /\ st2.ub[st2.at] = v /\ Front(st2.ring) = Record(i, st.tok + 1)
      /\ st.tok + 1 = n[i] =>
           /\ st2.tok = 0
           /\ Fetched(TRUE, n, st2) =>
                /\ st2.works = st.works /\ st2.at = 2 /\ st.at = 1
                /\ st2.ub[st2.at] = LoadRows(i2) /\ Front(st2.ring) = Record(i2, 0)

\* A step of the commit kernel keeps the lane on its list.
LEMMA CommitMove ==
    ASSUME NEW I, NEW S, ListOK(I, S), NEW n, \A i \in I : n[i] \in Nat,
           NEW st, LaneAt(I, S, n, TRUE, st), st.works # <<>>, n[Head(st.works)[st.at]] > 0, NEW v
    PROVE  CommitResult(I, S, n, st, v)
<1> DEFINE f == FetchAt(n, st)    i == Head(st.works)[st.at]    g == Pop(f.ring)
           j2 == Head(st.works)[2]
           next == st.at < Len(Head(st.works)) /\ n[j2] > 0
           step == SetAll(f, st.at, v, g, st.tok + 1)
           st2 == IF st.tok + 1 = n[i] THEN NextItem(step) ELSE step
<1>1. /\ Parts(f, st.works, st.at, st.tok, f.ring)
      /\ st.tok + 1 # n[i] => RingOK(g, 1) /\ Front(g) = Record(i, st.tok + 1)
      /\ st.tok + 1 = n[i] /\ next => RingOK(g, 1) /\ Front(g) = Record(j2, 0)
                                      /\ st.at = 1 /\ f.ub[2] = LoadRows(j2)
      /\ st.tok + 1 = n[i] /\ ~ next => RingOK(g, 0)
  <2>1. FetchResult(n, st)
    BY FetchFacts
  <2> QED
    BY <2>1 DEF FetchResult
<1>2. st.at \in {1, 2} /\ Len(Head(st.works)) \in {1, 2} /\ i \in I
      /\ (st.at < Len(Head(st.works)) => j2 \in I)
  <2> DEFINE w == Drained(S, st) + 1
  <2>1. st.at \in DOMAIN S[w] /\ w \in DOMAIN S /\ Head(st.works) = S[w]
    BY FirstWork DEF LaneAt
  <2> HIDE DEF w
  <2>2. DOMAIN S[w] = 1 .. Len(S[w]) /\ Len(S[w]) \in {1, 2}
        /\ \A a \in DOMAIN S[w] : a \in {1, 2} /\ S[w][a] \in I
    BY <2>1, ListFacts
  <2>3. st.at < Len(S[w]) => 2 \in DOMAIN S[w]
    BY <2>1, <2>2
  <2> QED
    BY <2>1, <2>2, <2>3
<1>3. OnList(I, S, n, st) /\ st.tok \in Nat /\ (st.tok > 0 => st.tok < n[i]) /\ n[i] \in Nat \ {0}
  <2>1. OnList(I, S, n, st)
    BY DEF LaneAt
  <2>2. st.tok \in Nat /\ (st.tok > 0 => st.tok < n[i])
    BY <2>1 DEF OnList
  <2> QED
    BY <1>2, <2>1, <2>2
<1> HIDE DEF f, g
<1>4. /\ Parts(step, st.works, st.at, st.tok + 1, g) /\ step.ub[st.at] = v
      /\ step.ub[3 - st.at] = f.ub[3 - st.at]
  BY <1>1, <1>2, MadeSetTile DEF Parts
<1> HIDE DEF step
<1>5. /\ Parts(NextItem(step),
               IF st.at < Len(Head(st.works)) THEN st.works ELSE Tail(st.works),
               IF st.at < Len(Head(st.works)) THEN st.at + 1 ELSE 1, 0, g)
      /\ NextItem(step).ub[2] = step.ub[2]
  BY <1>4, MadeNext DEF Parts
<1>6. CASE st.tok + 1 # n[i]
  <2>1. st2 = step /\ st.tok + 1 < n[i]
    BY <1>3, <1>6
  <2>2. Moved(st, st2, n[i])
    BY <1>4, <2>1 DEF Parts, Moved
  <2>3. OnList(I, S, n, st2)
    BY <1>3, <2>2, MoveOn
  <2>4. Fetched(TRUE, n, st2)
    BY <1>3, <1>4, <2>1 DEF Fetched, Parts
  <2>5. RingOK(st2.ring, IF Fetched(TRUE, n, st2) THEN 1 ELSE 0)
    BY <1>1, <1>4, <1>6, <2>1, <2>4 DEF Parts
  <2>6. LaneAt(I, S, n, TRUE, st2)
    BY <1>4, <2>1, <2>3, <2>5 DEF LaneAt, Parts
  <2>7. /\ st2.works = st.works /\ st2.at = st.at /\ st2.tok = st.tok + 1
        /\ st2.ub[st2.at] = v /\ Front(st2.ring) = Record(i, st.tok + 1)
    BY <1>1, <1>4, <1>6, <2>1 DEF Parts
  <2> QED
    BY <1>6, <2>2, <2>6, <2>7 DEF CommitResult, f, g, step
<1>7. CASE st.tok + 1 = n[i]
  <2>1. st2 = NextItem(step) /\ ~ (st.tok + 1 < n[i])
    BY <1>3, <1>7
  <2> HIDE DEF st2
  <2>2. Moved(st, st2, n[i])
    BY <1>5, <2>1 DEF Parts, Moved
  <2>3. OnList(I, S, n, st2)
    BY <1>3, <2>2, MoveOn
  <2>4. Fetched(TRUE, n, st2) => next /\ st2.works = st.works /\ st2.at = 2
    BY <1>2, <1>5, <2>1 DEF Fetched, Parts
  <2>5. next => Fetched(TRUE, n, st2)
    <3>1. SUFFICES ASSUME next PROVE Fetched(TRUE, n, st2)
      OBVIOUS
    <3>2. st.at = 1 /\ st2.works = st.works /\ st2.at = 2
      BY <1>1, <1>5, <1>7, <2>1, <3>1 DEF Parts
    <3>3. n[Head(st.works)[1]] > 0 /\ n[Head(st.works)[2]] > 0
      BY <3>1, <3>2
    <3>4. n[Head(st.works)[1]] # 0 /\ n[Head(st.works)[2]] # 0
      BY <1>2, <1>3, <3>1, <3>2, <3>3
    <3> QED
      BY <3>2, <3>4 DEF Fetched
  <2>6. RingOK(st2.ring, IF Fetched(TRUE, n, st2) THEN 1 ELSE 0)
    BY <1>1, <1>5, <1>7, <2>1, <2>4, <2>5 DEF Parts
  <2>7. LaneAt(I, S, n, TRUE, st2)
    BY <1>5, <2>1, <2>3, <2>6 DEF LaneAt, Parts
  <2>8. ASSUME Fetched(TRUE, n, st2)
        PROVE  /\ st2.works = st.works /\ st2.at = 2 /\ st.at = 1
               /\ st2.ub[2] = LoadRows(j2) /\ Front(st2.ring) = Record(j2, 0)
    <3>1. next /\ st2.works = st.works /\ st2.at = 2
      BY <2>4, <2>8
    <3>2. st.at = 1 /\ f.ub[2] = LoadRows(j2) /\ Front(g) = Record(j2, 0)
      BY <1>1, <1>7, <3>1
    <3>3. 3 - st.at = 2
      BY <3>2
    <3>4. st2.ub[2] = LoadRows(j2) /\ st2.ring = g
      BY <1>4, <1>5, <2>1, <3>2, <3>3 DEF Parts
    <3> QED
      BY <3>1, <3>2, <3>4
  <2>9. st2.tok = 0
    BY <1>5, <2>1 DEF Parts
  <2> QED
    BY <1>7, <2>2, <2>7, <2>8, <2>9 DEF CommitResult, f, g, step, st2
<1> QED
  BY <1>6, <1>7

\* An item of which nothing is accepted.
LEMMA CommitPass ==
    ASSUME NEW I, NEW S, ListOK(I, S), NEW n, \A i \in I : n[i] \in Nat,
           NEW st, LaneAt(I, S, n, TRUE, st), st.works # <<>>, n[Head(st.works)[st.at]] = 0
    PROVE  LET st2 == NextItem(st) IN
           LaneAt(I, S, n, TRUE, st2) /\ Moved(st, st2, 0) /\ ~ Fetched(TRUE, n, st2)
<1> DEFINE st2 == NextItem(st)    i == Head(st.works)[st.at]
<1>1. st.at \in {1, 2} /\ Len(Head(st.works)) \in {1, 2}
  <2> DEFINE w == Drained(S, st) + 1
  <2>1. st.at \in DOMAIN S[w] /\ w \in DOMAIN S /\ Head(st.works) = S[w]
    BY FirstWork DEF LaneAt
  <2> HIDE DEF w
  <2> QED
    BY <2>1, ListFacts
<1>2. OnList(I, S, n, st) /\ Made(st) /\ st.tok = 0
      /\ RingOK(st.ring, IF Fetched(TRUE, n, st) THEN 1 ELSE 0)
  <2>1. OnList(I, S, n, st) /\ Made(st) /\ RingOK(st.ring, IF Fetched(TRUE, n, st) THEN 1 ELSE 0)
    BY DEF LaneAt
  <2>2. st.tok \in Nat /\ (st.tok > 0 => st.tok < 0)
    BY <2>1 DEF OnList
  <2>3. st.tok = 0
    BY <2>2
  <2> QED
    BY <2>1, <2>3
<1>3. Parts(st2, IF st.at < Len(Head(st.works)) THEN st.works ELSE Tail(st.works),
            IF st.at < Len(Head(st.works)) THEN st.at + 1 ELSE 1, 0, st.ring)
  BY <1>2, MadeNext
<1> HIDE DEF st2
<1>4. Moved(st, st2, 0)
  BY <1>2, <1>3 DEF Moved, Parts
<1>5. OnList(I, S, n, st2)
  BY <1>2, <1>4, MoveOn
<1>6. ~ Fetched(TRUE, n, st)
  BY <1>1, <1>2 DEF Fetched
<1>7. ~ Fetched(TRUE, n, st2)
  BY <1>1, <1>3 DEF Fetched, Parts
<1>8. RingOK(st2.ring, IF Fetched(TRUE, n, st2) THEN 1 ELSE 0)
  BY <1>2, <1>3, <1>6, <1>7 DEF Parts
<1>9. LaneAt(I, S, n, TRUE, st2)
  BY <1>3, <1>5, <1>8 DEF LaneAt, Parts
<1> QED
  BY <1>4, <1>7, <1>9 DEF st2
-----------------------------------------------------------------------------
(* The lanes in every stage of a round.                                    *)

\* The tokens of an item in the kernels that score, and in the commit.
Lengths == [i \in Items |-> shape.length[SeqOf(i.head)]]
\* How many tokens of an item the commit kernel serves.
Accepts == [i \in Items |-> AcceptedOf(i)]

\* The lists of works that the kernels deal out.
ScoreLists == [l \in Lanes |-> VerifyWorks(BatchHeads, LaneCount, l)]
\* The commit kernel's lists.
CommitLists == [l \in Lanes |-> CommitWorks(BatchHeads, LaneCount, l)]

\* A list of a kernel's deal and the items in it.
ListsOK(W) ==
  \A l \in Lanes :
    /\ ListOK(Items, W[l])
    /\ \A w \in DOMAIN W[l] : \A a \in DOMAIN W[l][w] :
         /\ W[l][w][a] \in Items /\ W[l][w][a].head \in Heads
         /\ ItemRows(W[l][w][a]) \subseteq Rows

\* Every row is in one item of one work of one lane, and in no other.
Everywhere(W) ==
  \A h \in Heads, q \in Rows :
    \E l0 \in Lanes : \E w0 \in DOMAIN W[l0] : \E a0 \in DOMAIN W[l0][w0] :
      \A l \in Lanes : \A w \in DOMAIN W[l] : \A a \in DOMAIN W[l][w] :
        Covers(W[l][w][a], h, q) <=> l = l0 /\ w = w0 /\ a = a0

\* A deal is a list for every lane, with every row in one place.
LEMMA ListsDeal ==
    ASSUME NEW W, Deals(W, BatchHeads, LaneCount)
    PROVE  ListsOK(W) /\ Everywhere(W)
<1>1. Everywhere(W)
  BY Zenon DEF Deals, Everywhere, Lanes, Heads
<1>2. ASSUME NEW l \in Lanes
      PROVE  /\ ListOK(Items, W[l])
             /\ \A w \in DOMAIN W[l] : \A a \in DOMAIN W[l][w] :
                  /\ W[l][w][a] \in Items /\ W[l][w][a].head \in Heads
                  /\ ItemRows(W[l][w][a]) \subseteq Rows
  <2>1. /\ W[l] \in Seq(Seq(Items))
        /\ \A w \in DOMAIN W[l] :
             /\ DOMAIN W[l][w] \in {1 .. 1, 1 .. 2}
             /\ \A a \in DOMAIN W[l][w] : W[l][w][a].first + W[l][w][a].rows <= TILE
    BY Zenon DEF Deals, Lanes, Items
  <2>2. ListOK(Items, W[l])
    BY <2>1, Zenon DEF ListOK
  <2>3. ASSUME NEW w \in DOMAIN W[l], NEW a \in DOMAIN W[l][w]
        PROVE  /\ W[l][w][a] \in Items /\ W[l][w][a].head \in Heads
               /\ ItemRows(W[l][w][a]) \subseteq Rows
    <3> DEFINE i == W[l][w][a]
    <3>1. i \in Items
      BY <2>2, ListFacts
    <3>2. i.first + i.rows <= TILE
      BY <2>1
    <3> HIDE DEF i
    <3>3. i.head \in Heads /\ i.first \in Nat /\ i.rows \in Nat
      BY <3>1 DEF Items, ItemsOf, Heads
    <3>4. ItemRows(i) \subseteq Rows
      BY <3>2, <3>3, ScheduleAssumption DEF ItemRows, Rows
    <3> QED
      BY <3>1, <3>3, <3>4 DEF i
  <2> QED
    BY <2>2, <2>3
<1> QED
  BY <1>1, <1>2 DEF ListsOK

\* So are the deals of both schedules.
LEMMA KernelLists ==
    ASSUME shape \in Shapes
    PROVE  /\ ListsOK(ScoreLists) /\ Everywhere(ScoreLists)
           /\ ListsOK(CommitLists) /\ Everywhere(CommitLists)
<1>1. BatchHeads \in Nat \ {0} /\ shape.aic \in Nat \ {0}
  BY ShapeFacts, ShapesAssumption
<1>2. /\ Deals(ScoreLists, BatchHeads, LaneCount)
      /\ Deals(CommitLists, BatchHeads, LaneCount)
  BY <1>1, WorksDeal DEF LaneCount, Lanes, ScoreLists, CommitLists
<1> QED
  BY <1>2, ListsDeal

\* No item of a deal has a row of another one.
LEMMA ItemsApart ==
    ASSUME NEW W, ListsOK(W), Everywhere(W),
           NEW l1 \in Lanes, NEW w1 \in DOMAIN W[l1], NEW a1 \in DOMAIN W[l1][w1],
           NEW l2 \in Lanes, NEW w2 \in DOMAIN W[l2], NEW a2 \in DOMAIN W[l2][w2],
           W[l1][w1][a1].head = W[l2][w2][a2].head,
           NEW q \in ItemRows(W[l1][w1][a1]), q \in ItemRows(W[l2][w2][a2])
    PROVE  l1 = l2 /\ w1 = w2 /\ a1 = a2
<1> DEFINE h == W[l1][w1][a1].head
<1>1. h \in Heads /\ q \in Rows
  BY DEF ListsOK
<1>2. PICK l0 \in Lanes : \E w0 \in DOMAIN W[l0] : \E a0 \in DOMAIN W[l0][w0] :
        \A l \in Lanes : \A w \in DOMAIN W[l] : \A a \in DOMAIN W[l][w] :
          Covers(W[l][w][a], h, q) <=> l = l0 /\ w = w0 /\ a = a0
  BY <1>1, Zenon DEF Everywhere
<1>3. PICK w0 \in DOMAIN W[l0] : \E a0 \in DOMAIN W[l0][w0] :
        \A l \in Lanes : \A w \in DOMAIN W[l] : \A a \in DOMAIN W[l][w] :
          Covers(W[l][w][a], h, q) <=> l = l0 /\ w = w0 /\ a = a0
  BY <1>2, Zenon
<1>4. PICK a0 \in DOMAIN W[l0][w0] :
        \A l \in Lanes : \A w \in DOMAIN W[l] : \A a \in DOMAIN W[l][w] :
          Covers(W[l][w][a], h, q) <=> l = l0 /\ w = w0 /\ a = a0
  BY <1>3, Zenon
<1>5. Covers(W[l1][w1][a1], h, q) /\ Covers(W[l2][w2][a2], h, q)
  BY Zenon DEF Covers
<1>6. l1 = l0 /\ w1 = w0 /\ a1 = a0
  BY <1>4, <1>5, Zenon
<1>7. l2 = l0 /\ w2 = w0 /\ a2 = a0
  BY <1>4, <1>5, Zenon
<1> QED
  BY <1>6, <1>7

\* A lane of the scoring kernels.
ScoreLane(st, l) == LaneAt(Items, ScoreLists[l], Lengths, FALSE, st)
\* A lane of the commit kernel.
CommitLane(st, l) == LaneAt(Items, CommitLists[l], Accepts, TRUE, st)

\* The call, the stage and what is accepted.
ShapeOK ==
  /\ shape \in Shapes
  /\ stage \in {"conv", "verify", "snapshot", "accept", "commit"}
  /\ round \in 1 .. shape.rounds + 1 /\ (stage # "conv" => round <= shape.rounds)
  /\ stage = "snapshot" => WithSnapshots
  /\ accepted \in [Seqs -> 0 .. LongestSequence]
  /\ \A s \in Seqs : accepted[s] <= shape.length[s]
  /\ (round > 1 \/ stage = "commit") => \A s \in Seqs : accepted[s] >= shape.least

\* Every lane is somewhere on its list.
LanesInv ==
  /\ lane = [l \in Lanes |-> lane[l]]
  /\ stage # "commit" => \A l \in Lanes : ScoreLane(lane[l], l)
  /\ stage = "commit" => \A l \in Lanes : CommitLane(lane[l], l)
  /\ stage = "conv" => lane = Works("verify")
  /\ stage = "accept" => AllIdle

\* The lane after a token of a kernel that scores, or of the commit.
MoveAhead(l, v) ==
  LET st == lane[l]
      i == CurrentItem(l)
      len == shape.length[SeqOf(i.head)]
      step == SetAll(st, 1, v, Ahead(st, i, len), st.tok + 1)
  IN  IF st.tok + 1 < len THEN step ELSE NextItem(step)

\* A lane's step in the commit kernel.
MoveCommit(l, v) ==
  LET st == lane[l]
      f == FetchAt(Accepts, st)
      step == SetAll(f, st.at, v, Pop(f.ring), st.tok + 1)
  IN  IF st.tok + 1 = Accepts[CurrentItem(l)] THEN NextItem(step) ELSE step

\* What the kernels leave in a lane's tile.
Scores(loaded, i, in) ==
  [q \in ItemRows(i) |-> Apply(loaded[q], Delta(loaded[q], in), [head |-> in.head, tok |-> in.tok])]

\* The rows that the verify kernel applies a token to.
VerifyLoads(l) == IF lane[l].tok = 0 THEN LoadRows(CurrentItem(l)) ELSE lane[l].ub[1]
\* The rows that the snapshot kernel applies a token to.
SnapshotLoads(l) ==
  LET i == CurrentItem(l) IN
  IF lane[l].tok = 0 THEN [q \in ItemRows(i) |-> pool[<<InitialSlot(SeqOf(i.head)), i.head, q>>]]
  ELSE lane[l].ub[1]
\* The input that a scoring kernel takes.
InFront(l) == Front(Opened(lane[l], CurrentItem(l)))
\* What the verify kernel leaves in the tile.
VerifyTile(l) == Scores(VerifyLoads(l), CurrentItem(l), InFront(l))
\* What the snapshot kernel leaves in the tile.
SnapshotTile(l) == Scores(SnapshotLoads(l), CurrentItem(l), InFront(l))

\* What the commit kernel leaves in the tile.
CommitTile(l) ==
  LET f == FetchAt(Accepts, lane[l])
      rec == Front(f.ring)
  IN  [q \in ItemRows(CurrentItem(l)) |->
         IF q \in DOMAIN rec.u THEN Apply(f.ub[lane[l].at][q], rec.u[q], rec.k)
         ELSE Spoilt(f.ub[lane[l].at][q])]

\* What a step of the verify kernel does to the lanes.
LEMMA VerifyLaneIs ==
    ASSUME NEW l, Verify(l)
    PROVE  /\ stage = "verify" /\ stage' = stage /\ ~ Idle(l)
           /\ shape' = shape /\ round' = round /\ accepted' = accepted
           /\ lane' = [lane EXCEPT ![l] = MoveAhead(l, VerifyTile(l))]
<1>1. VerifyToken(l) /\ stage = "verify" /\ stage' = stage
  BY DEF Verify
<1>2. ~ Idle(l) /\ shape' = shape /\ round' = round /\ accepted' = accepted
  BY <1>1 DEF VerifyToken
<1> DEFINE st == lane[l]
           i == CurrentItem(l)
           t == st.tok
           len == shape.length[SeqOf(i.head)]
           loaded == IF t = 0 THEN LoadRows(i) ELSE st.ub[1]
           in == Front(Opened(st, i))
           k == [head |-> in.head, tok |-> in.tok]
           u == [q \in ItemRows(i) |-> Delta(loaded[q], in)]
           state == [q \in ItemRows(i) |-> Apply(loaded[q], u[q], k)]
           step == [st EXCEPT !.ub[1] = state, !.ring = Ahead(st, i, len), !.tok = t + 1]
<1>3. lane' = [lane EXCEPT ![l] = IF t + 1 < len THEN step ELSE NextItem(step)]
  BY <1>1, Zenon DEF VerifyToken
<1>4. loaded = VerifyLoads(l) /\ in = InFront(l)
  BY DEF VerifyLoads, InFront
<1> HIDE DEF loaded, in
<1>5. state = VerifyTile(l)
  BY <1>4 DEF VerifyTile, Scores
<1> HIDE DEF state
<1>6. (IF t + 1 < len THEN step ELSE NextItem(step)) = MoveAhead(l, VerifyTile(l))
  BY <1>5, Zenon DEF MoveAhead, SetAll
<1> QED
  BY <1>1, <1>2, <1>3, <1>6

\* What a step of the snapshot kernel does to the lanes.
LEMMA SnapshotLaneIs ==
    ASSUME NEW l, Snapshot(l)
    PROVE  /\ stage = "snapshot" /\ stage' = stage /\ ~ Idle(l)
           /\ shape' = shape /\ round' = round /\ accepted' = accepted
           /\ lane' = [lane EXCEPT ![l] = MoveAhead(l, SnapshotTile(l))]
<1>1. SnapshotToken(l) /\ stage = "snapshot" /\ stage' = stage /\ accepted' = accepted
  BY DEF Snapshot
<1>2. ~ Idle(l) /\ shape' = shape /\ round' = round
  BY <1>1 DEF SnapshotToken
<1> DEFINE st == lane[l]
           i == CurrentItem(l)
           s == SeqOf(i.head)
           t == st.tok
           len == shape.length[s]
           loaded == IF t = 0
                     THEN [q \in ItemRows(i) |-> pool[<<InitialSlot(s), i.head, q>>]]
                     ELSE st.ub[1]
           in == Front(Opened(st, i))
           state == [q \in ItemRows(i) |->
                     Apply(loaded[q], Delta(loaded[q], in), [head |-> in.head, tok |-> in.tok])]
           step == [st EXCEPT !.ub[1] = state, !.ring = Ahead(st, i, len), !.tok = t + 1]
<1>3. lane' = [lane EXCEPT ![l] = IF t + 1 < len THEN step ELSE NextItem(step)]
  BY <1>1, Zenon DEF SnapshotToken
<1>4. loaded = SnapshotLoads(l) /\ in = InFront(l)
  BY DEF SnapshotLoads, InFront
<1> HIDE DEF loaded, in
<1>5. state = SnapshotTile(l)
  BY <1>4 DEF SnapshotTile, Scores
<1> HIDE DEF state
<1>6. (IF t + 1 < len THEN step ELSE NextItem(step)) = MoveAhead(l, SnapshotTile(l))
  BY <1>5, Zenon DEF MoveAhead, SetAll
<1> QED
  BY <1>1, <1>2, <1>3, <1>6

\* What a step of the commit kernel does to the lanes: it skips an item or serves a token.
LEMMA CommitLaneIs ==
    ASSUME NEW l, Commit(l), ListOK(Items, CommitLists[l]), CommitLane(lane[l], l),
           \A i \in Items : Accepts[i] \in Nat
    PROVE  /\ stage = "commit" /\ stage' = stage /\ ~ Idle(l)
           /\ shape' = shape /\ round' = round /\ accepted' = accepted
           /\ CurrentItem(l) \in Items /\ AcceptedOf(CurrentItem(l)) = Accepts[CurrentItem(l)]
           /\ \/ /\ Accepts[CurrentItem(l)] = 0 /\ CommitSkip(l)
                 /\ lane' = [lane EXCEPT ![l] = NextItem(lane[l])]
              \/ /\ Accepts[CurrentItem(l)] > 0 /\ CommitToken(l)
                 /\ lane' = [lane EXCEPT ![l] = MoveCommit(l, CommitTile(l))]
                 /\ checkpoint' =
                      IF lane[l].tok + 1 = Accepts[CurrentItem(l)]
                      THEN [p \in DOMAIN checkpoint |->
                              IF p[1] = CurrentItem(l).head /\ p[2] \in ItemRows(CurrentItem(l))
                              THEN CommitTile(l)[p[2]] ELSE checkpoint[p]]
                      ELSE checkpoint
<1>1. (CommitSkip(l) \/ CommitToken(l)) /\ stage = "commit" /\ stage' = stage
  BY DEF Commit
<1>2. ~ Idle(l) /\ shape' = shape /\ round' = round /\ accepted' = accepted
  BY <1>1 DEF CommitSkip, CommitToken
<1> DEFINE st == lane[l]
           i == CurrentItem(l)
           j1 == Work(l)[1]
           j2 == Work(l)[2]
<1>3. i \in Items /\ j1 \in Items /\ (st.at < Len(Work(l)) => j2 \in Items)
  <2> DEFINE w == Drained(CommitLists[l], st) + 1    S == CommitLists[l]
  <2>1. st.at \in DOMAIN S[w] /\ w \in DOMAIN S /\ Head(st.works) = S[w]
    BY <1>2, FirstWork DEF CommitLane, LaneAt, Idle
  <2> HIDE DEF w, S
  <2>2. /\ 1 \in DOMAIN S[w] /\ DOMAIN S[w] = 1 .. Len(S[w]) /\ Len(S[w]) \in {1, 2}
        /\ \A a \in DOMAIN S[w] : a \in {1, 2} /\ S[w][a] \in Items
    BY <2>1, ListFacts DEF S
  <2>3. st.at < Len(S[w]) => 2 \in DOMAIN S[w]
    BY <2>1, <2>2
  <2> QED
    BY <2>1, <2>2, <2>3 DEF CurrentItem, Work
<1>4. \A j \in Items : AcceptedOf(j) = Accepts[j]
  BY DEF Accepts
<1>5. CASE CommitSkip(l)
  <2>1. AcceptedOf(i) = 0 /\ lane' = [lane EXCEPT ![l] = NextItem(lane[l])]
    BY <1>5 DEF CommitSkip
  <2> QED
    BY <1>1, <1>2, <1>3, <1>4, <1>5, <2>1
<1>6. CASE CommitToken(l)
  <2> DEFINE a == AcceptedOf(i)
             last == st.tok + 1 = a
             opened == IF st.tok = 0 /\ ~FetchedAhead(l) THEN FetchItem(st, st.at) ELSE st
             fetched == CASE ~last -> FetchNextToken(opened, i)
                          [] last /\ st.at < Len(Work(l)) /\ AcceptedOf(Work(l)[2]) > 0 ->
                               FetchItem(opened, 2)
                          [] OTHER -> opened
             rec == Front(fetched.ring)
             state == [q \in ItemRows(i) |->
                         IF q \in DOMAIN rec.u
                         THEN Apply(fetched.ub[st.at][q], rec.u[q], rec.k)
                         ELSE Spoilt(fetched.ub[st.at][q])]
             step == [fetched EXCEPT !.ub[st.at] = state, !.ring = Pop(@), !.tok = @ + 1]
  <2>1. /\ a > 0
        /\ lane' = [lane EXCEPT ![l] = IF last THEN NextItem(step) ELSE step]
        /\ checkpoint' = IF last
                         THEN [p \in DOMAIN checkpoint |->
                                 IF p[1] = i.head /\ p[2] \in ItemRows(i)
                                 THEN state[p[2]] ELSE checkpoint[p]]
                         ELSE checkpoint
    BY <1>6, Zenon DEF CommitToken
  <2>2. a = Accepts[i]
    BY <1>3, <1>4
  <2> HIDE DEF a
  <2>3. opened = OpenAt(Accepts, st)
    <3>1. AcceptedOf(Work(l)[1]) = Accepts[Head(st.works)[1]]
      BY <1>3, <1>4 DEF Work
    <3> QED
      BY <3>1, Zenon DEF OpenAt, FetchedAhead, Work
  <2> HIDE DEF opened
  <2>4. fetched = FetchAt(Accepts, st)
    <3>1. st.at < Len(Work(l)) => AcceptedOf(Work(l)[2]) = Accepts[Head(st.works)[2]]
      BY <1>3, <1>4 DEF Work
    <3>2. Work(l) = Head(st.works) /\ i = Head(st.works)[st.at]
      BY DEF Work, CurrentItem
    <3> HIDE DEF i, st
    <3> QED
      BY <2>2, <2>3, <3>1, <3>2 DEF FetchAt
  <2> HIDE DEF fetched
  <2>5. state = CommitTile(l)
    BY <2>4 DEF CommitTile
  <2> HIDE DEF state
  <2>6. step = SetAll(fetched, st.at, state, Pop(fetched.ring), st.tok + 1)
    <3>1. Accepts[Head(st.works)[st.at]] > 0 /\ st.works # <<>>
      BY <1>2, <2>1, <2>2 DEF CurrentItem, Work, Idle
    <3>2. FetchResult(Accepts, st)
      BY <3>1, FetchFacts DEF CommitLane
    <3>3. fetched.tok = st.tok
      BY <2>4, <3>2 DEF FetchResult, Parts
    <3> HIDE DEF st
    <3> QED
      BY <3>3 DEF SetAll
  <2>7. (IF last THEN NextItem(step) ELSE step) = MoveCommit(l, CommitTile(l))
    BY <2>2, <2>4, <2>5, <2>6, Zenon DEF MoveCommit
  <2> QED
    BY <1>1, <1>2, <1>3, <1>4, <1>6, <2>1, <2>2, <2>5, <2>7 DEF a
<1> QED
  BY <1>1, <1>5, <1>6

\* Everything that follows from the shape of a call stays as it is.
LEMMA SameCall ==
    ASSUME shape' = shape
    PROVE  /\ BatchHeads' = BatchHeads /\ LaneCount' = LaneCount
           /\ Items' = Items /\ Lanes' = Lanes /\ Heads' = Heads /\ Seqs' = Seqs
           /\ ScoreLists' = ScoreLists /\ CommitLists' = CommitLists /\ Lengths' = Lengths
           /\ LongestSequence' = LongestSequence /\ (WithSnapshots' <=> WithSnapshots)
           /\ accepted' = accepted => Accepts' = Accepts
<1>1. BatchHeads' = BatchHeads /\ LaneCount' = LaneCount /\ Seqs' = Seqs
  BY DEF BatchHeads, LaneCount, Seqs
<1>2. Items' = Items /\ Lanes' = Lanes /\ Heads' = Heads
  BY <1>1 DEF Items, Lanes, Heads
<1>3. ScoreLists' = ScoreLists /\ CommitLists' = CommitLists
  BY <1>1, <1>2 DEF ScoreLists, CommitLists
<1>4. Lengths' = Lengths
  BY <1>2 DEF Lengths, SeqOf
<1>5. LongestSequence' = LongestSequence
  BY <1>1 DEF LongestSequence
<1>6. WithSnapshots' <=> WithSnapshots
  BY DEF WithSnapshots
<1>7. accepted' = accepted => Accepts' = Accepts
  BY <1>2 DEF Accepts, AcceptedOf, SeqOf
<1> QED
  BY <1>1, <1>2, <1>3, <1>4, <1>5, <1>6, <1>7

\* An item, and how many of its tokens the kernels serve.
LEMMA ItemFacts ==
    ASSUME ShapeOK, NEW i \in Items
    PROVE  /\ i.head \in Heads /\ SeqOf(i.head) \in Seqs
           /\ Lengths[i] = shape.length[SeqOf(i.head)] /\ Lengths[i] \in Nat \ {0}
           /\ Accepts[i] = accepted[SeqOf(i.head)] /\ Accepts[i] \in 0 .. Lengths[i]
<1>1. i.head \in Heads
  BY DEF Items, ItemsOf, Heads
<1>2. SeqOf(i.head) \in Seqs /\ shape.length[SeqOf(i.head)] \in Nat \ {0}
  BY <1>1, ShapeFacts DEF ShapeOK
<1>3. Lengths[i] = shape.length[SeqOf(i.head)] /\ Accepts[i] = accepted[SeqOf(i.head)]
  BY DEF Lengths, Accepts, AcceptedOf
<1>4. /\ accepted[SeqOf(i.head)] \in 0 .. LongestSequence
      /\ accepted[SeqOf(i.head)] <= shape.length[SeqOf(i.head)]
  BY <1>2 DEF ShapeOK
<1>5. Accepts[i] \in 0 .. Lengths[i]
  <2>1. Accepts[i] \in Nat
    BY <1>3, <1>4
  <2> QED
    BY <1>2, <1>3, <1>4, <2>1
<1> QED
  BY <1>1, <1>2, <1>3, <1>5

\* The item before a lane.
LEMMA CurrentIs ==
    ASSUME NEW l \in Lanes, NEW W, ListOK(Items, W[l]), NEW n,
           OnList(Items, W[l], n, lane[l]), ~ Idle(l)
    PROVE  LET w == Drained(W[l], lane[l]) + 1 IN
           /\ w \in DOMAIN W[l] /\ lane[l].at \in DOMAIN W[l][w]
           /\ CurrentItem(l) = W[l][w][lane[l].at] /\ CurrentItem(l) \in Items
           /\ lane[l].tok \in Nat
<1>1. lane[l].works # <<>> /\ lane[l].tok \in Nat
  BY DEF Idle, OnList
<1> QED
  BY <1>1, FirstWork DEF CurrentItem, Work

\* A token of a kernel that scores.
LEMMA ScoreMove ==
    ASSUME ShapeOK, NEW l \in Lanes, ScoreLane(lane[l], l), ~ Idle(l), NEW v
    PROVE  LET st2 == MoveAhead(l, v)
               i == CurrentItem(l)
               len == shape.length[SeqOf(i.head)]
           IN  /\ ScoreLane(st2, l) /\ Moved(lane[l], st2, Lengths[i]) /\ Lengths[i] = len
               /\ InFront(l) = IF lane[l].tok = 0 THEN Input(i, 0) ELSE Front(lane[l].ring)
               /\ lane[l].tok + 1 < len =>
                    /\ st2.works = lane[l].works /\ st2.at = lane[l].at
                    /\ st2.tok = lane[l].tok + 1
                    /\ st2.ub[1] = v /\ Front(st2.ring) = Input(i, st2.tok)
               /\ ~ (lane[l].tok + 1 < len) => st2.tok = 0
<1> DEFINE S == ScoreLists[l]    st == lane[l]    i == CurrentItem(l)
           len == shape.length[SeqOf(i.head)]
           step == SetAll(st, 1, v, Ahead(st, i, len), st.tok + 1)
           st2 == IF st.tok + 1 < len THEN step ELSE NextItem(step)
<1>1. ListOK(Items, S)
  BY KernelLists DEF ShapeOK, ListsOK
<1>2. \A j \in Items : Lengths[j] \in Nat
  BY ItemFacts
<1>3. st.works # <<>> /\ LaneAt(Items, S, Lengths, FALSE, st)
  BY DEF ScoreLane, Idle
<1>4. i \in Items
  BY <1>1, <1>3, CurrentIs DEF LaneAt
<1>5. i = Head(st.works)[st.at] /\ len = Lengths[i]
  BY <1>4 DEF CurrentItem, Work, Lengths
<1>6. /\ LaneAt(Items, S, Lengths, FALSE, st2) /\ Moved(st, st2, len)
      /\ Front(Opened(st, i)) = IF st.tok = 0 THEN Input(i, 0) ELSE Front(st.ring)
      /\ IF st.tok + 1 < len
         THEN /\ st2.works = st.works /\ st2.at = st.at /\ st2.tok = st.tok + 1
              /\ st2.ub[1] = v /\ Front(st2.ring) = Input(i, st2.tok)
         ELSE st2.tok = 0
  <2>1. AheadResult(Items, S, Lengths, st, v)
    BY <1>1, <1>2, <1>3, AheadMove
  <2> HIDE DEF S, i, len, st
  <2> QED
    BY <1>5, <2>1, Zenon DEF AheadResult
<1>7. st2 = MoveAhead(l, v)
  BY DEF MoveAhead
<1> HIDE DEF st2, step
<1> QED
  BY <1>5, <1>6, <1>7 DEF ScoreLane, InFront

\* A record applied, or an item passed over, by the commit kernel.
LEMMA CommitStep ==
    ASSUME ShapeOK, NEW l \in Lanes, CommitLane(lane[l], l), ~ Idle(l),
           Accepts[CurrentItem(l)] > 0, NEW v
    PROVE  LET st2 == MoveCommit(l, v)
               i == CurrentItem(l)
               i2 == Head(st2.works)[st2.at]
           IN  /\ CommitLane(st2, l) /\ Moved(lane[l], st2, Accepts[i])
               /\ lane[l].tok + 1 # Accepts[i] =>
                    /\ st2.works = lane[l].works /\ st2.at = lane[l].at
                    /\ st2.tok = lane[l].tok + 1
                    /\ st2.ub[st2.at] = v /\ Front(st2.ring) = Record(i, lane[l].tok + 1)
               /\ lane[l].tok + 1 = Accepts[i] =>
                    /\ st2.tok = 0
                    /\ Fetched(TRUE, Accepts, st2) =>
                         /\ st2.works = lane[l].works /\ st2.at = 2 /\ lane[l].at = 1
                         /\ st2.ub[st2.at] = LoadRows(i2) /\ Front(st2.ring) = Record(i2, 0)
<1> DEFINE S == CommitLists[l]    st == lane[l]
<1>1. ListOK(Items, S) /\ \A j \in Items : Accepts[j] \in Nat
  BY KernelLists, ItemFacts DEF ShapeOK, ListsOK
<1>2. st.works # <<>> /\ LaneAt(Items, S, Accepts, TRUE, st) /\ CurrentItem(l) = Head(st.works)[st.at]
  BY DEF CommitLane, Idle, CurrentItem, Work
<1>3. CommitResult(Items, S, Accepts, st, v)
  BY <1>1, <1>2, CommitMove
<1> QED
  BY <1>2, <1>3, Zenon DEF CommitResult, MoveCommit, CommitLane

\* Skipping an item of which nothing was accepted keeps the lane on its list.
LEMMA PassStep ==
    ASSUME ShapeOK, NEW l \in Lanes, CommitLane(lane[l], l), ~ Idle(l),
           Accepts[CurrentItem(l)] = 0
    PROVE  LET st2 == NextItem(lane[l]) IN
           CommitLane(st2, l) /\ Moved(lane[l], st2, 0) /\ ~ Fetched(TRUE, Accepts, st2)
<1> DEFINE S == CommitLists[l]    st == lane[l]
<1>1. ListOK(Items, S) /\ \A j \in Items : Accepts[j] \in Nat
  BY KernelLists, ItemFacts DEF ShapeOK, ListsOK
<1>2. st.works # <<>> /\ LaneAt(Items, S, Accepts, TRUE, st) /\ Accepts[Head(st.works)[st.at]] = 0
  BY DEF CommitLane, Idle, CurrentItem, Work
<1> QED
  BY <1>1, <1>2, CommitPass DEF CommitLane

\* The lanes of a kernel that is launched.
LEMMA StartLanes ==
    ASSUME NEW W, ListsOK(W), NEW n, NEW commit, NEW l \in Lanes
    PROVE  LaneAt(Items, W[l], n, commit, Start(W[l]))
<1> DEFINE st == Start(W[l])
<1>1. ListOK(Items, W[l])
  BY DEF ListsOK
<1>2. OnList(Items, W[l], n, st)
  BY <1>1, StartOnList
<1>3. st = LaneRec(W[l], 1, 0, << <<>>, <<>> >>, EmptyRing)
  BY DEF Start, LaneRec
<1>4. Parts(st, W[l], 1, 0, EmptyRing)
  BY <1>3, MadeParts
<1>5. ~ Fetched(commit, n, st) /\ st.ring = EmptyRing /\ Made(st)
  BY <1>4 DEF Fetched, Parts
<1>6. RingOK(st.ring, IF Fetched(commit, n, st) THEN 1 ELSE 0)
  BY <1>5, RingEmpty
<1> QED
  BY <1>2, <1>5, <1>6 DEF LaneAt

\* The lanes that a launch starts are at the head of their lists.
LEMMA WorksAre ==
    /\ Works("verify") = [l \in Lanes |-> Start(ScoreLists[l])]
    /\ Works("snapshot") = [l \in Lanes |-> Start(ScoreLists[l])]
    /\ Works("commit") = [l \in Lanes |-> Start(CommitLists[l])]
BY DEF Works, ScoreLists, CommitLists

-----------------------------------------------------------------------------
(* The first part of the invariant.                                        *)

\* At first the lanes are on their lists.
LEMMA LanesInit == ASSUME Init PROVE ShapeOK /\ LanesInv
<1>1. /\ shape \in Shapes /\ round = 1 /\ stage = "conv" /\ lane = Works("verify")
      /\ accepted = [s \in Seqs |-> 0]
  BY DEF Init
<1>2. ShapeOK
  <2>1. shape.rounds \in Nat \ {0} /\ LongestSequence \in Nat \ {0}
        /\ \A s \in Seqs : shape.length[s] \in Nat \ {0}
    BY <1>1, ShapeFacts
  <2>2. accepted \in [Seqs -> 0 .. LongestSequence] /\ \A s \in Seqs : accepted[s] <= shape.length[s]
    BY <1>1, <2>1
  <2>3. round \in 1 .. shape.rounds + 1 /\ ~ (round > 1)
    BY <1>1, <2>1
  <2> QED
    BY <1>1, <2>2, <2>3 DEF ShapeOK
<1>3. \A l \in Lanes : ScoreLane(Start(ScoreLists[l]), l)
  BY <1>1, KernelLists, StartLanes DEF ScoreLane
<1>4. lane = [l \in Lanes |-> Start(ScoreLists[l])]
  BY <1>1, WorksAre
<1> QED
  BY <1>1, <1>2, <1>3, <1>4 DEF LanesInv

\* The call, the stage and what is accepted stay within their bounds.
LEMMA ShapeNext == ASSUME ShapeOK, LanesInv, [Next]_vars PROVE ShapeOK'
<1>0. /\ shape.rounds \in Nat \ {0} /\ round \in Nat
      /\ shape \in Shapes /\ round <= shape.rounds + 1 /\ round >= 1
  BY ShapeFacts DEF ShapeOK
<1>1. CASE /\ shape' = shape /\ round' = round /\ accepted' = accepted
           /\ \/ stage' = stage
              \/ stage = "conv" /\ stage' = "verify" /\ round <= shape.rounds
              \/ stage = "verify" /\ stage' = IF WithSnapshots THEN "snapshot" ELSE "accept"
              \/ stage = "snapshot" /\ stage' = "accept"
  <2>1. /\ Seqs' = Seqs /\ LongestSequence' = LongestSequence
        /\ (WithSnapshots' <=> WithSnapshots)
    BY <1>1, SameCall
  <2>2. /\ stage' \in {"conv", "verify", "snapshot", "accept", "commit"}
        /\ stage' # "conv" => round <= shape.rounds
        /\ stage' = "snapshot" => WithSnapshots
        /\ stage' = "commit" => stage = "commit"
    BY <1>1 DEF ShapeOK
  <2> QED
    BY <1>1, <2>1, <2>2 DEF ShapeOK
<1>2. ASSUME Accept PROVE ShapeOK'
  <2>1. /\ shape' = shape /\ round' = round /\ stage = "accept" /\ stage' = "commit"
        /\ accepted' \in [Seqs -> 0 .. LongestSequence]
        /\ \A s \in Seqs : accepted'[s] <= shape.length[s] /\ accepted'[s] >= shape.least
    BY <1>2 DEF Accept
  <2>2. Seqs' = Seqs /\ LongestSequence' = LongestSequence
    BY <2>1, SameCall
  <2> QED
    BY <2>1, <2>2 DEF ShapeOK
<1>3. ASSUME CommitEnds PROVE ShapeOK'
  <2>1. /\ shape' = shape /\ round' = round + 1 /\ stage = "commit" /\ stage' = "conv"
        /\ accepted' = accepted
    BY <1>3 DEF CommitEnds
  <2>2. Seqs' = Seqs /\ LongestSequence' = LongestSequence
    BY <2>1, SameCall
  <2>3. round <= shape.rounds /\ round' \in 1 .. shape.rounds + 1
    BY <1>0, <2>1 DEF ShapeOK
  <2> QED
    BY <2>1, <2>2, <2>3 DEF ShapeOK
<1>4. ASSUME \E s \in DOMAIN convOut : Conv(s)
      PROVE  shape' = shape /\ round' = round /\ accepted' = accepted /\ stage' = stage
  BY <1>4 DEF Conv, Convolve
<1>5. ASSUME NEW l \in Lanes, Verify(l) \/ Snapshot(l) \/ Commit(l)
      PROVE  shape' = shape /\ round' = round /\ accepted' = accepted /\ stage' = stage
  BY <1>5 DEF Verify, VerifyToken, Snapshot, SnapshotToken, Commit, CommitSkip, CommitToken
<1>6. ASSUME ConvEnds \/ VerifyEnds \/ SnapshotEnds \/ UNCHANGED vars
      PROVE  /\ shape' = shape /\ round' = round /\ accepted' = accepted
             /\ \/ stage' = stage
                \/ stage = "conv" /\ stage' = "verify" /\ round <= shape.rounds
                \/ stage = "verify" /\ stage' = IF WithSnapshots THEN "snapshot" ELSE "accept"
                \/ stage = "snapshot" /\ stage' = "accept"
  BY <1>6 DEF ConvEnds, VerifyEnds, SnapshotEnds, vars
<1> QED
  BY <1>1, <1>2, <1>3, <1>4, <1>5, <1>6 DEF Next

\* The invariant after a step in which the lanes' lists stay.
LEMMA LanesKept ==
    ASSUME shape' = shape, stage' # "commit", stage' # "conv", lane' = [l \in Lanes |-> lane'[l]],
           \A l \in Lanes : ScoreLane(lane'[l], l), stage' = "accept" => AllIdle'
    PROVE  LanesInv'
<1>1. Lanes' = Lanes /\ Items' = Items /\ ScoreLists' = ScoreLists /\ Lengths' = Lengths
  BY SameCall
<1>2. \A l \in Lanes : ScoreLane(lane[l], l)'
  BY <1>1 DEF ScoreLane
<1> QED
  BY <1>1, <1>2 DEF LanesInv

\* The lanes stay on their lists.
LEMMA LanesNext == ASSUME ShapeOK, LanesInv, [Next]_vars PROVE LanesInv'
<1>0. lane = [l \in Lanes |-> lane[l]]
  BY DEF LanesInv
<1>1. CASE shape' = shape /\ accepted' = accepted /\ lane' = lane /\ stage' = stage
  <2>1. /\ Lanes' = Lanes /\ Items' = Items /\ ScoreLists' = ScoreLists /\ Lengths' = Lengths
        /\ CommitLists' = CommitLists /\ Accepts' = Accepts /\ LaneCount' = LaneCount
        /\ BatchHeads' = BatchHeads
    BY <1>1, SameCall
  <2>2. \A l \in Lanes : /\ ScoreLane(lane[l], l) => ScoreLane(lane[l], l)'
                         /\ CommitLane(lane[l], l) => CommitLane(lane[l], l)'
    BY <1>1, <2>1 DEF ScoreLane, CommitLane
  <2>3. Works("verify")' = Works("verify")
    BY <2>1 DEF Works
  <2>4. AllIdle => AllIdle'
    BY <1>1, <2>1 DEF AllIdle, Idle
  <2> QED
    BY <1>1, <2>1, <2>2, <2>3, <2>4 DEF LanesInv
<1>2. ASSUME ConvEnds PROVE LanesInv'
  <2>1. stage = "conv" /\ stage' = "verify" /\ lane' = lane /\ shape' = shape
    BY <1>2 DEF ConvEnds
  <2>2. \A l \in Lanes : ScoreLane(lane'[l], l)
    BY <2>1 DEF LanesInv
  <2> QED
    BY <1>0, <2>1, <2>2, LanesKept
<1>3. ASSUME NEW l \in Lanes, Verify(l) \/ Snapshot(l) PROVE LanesInv'
  <2>1. PICK v : /\ stage \in {"verify", "snapshot"} /\ stage' = stage /\ shape' = shape
                 /\ ~ Idle(l) /\ lane' = [lane EXCEPT ![l] = MoveAhead(l, v)]
    BY <1>3, VerifyLaneIs, SnapshotLaneIs
  <2>2. \A k \in Lanes : ScoreLane(lane[k], k)
    BY <2>1 DEF LanesInv
  <2>3. ScoreLane(MoveAhead(l, v), l)
    BY <2>1, <2>2, ScoreMove
  <2>4. \A k \in Lanes : lane'[k] = IF k = l THEN MoveAhead(l, v) ELSE lane[k]
    BY <1>0, <2>1
  <2>5. \A k \in Lanes : ScoreLane(lane'[k], k)
    BY <2>2, <2>3, <2>4
  <2>6. lane' = [k \in Lanes |-> lane'[k]]
    BY <1>0, <2>1
  <2> QED
    BY <2>1, <2>5, <2>6, LanesKept
<1>4. ASSUME VerifyEnds PROVE LanesInv'
  <2>1. /\ stage = "verify" /\ stage' = IF WithSnapshots THEN "snapshot" ELSE "accept"
        /\ lane' = IF WithSnapshots THEN Works("snapshot") ELSE lane
        /\ AllIdle /\ shape' = shape
    BY <1>4 DEF VerifyEnds
  <2>2. CASE WithSnapshots
    <3>1. lane' = [l \in Lanes |-> Start(ScoreLists[l])]
      BY <2>1, <2>2, WorksAre
    <3>2. \A l \in Lanes : ScoreLane(Start(ScoreLists[l]), l)
      BY KernelLists, StartLanes DEF ScoreLane, ShapeOK
    <3> QED
      BY <2>1, <2>2, <3>1, <3>2, LanesKept
  <2>3. CASE ~ WithSnapshots
    <3>1. \A l \in Lanes : ScoreLane(lane'[l], l)
      BY <2>1, <2>3 DEF LanesInv
    <3>2. AllIdle'
      BY <2>1, <2>3, SameCall DEF AllIdle, Idle
    <3> QED
      BY <1>0, <2>1, <2>3, <3>1, <3>2, LanesKept
  <2> QED
    BY <2>2, <2>3
<1>5. ASSUME SnapshotEnds PROVE LanesInv'
  <2>1. stage = "snapshot" /\ stage' = "accept" /\ lane' = lane /\ AllIdle /\ shape' = shape
    BY <1>5 DEF SnapshotEnds
  <2>2. \A l \in Lanes : ScoreLane(lane'[l], l)
    BY <2>1 DEF LanesInv
  <2>3. AllIdle'
    BY <2>1, SameCall DEF AllIdle, Idle
  <2> QED
    BY <1>0, <2>1, <2>2, <2>3, LanesKept
<1>6. ASSUME Accept PROVE LanesInv'
  <2>1. shape' = shape /\ stage' = "commit" /\ lane' = Works("commit")
    BY <1>6 DEF Accept
  <2>2. /\ Lanes' = Lanes /\ Items' = Items /\ CommitLists' = CommitLists
    BY <2>1, SameCall
  <2>3. lane' = [l \in Lanes |-> Start(CommitLists[l])]
    BY <2>1, WorksAre
  <2>4. \A l \in Lanes : LaneAt(Items, CommitLists[l], Accepts', TRUE, Start(CommitLists[l]))
    BY KernelLists, StartLanes DEF ShapeOK
  <2>5. \A l \in Lanes : CommitLane(lane[l], l)'
    BY <2>2, <2>3, <2>4 DEF CommitLane
  <2> QED
    BY <2>1, <2>2, <2>3, <2>5 DEF LanesInv
<1>7. ASSUME NEW l \in Lanes, Commit(l) PROVE LanesInv'
  <2>0. stage = "commit"
    BY <1>7 DEF Commit
  <2>1. \A k \in Lanes : CommitLane(lane[k], k)
    BY <2>0 DEF LanesInv
  <2>2. ListOK(Items, CommitLists[l]) /\ \A i \in Items : Accepts[i] \in Nat
    BY KernelLists, ItemFacts DEF ShapeOK, ListsOK
  <2>3. /\ stage' = stage /\ shape' = shape /\ accepted' = accepted /\ ~ Idle(l)
        /\ \/ /\ Accepts[CurrentItem(l)] = 0
              /\ lane' = [lane EXCEPT ![l] = NextItem(lane[l])]
           \/ /\ Accepts[CurrentItem(l)] > 0
              /\ lane' = [lane EXCEPT ![l] = MoveCommit(l, CommitTile(l))]
    BY <1>7, <2>1, <2>2, CommitLaneIs
  <2>4. PICK x : CommitLane(x, l) /\ lane' = [lane EXCEPT ![l] = x]
    <3>1. CASE Accepts[CurrentItem(l)] = 0 /\ lane' = [lane EXCEPT ![l] = NextItem(lane[l])]
      <4>1. CommitLane(NextItem(lane[l]), l)
        BY <2>1, <2>3, <3>1, PassStep
      <4> QED
        BY <3>1, <4>1, Zenon
    <3>2. CASE /\ Accepts[CurrentItem(l)] > 0
               /\ lane' = [lane EXCEPT ![l] = MoveCommit(l, CommitTile(l))]
      <4>1. CommitLane(MoveCommit(l, CommitTile(l)), l)
        BY <2>1, <2>3, <3>2, CommitStep
      <4> QED
        BY <3>2, <4>1, Zenon
    <3> QED
      BY <2>3, <3>1, <3>2
  <2>5. \A k \in Lanes : lane'[k] = IF k = l THEN x ELSE lane[k]
    BY <1>0, <2>4
  <2>6. \A k \in Lanes : CommitLane(lane'[k], k)
    BY <2>1, <2>4, <2>5
  <2>7. lane' = [k \in Lanes |-> lane'[k]]
    BY <1>0, <2>4
  <2>8. /\ Lanes' = Lanes /\ Items' = Items /\ CommitLists' = CommitLists /\ Accepts' = Accepts
    BY <2>3, SameCall
  <2>9. \A k \in Lanes : CommitLane(lane[k], k)'
    BY <2>6, <2>8 DEF CommitLane
  <2> QED
    BY <2>0, <2>3, <2>7, <2>8, <2>9 DEF LanesInv
<1>8. ASSUME CommitEnds PROVE LanesInv'
  <2>1. shape' = shape /\ stage' = "conv" /\ lane' = Works("verify")
    BY <1>8 DEF CommitEnds
  <2>2. /\ Lanes' = Lanes /\ Items' = Items /\ ScoreLists' = ScoreLists /\ Lengths' = Lengths
        /\ LaneCount' = LaneCount /\ BatchHeads' = BatchHeads
    BY <2>1, SameCall
  <2>3. lane' = [l \in Lanes |-> Start(ScoreLists[l])]
    BY <2>1, WorksAre
  <2>4. \A l \in Lanes : LaneAt(Items, ScoreLists[l], Lengths, FALSE, Start(ScoreLists[l]))
    BY KernelLists, StartLanes DEF ShapeOK
  <2>5. \A l \in Lanes : ScoreLane(lane[l], l)'
    BY <2>2, <2>3, <2>4 DEF ScoreLane
  <2>6. Works("verify")' = Works("verify")
    BY <2>2 DEF Works
  <2> QED
    BY <2>1, <2>2, <2>3, <2>5, <2>6 DEF LanesInv
<1>9. ASSUME (\E s \in DOMAIN convOut : Conv(s)) \/ UNCHANGED vars
      PROVE  shape' = shape /\ accepted' = accepted /\ lane' = lane /\ stage' = stage
  BY <1>9 DEF Conv, Convolve, vars
<1> QED
  BY <1>1, <1>2, <1>3, <1>4, <1>5, <1>6, <1>7, <1>8, <1>9 DEF Next

\* A ring with at most one input in it is in order.
LEMMA RingsInOrder == ASSUME LanesInv PROVE RingInOrder
<1> SUFFICES ASSUME NEW l \in Lanes
             PROVE  /\ lane[l].ring.tail <= lane[l].ring.head
                    /\ lane[l].ring.head <= lane[l].ring.tail + DEPTH
  BY DEF RingInOrder
<1>1. \E m \in {0, 1} : RingOK(lane[l].ring, m)
  <2>1. CASE stage = "commit"
    <3>1. CommitLane(lane[l], l)
      BY <2>1 DEF LanesInv
    <3> QED
      BY <3>1 DEF CommitLane, LaneAt
  <2>2. CASE stage # "commit"
    <3>1. ScoreLane(lane[l], l)
      BY <2>2 DEF LanesInv
    <3> QED
      BY <3>1 DEF ScoreLane, LaneAt
  <2> QED
    BY <2>1, <2>2
<1> QED
  BY <1>1 DEF RingOK, DEPTH

\* The deal of the kernel that runs, and its table of tokens.
Lists == IF stage = "commit" THEN CommitLists ELSE ScoreLists
\* How many tokens of an item the kernel that runs has to serve.
Table == IF stage = "commit" THEN Accepts ELSE Lengths

\* The lists of the kernel that runs.
LEMMA ListsNow ==
    ASSUME ShapeOK, LanesInv
    PROVE  /\ ListsOK(Lists) /\ Everywhere(Lists)
           /\ \A l \in Lanes : /\ OnList(Items, Lists[l], Table, lane[l])
                               /\ ListOK(Items, Lists[l]) /\ Made(lane[l])
           /\ \A i \in Items : Table[i] \in Nat
<1>1. ListsOK(Lists) /\ Everywhere(Lists)
  BY KernelLists DEF ShapeOK, Lists
<1>2. ASSUME NEW l \in Lanes
      PROVE  OnList(Items, Lists[l], Table, lane[l]) /\ ListOK(Items, Lists[l]) /\ Made(lane[l])
  <2>1. CASE stage = "commit"
    <3>1. CommitLane(lane[l], l) /\ Lists = CommitLists /\ Table = Accepts
      BY <2>1 DEF LanesInv, Lists, Table
    <3> QED
      BY <1>1, <3>1 DEF CommitLane, LaneAt, ListsOK
  <2>2. CASE stage # "commit"
    <3>1. ScoreLane(lane[l], l) /\ Lists = ScoreLists /\ Table = Lengths
      BY <2>2 DEF LanesInv, Lists, Table
    <3> QED
      BY <1>1, <3>1 DEF ScoreLane, LaneAt, ListsOK
  <2> QED
    BY <2>1, <2>2
<1>3. \A i \in Items : Table[i] \in Nat
  BY ItemFacts DEF Table
<1> QED
  BY <1>1, <1>2, <1>3

\* Two items on the lanes' lists that hold the same row are the same item.
LEMMA RowsStayApart == ASSUME ShapeOK, LanesInv PROVE RowsApart
<1> DEFINE ahead(l) == UNION {{<<l, w, at>> : at \in DOMAIN lane[l].works[w]} :
                                w \in DOMAIN lane[l].works}
           item(x) == lane[x[1]].works[x[2]][x[3]]
<1>1. SUFFICES ASSUME NEW x \in UNION {ahead(l) : l \in Lanes},
                      NEW y \in UNION {ahead(l) : l \in Lanes},
                      item(x).head = item(y).head,
                      NEW q \in ItemRows(item(x)), q \in ItemRows(item(y))
               PROVE  x = y
  BY DEF RowsApart
<1>2. ASSUME NEW z \in UNION {ahead(l) : l \in Lanes}
      PROVE  \E l \in Lanes : \E w \in DOMAIN lane[l].works : \E a \in DOMAIN lane[l].works[w] :
               z = <<l, w, a>>
  BY <1>2
<1>3. ASSUME NEW l \in Lanes, NEW w \in DOMAIN lane[l].works
      PROVE  /\ Drained(Lists[l], lane[l]) + w \in DOMAIN Lists[l] /\ w \in Nat
             /\ lane[l].works[w] = Lists[l][Drained(Lists[l], lane[l]) + w]
             /\ Drained(Lists[l], lane[l]) \in Int
  <2> DEFINE S == Lists[l]    st == lane[l]
  <2>1. OnList(Items, S, Table, st) /\ ListOK(Items, S)
    BY ListsNow
  <2>2. /\ st.works \in Seq(Seq(Items)) /\ Len(st.works) <= Len(S)
        /\ st.works[w] = S[Drained(S, st) + w]
    BY <2>1 DEF OnList
  <2>3. Len(S) \in Nat /\ DOMAIN S = 1 .. Len(S)
    BY <2>1 DEF ListOK
  <2>4. Len(st.works) \in Nat /\ w \in 1 .. Len(st.works)
    BY <2>2
  <2> HIDE DEF S, st
  <2>5. Drained(S, st) + w \in 1 .. Len(S) /\ w \in Nat /\ Drained(S, st) \in Int
    BY <2>2, <2>3, <2>4 DEF Drained
  <2> QED
    BY <2>2, <2>3, <2>5 DEF S, st
<1>4. PICK l1 \in Lanes : \E w \in DOMAIN lane[l1].works : \E a \in DOMAIN lane[l1].works[w] :
        x = <<l1, w, a>>
  BY <1>2
<1>5. PICK w1 \in DOMAIN lane[l1].works : \E a \in DOMAIN lane[l1].works[w1] : x = <<l1, w1, a>>
  BY <1>4
<1>6. PICK a1 \in DOMAIN lane[l1].works[w1] : x = <<l1, w1, a1>>
  BY <1>5
<1>7. PICK l2 \in Lanes : \E w \in DOMAIN lane[l2].works : \E a \in DOMAIN lane[l2].works[w] :
        y = <<l2, w, a>>
  BY <1>2
<1>8. PICK w2 \in DOMAIN lane[l2].works : \E a \in DOMAIN lane[l2].works[w2] : y = <<l2, w2, a>>
  BY <1>7
<1>9. PICK a2 \in DOMAIN lane[l2].works[w2] : y = <<l2, w2, a2>>
  BY <1>8
<1>10. item(x) = lane[l1].works[w1][a1] /\ item(y) = lane[l2].works[w2][a2]
  BY <1>6, <1>9
<1> DEFINE d1 == Drained(Lists[l1], lane[l1])    d2 == Drained(Lists[l2], lane[l2])
<1>11. /\ d1 + w1 \in DOMAIN Lists[l1] /\ w1 \in Nat /\ d1 \in Int
       /\ lane[l1].works[w1] = Lists[l1][d1 + w1]
       /\ d2 + w2 \in DOMAIN Lists[l2] /\ w2 \in Nat /\ d2 \in Int
       /\ lane[l2].works[w2] = Lists[l2][d2 + w2]
  BY <1>3
<1> DEFINE v1 == d1 + w1    v2 == d2 + w2
<1>12. /\ v1 \in DOMAIN Lists[l1] /\ a1 \in DOMAIN Lists[l1][v1] /\ item(x) = Lists[l1][v1][a1]
       /\ v2 \in DOMAIN Lists[l2] /\ a2 \in DOMAIN Lists[l2][v2] /\ item(y) = Lists[l2][v2][a2]
  BY <1>6, <1>9, <1>10, <1>11
<1> HIDE DEF v1, v2, item, ahead
<1>13. l1 = l2 /\ v1 = v2 /\ a1 = a2
  <2>1. ListsOK(Lists) /\ Everywhere(Lists)
    BY ListsNow
  <2>2. /\ Lists[l1][v1][a1].head = Lists[l2][v2][a2].head
        /\ q \in ItemRows(Lists[l1][v1][a1]) /\ q \in ItemRows(Lists[l2][v2][a2])
    BY <1>1, <1>12
  <2> HIDE DEF d1, d2
  <2> QED
    BY <1>12, <2>1, <2>2, ItemsApart, ZenonT(40)
<1>14. w1 = w2
  BY <1>11, <1>13 DEF v1, v2
<1> QED
  BY <1>6, <1>9, <1>13, <1>14

\* The call stays within its bounds and the lanes of every kernel stay on the lists
\* that were dealt out to them.
THEOREM LanesAlways == Spec => [](ShapeOK /\ LanesInv)
<1>1. Init => ShapeOK /\ LanesInv
  BY LanesInit
<1>2. (ShapeOK /\ LanesInv) /\ [Next]_vars => (ShapeOK /\ LanesInv)'
  BY ShapeNext, LanesNext
<1> QED
  BY <1>1, <1>2, PTL DEF Spec

\* RowsApart: no two lanes are ever given the same row of a head, and no lane
\* is given it twice, whichever of the schedules deals the work out.
THEOREM RowsAlwaysApart == Spec => []RowsApart
<1>1. ShapeOK /\ LanesInv => RowsApart
  BY RowsStayApart
<1> QED
  BY <1>1, LanesAlways, PTL

\* RingInOrder: no kernel reads a slot of its ring before it is filled or fills
\* one that is still to be read.
THEOREM RingAlwaysInOrder == Spec => []RingInOrder
<1>1. ShapeOK /\ LanesInv => RingInOrder
  BY RingsInOrder
<1> QED
  BY <1>1, LanesAlways, PTL
-----------------------------------------------------------------------------
(* How many of its tokens every row has been served.                       *)

\* The place in a deal of the item that has row q of head h.
Place(W, h, q) ==
  CHOOSE p \in Lanes \X Nat \X Nat :
    /\ p[2] \in DOMAIN W[p[1]] /\ p[3] \in DOMAIN W[p[1]][p[2]]
    /\ Covers(W[p[1]][p[2]][p[3]], h, q)

\* How many tokens of a row the kernel that runs has served.
Done(h, q) ==
  LET p == Place(Lists, h, q) IN Served(Lists[p[1]], Table, lane[p[1]], p[2], p[3])

\* The place of a row on the lists.
LEMMA PlaceIs ==
    ASSUME NEW W, ListsOK(W), Everywhere(W), NEW h \in Heads, NEW q \in Rows
    PROVE  LET p == Place(W, h, q) IN
           /\ p[1] \in Lanes /\ p[2] \in DOMAIN W[p[1]] /\ p[3] \in DOMAIN W[p[1]][p[2]]
           /\ Covers(W[p[1]][p[2]][p[3]], h, q)
           /\ \A l \in Lanes : \A w \in DOMAIN W[l] : \A a \in DOMAIN W[l][w] :
                Covers(W[l][w][a], h, q) <=> l = p[1] /\ w = p[2] /\ a = p[3]
<1> DEFINE Good(p) == /\ p[2] \in DOMAIN W[p[1]] /\ p[3] \in DOMAIN W[p[1]][p[2]]
                      /\ Covers(W[p[1]][p[2]][p[3]], h, q)
           p == Place(W, h, q)
<1>1. PICK l0 \in Lanes : \E w0 \in DOMAIN W[l0] : \E a0 \in DOMAIN W[l0][w0] :
        \A l \in Lanes : \A w \in DOMAIN W[l] : \A a \in DOMAIN W[l][w] :
          Covers(W[l][w][a], h, q) <=> l = l0 /\ w = w0 /\ a = a0
  BY Zenon DEF Everywhere
<1>2. PICK w0 \in DOMAIN W[l0] : \E a0 \in DOMAIN W[l0][w0] :
        \A l \in Lanes : \A w \in DOMAIN W[l] : \A a \in DOMAIN W[l][w] :
          Covers(W[l][w][a], h, q) <=> l = l0 /\ w = w0 /\ a = a0
  BY <1>1, Zenon
<1>3. PICK a0 \in DOMAIN W[l0][w0] :
        \A l \in Lanes : \A w \in DOMAIN W[l] : \A a \in DOMAIN W[l][w] :
          Covers(W[l][w][a], h, q) <=> l = l0 /\ w = w0 /\ a = a0
  BY <1>2, Zenon
<1>4. Covers(W[l0][w0][a0], h, q)
  BY <1>3, Zenon
<1>5. w0 \in Nat /\ a0 \in Nat
  <2>1. ListOK(Items, W[l0])
    BY DEF ListsOK
  <2>2. w0 \in Nat /\ a0 \in {1, 2}
    BY <2>1, ListFacts
  <2> QED
    BY <2>2
<1> DEFINE x == <<l0, w0, a0>>
<1>6. x \in Lanes \X Nat \X Nat /\ x[1] = l0 /\ x[2] = w0 /\ x[3] = a0
  BY <1>5
<1> HIDE DEF x
<1>7. Good(x)
  BY <1>4, <1>6
<1> HIDE DEF Good
<1>8. \E y \in Lanes \X Nat \X Nat : Good(y)
  BY <1>6, <1>7
<1>9. p = CHOOSE y \in Lanes \X Nat \X Nat : Good(y)
  BY DEF Place, Good
<1>10. p \in Lanes \X Nat \X Nat /\ Good(p)
  BY <1>8, <1>9, Zenon
<1>11. p[1] \in Lanes
  BY <1>10
<1> HIDE DEF p
<1>12. p[1] = l0 /\ p[2] = w0 /\ p[3] = a0
  BY <1>3, <1>10, <1>11, Zenon DEF Good
<1> QED
  BY <1>3, <1>10, <1>11, <1>12 DEF Good, p

\* A row is served with its item.
LEMMA DoneIs ==
    ASSUME ShapeOK, LanesInv, NEW l \in Lanes, NEW w \in DOMAIN Lists[l],
           NEW a \in DOMAIN Lists[l][w], NEW h \in Heads, NEW q \in Rows,
           Covers(Lists[l][w][a], h, q)
    PROVE  Done(h, q) = Served(Lists[l], Table, lane[l], w, a)
<1> DEFINE p == Place(Lists, h, q)
<1>1. l = p[1] /\ w = p[2] /\ a = p[3]
  BY ListsNow, PlaceIs
<1> QED
  BY <1>1, Zenon DEF Done

\* When a kernel starts no token of any row is served.
LEMMA DoneStart ==
    ASSUME ShapeOK, LanesInv, lane = [l \in Lanes |-> Start(Lists[l])],
           NEW h \in Heads, NEW q \in Rows
    PROVE  Done(h, q) = 0
<1> DEFINE p == Place(Lists, h, q)
<1>1. p[1] \in Lanes /\ p[2] \in DOMAIN Lists[p[1]] /\ p[3] \in DOMAIN Lists[p[1]][p[2]]
  BY ListsNow, PlaceIs
<1>2. ListOK(Items, Lists[p[1]]) /\ lane[p[1]] = Start(Lists[p[1]])
  BY <1>1, ListsNow
<1> HIDE DEF p
<1>3. Served(Lists[p[1]], Table, Start(Lists[p[1]]), p[2], p[3]) = 0
  BY <1>1, <1>2, StartOnList
<1> QED
  BY <1>2, <1>3 DEF Done, p

\* When all lanes are idle all tokens of every row are served.
LEMMA DoneEnd ==
    ASSUME ShapeOK, LanesInv, AllIdle, NEW h \in Heads, NEW q \in Rows
    PROVE  Done(h, q) = IF stage = "commit" THEN accepted[SeqOf(h)] ELSE shape.length[SeqOf(h)]
<1> DEFINE p == Place(Lists, h, q)    i == Lists[p[1]][p[2]][p[3]]
<1>1. /\ p[1] \in Lanes /\ p[2] \in DOMAIN Lists[p[1]] /\ p[3] \in DOMAIN Lists[p[1]][p[2]]
      /\ Covers(i, h, q)
  BY ListsNow, PlaceIs
<1>2. ListOK(Items, Lists[p[1]]) /\ lane[p[1]].works = <<>> /\ i \in Items
  BY <1>1, ListsNow DEF AllIdle, Idle, ListsOK
<1> HIDE DEF p
<1>3. Served(Lists[p[1]], Table, lane[p[1]], p[2], p[3]) = Table[i]
  BY <1>1, <1>2, EndOnList
<1>4. i.head = h
  BY <1>1 DEF Covers
<1>5. Table[i] = IF stage = "commit" THEN accepted[SeqOf(h)] ELSE shape.length[SeqOf(h)]
  BY <1>2, <1>4, ItemFacts DEF Table
<1> QED
  BY <1>3, <1>5 DEF Done, p

\* What a move of lane l changes: how far the rows of the item before it are.
DoneResult(l, k) ==
  \A h \in Heads, q \in Rows :
    /\ Covers(CurrentItem(l), h, q) => Done(h, q) = lane[l].tok
    /\ Done(h, q)' = IF Covers(CurrentItem(l), h, q) THEN (IF k = 0 THEN 0 ELSE lane[l].tok + 1)
                     ELSE Done(h, q)

\* A lane that moves on serves the rows of the item before it, and no others.
LEMMA DoneMoves ==
    ASSUME ShapeOK, LanesInv, NEW l \in Lanes, ~ Idle(l), NEW st2,
           Moved(lane[l], st2, Table[CurrentItem(l)]), lane' = [lane EXCEPT ![l] = st2],
           shape' = shape, stage' = stage, accepted' = accepted
    PROVE  DoneResult(l, Table[CurrentItem(l)])
<1> DEFINE st == lane[l]    S == Lists[l]    i == CurrentItem(l)
           w0 == Drained(S, st) + 1    k == Table[i]
<1>1. ListOK(Items, S) /\ OnList(Items, S, Table, st) /\ \A j \in Items : Table[j] \in Nat
  BY ListsNow
<1>2. /\ w0 \in DOMAIN S /\ st.at \in DOMAIN S[w0] /\ i = S[w0][st.at]
      /\ st.works # <<>> /\ i = Head(st.works)[st.at]
  <2>1. LET w == Drained(Lists[l], lane[l]) + 1 IN
        /\ w \in DOMAIN Lists[l] /\ lane[l].at \in DOMAIN Lists[l][w]
        /\ CurrentItem(l) = Lists[l][w][lane[l].at]
    BY <1>1, CurrentIs, Zenon
  <2>2. lane[l].works # <<>> /\ CurrentItem(l) = Head(lane[l].works)[lane[l].at]
    BY DEF Idle, CurrentItem, Work
  <2> QED
    BY <2>1, <2>2, Zenon
<1>3. \A w \in DOMAIN S : \A a \in DOMAIN S[w] :
        Served(S, Table, st2, w, a)
          = IF w = w0 /\ a = st.at THEN (IF k = 0 THEN 0 ELSE st.tok + 1)
            ELSE Served(S, Table, st, w, a)
  <2> DEFINE j == Head(st.works)[st.at]
  <2>1. Moved(st, st2, Table[j]) /\ k = Table[j] /\ S[w0][st.at] = j
    BY <1>2
  <2> HIDE DEF S, st, j, i
  <2>2. Table[S[w0][st.at]] = k
    BY <2>1
  <2>3. \A w \in DOMAIN S : \A a \in DOMAIN S[w] :
          Served(S, Table, st2, w, a)
            = IF w = Drained(S, st) + 1 /\ a = st.at
              THEN (IF Table[S[Drained(S, st) + 1][st.at]] = 0 THEN 0 ELSE st.tok + 1)
              ELSE Served(S, Table, st, w, a)
    <3>1. Moved(st, st2, Table[Head(st.works)[st.at]])
      BY <2>1 DEF j
    <3>2. ServesResult(S, Table, st, st2)
      BY <1>1, <1>2, <3>1, MoveOn
    <3> QED
      BY <3>2, Zenon DEF ServesResult
  <2> QED
    BY <2>2, <2>3, Zenon
<1>4. Lists' = Lists /\ Table' = Table /\ Lanes' = Lanes
  BY SameCall DEF Lists, Table
<1>5. lane'[l] = st2 /\ \A m \in Lanes : m # l => lane'[m] = lane[m]
  BY DEF LanesInv
<1>6. ASSUME NEW h \in Heads, NEW q \in Rows
      PROVE  /\ Covers(i, h, q) => Done(h, q) = st.tok
             /\ Done(h, q)' = IF Covers(i, h, q) THEN (IF k = 0 THEN 0 ELSE st.tok + 1)
                              ELSE Done(h, q)
  <2> DEFINE p == Place(Lists, h, q)
  <2>1. /\ p[1] \in Lanes /\ p[2] \in DOMAIN Lists[p[1]] /\ p[3] \in DOMAIN Lists[p[1]][p[2]]
        /\ \A m \in Lanes : \A w \in DOMAIN Lists[m] : \A a \in DOMAIN Lists[m][w] :
             Covers(Lists[m][w][a], h, q) <=> m = p[1] /\ w = p[2] /\ a = p[3]
    BY ListsNow, PlaceIs
  <2>2. Covers(i, h, q) <=> l = p[1] /\ w0 = p[2] /\ st.at = p[3]
    <3>1. Covers(Lists[l][w0][st.at], h, q) <=> l = p[1] /\ w0 = p[2] /\ st.at = p[3]
      <4> HIDE DEF w0, st, p
      <4> QED
        BY <1>2, <2>1, Zenon DEF S
    <3> QED
      BY <1>2, <3>1
  <2>3. Done(h, q) = Served(Lists[p[1]], Table, lane[p[1]], p[2], p[3])
    BY DEF Done
  <2>4. Done(h, q)' = Served(Lists[p[1]], Table, lane'[p[1]], p[2], p[3])
    BY <1>4 DEF Done, Place
  <2> HIDE DEF p
  <2>5. Served(S, Table, st, w0, st.at) = st.tok
    <3>1. w0 \in Nat /\ Drained(S, st) \in Int /\ st.at \in Nat
      <4>1. st.at \in {1, 2} /\ Len(S) \in Nat /\ Len(st.works) \in Nat
        BY <1>1, <1>2, ListFacts, FirstWork
      <4> QED
        <5>1. w0 \in Nat
          BY <1>1, <1>2, ListFacts
        <5> HIDE DEF S, st
        <5> QED
          BY <4>1, <5>1 DEF Drained
    <3> HIDE DEF st, S
    <3> QED
      BY <3>1 DEF Served, Past, Now
  <2>6. CASE p[1] = l
    <3>1. Done(h, q)' = Served(S, Table, st2, p[2], p[3])
      BY <1>5, <2>4, <2>6
    <3>2. Done(h, q) = Served(S, Table, st, p[2], p[3])
      BY <2>3, <2>6
    <3> HIDE DEF S, st, w0, k, i
    <3> QED
      BY <1>3, <2>1, <2>2, <2>5, <2>6, <3>1, <3>2 DEF S
  <2>7. CASE p[1] # l
    BY <1>5, <2>1, <2>2, <2>3, <2>4, <2>7
  <2> QED
    BY <2>6, <2>7
<1> QED
  BY <1>6 DEF DoneResult

\* The rows of a pair's second item wait while the lane is at the first one.
LEMMA PairWaits ==
    ASSUME ShapeOK, LanesInv, NEW l \in Lanes, ~ Idle(l), lane[l].at = 1,
           1 < Len(Head(lane[l].works))
    PROVE  LET j == Head(lane[l].works)[2] IN
           j \in Items /\ \A q \in ItemRows(j) : q \in Rows /\ Done(j.head, q) = 0
<1> DEFINE st == lane[l]    S == Lists[l]    w0 == Drained(S, st) + 1    j == S[w0][2]
<1>1. ListOK(Items, S) /\ OnList(Items, S, Table, st) /\ st.works # <<>>
  BY ListsNow DEF Idle
<1>2. w0 \in DOMAIN S /\ Head(st.works) = S[w0] /\ w0 \in Nat
  BY <1>1, FirstWork, ListFacts
<1>3. 2 \in DOMAIN S[w0]
  <2>1. DOMAIN S[w0] = 1 .. Len(S[w0]) /\ Len(S[w0]) \in {1, 2} /\ 1 < Len(S[w0])
    BY <1>1, <1>2, ListFacts
  <2> QED
    BY <2>1
<1>4. j \in Items /\ j.head \in Heads /\ ItemRows(j) \subseteq Rows
  BY <1>2, <1>3, ListsNow DEF ListsOK
<1>5. Served(S, Table, st, w0, 2) = 0
  <2> HIDE DEF S
  <2>1. ~ Past(S, st, w0, 2)
    <3>1. Drained(S, st) \in Int
      BY <1>2, <1>1, ListFacts, FirstWork DEF Drained
    <3> QED
      BY <3>1 DEF Past
  <2>2. ~ Now(S, st, w0, 2)
    BY DEF Now
  <2> QED
    BY <2>1, <2>2 DEF Served
<1>6. ASSUME NEW q \in ItemRows(j) PROVE q \in Rows /\ Done(j.head, q) = 0
  <2>1. Covers(j, j.head, q) /\ q \in Rows
    BY <1>4 DEF Covers
  <2> QED
    BY <1>2, <1>3, <1>4, <1>5, <2>1, DoneIs
<1> QED
  BY <1>2, <1>4, <1>6
-----------------------------------------------------------------------------
(* The texts.                                                              *)

\* The first n candidates of round r.
Cands(r, n) == [i \in 1 .. n |-> <<r, i - 1>>]

\* Candidates are a text, and one more is appended to them.
LEMMA CandsFacts ==
    ASSUME NEW r \in Nat, NEW n \in Nat
    PROVE  /\ Cands(r, n) \in Texts /\ Len(Cands(r, n)) = n /\ DOMAIN Cands(r, n) = 1 .. n
           /\ \A i \in 1 .. n : Cands(r, n)[i] = <<r, i - 1>>
<1>1. \A i \in 1 .. n : <<r, i - 1>> \in Nat \X Nat
  OBVIOUS
<1>2. Cands(r, n) \in [1 .. n -> Nat \X Nat]
  BY <1>1 DEF Cands
<1> QED
  BY <1>2 DEF Texts, Cands

\* Two texts of the same length and the same tokens are the same.
LEMMA SameText ==
    ASSUME NEW a \in Texts, NEW b \in Texts, Len(a) = Len(b),
           \A i \in 1 .. Len(a) : a[i] = b[i]
    PROVE  a = b
<1>1. DOMAIN a = 1 .. Len(a) /\ DOMAIN b = 1 .. Len(a)
  BY DEF Texts
<1>2. a = [i \in DOMAIN a |-> a[i]] /\ b = [i \in DOMAIN b |-> b[i]]
  BY DEF Texts
<1> QED
  BY <1>1, <1>2

\* What a text is with another one after it, or one more token.
LEMMA JoinFacts ==
    ASSUME NEW a \in Texts, NEW b \in Texts, NEW x \in Nat \X Nat
    PROVE  /\ a \o b \in Texts /\ Len(a \o b) = Len(a) + Len(b)
           /\ Len(a) \in Nat /\ Len(b) \in Nat
           /\ \A i \in 1 .. Len(a) + Len(b) :
                (a \o b)[i] = IF i <= Len(a) THEN a[i] ELSE b[i - Len(a)]
           /\ Append(a, x) \in Texts /\ Len(Append(a, x)) = Len(a) + 1
           /\ \A i \in 1 .. Len(a) + 1 : Append(a, x)[i] = IF i <= Len(a) THEN a[i] ELSE x
BY DEF Texts

\* A text with the first candidates of the round after it.
LEMMA GrowText ==
    ASSUME NEW a \in Texts, NEW r \in Nat, NEW n \in Nat
    PROVE  /\ a \o Cands(r, n) \in Texts /\ Len(a \o Cands(r, n)) = Len(a) + n
           /\ a \o Cands(r, 0) = a
           /\ Append(a \o Cands(r, n), <<r, n>>) = a \o Cands(r, n + 1)
<1>1. \A m \in Nat : /\ Cands(r, m) \in Texts /\ Len(Cands(r, m)) = m
                     /\ \A i \in 1 .. m : Cands(r, m)[i] = <<r, i - 1>>
  BY CandsFacts
<1>2. <<r, n>> \in Nat \X Nat /\ Len(a) \in Nat /\ n + 1 \in Nat
  BY DEF Texts
<1>3. \A m \in Nat : /\ a \o Cands(r, m) \in Texts /\ Len(a \o Cands(r, m)) = Len(a) + m
                     /\ \A i \in 1 .. Len(a) + m :
                          (a \o Cands(r, m))[i] = IF i <= Len(a) THEN a[i] ELSE <<r, i - Len(a) - 1>>
  <2> SUFFICES ASSUME NEW m \in Nat
               PROVE  /\ a \o Cands(r, m) \in Texts /\ Len(a \o Cands(r, m)) = Len(a) + m
                      /\ \A i \in 1 .. Len(a) + m :
                           (a \o Cands(r, m))[i]
                             = IF i <= Len(a) THEN a[i] ELSE <<r, i - Len(a) - 1>>
    OBVIOUS
  <2> DEFINE c == Cands(r, m)
  <2>1. c \in Texts /\ Len(c) = m /\ \A i \in 1 .. m : c[i] = <<r, i - 1>>
    BY <1>1
  <2> HIDE DEF c
  <2>2. /\ a \o c \in Texts /\ Len(a \o c) = Len(a) + Len(c)
        /\ \A i \in 1 .. Len(a) + Len(c) :
             (a \o c)[i] = IF i <= Len(a) THEN a[i] ELSE c[i - Len(a)]
    BY <1>2, <2>1, JoinFacts
  <2>3. \A i \in 1 .. Len(a) + m : ~ (i <= Len(a)) => i - Len(a) \in 1 .. m
    BY <1>2
  <2>4. \A i \in 1 .. Len(a) + m : ~ (i <= Len(a)) => c[i - Len(a)] = <<r, i - Len(a) - 1>>
    BY <2>1, <2>3
  <2>5. \A i \in 1 .. Len(a) + m :
          (a \o c)[i] = IF i <= Len(a) THEN a[i] ELSE <<r, i - Len(a) - 1>>
    BY <2>1, <2>2, <2>4
  <2> QED
    BY <2>1, <2>2, <2>5 DEF c
<1>4. a \o Cands(r, 0) = a
  <2> DEFINE b == a \o Cands(r, 0)
  <2>1. b \in Texts /\ Len(b) = Len(a) /\ \A i \in 1 .. Len(a) : b[i] = a[i]
    BY <1>2, <1>3, SMTT(30)
  <2> HIDE DEF b
  <2>2. b = a
    BY <2>1, SameText
  <2> QED
    BY <2>2 DEF b
<1>5. Append(a \o Cands(r, n), <<r, n>>) = a \o Cands(r, n + 1)
  <2> DEFINE b == a \o Cands(r, n)    d == a \o Cands(r, n + 1)    x == <<r, n>>
  <2>1. /\ b \in Texts /\ Len(b) = Len(a) + n
        /\ \A i \in 1 .. Len(a) + n : b[i] = IF i <= Len(a) THEN a[i] ELSE <<r, i - Len(a) - 1>>
    BY <1>3
  <2>2. /\ d \in Texts /\ Len(d) = Len(a) + (n + 1)
        /\ \A i \in 1 .. Len(a) + (n + 1) :
             d[i] = IF i <= Len(a) THEN a[i] ELSE <<r, i - Len(a) - 1>>
    BY <1>2, <1>3
  <2>3. x \in Nat \X Nat
    BY <1>2
  <2> HIDE DEF b, d
  <2>4. /\ Append(b, x) \in Texts /\ Len(Append(b, x)) = Len(b) + 1
        /\ \A i \in 1 .. Len(b) + 1 : Append(b, x)[i] = IF i <= Len(b) THEN b[i] ELSE x
    <3>1. \A f \in Texts, y \in Nat \X Nat :
            /\ Append(f, y) \in Texts /\ Len(Append(f, y)) = Len(f) + 1
            /\ \A i \in 1 .. Len(f) + 1 : Append(f, y)[i] = IF i <= Len(f) THEN f[i] ELSE y
      BY DEF Texts
    <3> QED
      BY <2>1, <2>3, <3>1, Zenon
  <2>5. ASSUME NEW i \in 1 .. Len(a) + (n + 1) PROVE Append(b, x)[i] = d[i]
    <3>1. CASE i <= Len(a) + n
      BY <1>2, <2>1, <2>2, <2>4, <3>1
    <3>2. CASE i = Len(a) + (n + 1)
      BY <1>2, <2>1, <2>2, <2>4, <3>2
    <3>3. i <= Len(a) + n \/ i = Len(a) + (n + 1)
      <4> HIDE DEF x
      <4> QED
        BY <1>2
    <3> QED
      BY <3>1, <3>2, <3>3
  <2>6. Len(Append(b, x)) = Len(a) + (n + 1)
    BY <1>2, <2>1, <2>4
  <2>7. Append(b, x) = d
    BY <2>2, <2>4, <2>5, <2>6, SameText
  <2> QED
    BY <2>7 DEF b, d
<1> QED
  BY <1>3, <1>4, <1>5

\* The text of a sequence with the first t candidates of the round, and the row
\* that has gone through it.
Upto(T, s, t) == T[s] \o Cands(round, t)
\* The row of a head behind t candidates of its sequence.
RowOf(T, h, q, t) == Row(h, q, Upto(T, SeqOf(h), t))

\* The row, update and key of a token, and what they make of the row.
ApplyResult(a, r, t, h, q, rows) ==
  LET v == Row(h, q, a \o Cands(r, t))
      in == [head |-> h, rows |-> rows, tok |-> <<r, t>>]
      u == [head |-> h, row |-> q, base |-> a \o Cands(r, t), tok |-> <<r, t>>]
      k == [head |-> h, tok |-> <<r, t>>]
  IN  /\ Delta(v, in) = u /\ Apply(v, u, k) = Row(h, q, a \o Cands(r, t + 1))
      /\ [head |-> in.head, tok |-> in.tok] = k

\* A token applied to the row before it is the row behind it.
LEMMA ApplyGood ==
    ASSUME NEW a \in Texts, NEW r \in Nat \ {0}, NEW t \in Nat, NEW h, NEW q, NEW rows, q \in rows
    PROVE  ApplyResult(a, r, t, h, q, rows)
<1> DEFINE b == a \o Cands(r, t)    x == <<r, t>>    v == Row(h, q, b)
           in == [head |-> h, rows |-> rows, tok |-> x]
           u == [head |-> h, row |-> q, base |-> b, tok |-> x]
           k == [head |-> h, tok |-> x]
<1>1. Append(b, x) = a \o Cands(r, t + 1)
  BY GrowText
<1>2. x # NoToken
  BY DEF NoToken
<1> HIDE DEF b, x
<1>3. Delta(v, in) = u
  BY DEF Delta, Row
<1>4. Apply(v, u, k) = [v EXCEPT !.hist = Append(@, x)]
  BY <1>2 DEF Apply, Row
<1>5. [v EXCEPT !.hist = Append(@, x)] = Row(h, q, Append(b, x))
  BY SMTT(30) DEF Row
<1> QED
  BY <1>1, <1>3, <1>4, <1>5 DEF ApplyResult, b, x
-----------------------------------------------------------------------------
(* The stores in memory, and the slots that are dealt to the tokens.       *)

\* n tokens that have n slots between them have a slot each.
LEMMA SlotEach ==
    ASSUME NEW s, NEW n \in Nat, n = shape.length[s],
           NEW f \in [1 .. n -> SlotsOf(s)], \A y \in SlotsOf(s) : \E i \in 1 .. n : f[i] = y
    PROVE  \A i, j \in 1 .. n : f[i] = f[j] => i = j
<1> DEFINE R == SlotsOf(s)    g == [i \in 1 .. n |-> <<s, i - 1>>]
<1>1. IsFiniteSet(1 .. n)
  BY FS_Interval
<1>0. R = {<<s, t>> : t \in 0 .. n - 1}
  BY DEF SlotsOf
<1>2. g \in Surjection(1 .. n, R) /\ g \in Injection(1 .. n, R)
  <2>1. \A i \in 1 .. n : i - 1 \in 0 .. n - 1 /\ g[i] = <<s, i - 1>>
    OBVIOUS
  <2>2. g \in [1 .. n -> R]
    BY <1>0, <2>1
  <2>3. ASSUME NEW y \in R PROVE \E i \in 1 .. n : g[i] = y
    <3>1. PICK t \in 0 .. n - 1 : y = <<s, t>>
      BY <1>0
    <3>2. t + 1 \in 1 .. n /\ (t + 1) - 1 = t
      OBVIOUS
    <3> QED
      BY <2>1, <3>1, <3>2
  <2>4. ASSUME NEW i \in 1 .. n, NEW j \in 1 .. n, g[i] = g[j] PROVE i = j
    BY <2>1, <2>4
  <2> HIDE DEF g, R
  <2> QED
    BY <2>2, <2>3, <2>4 DEF Surjection, Injection, IsInjective
<1>3. Cardinality(R) = Cardinality(1 .. n)
  <2> HIDE DEF g, R
  <2> QED
    BY <1>1, <1>2, FS_Surjection
<1>4. f \in Surjection(1 .. n, R)
  BY DEF Surjection
<1>5. f \in Injection(1 .. n, R)
  BY <1>1, <1>3, <1>4, FS_Surjection
<1> QED
  BY <1>5 DEF Injection, IsInjective

\* Every sequence's tokens have the slots between them, each its own.
SlotsOK ==
  \A s \in Seqs :
    /\ slots[s] \in [1 .. shape.length[s] -> SlotsOf(s)]
    /\ \A i, j \in 1 .. shape.length[s] : slots[s][i] = slots[s][j] => i = j
    /\ count[s] \in 0 .. shape.length[s]

\* The stores keep their cells.
StoreOK ==
  /\ DOMAIN checkpoint = Heads \X Rows
  /\ DOMAIN replayU = Heads \X Rows \X Tokens /\ DOMAIN out = Heads \X Rows \X Tokens
  /\ DOMAIN replayK = Heads \X Tokens
  /\ DOMAIN snapOut = Heads \X Rows \X Tokens /\ DOMAIN pool = Cells
  /\ SlotsOK

\* At first the stores have their shape.
LEMMA StoreInit == ASSUME Init, ShapeOK PROVE StoreOK
<1>1. ReplayInit /\ SnapshotInit
  BY DEF Init
<1>2. /\ DOMAIN checkpoint = Heads \X Rows
      /\ DOMAIN replayU = Heads \X Rows \X Tokens /\ DOMAIN out = Heads \X Rows \X Tokens
      /\ DOMAIN replayK = Heads \X Tokens
      /\ DOMAIN snapOut = Heads \X Rows \X Tokens /\ DOMAIN pool = Cells
  BY <1>1 DEF ReplayInit, SnapshotInit, Tokens
<1>3. ASSUME NEW s \in Seqs
      PROVE  /\ slots[s] \in [1 .. shape.length[s] -> SlotsOf(s)]
             /\ \A i, j \in 1 .. shape.length[s] : slots[s][i] = slots[s][j] => i = j
             /\ count[s] \in 0 .. shape.length[s]
  <2> DEFINE n == shape.length[s]
  <2>1. n \in Nat \ {0}
    BY ShapeFacts DEF ShapeOK
  <2>2. slots[s] = [i \in 1 .. n |-> <<s, i - 1>>] /\ count[s] = 1
    BY <1>1 DEF SnapshotInit
  <2>3. SlotsOf(s) = {<<s, t>> : t \in 0 .. n - 1}
    BY DEF SlotsOf
  <2> HIDE DEF n
  <2>4. \A i \in 1 .. n : i - 1 \in 0 .. n - 1
    BY <2>1
  <2>5. \A i \in 1 .. n : slots[s][i] = <<s, i - 1>>
    BY <2>2
  <2>6. \A i, j \in 1 .. n : slots[s][i] = slots[s][j] => i = j
    BY <2>1, <2>5
  <2>7. slots[s] \in [1 .. n -> SlotsOf(s)]
    BY <2>2, <2>3, <2>4
  <2>8. count[s] \in 0 .. n
    BY <2>1, <2>2
  <2> QED
    BY <2>6, <2>7, <2>8 DEF n
<1> QED
  BY <1>2, <1>3 DEF StoreOK, SlotsOK

\* A call keeps its shape.
LEMMA ShapeStays == ASSUME [Next]_vars PROVE shape' = shape
<1>1. ASSUME \E s \in DOMAIN convOut : Conv(s) PROVE shape' = shape
  BY <1>1 DEF Conv, Convolve
<1>2. ASSUME NEW l \in Lanes, Verify(l) \/ Snapshot(l) \/ Commit(l) PROVE shape' = shape
  BY <1>2 DEF Verify, VerifyToken, Snapshot, SnapshotToken, Commit, CommitSkip, CommitToken
<1>3. ASSUME ConvEnds \/ VerifyEnds \/ SnapshotEnds \/ Accept \/ CommitEnds \/ UNCHANGED vars
      PROVE  shape' = shape
  BY <1>3 DEF ConvEnds, VerifyEnds, SnapshotEnds, Accept, CommitEnds, vars
<1> QED
  BY <1>1, <1>2, <1>3, Zenon DEF Next

\* The stores keep their shape.
LEMMA StoreNext == ASSUME ShapeOK, StoreOK, [Next]_vars PROVE StoreOK'
<1>1. shape' = shape
  BY ShapeStays
<1>2. /\ Seqs' = Seqs /\ Heads' = Heads /\ LongestSequence' = LongestSequence
  BY <1>1, SameCall
<1>3. /\ Tokens' = Tokens /\ Cells' = Cells /\ \A s \in Seqs : SlotsOf(s)' = SlotsOf(s)
  BY <1>1, <1>2 DEF Tokens, Cells, SlotsOf, SeqOf
<1> DEFINE Dom == /\ DOMAIN checkpoint' = DOMAIN checkpoint /\ DOMAIN replayU' = DOMAIN replayU
                  /\ DOMAIN out' = DOMAIN out /\ DOMAIN replayK' = DOMAIN replayK
                  /\ DOMAIN snapOut' = DOMAIN snapOut /\ DOMAIN pool' = DOMAIN pool
<1>4. ASSUME UNCHANGED replayVars, UNCHANGED snapshotVars
      PROVE  Dom /\ slots' = slots /\ count' = count
  BY <1>4 DEF replayVars, snapshotVars
<1>5. ASSUME \/ \E s \in DOMAIN convOut : Conv(s)
             \/ ConvEnds \/ VerifyEnds \/ SnapshotEnds \/ CommitEnds \/ UNCHANGED vars
      PROVE  Dom /\ slots' = slots /\ count' = count
  <2>1. UNCHANGED replayVars /\ UNCHANGED snapshotVars
    BY <1>5 DEF Conv, ConvEnds, VerifyEnds, SnapshotEnds, CommitEnds, vars, replayVars, snapshotVars
  <2> QED
    BY <1>4, <2>1
<1>6. ASSUME NEW l \in Lanes, Verify(l) PROVE Dom /\ slots' = slots /\ count' = count
  <2>1. UNCHANGED snapshotVars /\ VerifyToken(l)
    BY <1>6 DEF Verify
  <2>2. /\ DOMAIN replayU' = DOMAIN replayU /\ DOMAIN out' = DOMAIN out
        /\ DOMAIN replayK' = DOMAIN replayK /\ checkpoint' = checkpoint
    BY <2>1 DEF VerifyToken
  <2> QED
    BY <2>1, <2>2 DEF snapshotVars
<1>7. ASSUME NEW l \in Lanes, Snapshot(l) PROVE Dom /\ slots' = slots /\ count' = count
  <2>1. UNCHANGED replayVars /\ SnapshotToken(l)
    BY <1>7 DEF Snapshot
  <2>2. /\ DOMAIN snapOut' = DOMAIN snapOut /\ DOMAIN pool' = Cells
        /\ slots' = slots /\ count' = count
    BY <2>1 DEF SnapshotToken
  <2> QED
    BY <2>1, <2>2 DEF replayVars, StoreOK
<1>8. ASSUME NEW l \in Lanes, Commit(l) PROVE Dom /\ slots' = slots /\ count' = count
  <2>1. UNCHANGED snapshotVars /\ (CommitSkip(l) \/ CommitToken(l))
    BY <1>8 DEF Commit
  <2>2. /\ replayU' = replayU /\ out' = out /\ replayK' = replayK
        /\ DOMAIN checkpoint' = DOMAIN checkpoint
    BY <2>1 DEF CommitSkip, CommitToken, replayVars
  <2> QED
    BY <2>1, <2>2 DEF snapshotVars
<1>9. ASSUME Accept PROVE Dom /\ SlotsOK'
  <2>1. UNCHANGED replayVars /\ (IF WithSnapshots THEN Renumber(accepted') ELSE UNCHANGED snapshotVars)
    BY <1>9 DEF Accept
  <2>2. CASE ~ WithSnapshots
    <3>1. Dom /\ slots' = slots /\ count' = count
      BY <1>4, <2>1, <2>2
    <3> QED
      BY <1>1, <1>2, <1>3, <3>1 DEF StoreOK, SlotsOK
  <2>3. CASE WithSnapshots
    <3>1. Renumber(accepted')
      BY <2>1, <2>3
    <3>2. Dom
      BY <2>1, <3>1 DEF Renumber, replayVars
    <3>3. ASSUME NEW s \in Seqs
          PROVE  /\ slots'[s] \in [1 .. shape.length[s] -> SlotsOf(s)]
                 /\ \A i, j \in 1 .. shape.length[s] : slots'[s][i] = slots'[s][j] => i = j
                 /\ count'[s] \in 0 .. shape.length[s]
      <4> DEFINE n == shape.length[s]    f == slots'[s]
      <4>1. /\ slots' \in [Seqs -> UNION {[1 .. shape.length[r] -> SlotsOf(r)] : r \in Seqs}]
            /\ count' \in [Seqs -> 0 .. LongestSequence]
            /\ DOMAIN f = 1 .. n /\ {f[i] : i \in DOMAIN f} = SlotsOf(s)
            /\ count'[s] <= n
        BY <3>1 DEF Renumber
      <4>2. n \in Nat \ {0} /\ LongestSequence \in Nat
        BY ShapeFacts DEF ShapeOK
      <4>3. PICK r \in Seqs : f \in [1 .. shape.length[r] -> SlotsOf(r)]
        BY <4>1
      <4>4. count'[s] \in 0 .. n
        <5>1. count'[s] \in 0 .. LongestSequence
          BY <4>1
        <5> HIDE DEF n
        <5> QED
          BY <4>1, <4>2, <5>1
      <4> HIDE DEF n, f
      <4>6. f = [i \in 1 .. n |-> f[i]] /\ \A i \in 1 .. n : f[i] \in SlotsOf(s)
        BY <4>1, <4>3
      <4>7. f \in [1 .. n -> SlotsOf(s)]
        BY <4>6
      <4>8. \A y \in SlotsOf(s) : \E i \in 1 .. n : f[i] = y
        BY <4>1
      <4>9. \A i, j \in 1 .. n : f[i] = f[j] => i = j
        <5>1. n \in Nat /\ n = shape.length[s]
          BY <4>2 DEF n
        <5> QED
          BY <4>7, <4>8, <5>1, SlotEach
      <4> QED
        BY <4>4, <4>7, <4>9 DEF n, f
    <3>4. SlotsOK'
      BY <1>1, <1>2, <1>3, <3>3 DEF SlotsOK
    <3> QED
      BY <3>2, <3>4
  <2> QED
    BY <2>2, <2>3
<1>10. (Dom /\ slots' = slots /\ count' = count) => Dom /\ SlotsOK'
  BY <1>1, <1>2, <1>3 DEF StoreOK, SlotsOK
<1>11. Dom /\ SlotsOK'
  <2> HIDE DEF Dom
  <2> QED
    BY <1>5, <1>6, <1>7, <1>8, <1>9, <1>10, Zenon DEF Next
<1> QED
  BY <1>2, <1>3, <1>11 DEF StoreOK, Rows
-----------------------------------------------------------------------------
(* The data part of the invariant.                                         *)

\* The tokens of a row that the two kernels that score have been through in
\* this round, and those by which the commit has brought its checkpoint on.
VerifyDone(h, q) ==
  IF stage = "conv" THEN 0 ELSE IF stage = "verify" THEN Done(h, q) ELSE shape.length[SeqOf(h)]
\* How many tokens of a row the snapshot kernel has stored.
SnapDone(h, q) ==
  IF stage \in {"conv", "verify"} THEN 0
  ELSE IF stage = "snapshot" THEN Done(h, q) ELSE shape.length[SeqOf(h)]
\* How many tokens of a row are in its checkpoint.
Committed(h, q) ==
  IF stage = "commit" /\ Done(h, q) = accepted[SeqOf(h)] THEN accepted[SeqOf(h)] ELSE 0

\* The records and the output of a token are those of the text.
NotedAt(T, h, q, t) ==
  /\ replayU[<<h, q, t>>] = [head |-> h, row |-> q, base |-> Upto(T, SeqOf(h), t),
                             tok |-> <<round, t>>]
  /\ out[<<h, q, t>>] = Upto(T, SeqOf(h), t + 1)
  /\ q = 0 => replayK[<<h, t>>] = [head |-> h, tok |-> <<round, t>>]

\* So it is with every token that the verify kernel has served.
NotedInv(T) ==
  \A h \in Heads, q \in Rows, t \in Nat : t < VerifyDone(h, q) => NotedAt(T, h, q, t)

\* The checkpoint of a row is behind the text, or the commit is through with it.
CheckpointInv(T) ==
  \A h \in Heads, q \in Rows : checkpoint[<<h, q>>] = RowOf(T, h, q, Committed(h, q))

\* The slots: where a call starts from, what the snapshot kernel has stored, and
\* whose row a slot is, even one that nothing was stored in.
StartsFrom(T, h, q, t) == pool[<<InitialSlot(SeqOf(h)), h, q>>] = RowOf(T, h, q, t)
\* The slot of a token holds the row behind it.
StoredAt(T, h, q, t) == pool[<<slots[SeqOf(h)][t + 1], h, q>>] = RowOf(T, h, q, t + 1)

\* The slots of all rows, by the stage of the round.
PoolInv(T) ==
  WithSnapshots =>
    \A h \in Heads, q \in Rows :
      /\ stage \in {"conv", "verify", "snapshot"} /\ SnapDone(h, q) = 0 => StartsFrom(T, h, q, 0)
      /\ stage = "commit" => StartsFrom(T, h, q, accepted[SeqOf(h)])
      /\ \A t \in Nat : t < SnapDone(h, q) =>
           /\ snapOut[<<h, q, t>>] = Upto(T, SeqOf(h), t + 1)
           /\ stage # "commit" => StoredAt(T, h, q, t)

\* A slot holds a row of the head it is kept for.
PoolOwn ==
  \A h \in Heads, q \in Rows : \A x \in SlotsOf(SeqOf(h)) :
    pool[<<x, h, q>>].head = h /\ pool[<<x, h, q>>].row = q

\* The tile of a lane that is amid an item, and what is in front of its ring.
TileScore(T, l) ==
  /\ \A q \in ItemRows(CurrentItem(l)) :
       lane[l].ub[1][q] = RowOf(T, CurrentItem(l).head, q, lane[l].tok)
  /\ Front(lane[l].ring) = Input(CurrentItem(l), lane[l].tok)
\* The same for a lane of the commit kernel.
TileCommit(T, l) ==
  /\ \A q \in ItemRows(CurrentItem(l)) :
       lane[l].ub[lane[l].at][q] = RowOf(T, CurrentItem(l).head, q, lane[l].tok)
  /\ Front(lane[l].ring) = Record(CurrentItem(l), lane[l].tok)

\* So it is with every lane.
TileInv(T) ==
  /\ stage # "commit" => \A l \in Lanes : lane[l].tok > 0 => TileScore(T, l)
  /\ stage = "commit" => \A l \in Lanes : Fetched(TRUE, Accepts, lane[l]) => TileCommit(T, l)

\* The texts of the sequences.
TextsOK(T) == T \in [Seqs -> Texts]

\* What the stores hold for the texts T.
DataInv(T) == TextsOK(T) /\ NotedInv(T) /\ CheckpointInv(T) /\ PoolInv(T) /\ PoolOwn /\ TileInv(T)

\* The item before a lane, and how far the lane may be.
LEMMA ItemNow ==
    ASSUME ShapeOK, LanesInv, NEW l \in Lanes, ~ Idle(l)
    PROVE  LET i == CurrentItem(l) IN
           /\ i \in Items /\ i.head \in Heads /\ SeqOf(i.head) \in Seqs
           /\ ItemRows(i) \subseteq Rows /\ (0 \in ItemRows(i) <=> i.first = 0)
           /\ \A h, q : Covers(i, h, q) <=> h = i.head /\ q \in ItemRows(i)
           /\ lane[l].tok \in Nat /\ Table[i] \in Nat
           /\ (Table[i] > 0 => lane[l].tok < Table[i])
           /\ (lane[l].tok > 0 => lane[l].tok < Table[i])
<1> DEFINE i == CurrentItem(l)    S == Lists[l]    st == lane[l]
           w == Drained(S, st) + 1
<1>1. ListOK(Items, S) /\ OnList(Items, S, Table, st) /\ st.works # <<>> /\ ListsOK(Lists)
  BY ListsNow DEF Idle
<1>2. /\ w \in DOMAIN S /\ st.at \in DOMAIN S[w] /\ i = S[w][st.at] /\ i \in Items
      /\ st.tok \in Nat
  BY <1>1, CurrentIs
<1>3. i.head \in Heads /\ ItemRows(i) \subseteq Rows
  BY <1>1, <1>2 DEF ListsOK
<1>4. SeqOf(i.head) \in Seqs /\ Table[i] \in Nat
  BY <1>2, ItemFacts, ListsNow
<1>5. st.tok > 0 => st.tok < Table[i]
  <2>1. i = Head(st.works)[st.at]
    BY DEF CurrentItem, Work
  <2> HIDE DEF i, st, S
  <2> QED
    BY <1>1, <2>1 DEF OnList
<1>6. 0 \in ItemRows(i) <=> i.first = 0
  <2>1. i.first \in Nat /\ i.rows \in Nat \ {0}
    BY <1>2 DEF Items, ItemsOf
  <2> HIDE DEF i
  <2> QED
    BY <2>1 DEF ItemRows
<1>7. \A h, q : Covers(i, h, q) <=> h = i.head /\ q \in ItemRows(i)
  BY DEF Covers
<1> HIDE DEF i, st
<1>8. Table[i] > 0 => st.tok < Table[i]
  BY <1>2, <1>4, <1>5
<1> QED
  BY <1>2, <1>3, <1>4, <1>5, <1>6, <1>7, <1>8 DEF i, st

\* The texts, rows and inputs of a round that goes on.
LEMMA SameRound ==
    ASSUME shape' = shape, round' = round, NEW T
    PROVE  /\ \A h : SeqOf(h)' = SeqOf(h)
           /\ \A s, t : Upto(T, s, t)' = Upto(T, s, t)
           /\ \A h, q, t : RowOf(T, h, q, t)' = RowOf(T, h, q, t)
           /\ \A i, t : Input(i, t)' = Input(i, t)
           /\ \A s : SlotsOf(s)' = SlotsOf(s)
           /\ (TextsOK(T)' <=> TextsOK(T))
BY DEF SeqOf, Upto, RowOf, Input, SlotsOf, TextsOK, Seqs, ItemRows

\* The candidates of a round on top of the texts.
LEMMA UptoFacts ==
    ASSUME ShapeOK, NEW T, TextsOK(T), NEW s \in Seqs, NEW t \in Nat
    PROVE  /\ round \in Nat \ {0} /\ T[s] \in Texts /\ Upto(T, s, t) \in Texts
           /\ Len(Upto(T, s, t)) = Len(T[s]) + t /\ Len(T[s]) \in Nat
           /\ Upto(T, s, 0) = T[s]
<1>1. shape.rounds \in Nat /\ round \in Nat \ {0} /\ T[s] \in Texts /\ Len(T[s]) \in Nat
  BY ShapeFacts DEF ShapeOK, TextsOK, Texts
<1> QED
  BY <1>1, GrowText DEF Upto

\* Cells of the pool.
LEMMA CellFacts ==
    /\ \A h \in Heads, q \in Rows : \A x \in SlotsOf(SeqOf(h)) : <<x, h, q>> \in Cells
    /\ \A c \in Cells : /\ c[2] \in Heads /\ c[3] \in Rows /\ c[1] \in SlotsOf(SeqOf(c[2]))
                        /\ c = <<c[1], c[2], c[3]>>
BY DEF Cells

\* The slots of a sequence's tokens, and the one a call starts from.
LEMMA SlotFacts ==
    ASSUME ShapeOK, SlotsOK, NEW s \in Seqs
    PROVE  /\ InitialSlot(s) \in SlotsOf(s)
           /\ \A t \in Nat : t < shape.length[s] => slots[s][t + 1] \in SlotsOf(s)
           /\ \A t, r \in Nat : t < shape.length[s] /\ r < shape.length[s]
                                /\ slots[s][t + 1] = slots[s][r + 1] => t = r
<1> DEFINE n == shape.length[s]
<1>1. n \in Nat \ {0}
  BY ShapeFacts DEF ShapeOK
<1>2. /\ slots[s] \in [1 .. n -> SlotsOf(s)] /\ count[s] \in 0 .. n
      /\ \A i, j \in 1 .. n : slots[s][i] = slots[s][j] => i = j
  BY DEF SlotsOK
<1> HIDE DEF n
<1>3. \A t \in Nat : t < n => t + 1 \in 1 .. n
  BY <1>1
<1>4. (IF count[s] > 0 THEN count[s] ELSE 1) \in 1 .. n
  BY <1>1, <1>2
<1>5. InitialSlot(s) \in SlotsOf(s)
  BY <1>2, <1>4 DEF InitialSlot
<1>6. \A t, r \in Nat : t < n /\ r < n /\ slots[s][t + 1] = slots[s][r + 1] => t = r
  <2> SUFFICES ASSUME NEW t \in Nat, NEW r \in Nat, t < n, r < n, slots[s][t + 1] = slots[s][r + 1]
               PROVE  t = r
    OBVIOUS
  <2>1. t + 1 = r + 1
    BY <1>2, <1>3
  <2> QED
    BY <2>1
<1> QED
  BY <1>2, <1>3, <1>5, <1>6 DEF n

\* The rows before a lane are as far as the lane is.
LEMMA DoneNow ==
    ASSUME ShapeOK, LanesInv, NEW l \in Lanes, ~ Idle(l), NEW h \in Heads, NEW q \in Rows,
           Covers(CurrentItem(l), h, q)
    PROVE  Done(h, q) = lane[l].tok
<1> DEFINE st == lane[l]    S == Lists[l]    w == Drained(S, st) + 1
<1>1. ListOK(Items, S) /\ OnList(Items, S, Table, st) /\ st.works # <<>>
  BY ListsNow DEF Idle
<1>2. w \in DOMAIN S /\ st.at \in DOMAIN S[w] /\ CurrentItem(l) = S[w][st.at]
  BY <1>1, CurrentIs
<1>3. w \in Nat /\ st.at \in {1, 2} /\ Len(S) \in Nat /\ Len(st.works) \in Nat
  BY <1>1, <1>2, ListFacts, FirstWork
<1>4. Done(h, q) = Served(S, Table, st, w, st.at)
  BY <1>2, DoneIs
<1> HIDE DEF S, st
<1>5. ~ Past(S, st, w, st.at) /\ Now(S, st, w, st.at)
  <2>1. Drained(S, st) \in Int
    BY <1>3 DEF Drained
  <2> QED
    BY <1>3, <2>1 DEF Past, Now
<1> QED
  BY <1>4, <1>5 DEF Served, st

\* No row is served more tokens than its sequence has.
LEMMA DoneRange ==
    ASSUME ShapeOK, LanesInv, NEW h \in Heads, NEW q \in Rows
    PROVE  Done(h, q) \in Nat /\ Done(h, q) <= shape.length[SeqOf(h)]
<1> DEFINE p == Place(Lists, h, q)    S == Lists[p[1]]    st == lane[p[1]]
           j == S[p[2]][p[3]]
<1>1. /\ p[1] \in Lanes /\ p[2] \in DOMAIN S /\ p[3] \in DOMAIN S[p[2]] /\ Covers(j, h, q)
  BY ListsNow, PlaceIs
<1>2. Done(h, q) = Served(S, Table, st, p[2], p[3])
  BY DEF Done
<1>3. ListOK(Items, S) /\ OnList(Items, S, Table, st)
  BY <1>1, ListsNow
<1>4. j \in Items /\ j.head = h
  BY <1>1, ListsNow DEF ListsOK, Covers
<1>5. Table[j] \in Nat /\ Table[j] <= shape.length[SeqOf(h)]
  <2>1. /\ Lengths[j] = shape.length[SeqOf(h)] /\ Lengths[j] \in Nat \ {0}
        /\ Accepts[j] \in 0 .. Lengths[j]
    BY <1>4, ItemFacts
  <2> HIDE DEF j
  <2> QED
    BY <2>1 DEF Table
<1> HIDE DEF p, S, st
<1>6. CASE Past(S, st, p[2], p[3])
  BY <1>2, <1>5, <1>6 DEF Served, j
<1>7. CASE ~ Past(S, st, p[2], p[3]) /\ Now(S, st, p[2], p[3]) /\ st.works # <<>>
  <2>1. /\ Head(st.works) = S[p[2]] /\ st.at = p[3]
    BY <1>3, <1>7, FirstWork DEF Now
  <2>2. st.tok \in Nat /\ (st.tok > 0 => st.tok < Table[j])
    BY <1>3, <1>7, <2>1 DEF OnList
  <2>3. Done(h, q) = st.tok
    BY <1>2, <1>7 DEF Served
  <2> HIDE DEF j
  <2>4. shape.length[SeqOf(h)] \in Nat
    BY ShapeFacts DEF ShapeOK
  <2> QED
    BY <1>5, <2>2, <2>3, <2>4
<1>8. CASE ~ Past(S, st, p[2], p[3]) /\ (Now(S, st, p[2], p[3]) => st.works = <<>>)
  <2>1. Done(h, q) = 0
    BY <1>2, <1>3, <1>8 DEF Served, OnList
  <2>2. shape.length[SeqOf(h)] \in Nat
    BY ShapeFacts DEF ShapeOK
  <2> QED
    BY <2>1, <2>2
<1> QED
  BY <1>6, <1>7, <1>8

-----------------------------------------------------------------------------
(* What a step that leaves the stores alone keeps.                         *)

\* A step that leaves the records alone.
LEMMA NotedKept ==
    ASSUME NEW T, NotedInv(T), shape' = shape, round' = round, replayU' = replayU,
           replayK' = replayK, out' = out,
           \A h \in Heads, q \in Rows : VerifyDone(h, q)' = VerifyDone(h, q)
    PROVE  NotedInv(T)'
<1>1. Heads' = Heads /\ Rows' = Rows
  BY SameCall DEF Rows
<1>2. \A h, q, t : NotedAt(T, h, q, t)' <=> NotedAt(T, h, q, t)
  BY DEF NotedAt, Upto, SeqOf
<1> QED
  BY <1>1, <1>2 DEF NotedInv

\* A step that leaves the checkpoints alone.
LEMMA CheckpointKept ==
    ASSUME NEW T, CheckpointInv(T), shape' = shape, round' = round, checkpoint' = checkpoint,
           \A h \in Heads, q \in Rows : Committed(h, q)' = Committed(h, q)
    PROVE  CheckpointInv(T)'
<1>1. Heads' = Heads /\ Rows' = Rows
  BY SameCall DEF Rows
<1>2. \A h, q, t : RowOf(T, h, q, t)' = RowOf(T, h, q, t)
  BY SameRound
<1> SUFFICES ASSUME NEW h \in Heads, NEW q \in Rows
             PROVE  (checkpoint[<<h, q>>] = RowOf(T, h, q, Committed(h, q)))'
  BY <1>1 DEF CheckpointInv
<1>3. checkpoint[<<h, q>>] = RowOf(T, h, q, Committed(h, q))
  BY DEF CheckpointInv
<1> QED
  BY <1>3 DEF RowOf, Upto, SeqOf

\* A step that leaves the slots alone.
LEMMA PoolKept ==
    ASSUME NEW T, PoolInv(T), shape' = shape, round' = round, UNCHANGED snapshotVars,
           stage' \in {"conv", "verify", "snapshot"} => stage \in {"conv", "verify", "snapshot"},
           stage' = "commit" => stage = "commit" /\ accepted' = accepted,
           stage' # "commit" => stage # "commit",
           WithSnapshots => \A h \in Heads, q \in Rows : SnapDone(h, q)' = SnapDone(h, q)
    PROVE  PoolInv(T)'
<1>1. Heads' = Heads /\ Rows' = Rows /\ (WithSnapshots' <=> WithSnapshots)
  BY SameCall DEF Rows
<1>2. pool' = pool /\ slots' = slots /\ count' = count /\ snapOut' = snapOut
  BY DEF snapshotVars
<1>3. /\ \A h, q, t : StartsFrom(T, h, q, t)' <=> StartsFrom(T, h, q, t)
      /\ \A h, q, t : StoredAt(T, h, q, t)' <=> StoredAt(T, h, q, t)
      /\ \A h, t : Upto(T, SeqOf(h), t)' = Upto(T, SeqOf(h), t)
      /\ \A h : SeqOf(h)' = SeqOf(h)
  BY <1>2 DEF StartsFrom, StoredAt, InitialSlot, RowOf, Upto, SeqOf
<1> SUFFICES ASSUME WithSnapshots, NEW h \in Heads, NEW q \in Rows
             PROVE  (/\ stage \in {"conv", "verify", "snapshot"} /\ SnapDone(h, q) = 0
                          => StartsFrom(T, h, q, 0)
                     /\ stage = "commit" => StartsFrom(T, h, q, accepted[SeqOf(h)])
                     /\ \A t \in Nat : t < SnapDone(h, q) =>
                          /\ snapOut[<<h, q, t>>] = Upto(T, SeqOf(h), t + 1)
                          /\ stage # "commit" => StoredAt(T, h, q, t))'
  BY <1>1 DEF PoolInv
<1>4. /\ stage \in {"conv", "verify", "snapshot"} /\ SnapDone(h, q) = 0 => StartsFrom(T, h, q, 0)
      /\ stage = "commit" => StartsFrom(T, h, q, accepted[SeqOf(h)])
      /\ \A t \in Nat : t < SnapDone(h, q) =>
           /\ snapOut[<<h, q, t>>] = Upto(T, SeqOf(h), t + 1)
           /\ stage # "commit" => StoredAt(T, h, q, t)
  BY DEF PoolInv
<1>5. SnapDone(h, q)' = SnapDone(h, q)
  OBVIOUS
<1>6. stage' = "commit" => StartsFrom(T, h, q, accepted[SeqOf(h)])'
  <2>1. stage' = "commit" => StartsFrom(T, h, q, accepted[SeqOf(h)]) /\ accepted' = accepted
    BY <1>4
  <2> QED
    BY <1>2, <2>1 DEF StartsFrom, InitialSlot, RowOf, Upto, SeqOf
<1>7. ASSUME NEW t \in Nat, t < SnapDone(h, q)'
      PROVE  /\ snapOut'[<<h, q, t>>] = Upto(T, SeqOf(h), t + 1)'
             /\ stage' # "commit" => StoredAt(T, h, q, t)'
  <2>1. /\ snapOut[<<h, q, t>>] = Upto(T, SeqOf(h), t + 1)
        /\ stage # "commit" => StoredAt(T, h, q, t)
    BY <1>4, <1>5, <1>7
  <2> QED
    BY <1>2, <1>3, <2>1
<1>8. /\ stage' \in {"conv", "verify", "snapshot"} /\ SnapDone(h, q)' = 0
      => StartsFrom(T, h, q, 0)'
  BY <1>3, <1>4, <1>5
<1> QED
  BY <1>6, <1>7, <1>8

\* The slots are still kept for the same heads.
LEMMA OwnKept == ASSUME PoolOwn, shape' = shape, UNCHANGED snapshotVars PROVE PoolOwn'
<1>1. Heads' = Heads /\ Rows' = Rows /\ pool' = pool
  BY SameCall DEF Rows, snapshotVars
<1> SUFFICES ASSUME NEW h \in Heads', NEW q \in Rows', NEW x \in SlotsOf(SeqOf(h))'
             PROVE  (pool[<<x, h, q>>].head = h /\ pool[<<x, h, q>>].row = q)'
  BY Zenon DEF PoolOwn
<1>2. x \in SlotsOf(SeqOf(h)) /\ h \in Heads /\ q \in Rows
  BY <1>1 DEF SlotsOf, SeqOf
<1> QED
  BY <1>1, <1>2 DEF PoolOwn
-----------------------------------------------------------------------------
(* A token of the kernels that score.                                      *)

\* What a lane that has loaded the right rows makes of them.
TileResult(T, l, loaded) ==
  LET i == CurrentItem(l)
      t == lane[l].tok
      in == InFront(l)
  IN  /\ in = Input(i, t)
      /\ [head |-> in.head, tok |-> in.tok] = [head |-> i.head, tok |-> <<round, t>>]
      /\ \A q \in ItemRows(i) :
           /\ Delta(loaded[q], in) = [head |-> i.head, row |-> q,
                                      base |-> Upto(T, SeqOf(i.head), t), tok |-> <<round, t>>]
           /\ Scores(loaded, i, in)[q] = RowOf(T, i.head, q, t + 1)

\* What a scoring kernel makes of rows that are behind the tokens before.
LEMMA ScoreTile ==
    ASSUME ShapeOK, LanesInv, NEW T, TextsOK(T), TileInv(T), stage \in {"verify", "snapshot"},
           NEW l \in Lanes, ~ Idle(l), NEW loaded,
           lane[l].tok = 0 => \A q \in ItemRows(CurrentItem(l)) :
                                loaded[q] = RowOf(T, CurrentItem(l).head, q, 0),
           lane[l].tok # 0 => loaded = lane[l].ub[1]
    PROVE  TileResult(T, l, loaded)
<1> DEFINE i == CurrentItem(l)    t == lane[l].tok    in == InFront(l)    s == SeqOf(i.head)
<1>1. /\ i \in Items /\ i.head \in Heads /\ s \in Seqs /\ ItemRows(i) \subseteq Rows /\ t \in Nat
  BY ItemNow
<1>2. ScoreLane(lane[l], l)
  BY DEF LanesInv
<1>3. in = IF t = 0 THEN Input(i, 0) ELSE Front(lane[l].ring)
  <2>1. InFront(l) = IF lane[l].tok = 0 THEN Input(CurrentItem(l), 0) ELSE Front(lane[l].ring)
    BY <1>2, ScoreMove
  <2> QED
    BY <2>1
<1>4. t # 0 => TileScore(T, l)
  BY <1>1 DEF TileInv
<1>5. in = Input(i, t)
  BY <1>3, <1>4 DEF TileScore
<1>6. \A q \in ItemRows(i) : loaded[q] = RowOf(T, i.head, q, t)
  BY <1>4 DEF TileScore
<1>7. round \in Nat \ {0} /\ T[s] \in Texts
  BY <1>1, UptoFacts
<1> HIDE DEF i, t, in
<1>8. in = [head |-> i.head, rows |-> ItemRows(i), tok |-> <<round, t>>]
  BY <1>5 DEF Input
<1>9. [head |-> in.head, tok |-> in.tok] = [head |-> i.head, tok |-> <<round, t>>]
  BY <1>8
<1>10. ASSUME NEW q \in ItemRows(i)
       PROVE  /\ Delta(loaded[q], in) = [head |-> i.head, row |-> q, base |-> Upto(T, s, t),
                                         tok |-> <<round, t>>]
              /\ Scores(loaded, i, in)[q] = RowOf(T, i.head, q, t + 1)
  <2> DEFINE a == T[s]    rows == ItemRows(i)    v == Row(i.head, q, a \o Cands(round, t))
             u == [head |-> i.head, row |-> q, base |-> a \o Cands(round, t), tok |-> <<round, t>>]
             k == [head |-> i.head, tok |-> <<round, t>>]
             in2 == [head |-> i.head, rows |-> rows, tok |-> <<round, t>>]
  <2>1. /\ Delta(v, in2) = u /\ Apply(v, u, k) = Row(i.head, q, a \o Cands(round, t + 1))
    <3>1. ApplyResult(a, round, t, i.head, q, rows)
      BY <1>1, <1>7, ApplyGood
    <3> QED
      BY <3>1, Zenon DEF ApplyResult
  <2>2. loaded[q] = v
    BY <1>6 DEF RowOf, Upto
  <2>3. Scores(loaded, i, in)[q] = Apply(loaded[q], Delta(loaded[q], in),
                                         [head |-> in.head, tok |-> in.tok])
    BY Zenon DEF Scores
  <2> HIDE DEF v, u, k
  <2>4. Scores(loaded, i, in)[q] = Row(i.head, q, a \o Cands(round, t + 1))
    BY <1>8, <1>9, <2>1, <2>2, <2>3 DEF k
  <2> QED
    BY <1>8, <2>1, <2>2, <2>4 DEF u, RowOf, Upto
<1> QED
  BY <1>5, <1>9, <1>10 DEF TileResult, i, t, in

\* The tiles after a token of a kernel that scores.
LEMMA ScoreTiles ==
    ASSUME ShapeOK, LanesInv, NEW T, TileInv(T), stage \in {"verify", "snapshot"},
           NEW l \in Lanes, ~ Idle(l), NEW v,
           \A q \in ItemRows(CurrentItem(l)) :
             v[q] = RowOf(T, CurrentItem(l).head, q, lane[l].tok + 1),
           lane' = [lane EXCEPT ![l] = MoveAhead(l, v)], shape' = shape, round' = round,
           stage' = stage
    PROVE  TileInv(T)'
<1> DEFINE i == CurrentItem(l)    t == lane[l].tok    st2 == MoveAhead(l, v)
           len == shape.length[SeqOf(i.head)]
<1>1. ScoreLane(lane[l], l) /\ lane = [k \in Lanes |-> lane[k]]
  BY DEF LanesInv
<1>2. /\ t + 1 < len => /\ st2.works = lane[l].works /\ st2.at = lane[l].at /\ st2.tok = t + 1
                        /\ st2.ub[1] = v /\ Front(st2.ring) = Input(i, st2.tok)
      /\ ~ (t + 1 < len) => st2.tok = 0
  BY <1>1, ScoreMove
<1>3. lane'[l] = st2 /\ \A k \in Lanes : k # l => lane'[k] = lane[k]
  BY <1>1
<1>4. /\ \A h, q, r : RowOf(T, h, q, r)' = RowOf(T, h, q, r)
      /\ \A j, r : Input(j, r)' = Input(j, r)
      /\ Lanes' = Lanes
  BY SameRound, SameCall
<1> HIDE DEF st2
<1>5. ASSUME NEW k \in Lanes, lane'[k].tok > 0 PROVE TileScore(T, k)'
  <2>1. CASE k = l
    <3>1. t + 1 < len
      BY <1>2, <1>3, <1>5, <2>1
    <3>2. CurrentItem(k)' = i
      BY <1>2, <1>3, <2>1, <3>1 DEF CurrentItem, Work
    <3>3. lane'[k].ub[1] = v /\ Front(lane'[k].ring) = Input(i, lane'[k].tok)
          /\ lane'[k].tok = t + 1
      BY <1>2, <1>3, <2>1, <3>1
    <3>4. \A q \in ItemRows(i) : v[q] = RowOf(T, i.head, q, t + 1)
      OBVIOUS
    <3> HIDE DEF i, t, len
    <3>5. \A q \in ItemRows(i) : lane'[k].ub[1][q] = RowOf(T, i.head, q, lane'[k].tok)
      BY <3>3, <3>4
    <3> QED
      BY <3>2, <3>3, <3>5 DEF TileScore, RowOf, Upto, Input, SeqOf, ItemRows
  <2>2. CASE k # l
    <3>1. lane'[k] = lane[k]
      BY <1>3, <2>2
    <3>2. TileScore(T, k)
      BY <1>5, <3>1 DEF TileInv
    <3>3. CurrentItem(k)' = CurrentItem(k)
      BY <3>1 DEF CurrentItem, Work
    <3> QED
      BY <3>1, <3>2, <3>3 DEF TileScore, RowOf, Upto, Input, SeqOf, ItemRows
  <2> QED
    BY <2>1, <2>2
<1> QED
  BY <1>4, <1>5 DEF TileInv

\* What a token of the verify kernel writes.
VerifyWrites(l) ==
  LET i == CurrentItem(l)
      t == lane[l].tok
      in == InFront(l)
  IN  \A h \in Heads, q \in Rows, r \in Tokens :
        /\ replayU'[<<h, q, r>>] = IF Covers(i, h, q) /\ r = t THEN Delta(VerifyLoads(l)[q], in)
                                   ELSE replayU[<<h, q, r>>]
        /\ out'[<<h, q, r>>] = IF Covers(i, h, q) /\ r = t THEN VerifyTile(l)[q].hist
                               ELSE out[<<h, q, r>>]
        /\ replayK'[<<h, r>>] = IF i.first = 0 /\ h = i.head /\ r = t
                                THEN [head |-> in.head, tok |-> in.tok]
                                ELSE replayK[<<h, r>>]

\* What a step of the verify kernel writes.
LEMMA VerifyStores ==
    ASSUME StoreOK, NEW l, Verify(l)
    PROVE  VerifyWrites(l) /\ checkpoint' = checkpoint /\ UNCHANGED snapshotVars
<1> DEFINE st == lane[l]
           i == CurrentItem(l)
           t == st.tok
           loaded == IF t = 0 THEN LoadRows(i) ELSE st.ub[1]
           in == Front(Opened(st, i))
           k == [head |-> in.head, tok |-> in.tok]
           u == [q \in ItemRows(i) |-> Delta(loaded[q], in)]
           state == [q \in ItemRows(i) |-> Apply(loaded[q], u[q], k)]
           mine == {p \in DOMAIN out : p[1] = i.head /\ p[2] \in ItemRows(i) /\ p[3] = t}
<1>1. VerifyToken(l) /\ UNCHANGED snapshotVars
  BY DEF Verify
<1>2. /\ replayK' = IF i.first = 0 THEN [replayK EXCEPT ![<<i.head, t>>] = k] ELSE replayK
      /\ replayU' = [p \in DOMAIN replayU |-> IF p \in mine THEN u[p[2]] ELSE replayU[p]]
      /\ out' = [p \in DOMAIN out |-> IF p \in mine THEN state[p[2]].hist ELSE out[p]]
      /\ checkpoint' = checkpoint
  BY <1>1, Zenon DEF VerifyToken
<1>3. loaded = VerifyLoads(l) /\ in = InFront(l)
  BY DEF VerifyLoads, InFront
<1>4. /\ DOMAIN replayU = Heads \X Rows \X Tokens /\ DOMAIN out = Heads \X Rows \X Tokens
      /\ DOMAIN replayK = Heads \X Tokens
  BY DEF StoreOK
<1> HIDE DEF loaded, in
<1>5. state = VerifyTile(l)
  BY <1>3 DEF VerifyTile, Scores
<1>6. \A q \in ItemRows(i) : u[q] = Delta(VerifyLoads(l)[q], in)
  BY <1>3
<1> HIDE DEF state, u, k
<1>7. ASSUME NEW h \in Heads, NEW q \in Rows, NEW r \in Tokens
      PROVE  /\ replayU'[<<h, q, r>>] = IF Covers(i, h, q) /\ r = t THEN Delta(VerifyLoads(l)[q], in)
                                        ELSE replayU[<<h, q, r>>]
             /\ out'[<<h, q, r>>] = IF Covers(i, h, q) /\ r = t THEN VerifyTile(l)[q].hist
                                    ELSE out[<<h, q, r>>]
             /\ replayK'[<<h, r>>] = IF i.first = 0 /\ h = i.head /\ r = t THEN k
                                     ELSE replayK[<<h, r>>]
  <2> DEFINE x == <<h, q, r>>
  <2>1. x \in DOMAIN replayU /\ x \in DOMAIN out /\ <<h, r>> \in DOMAIN replayK
    BY <1>4
  <2>2. x[1] = h /\ x[2] = q /\ x[3] = r
    OBVIOUS
  <2> HIDE DEF x
  <2>3. x \in mine <=> Covers(i, h, q) /\ r = t
    BY <2>1, <2>2 DEF Covers
  <2>4. replayU'[x] = IF x \in mine THEN u[q] ELSE replayU[x]
    BY <1>2, <2>1, <2>2
  <2>5. out'[x] = IF x \in mine THEN state[q].hist ELSE out[x]
    BY <1>2, <2>1, <2>2
  <2>6. replayK'[<<h, r>>] = IF i.first = 0 /\ h = i.head /\ r = t THEN k ELSE replayK[<<h, r>>]
    <3> HIDE DEF i, t
    <3> QED
      BY <1>2, <2>1
  <2> HIDE DEF mine
  <2>7. Covers(i, h, q) => q \in ItemRows(i)
    BY DEF Covers
  <2> HIDE DEF i, t
  <2> QED
    BY <1>5, <1>6, <2>3, <2>4, <2>5, <2>6, <2>7 DEF x
<1> HIDE DEF i, t
<1>8. VerifyWrites(l)
  <2>1. k = [head |-> InFront(l).head, tok |-> InFront(l).tok]
    BY <1>3 DEF k
  <2> QED
    BY <1>3, <1>7, <2>1, ZenonT(40) DEF VerifyWrites, i, t
<1> QED
  BY <1>1, <1>2, <1>8

\* The data after a token of the verify kernel.
LEMMA VerifyKeeps ==
    ASSUME ShapeOK, LanesInv, StoreOK, NEW T, DataInv(T), NEW l \in Lanes, Verify(l)
    PROVE  DataInv(T)'
<1> DEFINE i == CurrentItem(l)    t == lane[l].tok    s == SeqOf(i.head)
<1>1. /\ stage = "verify" /\ stage' = stage /\ ~ Idle(l)
      /\ shape' = shape /\ round' = round /\ accepted' = accepted
      /\ lane' = [lane EXCEPT ![l] = MoveAhead(l, VerifyTile(l))]
  BY VerifyLaneIs
<1>2. VerifyWrites(l) /\ checkpoint' = checkpoint /\ UNCHANGED snapshotVars
  BY VerifyStores
<1>3. /\ i \in Items /\ i.head \in Heads /\ s \in Seqs /\ ItemRows(i) \subseteq Rows
      /\ (0 \in ItemRows(i) <=> i.first = 0)
      /\ \A h, q : Covers(i, h, q) <=> h = i.head /\ q \in ItemRows(i)
      /\ t \in Nat /\ Table[i] \in Nat /\ (Table[i] > 0 => t < Table[i])
  BY <1>1, ItemNow
<1>4. Table[i] = shape.length[s] /\ Table[i] > 0 /\ t < Table[i]
  <2>1. Table[i] = Lengths[i] /\ Lengths[i] = shape.length[s] /\ Lengths[i] \in Nat \ {0}
    BY <1>1, <1>3, ItemFacts DEF Table
  <2> QED
    BY <1>3, <2>1
<1>5. DoneResult(l, Table[i])
  <2>1. ScoreLane(lane[l], l)
    BY <1>1 DEF LanesInv
  <2>2. Moved(lane[l], MoveAhead(l, VerifyTile(l)), Lengths[i])
    BY <1>1, <2>1, ScoreMove
  <2>3. Table[i] = Lengths[i]
    BY <1>1 DEF Table
  <2> QED
    BY <1>1, <2>2, <2>3, DoneMoves
<1>6. \A h \in Heads, q \in Rows :
        /\ Covers(i, h, q) => Done(h, q) = t
        /\ Done(h, q)' = IF Covers(i, h, q) THEN t + 1 ELSE Done(h, q)
  BY <1>4, <1>5 DEF DoneResult
<1>7. TileResult(T, l, VerifyLoads(l))
  <2>1. t = 0 => \A q \in ItemRows(i) : VerifyLoads(l)[q] = RowOf(T, i.head, q, 0)
    <3> SUFFICES ASSUME t = 0, NEW q \in ItemRows(i) PROVE VerifyLoads(l)[q] = RowOf(T, i.head, q, 0)
      OBVIOUS
    <3>1. VerifyLoads(l)[q] = checkpoint[<<i.head, q>>]
      BY DEF VerifyLoads, LoadRows
    <3>2. Committed(i.head, q) = 0
      BY <1>1 DEF Committed
    <3> QED
      BY <1>3, <3>1, <3>2 DEF DataInv, CheckpointInv
  <2>2. t # 0 => VerifyLoads(l) = lane[l].ub[1]
    BY DEF VerifyLoads
  <2> QED
    BY <1>1, <2>1, <2>2, ScoreTile DEF DataInv
<1>8. TileInv(T)'
  <2>1. \A q \in ItemRows(i) : VerifyTile(l)[q] = RowOf(T, i.head, q, t + 1)
    BY <1>7 DEF TileResult, VerifyTile
  <2> QED
    BY <1>1, <2>1, ScoreTiles DEF DataInv
<1>9. /\ \A h : SeqOf(h)' = SeqOf(h)
      /\ Heads' = Heads /\ Rows' = Rows /\ (TextsOK(T)' <=> TextsOK(T))
      /\ (WithSnapshots' <=> WithSnapshots)
  BY <1>1, SameRound, SameCall DEF Rows
<1>10. CheckpointInv(T)'
  <2>1. \A h, q : Committed(h, q) = 0 /\ Committed(h, q)' = 0
    BY <1>1 DEF Committed
  <2> QED
    BY <1>1, <1>2, <2>1, CheckpointKept DEF DataInv
<1>11. PoolInv(T)' /\ PoolOwn'
  <2>1. \A h, q : SnapDone(h, q) = 0 /\ SnapDone(h, q)' = 0
    BY <1>1 DEF SnapDone
  <2> QED
    BY <1>1, <1>2, <2>1, PoolKept, OwnKept DEF DataInv
<1>12. NotedInv(T)'
  <2> SUFFICES ASSUME NEW h \in Heads, NEW q \in Rows, NEW r \in Nat, r < VerifyDone(h, q)'
               PROVE  NotedAt(T, h, q, r)'
    BY <1>9 DEF NotedInv
  <2>1. VerifyDone(h, q) = Done(h, q) /\ r < Done(h, q)'
    BY <1>1 DEF VerifyDone
  <2>2. Done(h, q) \in Nat /\ Done(h, q) <= shape.length[SeqOf(h)]
    BY DoneRange
  <2>3. /\ shape.length[SeqOf(h)] \in Nat /\ shape.length[SeqOf(h)] <= LongestSequence
        /\ LongestSequence \in Nat
    BY ShapeFacts DEF ShapeOK
  <2>4. r \in Tokens /\ r < shape.length[SeqOf(h)]
    <3>1. CASE Covers(i, h, q)
      <4>1. Done(h, q)' = t + 1 /\ SeqOf(h) = s
        BY <1>3, <1>6, <3>1
      <4>2. r < shape.length[SeqOf(h)]
        <5> HIDE DEF t, s, i
        <5> QED
          BY <1>3, <1>4, <2>1, <2>3, <4>1
      <4> QED
        BY <2>3, <4>2 DEF Tokens
    <3>2. CASE ~ Covers(i, h, q)
      <4>1. Done(h, q)' = Done(h, q)
        BY <1>6, <3>2
      <4>2. r < shape.length[SeqOf(h)]
        BY <2>1, <2>2, <2>3, <4>1
      <4> QED
        BY <2>3, <4>2 DEF Tokens
    <3> QED
      BY <3>1, <3>2
  <2>5. /\ replayU'[<<h, q, r>>] = IF Covers(i, h, q) /\ r = t
                                   THEN Delta(VerifyLoads(l)[q], InFront(l))
                                   ELSE replayU[<<h, q, r>>]
        /\ out'[<<h, q, r>>] = IF Covers(i, h, q) /\ r = t THEN VerifyTile(l)[q].hist
                               ELSE out[<<h, q, r>>]
        /\ replayK'[<<h, r>>] = IF i.first = 0 /\ h = i.head /\ r = t
                                THEN [head |-> InFront(l).head, tok |-> InFront(l).tok]
                                ELSE replayK[<<h, r>>]
    BY <1>2, <2>4 DEF VerifyWrites
  <2> DEFINE uNow == [head |-> h, row |-> q, base |-> Upto(T, SeqOf(h), r), tok |-> <<round, r>>]
             kNow == [head |-> h, tok |-> <<round, r>>]
  <2>6. CASE Covers(i, h, q) /\ r = t
    <3>1. h = i.head /\ q \in ItemRows(i) /\ (q = 0 => i.first = 0)
      BY <1>3, <2>6
    <3>2. /\ Delta(VerifyLoads(l)[q], InFront(l)) = uNow
          /\ VerifyTile(l)[q] = RowOf(T, h, q, r + 1)
          /\ [head |-> InFront(l).head, tok |-> InFront(l).tok] = kNow
      BY <1>7, <2>6, <3>1 DEF TileResult, VerifyTile
    <3>3. VerifyTile(l)[q].hist = Upto(T, SeqOf(h), r + 1)
      BY <3>2 DEF RowOf, Row
    <3> HIDE DEF i, t, uNow, kNow
    <3>4. replayU'[<<h, q, r>>] = uNow /\ out'[<<h, q, r>>] = Upto(T, SeqOf(h), r + 1)
          /\ (q = 0 => replayK'[<<h, r>>] = kNow)
      BY <2>5, <2>6, <3>1, <3>2, <3>3
    <3> QED
      BY <1>1, <3>4 DEF NotedAt, Upto, SeqOf, uNow, kNow
  <2>7. CASE ~ (Covers(i, h, q) /\ r = t)
    <3>1. r < Done(h, q)
      <4>1. CASE Covers(i, h, q)
        <5>1. r < t + 1 /\ r # t /\ Done(h, q) = t
          BY <1>6, <2>1, <2>7, <4>1
        <5> HIDE DEF t
        <5> QED
          BY <1>3, <5>1
      <4>2. CASE ~ Covers(i, h, q)
        BY <1>6, <2>1, <4>2
      <4> QED
        BY <4>1, <4>2
    <3>2. NotedAt(T, h, q, r)
      BY <2>1, <3>1 DEF DataInv, NotedInv
    <3>3. q = 0 => ~ (i.first = 0 /\ h = i.head /\ r = t)
      BY <1>3, <2>7
    <3> HIDE DEF i, t
    <3>4. /\ replayU'[<<h, q, r>>] = replayU[<<h, q, r>>] /\ out'[<<h, q, r>>] = out[<<h, q, r>>]
          /\ (q = 0 => replayK'[<<h, r>>] = replayK[<<h, r>>])
      BY <2>5, <2>7, <3>3
    <3> QED
      BY <1>1, <3>2, <3>4 DEF NotedAt, Upto, SeqOf
  <2> QED
    BY <2>6, <2>7
<1> QED
  BY <1>8, <1>9, <1>10, <1>11, <1>12 DEF DataInv

\* What a token of the snapshot kernel writes.
SnapshotWrites(l) ==
  LET i == CurrentItem(l)
      t == lane[l].tok
  IN  \A h \in Heads, q \in Rows :
        /\ \A r \in Tokens :
             snapOut'[<<h, q, r>>] = IF Covers(i, h, q) /\ r = t THEN SnapshotTile(l)[q].hist
                                     ELSE snapOut[<<h, q, r>>]
        /\ \A x \in SlotsOf(SeqOf(h)) :
             pool'[<<x, h, q>>] = IF Covers(i, h, q) /\ x = slots[SeqOf(h)][t + 1]
                                  THEN SnapshotTile(l)[q] ELSE pool[<<x, h, q>>]

\* What a step of the snapshot kernel writes.
LEMMA SnapshotStores ==
    ASSUME StoreOK, NEW l, Snapshot(l)
    PROVE  /\ SnapshotWrites(l) /\ UNCHANGED replayVars
           /\ slots' = slots /\ count' = count
<1> DEFINE st == lane[l]
           i == CurrentItem(l)
           s == SeqOf(i.head)
           t == st.tok
           loaded == IF t = 0
                     THEN [q \in ItemRows(i) |-> pool[<<InitialSlot(s), i.head, q>>]]
                     ELSE st.ub[1]
           in == Front(Opened(st, i))
           state == [q \in ItemRows(i) |->
                     Apply(loaded[q], Delta(loaded[q], in), [head |-> in.head, tok |-> in.tok])]
<1>1. SnapshotToken(l) /\ UNCHANGED replayVars
  BY DEF Snapshot
<1>2. /\ snapOut' = [p \in DOMAIN snapOut |->
                       IF p[1] = i.head /\ p[2] \in ItemRows(i) /\ p[3] = t
                       THEN state[p[2]].hist ELSE snapOut[p]]
      /\ pool' = [c \in Cells |->
                    IF c[1] = slots[s][t + 1] /\ c[2] = i.head /\ c[3] \in ItemRows(i)
                    THEN state[c[3]] ELSE pool[c]]
      /\ slots' = slots /\ count' = count
  BY <1>1, Zenon DEF SnapshotToken
<1>3. loaded = SnapshotLoads(l) /\ in = InFront(l)
  BY DEF SnapshotLoads, InFront
<1>4. DOMAIN snapOut = Heads \X Rows \X Tokens
  BY DEF StoreOK
<1> HIDE DEF loaded, in
<1>5. state = SnapshotTile(l)
  BY <1>3 DEF SnapshotTile, Scores
<1> HIDE DEF state
<1>6. ASSUME NEW h \in Heads, NEW q \in Rows, NEW r \in Tokens
      PROVE  snapOut'[<<h, q, r>>] = IF Covers(i, h, q) /\ r = t THEN state[q].hist
                                     ELSE snapOut[<<h, q, r>>]
  <2> DEFINE x == <<h, q, r>>
  <2>1. x \in DOMAIN snapOut
    BY <1>4
  <2>2. x[1] = h /\ x[2] = q /\ x[3] = r
    OBVIOUS
  <2> HIDE DEF x, i, t
  <2> QED
    BY <1>2, <2>1, <2>2 DEF Covers, x
<1>7. ASSUME NEW h \in Heads, NEW q \in Rows, NEW x \in SlotsOf(SeqOf(h))
      PROVE  pool'[<<x, h, q>>] = IF Covers(i, h, q) /\ x = slots[SeqOf(h)][t + 1]
                                  THEN state[q] ELSE pool[<<x, h, q>>]
  <2> DEFINE c == <<x, h, q>>
  <2>1. c \in Cells
    BY CellFacts
  <2>2. c[1] = x /\ c[2] = h /\ c[3] = q
    OBVIOUS
  <2> HIDE DEF c
  <2>3. pool'[c] = IF c[1] = slots[s][t + 1] /\ c[2] = i.head /\ c[3] \in ItemRows(i)
                   THEN state[c[3]] ELSE pool[c]
    BY <1>2, <2>1
  <2>4. CASE h = i.head
    BY <2>2, <2>3, <2>4 DEF Covers, c
  <2>5. CASE h # i.head
    BY <2>2, <2>3, <2>5 DEF Covers, c
  <2> QED
    BY <2>4, <2>5
<1>8. SnapshotWrites(l)
  BY <1>5, <1>6, <1>7, ZenonT(40) DEF SnapshotWrites
<1> QED
  BY <1>1, <1>2, <1>8

\* The data after a token of the snapshot kernel.
LEMMA SnapshotKeeps ==
    ASSUME ShapeOK, LanesInv, StoreOK, NEW T, DataInv(T), NEW l \in Lanes, Snapshot(l)
    PROVE  DataInv(T)'
<1> DEFINE i == CurrentItem(l)    t == lane[l].tok    s == SeqOf(i.head)
<1>1. /\ stage = "snapshot" /\ stage' = stage /\ ~ Idle(l)
      /\ shape' = shape /\ round' = round /\ accepted' = accepted
      /\ lane' = [lane EXCEPT ![l] = MoveAhead(l, SnapshotTile(l))]
  BY SnapshotLaneIs
<1>2. SnapshotWrites(l) /\ UNCHANGED replayVars /\ slots' = slots /\ count' = count
  BY SnapshotStores
<1>3. /\ i \in Items /\ i.head \in Heads /\ s \in Seqs /\ ItemRows(i) \subseteq Rows
      /\ \A h, q : Covers(i, h, q) <=> h = i.head /\ q \in ItemRows(i)
      /\ t \in Nat /\ Table[i] \in Nat /\ (Table[i] > 0 => t < Table[i])
  BY <1>1, ItemNow
<1>4. Table[i] = shape.length[s] /\ Table[i] > 0 /\ t < Table[i]
  <2>1. Table[i] = Lengths[i] /\ Lengths[i] = shape.length[s] /\ Lengths[i] \in Nat \ {0}
    BY <1>1, <1>3, ItemFacts DEF Table
  <2> QED
    BY <1>3, <2>1
<1>5. DoneResult(l, Table[i])
  <2>1. ScoreLane(lane[l], l)
    BY <1>1 DEF LanesInv
  <2>2. Moved(lane[l], MoveAhead(l, SnapshotTile(l)), Lengths[i])
    BY <1>1, <2>1, ScoreMove
  <2>3. Table[i] = Lengths[i]
    BY <1>1 DEF Table
  <2> QED
    BY <1>1, <2>2, <2>3, DoneMoves
<1>6. \A h \in Heads, q \in Rows :
        /\ Covers(i, h, q) => Done(h, q) = t
        /\ Done(h, q)' = IF Covers(i, h, q) THEN t + 1 ELSE Done(h, q)
  BY <1>4, <1>5 DEF DoneResult
<1>61. WithSnapshots /\ \A h, q : SnapDone(h, q) = Done(h, q) /\ SnapDone(h, q)' = Done(h, q)'
  BY <1>1 DEF ShapeOK, SnapDone
<1>7. TileResult(T, l, SnapshotLoads(l))
  <2>1. t = 0 => \A q \in ItemRows(i) : SnapshotLoads(l)[q] = RowOf(T, i.head, q, 0)
    <3> SUFFICES ASSUME t = 0, NEW q \in ItemRows(i)
                 PROVE  SnapshotLoads(l)[q] = RowOf(T, i.head, q, 0)
      OBVIOUS
    <3>1. SnapshotLoads(l)[q] = pool[<<InitialSlot(s), i.head, q>>]
      BY DEF SnapshotLoads
    <3>2. q \in Rows /\ Done(i.head, q) = 0
      BY <1>3, <1>6
    <3>3. StartsFrom(T, i.head, q, 0)
      BY <1>1, <1>3, <1>61, <3>2 DEF DataInv, PoolInv
    <3> QED
      BY <3>1, <3>3 DEF StartsFrom
  <2>2. t # 0 => SnapshotLoads(l) = lane[l].ub[1]
    BY DEF SnapshotLoads
  <2> QED
    BY <1>1, <2>1, <2>2, ScoreTile DEF DataInv
<1>70. \A q \in ItemRows(i) : SnapshotTile(l)[q] = RowOf(T, i.head, q, t + 1)
  BY <1>7 DEF TileResult, SnapshotTile
<1>8. TileInv(T)'
  BY <1>1, <1>70, ScoreTiles DEF DataInv
<1>9. /\ Heads' = Heads /\ Rows' = Rows /\ (TextsOK(T)' <=> TextsOK(T))
      /\ (WithSnapshots' <=> WithSnapshots)
  BY <1>1, SameRound, SameCall DEF Rows
<1>10. CheckpointInv(T)' /\ NotedInv(T)'
  <2>1. \A h, q : Committed(h, q) = 0 /\ Committed(h, q)' = 0
    BY <1>1 DEF Committed
  <2>2. \A h, q : VerifyDone(h, q)' = VerifyDone(h, q)
    BY <1>1 DEF VerifyDone, SeqOf
  <2>3. /\ checkpoint' = checkpoint /\ replayU' = replayU /\ replayK' = replayK /\ out' = out
    BY <1>2 DEF replayVars
  <2> QED
    BY <1>1, <2>1, <2>2, <2>3, CheckpointKept, NotedKept DEF DataInv
<1>11. PoolOwn'
  <2> SUFFICES ASSUME NEW h \in Heads', NEW q \in Rows', NEW x \in SlotsOf(SeqOf(h))'
               PROVE  (pool[<<x, h, q>>].head = h /\ pool[<<x, h, q>>].row = q)'
    BY Zenon DEF PoolOwn
  <2>1. x \in SlotsOf(SeqOf(h)) /\ h \in Heads /\ q \in Rows
    BY <1>1, <1>9 DEF SlotsOf, SeqOf
  <2>2. pool'[<<x, h, q>>] = IF Covers(i, h, q) /\ x = slots[SeqOf(h)][t + 1]
                             THEN SnapshotTile(l)[q] ELSE pool[<<x, h, q>>]
    BY <1>2, <2>1 DEF SnapshotWrites
  <2>3. pool[<<x, h, q>>].head = h /\ pool[<<x, h, q>>].row = q
    BY <2>1 DEF DataInv, PoolOwn
  <2>4. Covers(i, h, q) => SnapshotTile(l)[q].head = h /\ SnapshotTile(l)[q].row = q
    <3>1. Covers(i, h, q) => h = i.head /\ q \in ItemRows(i)
      BY <1>3
    <3>2. Covers(i, h, q) => SnapshotTile(l)[q] = RowOf(T, h, q, t + 1)
      BY <1>70, <3>1
    <3> HIDE DEF i, t
    <3> QED
      BY <3>2 DEF RowOf, Row
  <2> HIDE DEF i, t
  <2> QED
    BY <2>2, <2>3, <2>4
<1>12. PoolInv(T)'
  <2> SUFFICES ASSUME NEW h \in Heads, NEW q \in Rows
               PROVE  (/\ stage \in {"conv", "verify", "snapshot"} /\ SnapDone(h, q) = 0
                            => StartsFrom(T, h, q, 0)
                       /\ stage = "commit" => StartsFrom(T, h, q, accepted[SeqOf(h)])
                       /\ \A r \in Nat : r < SnapDone(h, q) =>
                            /\ snapOut[<<h, q, r>>] = Upto(T, SeqOf(h), r + 1)
                            /\ stage # "commit" => StoredAt(T, h, q, r))'
    BY <1>9 DEF PoolInv
  <2>1. /\ SnapDone(h, q) = 0 => StartsFrom(T, h, q, 0)
        /\ \A r \in Nat : r < SnapDone(h, q) =>
             /\ snapOut[<<h, q, r>>] = Upto(T, SeqOf(h), r + 1)
             /\ StoredAt(T, h, q, r)
    BY <1>1, <1>61 DEF DataInv, PoolInv
  <2>2. Done(h, q) \in Nat /\ Done(h, q) <= shape.length[SeqOf(h)]
    BY DoneRange
  <2>3. /\ shape.length[SeqOf(h)] \in Nat /\ shape.length[SeqOf(h)] <= LongestSequence
        /\ LongestSequence \in Nat /\ SeqOf(h) \in Seqs /\ SlotsOK
    BY ShapeFacts DEF ShapeOK, StoreOK
  <2>4. /\ InitialSlot(SeqOf(h)) \in SlotsOf(SeqOf(h))
        /\ \A r \in Nat : r < shape.length[SeqOf(h)] =>
             slots[SeqOf(h)][r + 1] \in SlotsOf(SeqOf(h))
        /\ \A a, b \in Nat : a < shape.length[SeqOf(h)] /\ b < shape.length[SeqOf(h)]
                             /\ slots[SeqOf(h)][a + 1] = slots[SeqOf(h)][b + 1] => a = b
    BY <2>3, SlotFacts
  <2>5. CASE Covers(i, h, q)
    <3>1. /\ h = i.head /\ q \in ItemRows(i) /\ SeqOf(h) = s /\ Done(h, q) = t
          /\ SnapDone(h, q)' = t + 1 /\ t + 1 # 0
      BY <1>3, <1>6, <1>61, <2>5
    <3>2. ASSUME NEW r \in Nat, r < t + 1
          PROVE  /\ snapOut'[<<h, q, r>>] = Upto(T, SeqOf(h), r + 1)
                 /\ pool'[<<slots[SeqOf(h)][r + 1], h, q>>] = RowOf(T, h, q, r + 1)
      <4>1. r <= t /\ r < shape.length[SeqOf(h)] /\ t < shape.length[SeqOf(h)]
        <5> HIDE DEF t, i, s
        <5> QED
          BY <1>3, <1>4, <2>3, <3>1, <3>2
      <4>2. r \in Tokens
        BY <2>3, <4>1 DEF Tokens
      <4>3. /\ snapOut'[<<h, q, r>>] = IF r = t THEN SnapshotTile(l)[q].hist
                                       ELSE snapOut[<<h, q, r>>]
            /\ pool'[<<slots[SeqOf(h)][r + 1], h, q>>]
                 = IF slots[SeqOf(h)][r + 1] = slots[SeqOf(h)][t + 1]
                   THEN SnapshotTile(l)[q] ELSE pool[<<slots[SeqOf(h)][r + 1], h, q>>]
        <5>1. slots[SeqOf(h)][r + 1] \in SlotsOf(SeqOf(h))
          BY <2>4, <4>1
        <5> QED
          BY <1>2, <2>5, <4>2, <5>1 DEF SnapshotWrites
      <4>4. CASE r = t
        <5>1. SnapshotTile(l)[q] = RowOf(T, h, q, r + 1)
          BY <1>70, <3>1, <4>4
        <5>2. SnapshotTile(l)[q].hist = Upto(T, SeqOf(h), r + 1)
          BY <5>1 DEF RowOf, Row
        <5> QED
          BY <4>3, <4>4, <5>1, <5>2
      <4>5. CASE r # t
        <5>1. r < t
          <6> HIDE DEF t
          <6> QED
            BY <1>3, <4>1, <4>5
        <5>2. /\ snapOut[<<h, q, r>>] = Upto(T, SeqOf(h), r + 1)
              /\ StoredAt(T, h, q, r)
          BY <1>61, <2>1, <3>1, <5>1
        <5>3. slots[SeqOf(h)][r + 1] # slots[SeqOf(h)][t + 1]
          BY <1>3, <2>4, <4>1, <4>5
        <5> QED
          BY <4>3, <4>5, <5>2, <5>3 DEF StoredAt
      <4> QED
        BY <4>4, <4>5
    <3>3. ASSUME NEW r \in Nat, r < SnapDone(h, q)'
          PROVE  /\ snapOut'[<<h, q, r>>] = Upto(T, SeqOf(h), r + 1)'
                 /\ StoredAt(T, h, q, r)'
      <4>1. /\ snapOut'[<<h, q, r>>] = Upto(T, SeqOf(h), r + 1)
            /\ pool'[<<slots[SeqOf(h)][r + 1], h, q>>] = RowOf(T, h, q, r + 1)
        BY <3>1, <3>2, <3>3
      <4> QED
        BY <1>1, <1>2, <4>1 DEF StoredAt, Upto, RowOf, SeqOf
    <3> HIDE DEF t
    <3> QED
      BY <1>1, <3>1, <3>3
  <2>6. CASE ~ Covers(i, h, q)
    <3>1. SnapDone(h, q)' = SnapDone(h, q) /\ SnapDone(h, q) = Done(h, q)
      BY <1>6, <1>61, <2>6
    <3>2. \A x \in SlotsOf(SeqOf(h)) : pool'[<<x, h, q>>] = pool[<<x, h, q>>]
      BY <1>2, <2>6 DEF SnapshotWrites
    <3>3. SnapDone(h, q)' = 0 => StartsFrom(T, h, q, 0)'
      <4>1. SnapDone(h, q)' = 0 => pool'[<<InitialSlot(SeqOf(h)), h, q>>] = RowOf(T, h, q, 0)
        BY <2>1, <2>4, <3>1, <3>2 DEF StartsFrom
      <4> QED
        BY <1>1, <1>2, <4>1 DEF StartsFrom, InitialSlot, RowOf, Upto, SeqOf
    <3>4. ASSUME NEW r \in Nat, r < SnapDone(h, q)'
          PROVE  /\ snapOut'[<<h, q, r>>] = Upto(T, SeqOf(h), r + 1)'
                 /\ StoredAt(T, h, q, r)'
      <4>1. r < shape.length[SeqOf(h)] /\ r < SnapDone(h, q)
        BY <2>2, <2>3, <3>1, <3>4
      <4>2. r \in Tokens
        BY <2>3, <4>1 DEF Tokens
      <4>3. snapOut'[<<h, q, r>>] = snapOut[<<h, q, r>>]
        BY <1>2, <2>6, <4>2 DEF SnapshotWrites
      <4>4. pool'[<<slots[SeqOf(h)][r + 1], h, q>>] = pool[<<slots[SeqOf(h)][r + 1], h, q>>]
        BY <2>4, <3>2, <4>1
      <4>5. /\ snapOut[<<h, q, r>>] = Upto(T, SeqOf(h), r + 1)
            /\ StoredAt(T, h, q, r)
        BY <2>1, <4>1
      <4> QED
        BY <1>1, <1>2, <4>3, <4>4, <4>5 DEF StoredAt, Upto, RowOf, SeqOf
    <3> QED
      BY <1>1, <3>3, <3>4
  <2> QED
    BY <2>5, <2>6
<1> QED
  BY <1>8, <1>9, <1>10, <1>11, <1>12 DEF DataInv
-----------------------------------------------------------------------------
(* A record applied by the commit kernel.                                  *)

\* The record in front and the tile, for the token the lane is at.
LEMMA CommitFront ==
    ASSUME ShapeOK, LanesInv, NEW T, DataInv(T), stage = "commit", NEW l \in Lanes, ~ Idle(l),
           Accepts[CurrentItem(l)] > 0
    PROVE  LET i == CurrentItem(l)
               t == lane[l].tok
               f == FetchAt(Accepts, lane[l])
           IN  /\ Front(f.ring) = Record(i, t)
               /\ \A q \in ItemRows(i) : f.ub[lane[l].at][q] = RowOf(T, i.head, q, t)
<1> DEFINE i == CurrentItem(l)    st == lane[l]    t == st.tok    n == Accepts
           f == FetchAt(n, st)    o == OpenAt(n, st)    S == CommitLists[l]
<1>1. LaneAt(Items, S, n, TRUE, st) /\ st.works # <<>> /\ i = Head(st.works)[st.at]
  BY DEF LanesInv, CommitLane, Idle, CurrentItem, Work
<1>2. ListOK(Items, S) /\ \A j \in Items : n[j] \in Nat
  BY KernelLists, ItemFacts DEF ShapeOK, ListsOK
<1>3. /\ i \in Items /\ i.head \in Heads /\ SeqOf(i.head) \in Seqs /\ ItemRows(i) \subseteq Rows
      /\ \A h, q : Covers(i, h, q) <=> h = i.head /\ q \in ItemRows(i)
  BY ItemNow
<1>4. n[Head(st.works)[st.at]] > 0
  BY <1>1
<1>5. /\ FetchResult(n, st)
      /\ IF Fetched(TRUE, n, st)
         THEN Front(o.ring) = Front(st.ring) /\ o.ub[st.at] = st.ub[st.at]
         ELSE Front(o.ring) = Record(Head(st.works)[st.at], 0)
              /\ o.ub[st.at] = LoadRows(Head(st.works)[st.at]) /\ st.tok = 0
  <2> HIDE DEF st, n, S
  <2> QED
    BY <1>1, <1>2, <1>4, FetchFacts, OpenFacts
<1>6. Front(f.ring) = Front(o.ring) /\ f.ub[st.at] = o.ub[st.at]
  BY <1>5 DEF FetchResult
<1> HIDE DEF f, o
<1>7. CASE Fetched(TRUE, n, st)
  <2>1. TileCommit(T, l)
    BY <1>7 DEF DataInv, TileInv
  <2> QED
    BY <1>5, <1>6, <1>7, <2>1 DEF TileCommit, f
<1>8. CASE ~ Fetched(TRUE, n, st)
  <2>1. Front(f.ring) = Record(i, 0) /\ f.ub[st.at] = LoadRows(i) /\ t = 0
    <3> HIDE DEF i
    <3> QED
      BY <1>1, <1>5, <1>6, <1>8
  <2>2. ASSUME NEW q \in ItemRows(i) PROVE f.ub[st.at][q] = RowOf(T, i.head, q, 0)
    <3>1. q \in Rows
      BY <1>3
    <3>2. Done(i.head, q) = t
      BY <1>3, <3>1, DoneNow
    <3>3. accepted[SeqOf(i.head)] = Accepts[i]
      BY <1>3, ItemFacts
    <3>4. Committed(i.head, q) = 0
      BY <2>1, <3>2, <3>3 DEF Committed
    <3>5. checkpoint[<<i.head, q>>] = RowOf(T, i.head, q, 0)
      BY <1>3, <3>1, <3>4 DEF DataInv, CheckpointInv
    <3>6. LoadRows(i)[q] = checkpoint[<<i.head, q>>]
      BY DEF LoadRows
    <3> HIDE DEF i, st, t
    <3> QED
      BY <2>1, <3>5, <3>6
  <2> QED
    BY <2>1, <2>2 DEF f
<1> QED
  BY <1>7, <1>8

\* The record takes the tile on by one token.
LEMMA CommitTiles ==
    ASSUME ShapeOK, LanesInv, NEW T, DataInv(T), stage = "commit", NEW l \in Lanes, ~ Idle(l),
           Accepts[CurrentItem(l)] > 0, NEW q \in ItemRows(CurrentItem(l))
    PROVE  CommitTile(l)[q] = RowOf(T, CurrentItem(l).head, q, lane[l].tok + 1)
<1> DEFINE i == CurrentItem(l)    t == lane[l].tok    f == FetchAt(Accepts, lane[l])
           rec == Front(f.ring)   s == SeqOf(i.head)
           u == [head |-> i.head, row |-> q, base |-> T[s] \o Cands(round, t), tok |-> <<round, t>>]
           k == [head |-> i.head, tok |-> <<round, t>>]
           v == Row(i.head, q, T[s] \o Cands(round, t))
<1>1. rec = Record(i, t) /\ f.ub[lane[l].at][q] = RowOf(T, i.head, q, t)
  BY CommitFront
<1>2. /\ i \in Items /\ i.head \in Heads /\ s \in Seqs /\ ItemRows(i) \subseteq Rows /\ t \in Nat
      /\ Table[i] \in Nat /\ (Table[i] > 0 => t < Table[i])
  BY ItemNow
<1>3. t < shape.length[s]
  <2>1. Table[i] = Accepts[i] /\ Accepts[i] \in 0 .. Lengths[i] /\ Lengths[i] = shape.length[s]
        /\ Lengths[i] \in Nat
    BY <1>2, ItemFacts DEF Table
  <2>2. Accepts[i] > 0
    OBVIOUS
  <2> HIDE DEF i, t, s
  <2> QED
    BY <1>2, <2>1, <2>2
<1>4. 0 \in Rows /\ q \in Rows
  BY <1>2, ScheduleAssumption DEF Rows
<1>5. \A r \in Rows : NotedAt(T, i.head, r, t)
  <2>1. \A r \in Rows : VerifyDone(i.head, r) = shape.length[s]
    BY DEF VerifyDone
  <2> QED
    BY <1>2, <1>3, <2>1 DEF DataInv, NotedInv
<1>6. replayU[<<i.head, q, t>>] = u /\ replayK[<<i.head, t>>] = k
  <2>1. NotedAt(T, i.head, q, t) /\ NotedAt(T, i.head, 0, t)
    BY <1>4, <1>5
  <2> QED
    BY <2>1 DEF NotedAt, Upto
<1>7. rec.k = k /\ DOMAIN rec.u = ItemRows(i) /\ rec.u[q] = u
  <2> HIDE DEF rec, u, k
  <2> QED
    BY <1>1, <1>6 DEF Record
<1>8. CommitTile(l)[q] = IF q \in DOMAIN rec.u THEN Apply(f.ub[lane[l].at][q], rec.u[q], rec.k)
                         ELSE Spoilt(f.ub[lane[l].at][q])
  BY Zenon DEF CommitTile
<1>9. T[s] \in Texts /\ round \in Nat \ {0}
  BY <1>2, UptoFacts DEF DataInv
<1>10. Apply(v, u, k) = Row(i.head, q, T[s] \o Cands(round, t + 1))
  <2>1. ApplyResult(T[s], round, t, i.head, q, ItemRows(i))
    BY <1>2, <1>9, ApplyGood
  <2> QED
    BY <2>1, Zenon DEF ApplyResult
<1>11. f.ub[lane[l].at][q] = v
  BY <1>1 DEF RowOf, Upto
<1> HIDE DEF v, u, k, f, rec
<1>12. CommitTile(l)[q] = Apply(v, u, k)
  BY <1>7, <1>8, <1>11
<1> QED
  BY <1>10, <1>12 DEF RowOf, Upto

\* What a token of the commit leaves in its lane.
CommitStepResult(l, v, st2) ==
  LET i == CurrentItem(l)
      i2 == Head(st2.works)[st2.at]
  IN  /\ CommitLane(st2, l)
      /\ lane[l].tok + 1 # Accepts[i] =>
           /\ st2.works = lane[l].works /\ st2.at = lane[l].at
           /\ st2.tok = lane[l].tok + 1
           /\ st2.ub[st2.at] = v /\ Front(st2.ring) = Record(i, lane[l].tok + 1)
      /\ lane[l].tok + 1 = Accepts[i] =>
           /\ st2.tok = 0
           /\ Fetched(TRUE, Accepts, st2) =>
                /\ st2.works = lane[l].works /\ st2.at = 2 /\ lane[l].at = 1
                /\ st2.ub[st2.at] = LoadRows(i2) /\ Front(st2.ring) = Record(i2, 0)

\* The commit's token as a change of the lane, under one name.
LEMMA CommitStepIs ==
    ASSUME ShapeOK, NEW l \in Lanes, CommitLane(lane[l], l), ~ Idle(l),
           Accepts[CurrentItem(l)] > 0, NEW v
    PROVE  CommitStepResult(l, v, MoveCommit(l, v))
BY CommitStep, Zenon DEF CommitStepResult

\* The data after a step of the commit kernel.
LEMMA CommitKeeps ==
    ASSUME ShapeOK, LanesInv, StoreOK, NEW T, DataInv(T), NEW l \in Lanes, Commit(l)
    PROVE  DataInv(T)'
<1> DEFINE i == CurrentItem(l)    st == lane[l]    t == st.tok    s == SeqOf(i.head)
           k == Accepts[i]    st2 == lane'[l]
<1>0. stage = "commit"
  BY DEF Commit
<1>1. /\ \A m \in Lanes : CommitLane(lane[m], m)
      /\ lane = [m \in Lanes |-> lane[m]]
  BY <1>0 DEF LanesInv
<1>2. ListOK(Items, CommitLists[l]) /\ \A j \in Items : Accepts[j] \in Nat
  BY KernelLists, ItemFacts DEF ShapeOK, ListsOK
<1>3. /\ stage' = stage /\ ~ Idle(l) /\ shape' = shape /\ round' = round /\ accepted' = accepted
      /\ \/ /\ k = 0 /\ CommitSkip(l) /\ lane' = [lane EXCEPT ![l] = NextItem(lane[l])]
         \/ /\ k > 0 /\ CommitToken(l)
            /\ lane' = [lane EXCEPT ![l] = MoveCommit(l, CommitTile(l))]
            /\ checkpoint' = IF t + 1 = k
                             THEN [p \in DOMAIN checkpoint |->
                                     IF p[1] = i.head /\ p[2] \in ItemRows(i)
                                     THEN CommitTile(l)[p[2]] ELSE checkpoint[p]]
                             ELSE checkpoint
  BY <1>1, <1>2, CommitLaneIs
<1>4. /\ i \in Items /\ i.head \in Heads /\ s \in Seqs /\ ItemRows(i) \subseteq Rows
      /\ \A h, q : Covers(i, h, q) <=> h = i.head /\ q \in ItemRows(i)
      /\ t \in Nat /\ Table[i] \in Nat /\ (Table[i] > 0 => t < Table[i])
      /\ (t > 0 => t < Table[i])
  BY <1>3, ItemNow
<1>5. Table[i] = k /\ k = accepted[s] /\ k \in Nat
  <2>1. Table[i] = Accepts[i]
    BY <1>0 DEF Table
  <2> QED
    BY <1>2, <1>4, <2>1, ItemFacts
<1>6. /\ replayU' = replayU /\ replayK' = replayK /\ out' = out /\ UNCHANGED snapshotVars
  BY DEF Commit, CommitSkip, CommitToken, replayVars
<1>7. lane' = [lane EXCEPT ![l] = st2] /\ \A m \in Lanes : m # l => lane'[m] = lane[m]
  <2>1. \E v : lane' = [lane EXCEPT ![l] = v]
    <3> HIDE DEF k
    <3> QED
      BY <1>3
  <2> QED
    BY <1>1, <2>1
<1>13. ASSUME k = 0
       PROVE  /\ st2 = NextItem(st) /\ Moved(st, st2, Table[i])
              /\ ~ Fetched(TRUE, Accepts, st2) /\ checkpoint' = checkpoint
  <2>1. CommitSkip(l) /\ lane' = [lane EXCEPT ![l] = NextItem(lane[l])]
    <3> HIDE DEF k
    <3> QED
      BY <1>3, <1>13
  <2>2. st2 = NextItem(st)
    BY <1>1, <2>1
  <2>3. Moved(st, NextItem(st), 0) /\ ~ Fetched(TRUE, Accepts, NextItem(st))
    BY <1>1, <1>3, <1>13, PassStep
  <2>4. checkpoint' = checkpoint
    BY <2>1 DEF CommitSkip, replayVars
  <2>5. Table[i] = 0
    BY <1>5, <1>13
  <2> HIDE DEF st2, i, k, st
  <2> QED
    BY <2>2, <2>3, <2>4, <2>5
<1>14. ASSUME k > 0
       PROVE  st2 = MoveCommit(l, CommitTile(l)) /\ Moved(st, st2, Table[i])
  <2>1. lane' = [lane EXCEPT ![l] = MoveCommit(l, CommitTile(l))]
    <3> HIDE DEF k
    <3> QED
      BY <1>3, <1>14
  <2>2. st2 = MoveCommit(l, CommitTile(l))
    BY <1>1, <2>1
  <2>3. Moved(st, MoveCommit(l, CommitTile(l)), k)
    BY <1>1, <1>3, <1>14, CommitStep
  <2> HIDE DEF st2, i, k, st
  <2> QED
    BY <1>5, <2>2, <2>3
<1> HIDE DEF st2
<1>8. \A h \in Heads, q \in Rows :
        /\ Covers(i, h, q) => Done(h, q) = t
        /\ Done(h, q)' = IF Covers(i, h, q) THEN (IF k = 0 THEN 0 ELSE t + 1) ELSE Done(h, q)
  <2>1. Moved(st, st2, Table[i])
    <3>1. k = 0 \/ k > 0
      BY <1>5
    <3> HIDE DEF k, i, st
    <3> QED
      BY <1>13, <1>14, <3>1
  <2>2. DoneResult(l, Table[i])
    BY <1>3, <1>7, <2>1, DoneMoves
  <2> QED
    BY <1>5, <2>2, Zenon DEF DoneResult
<1>9. /\ Heads' = Heads /\ Rows' = Rows /\ (TextsOK(T)' <=> TextsOK(T)) /\ Lanes' = Lanes
      /\ Accepts' = Accepts
  BY <1>3, SameRound, SameCall DEF Rows
<1>10. NotedInv(T)' /\ PoolInv(T)' /\ PoolOwn'
  <2>1. \A h, q : VerifyDone(h, q)' = VerifyDone(h, q) /\ SnapDone(h, q)' = SnapDone(h, q)
    BY <1>0, <1>3 DEF VerifyDone, SnapDone, SeqOf
  <2> QED
    BY <1>0, <1>3, <1>6, <2>1, NotedKept, PoolKept, OwnKept DEF DataInv
<1>11. k > 0 => \A q \in ItemRows(i) : CommitTile(l)[q] = RowOf(T, i.head, q, t + 1)
  BY <1>0, <1>3, CommitTiles
<1>12. CheckpointInv(T)'
  <2> SUFFICES ASSUME NEW h \in Heads, NEW q \in Rows
               PROVE  (checkpoint[<<h, q>>] = RowOf(T, h, q, Committed(h, q)))'
    BY <1>9 DEF CheckpointInv
  <2>1. checkpoint[<<h, q>>] = RowOf(T, h, q, Committed(h, q))
    BY DEF DataInv, CheckpointInv
  <2>2. checkpoint'[<<h, q>>] = RowOf(T, h, q, Committed(h, q)')
    <3>1. CASE ~ Covers(i, h, q) \/ k = 0
      <4>1. Committed(h, q)' = Committed(h, q)
        <5>1. Done(h, q)' = Done(h, q)
          <6>1. CASE ~ Covers(i, h, q)
            BY <1>8, <6>1
          <6>2. CASE Covers(i, h, q) /\ k = 0
            <7>1. Done(h, q) = t /\ Done(h, q)' = 0
              BY <1>8, <6>2
            <7>2. t = 0
              <8>1. ~ (t > 0)
                BY <1>4, <1>5, <6>2
              <8> QED
                BY <1>4, <8>1
            <7> QED
              BY <7>1, <7>2
          <6> QED
            BY <3>1, <6>1, <6>2
        <5> QED
          BY <1>0, <1>3, <5>1 DEF Committed, SeqOf
      <4>2. checkpoint'[<<h, q>>] = checkpoint[<<h, q>>]
        <5>1. <<h, q>> \in DOMAIN checkpoint
          BY DEF StoreOK
        <5>2. ~ Covers(i, h, q) => ~ (h = i.head /\ q \in ItemRows(i))
          BY <1>4
        <5> HIDE DEF i, k, t
        <5> QED
          BY <1>3, <1>5, <1>13, <3>1, <5>1, <5>2
      <4> QED
        BY <2>1, <4>1, <4>2
    <3>2. CASE Covers(i, h, q) /\ k > 0
      <4>1. h = i.head /\ q \in ItemRows(i) /\ SeqOf(h) = s /\ Done(h, q) = t
            /\ Done(h, q)' = t + 1
        <5>1. k # 0
          BY <1>5, <3>2
        <5> QED
          BY <1>4, <1>8, <3>2, <5>1
      <4>2. t < k
        BY <1>4, <1>5, <3>2
      <4>3. Committed(h, q)' = IF t + 1 = k THEN k ELSE 0
        <5>1. Committed(h, q)' = IF Done(h, q)' = accepted[SeqOf(h)] THEN accepted[SeqOf(h)] ELSE 0
          BY <1>0, <1>3 DEF Committed, SeqOf
        <5> QED
          BY <1>5, <4>1, <5>1
      <4>4. Committed(h, q) = 0
        BY <1>5, <4>1, <4>2 DEF Committed
      <4>5. checkpoint'[<<h, q>>] = IF t + 1 = k THEN CommitTile(l)[q] ELSE checkpoint[<<h, q>>]
        <5>1. <<h, q>> \in DOMAIN checkpoint
          BY DEF StoreOK
        <5> HIDE DEF i, k, t
        <5> QED
          BY <1>3, <1>5, <3>2, <4>1, <5>1
      <4>6. CommitTile(l)[q] = RowOf(T, h, q, t + 1)
        BY <1>11, <3>2, <4>1
      <4> HIDE DEF i, k, t
      <4> QED
        BY <2>1, <4>3, <4>4, <4>5, <4>6
    <3> HIDE DEF i, k, t
    <3> QED
      BY <1>5, <3>1, <3>2
  <2> QED
    BY <1>3, <2>2 DEF RowOf, Upto, SeqOf
<1>15. ASSUME NEW m \in Lanes, Fetched(TRUE, Accepts', lane'[m])
       PROVE  TileCommit(T, m)'
  <2>1. CASE m # l
    <3>1. lane'[m] = lane[m] /\ Fetched(TRUE, Accepts, lane[m])
      BY <1>7, <1>9, <1>15, <2>1
    <3>2. TileCommit(T, m)
      BY <1>0, <3>1 DEF DataInv, TileInv
    <3>3. /\ CurrentItem(m)' = CurrentItem(m) /\ \A j, r : Record(j, r)' = Record(j, r)
          /\ \A h, q, r : RowOf(T, h, q, r)' = RowOf(T, h, q, r)
      BY <1>3, <1>6, <3>1, SameRound DEF CurrentItem, Work, Record
    <3> QED
      BY <3>1, <3>2, <3>3 DEF TileCommit
  <2>2. CASE m = l
    <3>1. k > 0
      <4>1. k = 0 => ~ Fetched(TRUE, Accepts, st2)
        BY <1>13
      <4>2. Fetched(TRUE, Accepts, st2)
        BY <1>9, <1>15, <2>2 DEF st2
      <4> HIDE DEF k, i, s, t, st
      <4> QED
        <5>1. k # 0
          BY <4>1, <4>2, Zenon
        <5> QED
          BY <1>5, <5>1
    <3> DEFINE i2 == Head(st2.works)[st2.at]
    <3>2. /\ CommitLane(st2, l)
          /\ t + 1 # k =>
               /\ st2.works = st.works /\ st2.at = st.at /\ st2.tok = t + 1
               /\ st2.ub[st2.at] = CommitTile(l) /\ Front(st2.ring) = Record(i, t + 1)
          /\ t + 1 = k =>
               /\ st2.tok = 0
               /\ Fetched(TRUE, Accepts, st2) =>
                    /\ st2.works = st.works /\ st2.at = 2 /\ st.at = 1
                    /\ st2.ub[st2.at] = LoadRows(i2) /\ Front(st2.ring) = Record(i2, 0)
      <4>1. st2 = MoveCommit(l, CommitTile(l)) /\ CommitLane(st, l)
        BY <1>1, <1>14, <3>1
      <4>2. CommitStepResult(l, CommitTile(l), MoveCommit(l, CommitTile(l)))
        BY <1>3, <3>1, <4>1, CommitStepIs
      <4>3. CommitStepResult(l, CommitTile(l), st2)
        BY <4>1, <4>2
      <4> QED
        BY <4>3, Zenon DEF CommitStepResult
    <3>3. Fetched(TRUE, Accepts, st2) /\ st2.works # <<>>
      BY <1>9, <1>15, <2>2 DEF st2, Fetched
    <3>4. CurrentItem(l)' = i2
      BY DEF CurrentItem, Work, st2
    <3>5. CASE t + 1 # k
      <4>1. i2 = i
        BY <3>2, <3>5 DEF CurrentItem, Work
      <4>2. /\ \A q \in ItemRows(i) : st2.ub[st2.at][q] = RowOf(T, i.head, q, t + 1)
            /\ Front(st2.ring) = Record(i, t + 1) /\ st2.tok = t + 1
        BY <1>11, <3>1, <3>2, <3>5
      <4> QED
        <5>1. /\ \A q \in ItemRows(i2) : st2.ub[st2.at][q] = RowOf(T, i2.head, q, st2.tok)
              /\ Front(st2.ring) = Record(i2, st2.tok)
          BY <4>1, <4>2
        <5> HIDE DEF i2, i, t, k, st
        <5>2. /\ \A q \in ItemRows(i2) : lane'[l].ub[lane'[l].at][q] = RowOf(T, i2.head, q, lane'[l].tok)
              /\ Front(lane'[l].ring) = Record(i2, lane'[l].tok)
          BY <5>1 DEF st2
        <5> QED
          BY <1>3, <1>6, <2>2, <3>4, <5>2 DEF TileCommit, RowOf, Upto, Record, SeqOf, ItemRows
    <3>6. CASE t + 1 = k
      <4>1. /\ st2.tok = 0 /\ st2.works = st.works /\ st2.at = 2 /\ st.at = 1
            /\ st2.ub[st2.at] = LoadRows(i2) /\ Front(st2.ring) = Record(i2, 0)
        BY <3>2, <3>3, <3>6
      <4>2. 1 < Len(Head(st.works))
        <5>1. ListOK(Items, CommitLists[l]) /\ OnList(Items, CommitLists[l], Accepts, st2)
          BY <1>2, <3>2 DEF CommitLane, LaneAt
        <5> DEFINE w == Drained(CommitLists[l], st2) + 1
        <5>2. /\ Head(st2.works) = CommitLists[l][w] /\ st2.at \in DOMAIN CommitLists[l][w]
              /\ DOMAIN CommitLists[l][w] = 1 .. Len(CommitLists[l][w])
              /\ Len(CommitLists[l][w]) \in {1, 2}
          <6> HIDE DEF st
          <6> QED
            BY <3>3, <5>1, FirstWork
        <5>3. Head(st.works) = CommitLists[l][w]
          BY <4>1, <5>2
        <5> HIDE DEF w, st
        <5> QED
          BY <4>1, <5>2, <5>3
      <4>3. /\ i2 = Head(st.works)[2] /\ i2 \in Items
            /\ \A q \in ItemRows(i2) : q \in Rows /\ Done(i2.head, q) = 0
        BY <1>3, <4>1, <4>2, PairWaits
      <4>4. i2.head \in Heads
        BY <4>3, ItemFacts
      <4>5. ASSUME NEW q \in ItemRows(i2)
            PROVE  LoadRows(i2)[q] = RowOf(T, i2.head, q, 0)
        <5>1. checkpoint[<<i2.head, q>>] = RowOf(T, i2.head, q, Committed(i2.head, q))
          BY <4>3, <4>4 DEF DataInv, CheckpointInv
        <5>2. Committed(i2.head, q) = 0
          <6>1. Done(i2.head, q) = 0
            BY <4>3
          <6> HIDE DEF i2
          <6> QED
            BY <6>1 DEF Committed
        <5> HIDE DEF i2
        <5> QED
          BY <5>1, <5>2 DEF LoadRows
      <4>6. /\ \A q \in ItemRows(i2) : st2.ub[st2.at][q] = RowOf(T, i2.head, q, st2.tok)
            /\ Front(st2.ring) = Record(i2, st2.tok)
        <5> HIDE DEF i2
        <5> QED
          BY <4>1, <4>5
      <4> HIDE DEF i2, i, t, k, st
      <4>7. /\ \A q \in ItemRows(i2) : lane'[l].ub[lane'[l].at][q] = RowOf(T, i2.head, q, lane'[l].tok)
            /\ Front(lane'[l].ring) = Record(i2, lane'[l].tok)
        BY <4>6 DEF st2
      <4> QED
        BY <1>3, <1>6, <2>2, <3>4, <4>7 DEF TileCommit, RowOf, Upto, Record, SeqOf, ItemRows
    <3> QED
      BY <3>5, <3>6
  <2> QED
    BY <2>1, <2>2
<1>16. TileInv(T)'
  BY <1>0, <1>3, <1>9, <1>15 DEF TileInv
<1> QED
  BY <1>9, <1>10, <1>12, <1>16, Zenon DEF DataInv, TextsOK

\* Rows of a round that goes on keep what has been done for them.
LEMMA DoneSame ==
    ASSUME shape' = shape, lane' = lane, stage' = stage, accepted' = accepted
    PROVE  \A h, q : /\ Done(h, q)' = Done(h, q) /\ VerifyDone(h, q)' = VerifyDone(h, q)
                     /\ SnapDone(h, q)' = SnapDone(h, q) /\ Committed(h, q)' = Committed(h, q)
<1>1. Lists' = Lists /\ Table' = Table
  BY SameCall DEF Lists, Table
<1>2. Lanes' = Lanes
  BY SameCall
<1>3. \A h, q : Done(h, q)' = Done(h, q)
  <2> TAKE h, q
  <2>1. Place(Lists, h, q)' = Place(Lists, h, q)
    BY <1>1, <1>2, Zenon DEF Place
  <2> QED
    BY <1>1, <2>1, Zenon DEF Done
<1> QED
  BY <1>3 DEF VerifyDone, SnapDone, Committed, SeqOf

\* A grid that has just been started has done nothing.
FreshDone ==
  ShapeOK /\ LanesInv /\ lane = [l \in Lanes |-> Start(Lists[l])] =>
    \A h \in Heads, q \in Rows : Done(h, q) = 0

\* The same as one formula.
LEMMA FreshNow == FreshDone
BY DoneStart DEF FreshDone

\* The same of the next state.
LEMMA FreshNext == FreshDone'
BY FreshNow, PTL

\* The lanes that a launch starts.
LEMMA Launched ==
    ASSUME shape' = shape, ShapeOK', LanesInv', NEW kernel \in {"verify", "snapshot", "commit"},
           lane' = Works(kernel), stage' = "commit" <=> kernel = "commit"
    PROVE  /\ \A h \in Heads, q \in Rows : Done(h, q)' = 0
           /\ \A l \in Lanes : lane'[l].tok = 0 /\ lane'[l].at = 1
<1>1. Lists' = IF kernel = "commit" THEN CommitLists ELSE ScoreLists
  BY SameCall DEF Lists
<1>2. Works(kernel) = [l \in Lanes |-> Start(IF kernel = "commit" THEN CommitLists[l] ELSE ScoreLists[l])]
  BY WorksAre
<1>3. lane' = [l \in Lanes |-> Start(Lists'[l])]
  BY <1>1, <1>2
<1>4. \A h \in Heads, q \in Rows : Done(h, q)' = 0
  BY <1>3, FreshNext, SameCall DEF FreshDone, Rows
<1>5. \A l \in Lanes : lane'[l].tok = 0 /\ lane'[l].at = 1
  BY <1>3 DEF Start
<1> QED
  BY <1>4, <1>5

\* A lane that has drained its list is amid nothing.
LEMMA IdleLanes ==
    ASSUME ShapeOK, LanesInv, AllIdle, NEW l \in Lanes
    PROVE  lane[l].tok = 0 /\ lane[l].at = 1
<1>1. OnList(Items, Lists[l], Table, lane[l]) /\ lane[l].works = <<>>
  BY ListsNow DEF AllIdle, Idle
<1> QED
  BY <1>1 DEF OnList

\* Between two kernels no tile is amid an item.
LEMMA TilesNone ==
    ASSUME shape' = shape, NEW T, \A l \in Lanes : lane'[l].tok = 0 /\ lane'[l].at = 1
    PROVE  TileInv(T)'
<1>1. Lanes' = Lanes
  BY SameCall
<1> QED
  BY <1>1 DEF TileInv, Fetched

\* The texts of a round that goes on.
LEMMA TextsKept ==
    ASSUME shape' = shape, NEW T, TextsOK(T)
    PROVE  TextsOK(T)'
BY DEF TextsOK, Seqs

\* The data while the convolution runs, and when nothing happens.
LEMMA DataStays ==
    ASSUME NEW T, DataInv(T), shape' = shape, round' = round, lane' = lane, stage' = stage,
           accepted' = accepted, UNCHANGED replayVars, UNCHANGED snapshotVars
    PROVE  DataInv(T)'
<1>1. checkpoint' = checkpoint /\ replayU' = replayU /\ replayK' = replayK /\ out' = out
  BY DEF replayVars
<1>2. NotedInv(T)' /\ CheckpointInv(T)' /\ PoolInv(T)' /\ PoolOwn'
  BY <1>1, DoneSame, NotedKept, CheckpointKept, PoolKept, OwnKept DEF DataInv
<1>3. TileInv(T)'
  <2>1. Lanes' = Lanes /\ Accepts' = Accepts
    BY SameCall
  <2>2. \A l : CurrentItem(l)' = CurrentItem(l)
    BY DEF CurrentItem, Work
  <2>3. ASSUME NEW l \in Lanes, stage' # "commit", lane'[l].tok > 0 PROVE TileScore(T, l)'
    <3>1. TileScore(T, l)
      BY <2>3 DEF DataInv, TileInv
    <3> QED
      BY <2>2, <3>1 DEF TileScore, RowOf, Upto, Input, SeqOf, ItemRows
  <2>4. ASSUME NEW l \in Lanes, stage' = "commit", Fetched(TRUE, Accepts, lane[l])
        PROVE  TileCommit(T, l)'
    <3>1. TileCommit(T, l)
      BY <2>4 DEF DataInv, TileInv
    <3> QED
      BY <1>1, <2>2, <3>1 DEF TileCommit, RowOf, Upto, Record, SeqOf, ItemRows
  <2> QED
    BY <2>1, <2>3, <2>4 DEF TileInv
<1> QED
  BY <1>2, <1>3, TextsKept DEF DataInv

\* How far the rows are between the kernels that score and the commit.
LEMMA VerifyEnded ==
    ASSUME ShapeOK, LanesInv, AllIdle, stage \in {"verify", "snapshot"},
           shape' = shape, stage' \in {"snapshot", "accept"}
    PROVE  \A h \in Heads, q \in Rows : VerifyDone(h, q)' = VerifyDone(h, q)
BY DoneEnd DEF VerifyDone, SeqOf

\* The whole grid has met: the verify kernel starts.
LEMMA ConvEndsKeeps ==
    ASSUME ShapeOK, LanesInv, ShapeOK', LanesInv', NEW T, DataInv(T), ConvEnds
    PROVE  DataInv(T)'
<1>1. /\ stage = "conv" /\ stage' = "verify" /\ shape' = shape /\ round' = round
      /\ lane' = Works("verify") /\ lane' = lane /\ accepted' = accepted
      /\ UNCHANGED replayVars /\ UNCHANGED snapshotVars
  BY DEF ConvEnds, LanesInv
<1>2. checkpoint' = checkpoint /\ replayU' = replayU /\ replayK' = replayK /\ out' = out
  BY <1>1 DEF replayVars
<1>3. /\ \A h \in Heads, q \in Rows : Done(h, q)' = 0
      /\ \A l \in Lanes : lane'[l].tok = 0 /\ lane'[l].at = 1
  BY <1>1, Launched
<1>4. \A h \in Heads, q \in Rows : /\ VerifyDone(h, q)' = VerifyDone(h, q)
                                   /\ SnapDone(h, q)' = SnapDone(h, q)
                                   /\ Committed(h, q)' = Committed(h, q)
  BY <1>1, <1>3 DEF VerifyDone, SnapDone, Committed
<1>5. NotedInv(T)' /\ CheckpointInv(T)' /\ PoolInv(T)' /\ PoolOwn'
  BY <1>1, <1>2, <1>4, NotedKept, CheckpointKept, PoolKept, OwnKept DEF DataInv
<1>6. TileInv(T)'
  BY <1>1, <1>3, TilesNone
<1> QED
  BY <1>1, <1>5, <1>6, TextsKept DEF DataInv

\* The verify kernel has ended, and another kernel starts or the caller chooses.
LEMMA VerifyEndsKeeps ==
    ASSUME ShapeOK, LanesInv, ShapeOK', LanesInv', NEW T, DataInv(T), VerifyEnds
    PROVE  DataInv(T)'
<1>1. /\ stage = "verify" /\ AllIdle /\ shape' = shape /\ round' = round
      /\ accepted' = accepted /\ UNCHANGED replayVars /\ UNCHANGED snapshotVars
      /\ stage' \in {"snapshot", "accept"} /\ (WithSnapshots <=> stage' = "snapshot")
      /\ stage' = "snapshot" => lane' = Works("snapshot")
      /\ stage' = "accept" => lane' = lane
  BY DEF VerifyEnds
<1>2. checkpoint' = checkpoint /\ replayU' = replayU /\ replayK' = replayK /\ out' = out
  BY <1>1 DEF replayVars
<1>3. /\ stage' = "snapshot" => \A h \in Heads, q \in Rows : Done(h, q)' = 0
      /\ \A l \in Lanes : lane'[l].tok = 0 /\ lane'[l].at = 1
  <2>1. CASE stage' = "snapshot"
    BY <1>1, <2>1, Launched
  <2>2. CASE stage' = "accept"
    BY <1>1, <2>2, IdleLanes
  <2> QED
    BY <1>1, <2>1, <2>2
<1>4. \A h \in Heads, q \in Rows : /\ VerifyDone(h, q)' = VerifyDone(h, q)
                                   /\ (WithSnapshots => SnapDone(h, q)' = SnapDone(h, q))
                                   /\ Committed(h, q)' = Committed(h, q)
  BY <1>1, <1>3, VerifyEnded DEF SnapDone, Committed
<1>5. NotedInv(T)' /\ CheckpointInv(T)' /\ PoolInv(T)' /\ PoolOwn'
  <2>1. NotedInv(T)' /\ CheckpointInv(T)' /\ PoolOwn'
    BY <1>1, <1>2, <1>4, NotedKept, CheckpointKept, OwnKept DEF DataInv
  <2>2. PoolInv(T)'
    BY <1>1, <1>4, PoolKept DEF DataInv
  <2> QED
    BY <2>1, <2>2
<1>6. TileInv(T)'
  BY <1>1, <1>3, TilesNone
<1> QED
  BY <1>1, <1>5, <1>6, TextsKept DEF DataInv

\* The snapshot kernel has ended, and the caller chooses.
LEMMA SnapshotEndsKeeps ==
    ASSUME ShapeOK, LanesInv, NEW T, DataInv(T), SnapshotEnds
    PROVE  DataInv(T)'
<1>1. /\ stage = "snapshot" /\ stage' = "accept" /\ AllIdle /\ shape' = shape /\ round' = round
      /\ accepted' = accepted /\ lane' = lane /\ UNCHANGED replayVars /\ UNCHANGED snapshotVars
  BY DEF SnapshotEnds
<1>2. checkpoint' = checkpoint /\ replayU' = replayU /\ replayK' = replayK /\ out' = out
  BY <1>1 DEF replayVars
<1>3. \A l \in Lanes : lane'[l].tok = 0 /\ lane'[l].at = 1
  BY <1>1, IdleLanes
<1>4. \A h \in Heads, q \in Rows : /\ VerifyDone(h, q)' = VerifyDone(h, q)
                                   /\ SnapDone(h, q)' = SnapDone(h, q)
                                   /\ Committed(h, q)' = Committed(h, q)
  BY <1>1, DoneEnd DEF VerifyDone, SnapDone, Committed, SeqOf
<1>5. NotedInv(T)' /\ CheckpointInv(T)' /\ PoolInv(T)' /\ PoolOwn'
  BY <1>1, <1>2, <1>4, NotedKept, CheckpointKept, PoolKept, OwnKept DEF DataInv
<1>6. TileInv(T)'
  BY <1>1, <1>3, TilesNone
<1> QED
  BY <1>1, <1>5, <1>6, TextsKept DEF DataInv

\* The slot of the last accepted token is where the next call starts.
LEMMA RenumberStarts ==
    ASSUME ShapeOK, StoreOK, Renumber(accepted'), shape' = shape, NEW s \in Seqs
    PROVE  slots'[s][IF count'[s] > 0 THEN count'[s] ELSE 1] = slots[s][accepted'[s]]
BY DEF Renumber, Seqs

\* The caller has accepted: nothing is committed yet, and the next call starts
\* from what was stored after the last accepted candidate.
LEMMA AcceptKeeps ==
    ASSUME ShapeOK, LanesInv, StoreOK, ShapeOK', LanesInv', NEW T, DataInv(T), Accept
    PROVE  DataInv(T)'
<1>1. /\ stage = "accept" /\ stage' = "commit" /\ shape' = shape /\ round' = round
      /\ lane' = Works("commit") /\ UNCHANGED replayVars /\ pool' = pool /\ snapOut' = snapOut
      /\ IF WithSnapshots THEN Renumber(accepted') ELSE UNCHANGED snapshotVars
      /\ accepted' \in [Seqs -> 0 .. LongestSequence]
      /\ \A s \in Seqs : accepted'[s] <= shape.length[s] /\ accepted'[s] >= shape.least
  BY DEF Accept, Renumber, snapshotVars
<1>2. checkpoint' = checkpoint /\ replayU' = replayU /\ replayK' = replayK /\ out' = out
  BY <1>1 DEF replayVars
<1>3. /\ \A h \in Heads, q \in Rows : Done(h, q)' = 0
      /\ \A l \in Lanes : lane'[l].tok = 0 /\ lane'[l].at = 1
  BY <1>1, Launched
<1>4. \A h \in Heads, q \in Rows : /\ VerifyDone(h, q)' = VerifyDone(h, q)
                                   /\ SnapDone(h, q)' = SnapDone(h, q)
                                   /\ Committed(h, q)' = Committed(h, q)
  BY <1>1, <1>3 DEF VerifyDone, SnapDone, Committed, SeqOf
<1>5. NotedInv(T)' /\ CheckpointInv(T)'
  BY <1>1, <1>2, <1>4, NotedKept, CheckpointKept DEF DataInv
<1>6. PoolOwn'
  <2>1. Heads' = Heads /\ Rows' = Rows
    BY <1>1, SameCall DEF Rows
  <2>2. \A h : SlotsOf(SeqOf(h))' = SlotsOf(SeqOf(h))
    BY <1>1 DEF SlotsOf, SeqOf
  <2>3. PoolOwn
    BY DEF DataInv
  <2> SUFFICES ASSUME NEW h \in Heads', NEW q \in Rows', NEW x \in SlotsOf(SeqOf(h))'
               PROVE  pool'[<<x, h, q>>].head = h /\ pool'[<<x, h, q>>].row = q
    BY Zenon DEF PoolOwn
  <2>4. h \in Heads /\ q \in Rows /\ x \in SlotsOf(SeqOf(h))
    BY <2>1, <2>2, Zenon
  <2>5. pool[<<x, h, q>>].head = h /\ pool[<<x, h, q>>].row = q
    BY <2>3, <2>4, Zenon DEF PoolOwn
  <2> QED
    BY <1>1, <2>5, Zenon
<1>7. PoolInv(T)'
  <2>1. /\ Heads' = Heads /\ Rows' = Rows /\ (WithSnapshots' <=> WithSnapshots)
        /\ \A h, q, t : RowOf(T, h, q, t)' = RowOf(T, h, q, t)
        /\ \A s, t : Upto(T, s, t)' = Upto(T, s, t)
        /\ \A h : SeqOf(h)' = SeqOf(h)
    BY <1>1, SameCall, SameRound DEF Rows
  <2>2. ASSUME WithSnapshots, NEW h \in Heads, NEW q \in Rows
        PROVE  /\ StartsFrom(T, h, q, accepted[SeqOf(h)])'
               /\ \A t \in Nat : t < SnapDone(h, q) => snapOut[<<h, q, t>>] = Upto(T, SeqOf(h), t + 1)
    <3> DEFINE s == SeqOf(h)    n == accepted'[s]
    <3>1. s \in Seqs /\ shape.least \in Nat \ {0} /\ shape.length[s] \in Nat /\ n \in Nat
          /\ n <= shape.length[s] /\ n >= shape.least
      <4>1. s \in Seqs /\ shape.least \in Nat /\ shape.length[s] \in Nat
        BY <2>2, ShapeFacts DEF ShapeOK
      <4>2. shape.least # 0
        BY <2>2, <4>1 DEF WithSnapshots
      <4>3. n \in Nat /\ n <= shape.length[s] /\ n >= shape.least
        BY <1>1, <4>1
      <4> QED
        BY <4>1, <4>2, <4>3
    <3> HIDE DEF s, n
    <3>2. n - 1 \in Nat /\ n - 1 < shape.length[s] /\ n - 1 + 1 = n
      BY <3>1
    <3>3. StoredAt(T, h, q, n - 1) /\ \A t \in Nat : t < SnapDone(h, q) => snapOut[<<h, q, t>>] = Upto(T, SeqOf(h), t + 1)
      <4>1. SnapDone(h, q) = shape.length[s]
        BY <1>1 DEF SnapDone, s
      <4> QED
        BY <1>1, <2>2, <3>2, <4>1 DEF DataInv, PoolInv
    <3>4. pool[<<slots[s][n], h, q>>] = RowOf(T, h, q, n)
      BY <3>2, <3>3 DEF StoredAt, s
    <3>5. slots'[s][IF count'[s] > 0 THEN count'[s] ELSE 1] = slots[s][n]
      <4>1. Renumber(accepted')
        BY <1>1, <2>2
      <4> QED
        BY <1>1, <3>1, <4>1, RenumberStarts DEF n
    <3>6. pool'[<<slots[s][n], h, q>>] = RowOf(T, h, q, n)
      BY <1>1, <3>4
    <3> QED
      BY <1>1, <3>3, <3>5, <3>6 DEF StartsFrom, RowOf, Upto, SeqOf, InitialSlot, s, n
  <2>3. ASSUME WithSnapshots, NEW h \in Heads, NEW q \in Rows, NEW t \in Nat, t < SnapDone(h, q)'
        PROVE  (snapOut[<<h, q, t>>] = Upto(T, SeqOf(h), t + 1))'
    <3>1. t < SnapDone(h, q)
      BY <1>4, <2>3
    <3>2. snapOut[<<h, q, t>>] = Upto(T, SeqOf(h), t + 1)
      BY <2>2, <2>3, <3>1
    <3> QED
      BY <1>1, <3>2 DEF Upto, SeqOf
  <2> QED
    BY <1>1, <2>1, <2>2, <2>3 DEF PoolInv
<1>8. TileInv(T)'
  BY <1>1, <1>3, TilesNone
<1> QED
  BY <1>1, <1>5, <1>6, <1>7, <1>8, TextsKept DEF DataInv

\* The texts with what a round has accepted of its candidates.
NextTexts(T) == [s \in Seqs |-> Upto(T, s, accepted[s])]

\* Nothing is scored yet of the texts of the next round.
LEMMA TextsGrow ==
    ASSUME ShapeOK, shape' = shape, NEW T, TextsOK(T), NEW U, U = NextTexts(T)
    PROVE  /\ TextsOK(U)'
           /\ \A s \in Seqs : /\ U[s] = Upto(T, s, accepted[s])
                              /\ U[s] \o Cands(round + 1, 0) = U[s]
<1>1. ASSUME NEW s \in Seqs
      PROVE  /\ U[s] = Upto(T, s, accepted[s]) /\ U[s] \in Texts
             /\ U[s] \o Cands(round + 1, 0) = U[s]
  <2>1. U[s] = Upto(T, s, accepted[s])
    BY DEF NextTexts
  <2>2. accepted[s] \in Nat
    BY ShapeFacts DEF ShapeOK
  <2>3. Upto(T, s, accepted[s]) \in Texts /\ round \in Nat
    BY <2>2, UptoFacts
  <2>4. round + 1 \in Nat /\ 0 \in Nat
    BY <2>3
  <2> QED
    BY <2>1, <2>3, <2>4, GrowText
<1>2. U \in [Seqs -> Texts]
  BY <1>1 DEF NextTexts
<1> QED
  BY <1>1, <1>2 DEF TextsOK, Seqs

\* The commit has ended: the checkpoint is the text with what was accepted, and
\* the next round's call starts from the same.
LEMMA CommitEndsKeeps ==
    ASSUME ShapeOK, LanesInv, ShapeOK', LanesInv', NEW T, DataInv(T), CommitEnds,
           NEW U, U = NextTexts(T)
    PROVE  DataInv(U)'
<1>1. /\ stage = "commit" /\ stage' = "conv" /\ AllIdle /\ shape' = shape /\ round' = round + 1
      /\ lane' = Works("verify") /\ accepted' = accepted
      /\ UNCHANGED replayVars /\ UNCHANGED snapshotVars
  BY DEF CommitEnds
<1>2. checkpoint' = checkpoint /\ pool' = pool /\ slots' = slots /\ count' = count
  BY <1>1 DEF replayVars, snapshotVars
<1>3. \A l \in Lanes : lane'[l].tok = 0 /\ lane'[l].at = 1
  BY <1>1, Launched
<1>4. TextsOK(U)' /\ \A s \in Seqs : /\ U[s] = Upto(T, s, accepted[s])
                                     /\ U[s] \o Cands(round + 1, 0) = U[s]
  BY <1>1, TextsGrow DEF DataInv
<1>5. Heads' = Heads /\ Rows' = Rows /\ (WithSnapshots' <=> WithSnapshots)
  BY <1>1, SameCall DEF Rows
<1>6. \A h \in Heads, q \in Rows : SeqOf(h) \in Seqs
        /\ Row(h, q, U[SeqOf(h)] \o Cands(round + 1, 0)) = RowOf(T, h, q, accepted[SeqOf(h)])
  BY <1>4, ShapeFacts DEF ShapeOK, RowOf
<1>7. NotedInv(U)'
  <2>1. \A h, q : VerifyDone(h, q)' = 0
    BY <1>1 DEF VerifyDone
  <2>2. \A t \in Nat : ~ (t < 0)
    OBVIOUS
  <2> QED
    BY <2>1, <2>2, Zenon DEF NotedInv
<1>8. CheckpointInv(U)'
  <2> SUFFICES ASSUME NEW h \in Heads', NEW q \in Rows'
               PROVE  (checkpoint[<<h, q>>] = RowOf(U, h, q, Committed(h, q)))'
    BY Zenon DEF CheckpointInv
  <2>1. h \in Heads /\ q \in Rows
    BY <1>5
  <2>2. Done(h, q) = accepted[SeqOf(h)]
    BY <1>1, <2>1, DoneEnd
  <2>3. Committed(h, q) = accepted[SeqOf(h)]
    BY <1>1, <2>2 DEF Committed
  <2>4. checkpoint[<<h, q>>] = RowOf(T, h, q, accepted[SeqOf(h)])
    BY <2>1, <2>3 DEF DataInv, CheckpointInv
  <2>5. Committed(h, q)' = 0
    BY <1>1 DEF Committed
  <2>6. checkpoint'[<<h, q>>] = Row(h, q, U[SeqOf(h)] \o Cands(round + 1, 0))
    BY <1>2, <1>6, <2>1, <2>4
  <2> QED
    BY <1>1, <2>5, <2>6 DEF RowOf, Upto, SeqOf
<1>9. PoolInv(U)'
  <2>1. ASSUME WithSnapshots, NEW h \in Heads, NEW q \in Rows
        PROVE  StartsFrom(U, h, q, 0)'
    <3>1. pool[<<InitialSlot(SeqOf(h)), h, q>>] = RowOf(T, h, q, accepted[SeqOf(h)])
      BY <1>1, <2>1 DEF DataInv, PoolInv, StartsFrom
    <3>2. pool[<<InitialSlot(SeqOf(h)), h, q>>] = Row(h, q, U[SeqOf(h)] \o Cands(round + 1, 0))
      BY <1>6, <2>1, <3>1
    <3> QED
      BY <1>1, <1>2, <3>2 DEF StartsFrom, InitialSlot, RowOf, Upto, SeqOf
  <2>2. \A h, q : SnapDone(h, q)' = 0
    BY <1>1 DEF SnapDone
  <2>3. \A t \in Nat : ~ (t < 0)
    OBVIOUS
  <2>4. stage' # "commit"
    BY <1>1
  <2> QED
    BY <1>5, <2>1, <2>2, <2>3, <2>4, Zenon DEF PoolInv
<1>10. PoolOwn'
  BY <1>1, OwnKept DEF DataInv
<1>11. TileInv(U)'
  BY <1>1, <1>3, TilesNone
<1> QED
  BY <1>4, <1>7, <1>8, <1>9, <1>10, <1>11 DEF DataInv

\* A step of the round leaves the data what it was, on the texts of the round.
LEMMA DataStep ==
    ASSUME ShapeOK, LanesInv, StoreOK, ShapeOK', LanesInv', NEW T, DataInv(T), [Next]_vars,
           ~ CommitEnds
    PROVE  DataInv(T)'
<1>1. ASSUME NEW s \in DOMAIN convOut, Conv(s) PROVE DataInv(T)'
  BY <1>1, DataStays DEF Conv, Convolve
<1>2. ASSUME NEW l \in Lanes, Verify(l) PROVE DataInv(T)'
  BY <1>2, VerifyKeeps
<1>3. ASSUME NEW l \in Lanes, Snapshot(l) PROVE DataInv(T)'
  BY <1>3, SnapshotKeeps
<1>4. ASSUME NEW l \in Lanes, Commit(l) PROVE DataInv(T)'
  BY <1>4, CommitKeeps
<1>5. ASSUME ConvEnds PROVE DataInv(T)'
  BY <1>5, ConvEndsKeeps
<1>6. ASSUME VerifyEnds PROVE DataInv(T)'
  BY <1>6, VerifyEndsKeeps
<1>7. ASSUME SnapshotEnds PROVE DataInv(T)'
  BY <1>7, SnapshotEndsKeeps
<1>8. ASSUME Accept PROVE DataInv(T)'
  BY <1>8, AcceptKeeps
<1>9. ASSUME UNCHANGED vars PROVE DataInv(T)'
  BY <1>9, DataStays DEF vars, replayVars, snapshotVars
<1> QED
  BY <1>1, <1>2, <1>3, <1>4, <1>5, <1>6, <1>7, <1>8, <1>9, Zenon DEF Next

\* And the end of the round adds to the texts what was accepted.
LEMMA DataNext ==
    ASSUME ShapeOK, LanesInv, StoreOK, ShapeOK', LanesInv', NEW T, DataInv(T), [Next]_vars
    PROVE  \E U : DataInv(U)'
<1>1. CASE CommitEnds
  <2>1. \E U : U = NextTexts(T)
    OBVIOUS
  <2> QED
    BY <1>1, <2>1, CommitEndsKeeps
<1> QED
  BY <1>1, DataStep

\* At first every text is empty, and the rows and the first slots hold just that.
LEMMA DataInit ==
    ASSUME Init, ShapeOK, LanesInv, NEW T, T = [s \in Seqs |-> <<>>]
    PROVE  DataInv(T)
<1>1. /\ stage = "conv" /\ round = 1 /\ lane = Works("verify") /\ ReplayInit /\ SnapshotInit
  BY DEF Init
<1>2. <<>> \in Texts /\ \A s \in Seqs : T[s] = <<>>
  BY DEF Texts
<1>3. TextsOK(T)
  BY <1>2 DEF TextsOK
<1>4. \A s \in Seqs : Upto(T, s, 0) = <<>>
  BY <1>2, <1>3, UptoFacts
<1>5. \A h \in Heads, q \in Rows : RowOf(T, h, q, 0) = Row(h, q, <<>>)
  BY <1>4, ShapeFacts DEF ShapeOK, RowOf
<1>6. \A t \in Nat : ~ (t < 0)
  OBVIOUS
<1>7. \A h, q : VerifyDone(h, q) = 0 /\ SnapDone(h, q) = 0 /\ Committed(h, q) = 0
  BY <1>1 DEF VerifyDone, SnapDone, Committed
<1>8. NotedInv(T)
  BY <1>6, <1>7, Zenon DEF NotedInv
<1>9. CheckpointInv(T)
  BY <1>1, <1>5, <1>7 DEF CheckpointInv, ReplayInit
<1>10. PoolOwn
  <2> SUFFICES ASSUME NEW h \in Heads, NEW q \in Rows, NEW x \in SlotsOf(SeqOf(h))
               PROVE  pool[<<x, h, q>>].head = h /\ pool[<<x, h, q>>].row = q
    BY DEF PoolOwn
  <2>1. <<x, h, q>> \in Cells
    BY CellFacts
  <2> QED
    BY <1>1, <2>1 DEF SnapshotInit, Row
<1>11. PoolInv(T)
  <2>1. ASSUME NEW h \in Heads, NEW q \in Rows PROVE StartsFrom(T, h, q, 0)
    <3> DEFINE s == SeqOf(h)
    <3>1. s \in Seqs /\ shape.length[s] \in Nat \ {0}
      BY ShapeFacts DEF ShapeOK
    <3>2. InitialSlot(s) = <<s, 0>>
      <4> HIDE DEF s
      <4>1. 1 \in 1 .. shape.length[s]
        BY <3>1
      <4> QED
        BY <1>1, <3>1, <4>1 DEF InitialSlot, SnapshotInit
    <3>3. <<s, 0>> \in SlotsOf(s)
      <4> HIDE DEF s
      <4>1. 0 \in 0 .. shape.length[s] - 1
        BY <3>1
      <4> QED
        BY <4>1 DEF SlotsOf
    <3>4. <<<<s, 0>>, h, q>> \in Cells
      BY <3>3, CellFacts
    <3>5. pool[<<<<s, 0>>, h, q>>] = Row(h, q, <<>>)
      <4> HIDE DEF s
      <4> QED
        BY <1>1, <3>4 DEF SnapshotInit
    <3> QED
      BY <1>5, <3>2, <3>5 DEF StartsFrom
  <2>2. stage # "commit"
    BY <1>1
  <2> QED
    BY <1>6, <1>7, <2>1, <2>2, Zenon DEF PoolInv
<1>12. TileInv(T)
  <2>1. \A l \in Lanes : lane[l].tok = 0
    BY <1>1 DEF Works, Start
  <2> QED
    BY <1>1, <2>1 DEF TileInv
<1> QED
  BY <1>3, <1>8, <1>9, <1>10, <1>11, <1>12 DEF DataInv

\* The invariant: the lanes on their lists, the shapes of the stores, and what every store
\* holds, for some texts: those that have been accepted.
IInv == ShapeOK /\ LanesInv /\ StoreOK /\ \E T : DataInv(T)

\* Every record, output, row, slot and tile is at all times that of the accepted
\* texts and of the candidates of the round on top of them.
THEOREM DataAlways == Spec => []IInv
<1>1. Init => IInv
  <2> SUFFICES ASSUME Init PROVE IInv
    OBVIOUS
  <2>1. ShapeOK /\ LanesInv
    BY LanesInit
  <2>2. StoreOK
    BY <2>1, StoreInit
  <2>3. \E T : T = [s \in Seqs |-> <<>>]
    OBVIOUS
  <2>4. \E T : DataInv(T)
    BY <2>1, <2>3, DataInit
  <2> QED
    BY <2>1, <2>2, <2>4 DEF IInv
<1>2. IInv /\ [Next]_vars => IInv'
  <2> SUFFICES ASSUME IInv, [Next]_vars PROVE IInv'
    OBVIOUS
  <2>1. ShapeOK' /\ LanesInv' /\ StoreOK'
    BY ShapeNext, LanesNext, StoreNext DEF IInv
  <2>2. PICK T : DataInv(T)
    BY DEF IInv
  <2>3. \E U : DataInv(U)'
    BY <2>1, <2>2, DataNext DEF IInv
  <2> QED
    BY <2>1, <2>3 DEF IInv
<1> QED
  BY <1>1, <1>2, PTL DEF Spec

-----------------------------------------------------------------------------
(* What follows from the invariant.                                        *)

\* The variables have their types.
LEMMA TypesHold == ASSUME IInv PROVE TypeOK
<1>1. PICK T : DataInv(T)
  BY DEF IInv
<1>2. /\ stage \in {"conv", "verify", "snapshot", "accept", "commit"}
      /\ round \in 1 .. shape.rounds + 1 /\ accepted \in [Seqs -> 0 .. LongestSequence]
  BY DEF IInv, ShapeOK
<1>3. ASSUME NEW p \in Heads \X Rows
      PROVE  checkpoint[p].head = p[1] /\ checkpoint[p].row = p[2]
  <2>1. p = <<p[1], p[2]>> /\ p[1] \in Heads /\ p[2] \in Rows
    OBVIOUS
  <2>2. checkpoint[p] = RowOf(T, p[1], p[2], Committed(p[1], p[2]))
    BY <1>1, <2>1 DEF DataInv, CheckpointInv
  <2> QED
    BY <2>2 DEF RowOf, Row
<1>4. ASSUME NEW c \in Cells PROVE pool[c].head = c[2] /\ pool[c].row = c[3]
  BY <1>1, CellFacts DEF DataInv, PoolOwn
<1>5. ASSUME NEW s \in Seqs
      PROVE  count[s] \in 0 .. shape.length[s] /\ Len(slots[s]) = shape.length[s]
  <2>1. shape.length[s] \in Nat
    BY ShapeFacts DEF IInv, ShapeOK
  <2>2. count[s] \in 0 .. shape.length[s] /\ slots[s] \in [1 .. shape.length[s] -> SlotsOf(s)]
    BY DEF IInv, StoreOK, SlotsOK
  <2> QED
    BY <2>1, <2>2
<1> QED
  BY <1>2, <1>3, <1>4, <1>5 DEF TypeOK

\* TypeOK: who owns a row, a record, a key or a slot never changes.
THEOREM TypesAlwaysOK == Spec => []TypeOK
BY DataAlways, TypesHold, PTL

\* The row in the slot from which the snapshot kernel will start is the row of
\* the checkpoint.
LEMMA WaysAgree == ASSUME IInv PROVE SnapshotAgrees
<1>1. PICK T : DataInv(T)
  BY DEF IInv
<1> SUFFICES ASSUME stage \in {"conv", "verify"}, WithSnapshots, NEW s \in Seqs,
                    NEW p \in HeadsOf(s) \X Rows
             PROVE  pool[<<InitialSlot(s), p[1], p[2]>>] = checkpoint[p]
  BY DEF SnapshotAgrees
<1>2. p = <<p[1], p[2]>> /\ p[1] \in Heads /\ p[2] \in Rows /\ SeqOf(p[1]) = s
  BY DEF HeadsOf
<1>3. SnapDone(p[1], p[2]) = 0 /\ Committed(p[1], p[2]) = 0
  BY DEF SnapDone, Committed
<1>4. StartsFrom(T, p[1], p[2], 0)
  BY <1>1, <1>2, <1>3 DEF DataInv, PoolInv
<1>5. checkpoint[<<p[1], p[2]>>] = RowOf(T, p[1], p[2], 0)
  BY <1>1, <1>2, <1>3 DEF DataInv, CheckpointInv
<1> QED
  BY <1>2, <1>4, <1>5 DEF StartsFrom

\* SnapshotAgrees: between rounds the two ways of keeping the state hold the same
\* row of the same sequence, whichever slots the caller has dealt to its tokens.
THEOREM SnapshotAlwaysAgrees == Spec => []SnapshotAgrees
BY DataAlways, WaysAgree, PTL

\* What rows agree on.
LEMMA CommonIs ==
    ASSUME NEW S, NEW x \in S, \A y \in S : y = x
    PROVE  Common(S) = x
<1>1. S = {x}
  OBVIOUS
<1> QED
  BY <1>1 DEF Common

\* A text without its last token.
LEMMA FrontText ==
    ASSUME NEW a \in Texts, NEW r \in Nat
    PROVE  SubSeq(a \o Cands(r, 1), 1, Len(a \o Cands(r, 1)) - 1) = a
<1> DEFINE c == a \o Cands(r, 1)
<1>1. c \in Texts /\ Len(c) = Len(a) + 1 /\ Len(a) \in Nat
  <2>1. Len(a) \in Nat
    BY DEF Texts
  <2>2. 1 \in Nat
    OBVIOUS
  <2> QED
    BY <2>1, <2>2, GrowText
<1>2. \A i \in 1 .. Len(a) : c[i] = a[i]
  <2>1. Cands(r, 1) \in Texts
    BY CandsFacts
  <2> QED
    BY <2>1 DEF Texts
<1> HIDE DEF c
<1>3. Len(c) - 1 = Len(a)
  BY <1>1
<1> DEFINE d == SubSeq(c, 1, Len(a))
<1>4. d \in Texts /\ Len(d) = Len(a) /\ \A i \in 1 .. Len(a) : d[i] = c[i]
  BY <1>1 DEF Texts
<1> HIDE DEF d
<1>5. d = a
  BY <1>2, <1>4, SameText
<1> QED
  BY <1>3, <1>5 DEF c, d

\* The decoding that the kernels' memory stands for.
ScoredIs(T, s) ==
  Scored(s) = IF stage \in {"conv", "verify", "snapshot"} THEN <<>>
              ELSE [t \in 1 .. shape.length[s] |-> Upto(T, s, t)]
\* What the kernels hold of every sequence.
MapResult(T) == \A s \in Seqs : ScoredIs(T, s) /\ Text(s) = T[s]

\* The outputs of all rows and heads of a sequence are the candidates on top of
\* the text; its checkpoints, or the first output, say what the text is.
LEMMA MapIs ==
    ASSUME ShapeOK, LanesInv, StoreOK, NEW T, DataInv(T)
    PROVE  MapResult(T)
<1> SUFFICES ASSUME NEW s \in Seqs PROVE ScoredIs(T, s) /\ Text(s) = T[s]
  BY DEF MapResult
<1>1. /\ shape.length[s] \in Nat \ {0} /\ round \in Nat /\ T[s] \in Texts
      /\ Upto(T, s, 0) = T[s]
      /\ \E h \in Heads : SeqOf(h) = s
  BY ShapeFacts, UptoFacts DEF ShapeOK, DataInv
<1>2. PICK h0 \in Heads : SeqOf(h0) = s
  BY <1>1
<1>3. PICK p0 \in HeadsOf(s) \X Rows : TRUE
  <2>1. h0 \in HeadsOf(s) /\ 0 \in Rows
    BY <1>2, ScheduleAssumption DEF HeadsOf, Rows
  <2>2. <<h0, 0>> \in HeadsOf(s) \X Rows
    BY <2>1
  <2> QED
    BY <2>2
<1>4. \A p \in HeadsOf(s) \X Rows : p[1] \in Heads /\ p[2] \in Rows /\ SeqOf(p[1]) = s
                                   /\ p = <<p[1], p[2]>>
  BY DEF HeadsOf
<1>5. ASSUME stage \in {"accept", "commit"}, NEW t \in 1 .. shape.length[s]
      PROVE  Common({out[<<p[1], p[2], t - 1>>] : p \in HeadsOf(s) \X Rows}
                    \cup IF WithSnapshots
                         THEN {snapOut[<<p[1], p[2], t - 1>>] : p \in HeadsOf(s) \X Rows}
                         ELSE {}) = Upto(T, s, t)
  <2>1. t - 1 \in Nat /\ t - 1 < shape.length[s] /\ t - 1 + 1 = t
    BY <1>1, <1>5
  <2>2. ASSUME NEW p \in HeadsOf(s) \X Rows
        PROVE  /\ out[<<p[1], p[2], t - 1>>] = Upto(T, s, t)
               /\ WithSnapshots => snapOut[<<p[1], p[2], t - 1>>] = Upto(T, s, t)
    <3>1. p[1] \in Heads /\ p[2] \in Rows /\ SeqOf(p[1]) = s
      BY <1>4
    <3>2. VerifyDone(p[1], p[2]) = shape.length[s] /\ SnapDone(p[1], p[2]) = shape.length[s]
      BY <1>5, <3>1 DEF VerifyDone, SnapDone
    <3>3. NotedAt(T, p[1], p[2], t - 1)
      BY <2>1, <3>1, <3>2 DEF DataInv, NotedInv
    <3>4. WithSnapshots => snapOut[<<p[1], p[2], t - 1>>] = Upto(T, SeqOf(p[1]), t - 1 + 1)
      BY <2>1, <3>1, <3>2 DEF DataInv, PoolInv
    <3> QED
      BY <2>1, <3>1, <3>3, <3>4 DEF NotedAt
  <2> DEFINE A == {out[<<p[1], p[2], t - 1>>] : p \in HeadsOf(s) \X Rows}
             B == {snapOut[<<p[1], p[2], t - 1>>] : p \in HeadsOf(s) \X Rows}
             S == A \cup IF WithSnapshots THEN B ELSE {}
  <2>3. /\ \A y \in A : y = Upto(T, s, t)
        /\ WithSnapshots => \A y \in B : y = Upto(T, s, t)
    BY <2>2
  <2>4. Upto(T, s, t) \in A
    <3>1. out[<<p0[1], p0[2], t - 1>>] \in A
      BY <1>3
    <3> QED
      BY <2>3, <3>1
  <2> HIDE DEF A, B
  <2>5. Upto(T, s, t) \in S /\ \A y \in S : y = Upto(T, s, t)
    BY <2>3, <2>4
  <2> HIDE DEF S
  <2>6. Common(S) = Upto(T, s, t)
    BY <2>5, CommonIs
  <2> QED
    BY <2>6 DEF S, A, B
<1>6. ScoredIs(T, s)
  <2>1. CASE stage \in {"conv", "verify", "snapshot"}
    BY <2>1 DEF ScoredIs, Scored
  <2>2. CASE stage \in {"accept", "commit"}
    <3>1. Scored(s) = [t \in 1 .. shape.length[s] |-> Upto(T, s, t)]
      BY <1>5, <2>2 DEF Scored
    <3> QED
      BY <2>2, <3>1 DEF ScoredIs
  <2> QED
    BY <2>1, <2>2 DEF ShapeOK
<1>7. Text(s) = T[s]
  <2>1. CASE stage = "commit"
    <3>1. 1 \in 1 .. shape.length[s]
      BY <1>1
    <3>2. Scored(s)[1] = T[s] \o Cands(round, 1)
      BY <1>6, <2>1, <3>1 DEF ScoredIs, Upto
    <3> QED
      BY <1>1, <2>1, <3>2, FrontText DEF Text
  <2>2. CASE stage # "commit"
    <3> DEFINE S == {checkpoint[p].hist : p \in HeadsOf(s) \X Rows}
    <3>1. ASSUME NEW p \in HeadsOf(s) \X Rows PROVE checkpoint[p].hist = T[s]
      <4>1. Committed(p[1], p[2]) = 0
        BY <2>2 DEF Committed
      <4>2. checkpoint[<<p[1], p[2]>>] = RowOf(T, p[1], p[2], 0)
        BY <1>4, <4>1 DEF DataInv, CheckpointInv
      <4> QED
        BY <1>1, <1>4, <4>2 DEF RowOf, Row
    <3>2. T[s] \in S /\ \A y \in S : y = T[s]
      BY <1>3, <3>1
    <3> HIDE DEF S
    <3>3. Common(S) = T[s]
      BY <3>2, CommonIs
    <3> QED
      BY <2>2, <3>3 DEF Text, S
  <2> QED
    BY <2>1, <2>2
<1> QED
  BY <1>6, <1>7

\* The same of the next state, for the texts of any state.
MapAll == \A T : ShapeOK /\ LanesInv /\ StoreOK /\ DataInv(T) => MapResult(T)

\* The same as one formula.
LEMMA MapNow == MapAll
BY MapIs DEF MapAll

\* The same of the next state.
LEMMA MapNext == MapAll'
BY MapNow, PTL

-----------------------------------------------------------------------------
(* The kernels implement speculative decoding.                             *)

\* A step on which the texts and what is scored stay the same changes nothing of
\* the decoding.
LEMMA DecodingStays ==
    ASSUME shape' = shape, round' = round, NEW T, MapResult(T), MapResult(T)',
           stage \in {"conv", "verify", "snapshot"} <=> stage' \in {"conv", "verify", "snapshot"}
    PROVE  UNCHANGED Decoding!vars
<1>1. Seqs' = Seqs
  BY SameCall
<1>2. \A s \in Seqs : Text(s)' = Text(s)
  BY <1>1, Zenon DEF MapResult
<1>3. \A s \in Seqs : Scored(s)' = Scored(s)
  <2> SUFFICES ASSUME NEW s \in Seqs PROVE Scored(s)' = Scored(s)
    OBVIOUS
  <2>1. ScoredIs(T, s) /\ ScoredIs(T, s)'
    BY <1>1, Zenon DEF MapResult
  <2> QED
    BY <2>1 DEF ScoredIs, Upto
<1> QED
  BY <1>1, <1>2, <1>3 DEF Decoding!vars

\* The end of a kernel that completes the scoring is the abstract Score.
LEMMA ScoringEnds ==
    ASSUME shape' = shape, round' = round, NEW T, MapResult(T), MapResult(T)',
           stage \in {"verify", "snapshot"}, stage' = "accept"
    PROVE  Decoding!Score
<1>1. Seqs' = Seqs /\ Seqs = Decoding!Seqs
  BY SameCall DEF Seqs, Decoding!Seqs
<1>2. \A s \in Seqs : /\ Text(s) = T[s] /\ Text(s)' = T[s] /\ Scored(s) = <<>>
                      /\ Scored(s)' = [t \in 1 .. shape.length[s] |-> T[s] \o Cands(round, t)]
  <2> SUFFICES ASSUME NEW s \in Seqs
               PROVE  /\ Text(s) = T[s] /\ Text(s)' = T[s] /\ Scored(s) = <<>>
                      /\ Scored(s)' = [t \in 1 .. shape.length[s] |-> T[s] \o Cands(round, t)]
    OBVIOUS
  <2>1. ScoredIs(T, s) /\ Text(s) = T[s] /\ ScoredIs(T, s)' /\ Text(s)' = T[s]
    BY <1>1, Zenon DEF MapResult
  <2>2. Scored(s)' = [t \in 1 .. shape.length[s] |-> T[s] \o Cands(round, t)]
    BY <2>1 DEF ScoredIs, Upto
  <2>3. Scored(s) = <<>>
    BY <2>1 DEF ScoredIs
  <2> QED
    BY <2>1, <2>2, <2>3
<1>3. [s \in Seqs |-> Scored(s)] = Decoding!Unscored
  BY <1>1, <1>2 DEF Decoding!Unscored
<1>4. [s \in Seqs |-> Scored(s)]'
        = [s \in Decoding!Seqs |-> [t \in 1 .. shape.length[s] |->
             [x \in Seqs |-> Text(x)][s] \o Decoding!Candidates(round, t)]]
  <2>1. \A t : Decoding!Candidates(round, t) = Cands(round, t)
    BY DEF Decoding!Candidates, Cands
  <2> HIDE DEF Seqs
  <2>2. [s \in Seqs |-> Scored(s)]'
          = [s \in Seqs |-> [t \in 1 .. shape.length[s] |-> T[s] \o Cands(round, t)]]
    BY <1>1, <1>2, Zenon
  <2>3. ASSUME NEW s \in Seqs
        PROVE  [t \in 1 .. shape.length[s] |-> T[s] \o Cands(round, t)]
                 = [t \in 1 .. shape.length[s] |->
                      [x \in Seqs |-> Text(x)][s] \o Decoding!Candidates(round, t)]
    <3>1. [x \in Seqs |-> Text(x)][s] = T[s]
      BY <1>2, <2>3, Zenon
    <3> QED
      BY <2>1, <3>1, Zenon
  <2> QED
    BY <1>1, <2>2, <2>3, Zenon
<1>5. [s \in Seqs |-> Text(s)]' = [s \in Seqs |-> Text(s)]
  BY <1>1, <1>2
<1> QED
  BY <1>3, <1>4, <1>5 DEF Decoding!Score

\* The end of the commit is the abstract Accept.
LEMMA CommitAccepts ==
    ASSUME ShapeOK, NEW T, TextsOK(T), MapResult(T), NEW U, U = NextTexts(T), MapResult(U)', CommitEnds
    PROVE  Decoding!Accept
<1>1. /\ stage = "commit" /\ stage' = "conv" /\ shape' = shape /\ round' = round + 1
      /\ accepted' = accepted
  BY DEF CommitEnds
<1>2. Seqs' = Seqs /\ Seqs = Decoding!Seqs
  BY <1>1, SameCall DEF Seqs, Decoding!Seqs
<1>3. \A s \in Seqs : /\ Text(s) = T[s] /\ Text(s)' = T[s] \o Cands(round, accepted[s])
                      /\ Scored(s)' = <<>> /\ Scored(s) # <<>>
  <2> SUFFICES ASSUME NEW s \in Seqs
               PROVE  /\ Text(s) = T[s] /\ Text(s)' = T[s] \o Cands(round, accepted[s])
                      /\ Scored(s)' = <<>> /\ Scored(s) # <<>>
    OBVIOUS
  <2>1. ScoredIs(T, s) /\ Text(s) = T[s] /\ ScoredIs(U, s)' /\ Text(s)' = U[s]
    BY <1>2, Zenon DEF MapResult
  <2>2. Scored(s)' = <<>>
    BY <1>1, <2>1 DEF ScoredIs
  <2>3. Scored(s) # <<>>
    <3>1. 1 \in 1 .. shape.length[s]
      BY ShapeFacts DEF ShapeOK
    <3>2. Scored(s) = [t \in 1 .. shape.length[s] |-> Upto(T, s, t)]
      BY <1>1, <2>1 DEF ScoredIs
    <3> QED
      BY <3>1, <3>2
  <2>4. U[s] = T[s] \o Cands(round, accepted[s])
    BY DEF NextTexts, Upto
  <2> QED
    BY <2>1, <2>2, <2>3, <2>4
<1>4. \A s \in Seqs : accepted[s] \in 0 .. shape.length[s]
  BY ShapeFacts DEF ShapeOK
<1>5. 1 \in Seqs
  BY ShapeFacts DEF ShapeOK
<1>6. [s \in Seqs |-> Scored(s)] # Decoding!Unscored
  <2>1. [s \in Seqs |-> Scored(s)][1] # <<>>
    BY <1>3, <1>5
  <2>2. Decoding!Unscored[1] = <<>>
    BY <1>2, <1>5 DEF Decoding!Unscored
  <2> QED
    BY <2>1, <2>2
<1>7. [s \in Seqs |-> Scored(s)]' = Decoding!Unscored
  BY <1>2, <1>3 DEF Decoding!Unscored
<1>8. /\ DOMAIN [s \in Seqs |-> Text(s)]' = Decoding!Seqs
      /\ \A s \in Decoding!Seqs : \E n \in 0 .. shape.length[s] :
           [x \in Seqs |-> Text(x)]'[s] = [x \in Seqs |-> Text(x)][s] \o Decoding!Candidates(round, n)
  <2>1. \A t : Decoding!Candidates(round, t) = Cands(round, t)
    BY DEF Decoding!Candidates, Cands
  <2> QED
    BY <1>2, <1>3, <1>4, <2>1
<1> QED
  BY <1>1, <1>6, <1>7, <1>8 DEF Decoding!Accept

\* Every step is a step of speculative decoding, or none.
LEMMA DecodingStep ==
    ASSUME IInv, IInv', [Next]_vars
    PROVE  [Decoding!Next]_(Decoding!vars)
<1>1. PICK T : DataInv(T)
  BY DEF IInv
<1>2. ShapeOK /\ LanesInv /\ StoreOK /\ ShapeOK' /\ LanesInv' /\ StoreOK' /\ shape' = shape
  BY ShapeStays DEF IInv
<1>3. MapResult(T)
  BY <1>1, <1>2, MapIs
<1>4. \A U : DataInv(U)' => MapResult(U)'
  BY <1>2, MapNext DEF MapAll
<1>5. CASE CommitEnds
  <2>1. PICK U : U = NextTexts(T)
    OBVIOUS
  <2>2. DataInv(U)'
    BY <1>1, <1>2, <1>5, <2>1, CommitEndsKeeps
  <2>3. MapResult(U)'
    BY <1>4, <2>2
  <2>4. Decoding!Accept
    BY <1>1, <1>2, <1>3, <1>5, <2>1, <2>3, CommitAccepts DEF DataInv
  <2> QED
    BY <2>4 DEF Decoding!Next
<1>6. CASE ~ CommitEnds
  <2>1. MapResult(T)'
    BY <1>1, <1>2, <1>4, <1>6, DataStep
  <2>2. CASE /\ round' = round
             /\ stage \in {"conv", "verify", "snapshot"} <=> stage' \in {"conv", "verify", "snapshot"}
    BY <1>2, <1>3, <2>1, <2>2, DecodingStays
  <2>3. CASE round' = round /\ stage \in {"verify", "snapshot"} /\ stage' = "accept"
    BY <1>2, <1>3, <2>1, <2>3, ScoringEnds DEF Decoding!Next
  <2>4. \/ /\ round' = round
           /\ stage \in {"conv", "verify", "snapshot"} <=> stage' \in {"conv", "verify", "snapshot"}
        \/ round' = round /\ stage \in {"verify", "snapshot"} /\ stage' = "accept"
    <3>1. ASSUME NEW s \in DOMAIN convOut, Conv(s) PROVE round' = round /\ stage' = stage
      BY <3>1 DEF Conv, Convolve
    <3>2. ASSUME NEW l \in Lanes, Verify(l) \/ Snapshot(l) \/ Commit(l)
          PROVE  round' = round /\ stage' = stage
      BY <3>2 DEF Verify, VerifyToken, Snapshot, SnapshotToken, Commit, CommitSkip, CommitToken
    <3>3. CASE ConvEnds
      BY <3>3 DEF ConvEnds
    <3>4. CASE VerifyEnds
      BY <3>4 DEF VerifyEnds
    <3>5. CASE SnapshotEnds
      BY <3>5 DEF SnapshotEnds
    <3>6. CASE Accept
      BY <3>6 DEF Accept
    <3>7. CASE UNCHANGED vars
      BY <3>7 DEF vars
    <3> QED
      BY <1>6, <3>1, <3>2, <3>3, <3>4, <3>5, <3>6, <3>7 DEF Next
  <2> QED
    BY <2>2, <2>3, <2>4
<1> QED
  BY <1>5, <1>6

\* The texts are empty at first, and nothing is scored.
LEMMA DecodingInit == ASSUME Init, IInv PROVE Decoding!Init
<1>1. \E T : T = [s \in Seqs |-> <<>>]
  OBVIOUS
<1>2. PICK T : T = [s \in Seqs |-> <<>>]
  BY <1>1
<1>3. DataInv(T)
  BY <1>2, DataInit DEF IInv
<1>4. MapResult(T)
  BY <1>3, MapIs DEF IInv
<1>5. stage = "conv" /\ round = 1
  BY DEF Init
<1>6. \A s \in Seqs : Text(s) = <<>> /\ Scored(s) = <<>>
  BY <1>2, <1>4, <1>5 DEF MapResult, ScoredIs
<1>7. Seqs = Decoding!Seqs
  BY DEF Seqs, Decoding!Seqs
<1> QED
  BY <1>5, <1>6, <1>7 DEF Decoding!Init, Decoding!Unscored

\* DecodeRefines: whatever the shape of the call, the schedules it chooses and the
\* interleaving of the lanes, replaying records and keeping snapshots both score
\* every candidate on top of exactly the accepted text.
THEOREM KernelsDecode == Spec => DecodeRefines
<1>1. Init /\ IInv => Decoding!Init
  BY DecodingInit
<1>2. IInv /\ IInv' /\ [Next]_vars => [Decoding!Next]_(Decoding!vars)
  BY DecodingStep
<1> QED
  BY <1>1, <1>2, DataAlways, PTL DEF Spec, DecodeRefines, Decoding!Spec

-----------------------------------------------------------------------------
(* The convolution.                                                        *)

\* The prompt, a text and candidates on top of it, token by token.
Before(a) == Prompt \o a
\* The same with candidates at its end.
Run(a, r, n) == Prompt \o a \o Cands(r, n)

\* The prompt is three tokens.
LEMMA PromptFacts == Prompt \in Texts /\ Len(Prompt) = 3 /\ \A i \in 1 .. 3 : Prompt[i] = <<0, i>>
<1>1. Prompt = [i \in 1 .. 3 |-> <<0, i>>]
  BY DEF Prompt, CONV_KERNEL
<1>2. \A i \in 1 .. 3 : <<0, i>> \in Nat \X Nat
  OBVIOUS
<1> QED
  BY <1>1, <1>2 DEF Texts

\* Two texts one after the other.
LEMMA TwoTexts ==
    ASSUME NEW a \in Texts, NEW b \in Texts
    PROVE  /\ a \o b \in Texts /\ Len(a \o b) = Len(a) + Len(b) /\ Len(a) \in Nat /\ Len(b) \in Nat
           /\ \A i \in 1 .. Len(a) + Len(b) :
                (a \o b)[i] = IF i <= Len(a) THEN a[i] ELSE b[i - Len(a)]
BY DEF Texts

\* The prompt and a text.
LEMMA BeforeFacts ==
    ASSUME NEW a \in Texts
    PROVE  /\ Len(a) \in Nat /\ Before(a) \in Texts /\ Len(Before(a)) = Len(a) + 3
           /\ \A j \in 1 .. Len(a) + 3 : Before(a)[j] = IF j <= 3 THEN Prompt[j] ELSE a[j - 3]
<1>1. Prompt \in Texts /\ Len(Prompt) = 3
  BY PromptFacts
<1>2. /\ Prompt \o a \in Texts /\ Len(Prompt \o a) = Len(Prompt) + Len(a) /\ Len(a) \in Nat
      /\ \A i \in 1 .. Len(Prompt) + Len(a) :
           (Prompt \o a)[i] = IF i <= Len(Prompt) THEN Prompt[i] ELSE a[i - Len(Prompt)]
  BY <1>1, TwoTexts
<1>3. Before(a) = Prompt \o a
  BY DEF Before
<1> DEFINE b == Prompt \o a
<1>4. /\ b \in Texts /\ Len(b) = 3 + Len(a) /\ Len(a) \in Nat
      /\ \A i \in 1 .. 3 + Len(a) : b[i] = IF i <= 3 THEN Prompt[i] ELSE a[i - 3]
  BY <1>1, <1>2
<1> HIDE DEF b
<1>5. 3 + Len(a) = Len(a) + 3
  BY <1>4
<1>6. Before(a) = b
  BY <1>3 DEF b
<1> QED
  BY <1>4, <1>5, <1>6

\* A run: the prompt and the text, then the candidates.
LEMMA RunFacts ==
    ASSUME NEW a \in Texts, NEW r \in Nat, NEW n \in Nat
    PROVE  /\ Len(a) \in Nat
           /\ Before(a) \in Texts /\ Len(Before(a)) = Len(a) + 3
           /\ Run(a, r, n) \in Texts /\ Len(Run(a, r, n)) = Len(a) + 3 + n
           /\ \A i \in 1 .. Len(a) + 3 + n :
                Run(a, r, n)[i] = IF i <= Len(a) + 3 THEN Before(a)[i]
                                  ELSE <<r, i - Len(a) - 4>>
<1> DEFINE b == Before(a)    c == Cands(r, n)
<1>1. /\ b \in Texts /\ Len(b) = Len(a) + 3 /\ Len(a) \in Nat
  BY BeforeFacts
<1>2. /\ c \in Texts /\ Len(c) = n /\ \A i \in 1 .. n : c[i] = <<r, i - 1>>
  BY CandsFacts
<1>3. Run(a, r, n) = b \o c
  BY DEF Run, Before
<1> HIDE DEF b, c
<1>4. /\ b \o c \in Texts /\ Len(b \o c) = Len(b) + Len(c)
      /\ \A i \in 1 .. Len(b) + Len(c) :
           (b \o c)[i] = IF i <= Len(b) THEN b[i] ELSE c[i - Len(b)]
  BY <1>1, <1>2, TwoTexts
<1>5. ASSUME NEW i \in 1 .. Len(a) + 3 + n
      PROVE  (b \o c)[i] = IF i <= Len(a) + 3 THEN b[i] ELSE <<r, i - Len(a) - 4>>
  <2>1. i \in 1 .. Len(b) + Len(c)
    BY <1>1, <1>2
  <2>2. CASE i <= Len(a) + 3
    BY <1>1, <1>4, <2>1, <2>2
  <2>3. CASE ~ (i <= Len(a) + 3)
    <3>1. i - Len(b) \in 1 .. n /\ i - Len(b) - 1 = i - Len(a) - 4
      BY <1>1, <2>3
    <3> QED
      BY <1>1, <1>2, <1>4, <2>1, <2>3, <3>1
  <2> QED
    BY <2>2, <2>3
<1> QED
  BY <1>1, <1>2, <1>3, <1>4, <1>5 DEF b

\* A text that goes on by candidates of a round is one run of it.
LEMMA RunJoins ==
    ASSUME NEW a \in Texts, NEW r \in Nat, NEW n \in Nat, NEW m \in Nat, n <= m,
           NEW i \in 1 .. Len(a) + n + 3
    PROVE  Before(a \o Cands(r, n))[i] = Run(a, r, m)[i]
<1> DEFINE c == Cands(r, n)    d == a \o c
<1>1. c \in Texts /\ Len(c) = n /\ \A j \in 1 .. n : c[j] = <<r, j - 1>>
  BY CandsFacts
<1> HIDE DEF c
<1>2. /\ Len(a) \in Nat /\ d \in Texts /\ Len(d) = Len(a) + n
      /\ \A j \in 1 .. Len(a) + n : d[j] = IF j <= Len(a) THEN a[j] ELSE c[j - Len(a)]
  BY <1>1, TwoTexts
<1>3. \A j \in 1 .. Len(a) + 3 : Before(a)[j] = IF j <= 3 THEN Prompt[j] ELSE a[j - 3]
  BY BeforeFacts
<1> HIDE DEF d
<1>4. \A j \in 1 .. Len(d) + 3 : Before(d)[j] = IF j <= 3 THEN Prompt[j] ELSE d[j - 3]
  BY <1>2, BeforeFacts
<1>5. i \in 1 .. Len(a) + 3 + m /\ i \in 1 .. Len(d) + 3
  BY <1>2
<1>6. Run(a, r, m)[i] = IF i <= Len(a) + 3 THEN Before(a)[i] ELSE <<r, i - Len(a) - 4>>
  BY <1>5, RunFacts
<1>7. CASE i <= Len(a) + 3
  <2>1. CASE i <= 3
    BY <1>2, <1>3, <1>4, <1>5, <1>6, <1>7, <2>1 DEF d, c
  <2>2. CASE ~ (i <= 3)
    <3>1. i - 3 \in 1 .. Len(a) + n /\ i - 3 <= Len(a) /\ i \in 1 .. Len(a) + 3
      BY <1>2, <1>7, <2>2
    <3>2. Before(d)[i] = a[i - 3]
      BY <1>2, <1>4, <1>5, <2>2, <3>1
    <3>3. Before(a)[i] = a[i - 3]
      BY <1>3, <2>2, <3>1
    <3> QED
      BY <1>6, <1>7, <3>2, <3>3 DEF d, c
  <2> QED
    BY <2>1, <2>2
<1>8. CASE ~ (i <= Len(a) + 3)
  <2>1. /\ i - 3 \in 1 .. Len(a) + n /\ ~ (i - 3 <= Len(a)) /\ ~ (i <= 3)
        /\ i - 3 - Len(a) \in 1 .. n /\ i - 3 - Len(a) - 1 = i - Len(a) - 4
    BY <1>2, <1>8
  <2>2. Before(d)[i] = c[i - 3 - Len(a)]
    BY <1>2, <1>4, <1>5, <2>1
  <2>3. Before(d)[i] = <<r, i - Len(a) - 4>>
    BY <1>1, <2>1, <2>2
  <2> QED
    BY <1>6, <1>8, <2>3 DEF d, c
<1> QED
  BY <1>7, <1>8

\* The end of a text, token by token.
LEMMA SuffixFacts ==
    ASSUME NEW a \in Texts, NEW n \in Nat, n <= Len(a)
    PROVE  /\ Suffix(a, n) \in Texts /\ Len(Suffix(a, n)) = n
           /\ \A i \in 1 .. n : Suffix(a, n)[i] = a[Len(a) - n + i]
<1> DEFINE m == Len(a) - n + 1    d == SubSeq(a, m, Len(a))
<1>1. Len(a) \in Nat /\ m \in Nat \ {0} /\ Len(a) - m + 1 = n
  BY DEF Texts
<1>2. d \in Texts /\ Len(d) = n /\ \A i \in 1 .. n : d[i] = a[m + i - 1]
  <2> HIDE DEF m
  <2> QED
    BY <1>1 DEF Texts
<1>3. \A i \in 1 .. n : m + i - 1 = Len(a) - n + i
  BY <1>1
<1>4. Suffix(a, n) = d
  BY DEF Suffix
<1> HIDE DEF d
<1> QED
  BY <1>2, <1>3, <1>4

\* Texts that end alike have the same end.
LEMMA SameSuffix ==
    ASSUME NEW a \in Texts, NEW b \in Texts, NEW n \in Nat, n <= Len(a), n <= Len(b),
           \A i \in 1 .. n : a[Len(a) - n + i] = b[Len(b) - n + i]
    PROVE  Suffix(a, n) = Suffix(b, n)
<1>1. /\ Suffix(a, n) \in Texts /\ Len(Suffix(a, n)) = n
      /\ \A i \in 1 .. n : Suffix(a, n)[i] = a[Len(a) - n + i]
  BY SuffixFacts
<1>2. /\ Suffix(b, n) \in Texts /\ Len(Suffix(b, n)) = n
      /\ \A i \in 1 .. n : Suffix(b, n)[i] = b[Len(b) - n + i]
  BY SuffixFacts
<1> QED
  BY <1>1, <1>2, SameText

\* The slots of the pool.
ConvSlots == {Nowhere} \cup {shape.cache[s] : s \in DOMAIN shape.cache}

\* The pool of the convolution keeps its slots, nothing is written to the slot of
\* padding, and when the recurrence starts every sequence has its inputs.
ConvShape ==
  /\ cache = [c \in ConvSlots |-> cache[c]]
  /\ convOut = [s \in DOMAIN shape.cache |-> convOut[s]]
  /\ cache[Nowhere] = FreshSlot
  /\ \A c \in ConvSlots : cache[c] = [r \in CacheRows |-> cache[c][r]]
  /\ stage # "conv" => \A s \in DOMAIN shape.cache : convOut[s] # <<>>

\* Before its call, a sequence's history is the end of its text; after it, every
\* candidate has its window, and the slot keeps two tokens and the candidates.
HistoryIs(T, s) == \A i \in 1 .. 3 : History(s)[i] = Before(T[s])[Len(T[s]) + i]
\* The windows of a sequence's candidates, and the rows they leave in its slot.
WindowsAre(T, s) ==
  /\ DOMAIN convOut[s] = 1 .. shape.length[s]
  /\ \A t \in 1 .. shape.length[s] : convOut[s][t] = Suffix(Run(T[s], round, t), CONV_KERNEL)
  /\ \A r \in 1 .. shape.length[s] + 2 :
       cache[shape.cache[s]][r] = Run(T[s], round, shape.length[s])[Len(T[s]) + 1 + r]

\* Before a sequence is convolved its slot holds its history, then its windows.
ConvData(T) ==
  shape.least > 0 =>
    \A s \in DOMAIN shape.cache : shape.cache[s] # Nowhere =>
      IF convOut[s] = <<>> THEN HistoryIs(T, s) ELSE WindowsAre(T, s)

\* Sequences have slots of their own, or all of them are padding.
LEMMA SlotsApart ==
    ASSUME shape \in Shapes
    PROVE  /\ \A s \in DOMAIN shape.cache : s \in Seqs /\ shape.cache[s] \in ConvSlots
           /\ \A a, b \in DOMAIN shape.cache : a # b /\ shape.cache[a] = shape.cache[b]
                                               => shape.cache[a] = Nowhere
<1>1. /\ shape.cache \in Seq(Nat) /\ Len(shape.cache) \in {0, Len(shape.length)}
      /\ shape.length \in Seq(Nat \ {0})
      /\ \A a, b \in DOMAIN shape.cache : a # b /\ shape.cache[a] = shape.cache[b]
                                          => shape.cache[a] = Nowhere
  BY ShapesAssumption
<1>2. \A s \in DOMAIN shape.cache : s \in Seqs
  BY <1>1 DEF Seqs
<1> QED
  BY <1>1, <1>2 DEF ConvSlots

\* A run, a call's history of three tokens and the newer two of them, and the
\* raw candidates, token by token.
RunIs(a, r, n, run) ==
  /\ Len(a) \in Nat /\ run \in Texts /\ Len(run) = Len(a) + 3 + n
  /\ \A i \in 1 .. Len(a) + 3 + n : run[i] = IF i <= Len(a) + 3 THEN Before(a)[i]
                                             ELSE <<r, i - Len(a) - 4>>
\* The three tokens before the candidates.
HistIs(a, hist) ==
  hist \in Texts /\ Len(hist) = 3 /\ \A i \in 1 .. 3 : hist[i] = Before(a)[Len(a) + i]
\* The last two of them.
TwoIs(a, two) ==
  two \in Texts /\ Len(two) = 2 /\ \A i \in 1 .. 2 : two[i] = Before(a)[Len(a) + 1 + i]
\* The first n candidates of a round.
RawIs(r, n, raw) ==
  raw \in Texts /\ Len(raw) = n /\ \A i \in 1 .. n : raw[i] = <<r, i - 1>>

\* The rows of a slot.
RowsAre(a, r, n, rows) ==
  DOMAIN rows = 1 .. n + 2 /\ \A j \in 1 .. n + 2 : rows[j] = Run(a, r, n)[Len(a) + 1 + j]

\* A run is what it says.
LEMMA RunIsRun ==
    ASSUME NEW a \in Texts, NEW r \in Nat, NEW n \in Nat
    PROVE  RunIs(a, r, n, Run(a, r, n))
BY RunFacts DEF RunIs

\* Three tokens of history and the candidates after them end like the whole run.
LEMMA WindowEnds ==
    ASSUME NEW a \in Texts, NEW r \in Nat, NEW t \in Nat \ {0},
           NEW hist, HistIs(a, hist), NEW raw, RawIs(r, t, raw)
    PROVE  Suffix(hist \o raw, 4) = Suffix(Run(a, r, t), 4)
<1> DEFINE m == Len(a)    c == hist \o raw    run == Run(a, r, t)    b == Before(a)
<1>1. /\ m \in Nat /\ run \in Texts /\ Len(run) = m + 3 + t
      /\ \A i \in 1 .. m + 3 + t : run[i] = IF i <= m + 3 THEN b[i] ELSE <<r, i - m - 4>>
  <2>1. t \in Nat
    OBVIOUS
  <2>2. RunIs(a, r, t, run)
    BY <2>1, RunIsRun
  <2> QED
    BY <2>2, Zenon DEF RunIs
<1>2. /\ hist \in Texts /\ Len(hist) = 3 /\ \A i \in 1 .. 3 : hist[i] = b[m + i]
      /\ raw \in Texts /\ Len(raw) = t /\ \A i \in 1 .. t : raw[i] = <<r, i - 1>>
  BY Zenon DEF HistIs, RawIs
<1>3. /\ c \in Texts /\ Len(c) = 3 + t
      /\ \A i \in 1 .. 3 + t : c[i] = IF i <= 3 THEN hist[i] ELSE raw[i - 3]
  <2>1. /\ c \in Texts /\ Len(c) = Len(hist) + Len(raw)
        /\ \A i \in 1 .. Len(hist) + Len(raw) :
             c[i] = IF i <= Len(hist) THEN hist[i] ELSE raw[i - Len(hist)]
    BY <1>2, TwoTexts
  <2> HIDE DEF c
  <2> QED
    BY <1>2, <2>1
<1> HIDE DEF m, c, run, b
<1>4. ASSUME NEW j \in 1 .. 3 + t PROVE c[j] = run[m + j]
  <2>1. c[j] = IF j <= 3 THEN hist[j] ELSE raw[j - 3]
    BY <1>3
  <2>2. m + j \in 1 .. m + 3 + t /\ (m + j <= m + 3 <=> j <= 3)
    BY <1>1
  <2>3. run[m + j] = IF j <= 3 THEN b[m + j] ELSE <<r, m + j - m - 4>>
    BY <1>1, <2>2
  <2>4. CASE j <= 3
    BY <1>2, <2>1, <2>3, <2>4
  <2>5. CASE ~ (j <= 3)
    <3>1. j - 3 \in 1 .. t /\ j - 3 - 1 = m + j - m - 4
      BY <1>1, <2>5
    <3>2. raw[j - 3] = <<r, j - 3 - 1>>
      BY <1>2, <3>1
    <3> QED
      BY <2>1, <2>3, <2>5, <3>1, <3>2
  <2> QED
    BY <2>4, <2>5
<1>5. ASSUME NEW i \in 1 .. 4 PROVE c[Len(c) - 4 + i] = run[Len(run) - 4 + i]
  <2>1. Len(c) - 4 + i \in 1 .. 3 + t /\ Len(run) - 4 + i = m + (Len(c) - 4 + i)
    BY <1>1, <1>3
  <2> QED
    BY <1>4, <2>1
<1>6. 4 <= Len(c) /\ 4 <= Len(run) /\ 4 \in Nat
  BY <1>1, <1>3
<1>7. Suffix(c, 4) = Suffix(run, 4)
  BY <1>1, <1>3, <1>5, <1>6, SameSuffix
<1> QED
  BY <1>7 DEF c, run

\* Two tokens of history and all the candidates are the end of the whole run.
LEMMA KeptEnds ==
    ASSUME NEW a \in Texts, NEW r \in Nat, NEW n \in Nat,
           NEW two, TwoIs(a, two), NEW raw, RawIs(r, n, raw)
    PROVE  RowsAre(a, r, n, two \o raw)
<1> DEFINE m == Len(a)    c == two \o raw    run == Run(a, r, n)    b == Before(a)
<1>1. /\ m \in Nat /\ run \in Texts /\ Len(run) = m + 3 + n
      /\ \A i \in 1 .. m + 3 + n : run[i] = IF i <= m + 3 THEN b[i] ELSE <<r, i - m - 4>>
  <2>1. RunIs(a, r, n, run)
    BY RunIsRun
  <2> QED
    BY <2>1, Zenon DEF RunIs
<1>2. /\ two \in Texts /\ Len(two) = 2 /\ \A i \in 1 .. 2 : two[i] = b[m + 1 + i]
      /\ raw \in Texts /\ Len(raw) = n /\ \A i \in 1 .. n : raw[i] = <<r, i - 1>>
  BY Zenon DEF TwoIs, RawIs
<1>3. /\ c \in Texts /\ Len(c) = 2 + n
      /\ \A i \in 1 .. 2 + n : c[i] = IF i <= 2 THEN two[i] ELSE raw[i - 2]
  <2>1. /\ c \in Texts /\ Len(c) = Len(two) + Len(raw)
        /\ \A i \in 1 .. Len(two) + Len(raw) :
             c[i] = IF i <= Len(two) THEN two[i] ELSE raw[i - Len(two)]
    BY <1>2, TwoTexts
  <2> HIDE DEF c
  <2> QED
    BY <1>2, <2>1
<1> HIDE DEF m, c, run, b
<1>4. ASSUME NEW j \in 1 .. n + 2 PROVE c[j] = run[m + 1 + j]
  <2>1. c[j] = IF j <= 2 THEN two[j] ELSE raw[j - 2]
    BY <1>3
  <2>2. m + 1 + j \in 1 .. m + 3 + n /\ (m + 1 + j <= m + 3 <=> j <= 2)
    BY <1>1
  <2>3. run[m + 1 + j] = IF j <= 2 THEN b[m + 1 + j] ELSE <<r, m + 1 + j - m - 4>>
    BY <1>1, <2>2
  <2>4. CASE j <= 2
    BY <1>2, <2>1, <2>3, <2>4
  <2>5. CASE ~ (j <= 2)
    <3>1. j - 2 \in 1 .. n /\ j - 2 - 1 = m + 1 + j - m - 4
      BY <1>1, <2>5
    <3>2. raw[j - 2] = <<r, j - 2 - 1>>
      BY <1>2, <3>1
    <3> QED
      BY <2>1, <2>3, <2>5, <3>1, <3>2
  <2> QED
    BY <2>4, <2>5
<1>5. DOMAIN c = 1 .. n + 2
  <2>1. DOMAIN c = 1 .. Len(c) /\ 2 + n = n + 2
    BY <1>3 DEF Texts
  <2> QED
    BY <1>3, <2>1
<1> QED
  BY <1>4, <1>5, Zenon DEF c, run, m, RowsAre

\* The history of a call as a text, and the two tokens of it that stay.
LEMMA HistoryText ==
    ASSUME NEW T, NEW s, T[s] \in Texts, HistoryIs(T, s)
    PROVE  HistIs(T[s], History(s)) /\ TwoIs(T[s], SubSeq(History(s), 2, CONV_KERNEL - 1))
<1> DEFINE hist == History(s)    m == Len(T[s])    b == Before(T[s])
           two == SubSeq(History(s), 2, CONV_KERNEL - 1)
<1>1. m \in Nat /\ b \in Texts /\ Len(b) = m + 3
  BY BeforeFacts
<1>2. hist = [i \in 1 .. 3 |-> hist[i]]
  BY DEF History, CONV_KERNEL
<1>3. \A i \in 1 .. 3 : hist[i] = b[m + i]
  BY DEF HistoryIs
<1>4. two = SubSeq(hist, 2, 3)
  BY DEF CONV_KERNEL
<1> HIDE DEF hist, m, b, two
<1>5. \A i \in 1 .. 3 : b[m + i] \in Nat \X Nat
  <2> SUFFICES ASSUME NEW i \in 1 .. 3 PROVE b[m + i] \in Nat \X Nat
    OBVIOUS
  <2>1. m + i \in 1 .. Len(b)
    BY <1>1
  <2> QED
    BY <1>1, <2>1 DEF Texts
<1>6. \A i \in 1 .. 3 : hist[i] \in Nat \X Nat
  BY <1>3, <1>5
<1>7. hist \in Texts /\ Len(hist) = 3
  BY <1>2, <1>6 DEF Texts
<1>8. two \in Texts /\ Len(two) = 2 /\ \A i \in 1 .. 2 : two[i] = hist[i + 1]
  <2>1. SubSeq(hist, 2, 3) = [i \in 1 .. 2 |-> hist[i + 1]]
    <3>1. SubSeq(hist, 2, 3) = [i \in 1 .. 1 + 3 - 2 |-> hist[2 + i - 1]]
      OBVIOUS
    <3>2. 1 + 3 - 2 = 2 /\ \A i \in 1 .. 2 : 2 + i - 1 = i + 1
      OBVIOUS
    <3> QED
      BY <3>1, <3>2
  <2>2. \A i \in 1 .. 2 : hist[i + 1] \in Nat \X Nat
    BY <1>6
  <2>3. two = [i \in 1 .. 2 |-> hist[i + 1]]
    BY <1>4, <2>1
  <2> QED
    BY <2>2, <2>3 DEF Texts
<1>9. \A i \in 1 .. 2 : i + 1 \in 1 .. 3 /\ m + (i + 1) = m + 1 + i
  BY <1>1
<1>10. \A i \in 1 .. 2 : two[i] = b[m + 1 + i]
  BY <1>3, <1>8, <1>9
<1> QED
  BY <1>3, <1>7, <1>8, <1>10, Zenon DEF hist, m, b, two, HistIs, TwoIs

\* The raw candidates of a call.
LEMMA RawText ==
    ASSUME round \in Nat, NEW s, shape.length[s] \in Nat, NEW t \in Nat, t <= shape.length[s]
    PROVE  /\ RawIs(round, t, SubSeq(Raw(s), 1, t)) /\ RawIs(round, shape.length[s], Raw(s))
           /\ DOMAIN Raw(s) = 1 .. shape.length[s]
<1> DEFINE raw == Raw(s)    n == shape.length[s]    part == SubSeq(raw, 1, t)
<1>1. raw = [i \in 1 .. n |-> <<round, i - 1>>]
  BY DEF Raw
<1>2. \A i \in 1 .. n : <<round, i - 1>> \in Nat \X Nat
  OBVIOUS
<1>3. n \in Nat /\ t <= n
  OBVIOUS
<1> HIDE DEF raw, n
<1>4. raw \in Texts /\ Len(raw) = n /\ DOMAIN raw = 1 .. n /\ \A i \in 1 .. n : raw[i] = <<round, i - 1>>
  BY <1>1, <1>2, <1>3 DEF Texts
<1>5. part \in Texts /\ Len(part) = t /\ \A i \in 1 .. t : part[i] = raw[i]
  BY <1>3, <1>4 DEF Texts
<1>6. \A i \in 1 .. t : i \in 1 .. n
  BY <1>3
<1> HIDE DEF part
<1>7. \A i \in 1 .. t : part[i] = <<round, i - 1>>
  BY <1>4, <1>5, <1>6
<1> QED
  BY <1>4, <1>5, <1>7, Zenon DEF raw, n, part, RawIs

\* A candidate's window is the end of the text with the candidates up to it.
LEMMA WindowIs ==
    ASSUME NEW T, NEW s, T[s] \in Texts, round \in Nat, shape.length[s] \in Nat,
           HistoryIs(T, s), NEW t \in 1 .. shape.length[s]
    PROVE  Window(s, t) = Suffix(Run(T[s], round, t), CONV_KERNEL)
<1>1. t \in Nat \ {0} /\ t \in Nat /\ t <= shape.length[s]
  OBVIOUS
<1>2. RawIs(round, t, SubSeq(Raw(s), 1, t)) /\ HistIs(T[s], History(s))
  BY <1>1, RawText, HistoryText
<1>3. Suffix(History(s) \o SubSeq(Raw(s), 1, t), 4) = Suffix(Run(T[s], round, t), 4)
  BY <1>1, <1>2, WindowEnds
<1> QED
  BY <1>3 DEF Window, CONV_KERNEL

\* What a call leaves in the slot is the end of the text and the candidates.
LEMMA KeptIs ==
    ASSUME NEW T, NEW s, T[s] \in Texts, round \in Nat, shape.length[s] \in Nat,
           HistoryIs(T, s)
    PROVE  RowsAre(T[s], round, shape.length[s], Kept(s))
<1> DEFINE two == SubSeq(History(s), 2, CONV_KERNEL - 1)    raw == Raw(s)
<1>1. TwoIs(T[s], two) /\ RawIs(round, shape.length[s], raw)
  <2>1. 0 \in Nat /\ 0 <= shape.length[s]
    OBVIOUS
  <2> QED
    BY <2>1, RawText, HistoryText
<1>2. Kept(s) = two \o raw
  BY DEF Kept
<1> HIDE DEF two, raw
<1>3. RowsAre(T[s], round, shape.length[s], two \o raw)
  BY <1>1, KeptEnds
<1> QED
  BY <1>2, <1>3

\* Nothing is convolved: the slots stay what they are.
LEMMA ConvStays ==
    ASSUME NEW T, ConvShape, ConvData(T), shape' = shape, round' = round, UNCHANGED convVars,
           accepted' = accepted \/ stage # "conv",
           stage' # "conv" => \A s \in DOMAIN shape.cache : convOut[s] # <<>>
    PROVE  ConvShape' /\ ConvData(T)'
<1>1. cache' = cache /\ convOut' = convOut
  BY DEF convVars
<1>2. ConvSlots' = ConvSlots /\ CacheRows' = CacheRows /\ FreshSlot' = FreshSlot
  BY SameCall DEF ConvSlots, CacheRows, FreshSlot
<1>3. ConvShape'
  BY <1>1, <1>2 DEF ConvShape
<1>4. ConvData(T)'
  <2> SUFFICES ASSUME shape.least > 0, NEW s \in DOMAIN shape.cache, shape.cache[s] # Nowhere
               PROVE  IF convOut[s] = <<>> THEN HistoryIs(T, s)' ELSE WindowsAre(T, s)'
    BY <1>1, Zenon DEF ConvData
  <2>1. IF convOut[s] = <<>> THEN HistoryIs(T, s) ELSE WindowsAre(T, s)
    BY DEF ConvData
  <2>2. CASE convOut[s] = <<>>
    <3>1. accepted' = accepted
      BY <2>2 DEF ConvShape
    <3>2. History(s)' = History(s)
      BY <1>1, <3>1 DEF History
    <3> QED
      BY <2>1, <2>2, <3>2 DEF HistoryIs
  <2>3. CASE convOut[s] # <<>>
    <3>1. WindowsAre(T, s)
      BY <2>1, <2>3
    <3> QED
      BY <1>1, <2>3, <3>1 DEF WindowsAre
  <2> QED
    BY <2>2, <2>3
<1> QED
  BY <1>3, <1>4

\* A sequence is convolved.
LEMMA ConvolveKeeps ==
    ASSUME ShapeOK, NEW T, TextsOK(T), ConvShape, ConvData(T), NEW s \in DOMAIN convOut, Conv(s)
    PROVE  ConvShape' /\ ConvData(T)'
<1> DEFINE slot == shape.cache[s]    n == shape.length[s]
<1>1. /\ stage = "conv" /\ stage' = stage /\ shape' = shape /\ round' = round /\ accepted' = accepted
      /\ convOut[s] = <<>>
      /\ IF slot = Nowhere
         THEN /\ convOut' = [convOut EXCEPT ![s] = [t \in DOMAIN Raw(s) |-> <<NoToken>>]]
              /\ cache' = cache
         ELSE /\ convOut' = [convOut EXCEPT ![s] = [t \in DOMAIN Raw(s) |-> Window(s, t)]]
              /\ cache' = [cache EXCEPT ![slot] =
                    [r \in CacheRows |-> IF r \in DOMAIN Kept(s) THEN Kept(s)[r] ELSE @[r]]]
  BY Zenon DEF Conv, Convolve
<1>2. /\ s \in DOMAIN shape.cache /\ s \in Seqs /\ slot \in ConvSlots
      /\ \A a \in DOMAIN shape.cache : a \in Seqs /\ shape.cache[a] \in ConvSlots
      /\ \A a \in DOMAIN shape.cache : a # s /\ shape.cache[a] = slot => slot = Nowhere
  <2>1. s \in DOMAIN shape.cache
    BY DEF ConvShape
  <2> QED
    BY <2>1, SlotsApart DEF ShapeOK
<1>3. /\ n \in Nat \ {0} /\ n <= LongestSequence /\ LongestSequence \in Nat /\ round \in Nat
      /\ T[s] \in Texts
  BY <1>2, ShapeFacts, UptoFacts DEF ShapeOK, TextsOK
<1>4. DOMAIN Raw(s) = 1 .. n /\ 1 \in 1 .. n
  BY <1>3 DEF Raw
<1>5. ConvSlots' = ConvSlots /\ CacheRows' = CacheRows /\ FreshSlot' = FreshSlot
  BY <1>1, SameCall DEF ConvSlots, CacheRows, FreshSlot
<1>6. /\ convOut = [a \in DOMAIN shape.cache |-> convOut[a]] /\ cache = [c \in ConvSlots |-> cache[c]]
      /\ cache[Nowhere] = FreshSlot
      /\ \A c \in ConvSlots : cache[c] = [r \in CacheRows |-> cache[c][r]]
  BY DEF ConvShape
<1>7. /\ convOut' = [a \in DOMAIN shape.cache |-> convOut'[a]]
      /\ \A a \in DOMAIN shape.cache : a # s => convOut'[a] = convOut[a]
      /\ DOMAIN convOut'[s] = 1 .. n
      /\ slot # Nowhere => \A t \in 1 .. n : convOut'[s][t] = Window(s, t)
  <2> DEFINE v == IF slot = Nowhere THEN [t \in DOMAIN Raw(s) |-> <<NoToken>>]
                  ELSE [t \in DOMAIN Raw(s) |-> Window(s, t)]
  <2>1. convOut' = [convOut EXCEPT ![s] = v]
    BY <1>1
  <2>2. DOMAIN v = 1 .. n /\ (slot # Nowhere => \A t \in 1 .. n : v[t] = Window(s, t))
    BY <1>4
  <2> HIDE DEF n, slot, v
  <2>3. convOut'[s] = v
    BY <1>2, <1>6, <2>1
  <2>4. /\ convOut' = [a \in DOMAIN shape.cache |-> convOut'[a]]
        /\ \A a \in DOMAIN shape.cache : a # s => convOut'[a] = convOut[a]
    BY <1>2, <1>6, <2>1
  <2> QED
    BY <2>2, <2>3, <2>4
<1> DEFINE rows == [r \in CacheRows |-> IF r \in DOMAIN Kept(s) THEN Kept(s)[r] ELSE cache[slot][r]]
<1>8. /\ cache' = [c \in ConvSlots |-> cache'[c]]
      /\ \A c \in ConvSlots : c # slot \/ slot = Nowhere => cache'[c] = cache[c]
      /\ slot # Nowhere => cache'[slot] = rows
  <2>1. CASE slot = Nowhere
    BY <1>1, <1>6, <2>1
  <2>2. CASE slot # Nowhere
    <3>1. cache' = [cache EXCEPT ![slot] = rows]
      BY <1>1, <2>2
    <3> HIDE DEF rows, slot
    <3> QED
      BY <1>2, <1>6, <2>2, <3>1
  <2> QED
    BY <2>1, <2>2
<1>9. ConvShape'
  <2>1. cache'[Nowhere] = FreshSlot
    <3>1. Nowhere \in ConvSlots
      BY DEF ConvSlots
    <3> HIDE DEF rows, slot
    <3> QED
      BY <1>6, <1>8, <3>1
  <2>2. ASSUME NEW c \in ConvSlots PROVE cache'[c] = [r \in CacheRows |-> cache'[c][r]]
    <3>1. CASE c = slot /\ slot # Nowhere
      <4>1. rows = [r \in CacheRows |-> rows[r]]
        OBVIOUS
      <4> HIDE DEF rows, slot
      <4> QED
        BY <1>8, <3>1, <4>1
    <3>2. CASE ~ (c = slot /\ slot # Nowhere)
      <4> HIDE DEF rows, slot
      <4>1. cache'[c] = cache[c]
        BY <1>8, <3>2
      <4> QED
        BY <1>6, <4>1
    <3> QED
      BY <3>1, <3>2
  <2> HIDE DEF rows, slot, n
  <2> QED
    BY <1>1, <1>5, <1>7, <1>8, <2>1, <2>2, Zenon DEF ConvShape
<1>10. ConvData(T)'
  <2> SUFFICES ASSUME shape.least > 0, NEW a \in DOMAIN shape.cache, shape.cache[a] # Nowhere
               PROVE  IF convOut'[a] = <<>> THEN HistoryIs(T, a)' ELSE WindowsAre(T, a)'
    BY <1>1, Zenon DEF ConvData
  <2>1. IF convOut[a] = <<>> THEN HistoryIs(T, a) ELSE WindowsAre(T, a)
    BY DEF ConvData
  <2>2. CASE a # s
    <3>1. convOut'[a] = convOut[a] /\ cache'[shape.cache[a]] = cache[shape.cache[a]]
      <4>1. shape.cache[a] # slot /\ shape.cache[a] \in ConvSlots
        BY <1>2, <2>2
      <4> HIDE DEF rows, slot
      <4> QED
        BY <1>7, <1>8, <2>2, <4>1
    <3>2. History(a)' = History(a)
      BY <1>1, <3>1 DEF History
    <3>3. HistoryIs(T, a) => HistoryIs(T, a)'
      BY <3>2 DEF HistoryIs
    <3>4. WindowsAre(T, a) => WindowsAre(T, a)'
      BY <1>1, <3>1 DEF WindowsAre
    <3> QED
      BY <2>1, <3>1, <3>3, <3>4
  <2>3. CASE a = s
    <3>1. slot # Nowhere /\ HistoryIs(T, s)
      BY <1>1, <2>1, <2>3
    <3>2. convOut'[s] # <<>>
      <4>1. DOMAIN convOut'[s] # {}
        BY <1>4, <1>7
      <4> QED
        BY <4>1
    <3>3. \A t \in 1 .. n : convOut'[s][t] = Suffix(Run(T[s], round, t), CONV_KERNEL)
      BY <1>3, <1>7, <3>1, WindowIs
    <3>4. RowsAre(T[s], round, n, Kept(s))
      BY <1>3, <3>1, KeptIs
    <3>5. \A r \in 1 .. n + 2 : cache'[slot][r] = Run(T[s], round, n)[Len(T[s]) + 1 + r]
      <4>1. \A r \in 1 .. n + 2 : r \in CacheRows
        BY <1>3 DEF CacheRows
      <4>2. \A r \in 1 .. n + 2 : rows[r] = Kept(s)[r]
        BY <3>4, <4>1 DEF RowsAre
      <4>3. cache'[slot] = rows
        BY <1>8, <3>1
      <4> HIDE DEF rows, slot, n
      <4> QED
        BY <3>4, <4>2, <4>3 DEF RowsAre
    <3>6. WindowsAre(T, s)'
      BY <1>1, <1>7, <3>3, <3>5 DEF WindowsAre
    <3> QED
      BY <2>3, <3>2, <3>6
  <2> QED
    BY <2>2, <2>3
<1> QED
  BY <1>9, <1>10

\* The round ends: what was accepted is where the next call takes its history.
LEMMA ConvRestarts ==
    ASSUME ShapeOK, ShapeOK', NEW T, TextsOK(T), ConvShape, ConvData(T), CommitEnds,
           NEW U, U = NextTexts(T)
    PROVE  ConvShape' /\ ConvData(U)'
<1>1. /\ stage = "commit" /\ stage' = "conv" /\ shape' = shape /\ round' = round + 1
      /\ accepted' = accepted /\ cache' = cache /\ convOut' = [s \in DOMAIN convOut |-> <<>>]
  BY DEF CommitEnds
<1>2. ConvSlots' = ConvSlots /\ CacheRows' = CacheRows /\ FreshSlot' = FreshSlot
  BY <1>1, SameCall DEF ConvSlots, CacheRows, FreshSlot
<1>3. \A s \in DOMAIN shape.cache : convOut'[s] = <<>> /\ s \in Seqs
  BY <1>1, SlotsApart DEF ConvShape, ShapeOK
<1>4. ConvShape'
  BY <1>1, <1>2, <1>3 DEF ConvShape
<1>5. ConvData(U)'
  <2> SUFFICES ASSUME shape.least > 0, NEW s \in DOMAIN shape.cache, shape.cache[s] # Nowhere
               PROVE  HistoryIs(U, s)'
    BY <1>1, <1>3, Zenon DEF ConvData
  <2> DEFINE n == accepted[s]    len == shape.length[s]    m == Len(T[s])
  <2>1. /\ s \in Seqs /\ n \in Nat \ {0} /\ n <= len /\ len \in Nat /\ T[s] \in Texts
        /\ round \in Nat /\ m \in Nat
    <3>1. s \in Seqs
      BY <1>3
    <3>2. len \in Nat /\ shape.least \in Nat /\ T[s] \in Texts /\ round \in Nat /\ m \in Nat
      BY <3>1, ShapeFacts, UptoFacts DEF ShapeOK, TextsOK
    <3>3. n \in Nat /\ n <= len /\ n >= shape.least
      BY <1>1, <3>1, ShapeFacts DEF ShapeOK
    <3> QED
      BY <3>1, <3>2, <3>3
  <2>2. WindowsAre(T, s)
    BY <1>1 DEF ConvShape, ConvData
  <2>3. U[s] = T[s] \o Cands(round, n)
    BY <2>1 DEF NextTexts, Upto
  <2>5. m = Len(T[s])
    OBVIOUS
  <2> HIDE DEF n, len, m
  <2>6. Len(U[s]) = m + n
    <3>1. \A a \in Texts, r, p \in Nat : Len(a \o Cands(r, p)) = Len(a) + p
      BY GrowText
    <3>2. T[s] \in Texts /\ round \in Nat /\ n \in Nat
      BY <2>1
    <3>3. Len(T[s] \o Cands(round, n)) = Len(T[s]) + n
      BY <3>1, <3>2, Zenon
    <3> QED
      BY <2>3, <2>5, <3>3, Zenon
  <2>4. ASSUME NEW i \in 1 .. 3 PROVE History(s)'[i] = Before(U[s])[Len(U[s]) + i]
    <3>1. History(s)'[i] = cache[shape.cache[s]][n - 1 + i]
      <4>1. accepted'[s] > 0 /\ accepted'[s] = n
        BY <1>1, <2>1 DEF n
      <4> QED
        BY <1>1, <4>1 DEF History, CONV_KERNEL
    <3>2. n - 1 + i \in 1 .. len + 2 /\ m + 1 + (n - 1 + i) = m + n + i /\ m + n + i \in 1 .. m + n + 3
      BY <2>1
    <3>3. cache[shape.cache[s]][n - 1 + i] = Run(T[s], round, len)[m + n + i]
      <4>1. \A r \in 1 .. len + 2 : cache[shape.cache[s]][r] = Run(T[s], round, len)[m + 1 + r]
        BY <2>2 DEF WindowsAre, len, m
      <4> QED
        BY <3>2, <4>1
    <3>4. Before(T[s] \o Cands(round, n))[m + n + i] = Run(T[s], round, len)[m + n + i]
      <4>1. \A a \in Texts, r, p, q \in Nat : p <= q =>
              \A j \in 1 .. Len(a) + p + 3 : Before(a \o Cands(r, p))[j] = Run(a, r, q)[j]
        BY RunJoins
      <4>2. T[s] \in Texts /\ round \in Nat /\ n \in Nat /\ len \in Nat /\ n <= len
        BY <2>1
      <4>3. \A j \in 1 .. Len(T[s]) + n + 3 :
               Before(T[s] \o Cands(round, n))[j] = Run(T[s], round, len)[j]
        BY <4>1, <4>2, Zenon
      <4> QED
        BY <2>5, <3>2, <4>3, Zenon
    <3> QED
      BY <2>3, <2>6, <3>1, <3>3, <3>4, Zenon
  <2> QED
    BY <1>1, <2>4 DEF HistoryIs
<1> QED
  BY <1>4, <1>5

\* At first every slot holds the prompt.
LEMMA ConvStarts ==
    ASSUME Init, ShapeOK, NEW T, T = [s \in Seqs |-> <<>>]
    PROVE  ConvShape /\ ConvData(T)
<1>1. stage = "conv" /\ ConvInit /\ accepted = [s \in Seqs |-> 0]
  BY DEF Init
<1>2. /\ cache = [c \in ConvSlots |-> FreshSlot] /\ convOut = [s \in DOMAIN shape.cache |-> <<>>]
  BY <1>1 DEF ConvInit, ConvSlots
<1>3. FreshSlot = [r \in CacheRows |-> FreshSlot[r]]
  BY DEF FreshSlot
<1>4. ConvShape
  <2>1. Nowhere \in ConvSlots
    BY DEF ConvSlots
  <2> QED
    BY <1>1, <1>2, <1>3, <2>1 DEF ConvShape
<1>5. ASSUME NEW s \in DOMAIN shape.cache PROVE HistoryIs(T, s)
  <2>1. s \in Seqs /\ shape.cache[s] \in ConvSlots /\ LongestSequence \in Nat \ {0}
    BY SlotsApart, ShapeFacts DEF ShapeOK
  <2>2. T[s] = <<>> /\ <<>> \in Texts /\ Len(T[s]) = 0
    BY <2>1 DEF Texts
  <2> SUFFICES ASSUME NEW i \in 1 .. 3 PROVE History(s)[i] = Before(T[s])[Len(T[s]) + i]
    BY DEF HistoryIs
  <2>3. Before(T[s])[0 + i] = Prompt[i]
    <3>1. i \in 1 .. Len(T[s]) + 3 /\ 0 + i = i /\ i <= 3
      BY <2>2
    <3> QED
      BY <2>2, <3>1, BeforeFacts
  <2>4. History(s)[i] = FreshSlot[i]
    <3>1. accepted[s] = 0 /\ cache[shape.cache[s]] = FreshSlot /\ 0 + i = i
      BY <1>1, <1>2, <2>1
    <3> QED
      BY <3>1 DEF History, CONV_KERNEL
  <2>5. FreshSlot[i] = Prompt[i]
    <3>1. i \in CacheRows /\ i < 4
      BY <2>1 DEF CacheRows
    <3> QED
      BY <3>1 DEF FreshSlot, CONV_KERNEL
  <2> QED
    BY <2>2, <2>3, <2>4, <2>5
<1> QED
  BY <1>2, <1>4, <1>5 DEF ConvData

\* The convolution's part of the invariant, on the texts of the rest.
ConvTexts == ConvShape /\ \E T : DataInv(T) /\ ConvData(T)

\* A step keeps it.
LEMMA ConvNext ==
    ASSUME IInv, IInv', ConvTexts, [Next]_vars
    PROVE  ConvTexts'
<1>1. PICK T : DataInv(T) /\ ConvData(T)
  BY DEF ConvTexts
<1>2. ShapeOK /\ LanesInv /\ StoreOK /\ ShapeOK' /\ LanesInv' /\ ConvShape /\ TextsOK(T)
      /\ shape' = shape
  BY <1>1, ShapeStays DEF IInv, ConvTexts, DataInv
<1>3. CASE CommitEnds
  <2>1. PICK U : U = NextTexts(T)
    OBVIOUS
  <2>2. DataInv(U)'
    BY <1>1, <1>2, <1>3, <2>1, CommitEndsKeeps
  <2>3. ConvShape' /\ ConvData(U)'
    BY <1>1, <1>2, <1>3, <2>1, ConvRestarts
  <2> QED
    BY <2>2, <2>3 DEF ConvTexts
<1>4. CASE ~ CommitEnds
  <2>1. DataInv(T)'
    BY <1>1, <1>2, <1>4, DataStep
  <2>2. CASE \E s \in DOMAIN convOut : Conv(s)
    <3>1. ConvShape' /\ ConvData(T)'
      BY <1>1, <1>2, <2>2, ConvolveKeeps
    <3> QED
      BY <2>1, <3>1 DEF ConvTexts
  <2>3. CASE ~ \E s \in DOMAIN convOut : Conv(s)
    <3>1. /\ round' = round /\ UNCHANGED convVars /\ (accepted' = accepted \/ stage # "conv")
          /\ stage = "conv" => stage' = "conv" \/ ConvEnds
      <4>1. ASSUME NEW l \in Lanes, Verify(l) \/ Snapshot(l) \/ Commit(l)
            PROVE  round' = round /\ UNCHANGED convVars /\ accepted' = accepted /\ stage' = stage
        BY <4>1 DEF Verify, VerifyToken, Snapshot, SnapshotToken, Commit, CommitSkip, CommitToken
      <4>2. CASE ConvEnds
        BY <4>2 DEF ConvEnds
      <4>3. CASE VerifyEnds
        BY <4>3 DEF VerifyEnds
      <4>4. CASE SnapshotEnds
        BY <4>4 DEF SnapshotEnds
      <4>5. CASE Accept
        BY <4>5 DEF Accept
      <4>6. CASE UNCHANGED vars
        BY <4>6 DEF vars, convVars
      <4> QED
        BY <1>4, <2>3, <4>1, <4>2, <4>3, <4>4, <4>5, <4>6 DEF Next
    <3>2. stage' # "conv" => \A s \in DOMAIN shape.cache : convOut[s] # <<>>
      BY <1>2, <3>1 DEF ConvEnds, ConvShape
    <3>3. ConvShape' /\ ConvData(T)'
      BY <1>1, <1>2, <3>1, <3>2, ConvStays
    <3> QED
      BY <2>1, <3>3 DEF ConvTexts
  <2> QED
    BY <2>2, <2>3
<1> QED
  BY <1>3, <1>4

\* Every window that the recurrence gets is the end of the text and the candidates.
LEMMA WindowsRight == ASSUME IInv, ConvTexts PROVE ConvWindow
<1>1. PICK T : DataInv(T) /\ ConvData(T)
  BY DEF ConvTexts
<1>2. MapResult(T) /\ ConvShape /\ shape \in Shapes
  BY <1>1, MapIs DEF IInv, ConvTexts, ShapeOK
<1> SUFFICES ASSUME stage # "conv", shape.least > 0
             PROVE  /\ cache[Nowhere] = FreshSlot
                    /\ \A s \in DOMAIN convOut : shape.cache[s] # Nowhere =>
                         \A t \in DOMAIN convOut[s] :
                           convOut[s][t] = Suffix(Prompt \o Text(s) \o [i \in 1 .. t |-> <<round, i - 1>>],
                                                  CONV_KERNEL)
  BY DEF ConvWindow
<1>3. ASSUME NEW s \in DOMAIN convOut, shape.cache[s] # Nowhere, NEW t \in DOMAIN convOut[s]
      PROVE  convOut[s][t] = Suffix(Prompt \o Text(s) \o [i \in 1 .. t |-> <<round, i - 1>>], CONV_KERNEL)
  <2>1. s \in DOMAIN shape.cache /\ s \in Seqs /\ convOut[s] # <<>>
    BY <1>2, SlotsApart DEF ConvShape
  <2>2. WindowsAre(T, s) /\ Text(s) = T[s]
    BY <1>1, <1>2, <1>3, <2>1 DEF ConvData, MapResult
  <2> QED
    BY <1>3, <2>2 DEF WindowsAre, Run, Cands
<1> QED
  BY <1>2, <1>3 DEF ConvShape

\* ConvWindow: whatever was accepted of the rounds before, a candidate is convolved
\* with the three tokens that are before it in the text, and padding is left alone.
THEOREM WindowsAlwaysRight == Spec => []ConvWindow
<1>1. Init /\ IInv => ConvTexts
  <2> SUFFICES ASSUME Init, IInv PROVE ConvTexts
    OBVIOUS
  <2>1. PICK T : T = [s \in Seqs |-> <<>>]
    OBVIOUS
  <2>2. DataInv(T) /\ ConvShape /\ ConvData(T)
    BY <2>1, DataInit, ConvStarts DEF IInv
  <2> QED
    BY <2>2 DEF ConvTexts
<1>2. IInv /\ IInv' /\ ConvTexts /\ [Next]_vars => ConvTexts'
  BY ConvNext
<1>3. IInv /\ ConvTexts => ConvWindow
  BY WindowsRight
<1> QED
  BY <1>1, <1>2, <1>3, DataAlways, PTL DEF Spec
=============================================================================
