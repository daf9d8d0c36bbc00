---- MODULE BodyProofs ----
(***************************************************************************)
(* The invariants of Body hold for every size of file, block, part and     *)
(* head that its assumptions allow, for every Range, and for any number of *)
(* windows in flight.                                                      *)
(*                                                                         *)
(* First what division does, then the part sizes, the fetch, the head and  *)
(* the plan of windows as operators; then the steps of the download.       *)
(***************************************************************************)
EXTENDS Body, WellFoundedInduction, SequenceTheorems, TLAPS

-----------------------------------------------------------------------------
(* Division *)

LEMMA Euclid ==
    ASSUME NEW a \in Nat, NEW m \in Nat \ {0}
    PROVE  /\ a \div m \in Nat /\ a % m \in 0 .. m - 1
           /\ (a \div m) * m \in Nat
           /\ (a \div m) * m <= a /\ a < (a \div m) * m + m
           /\ a % m = a - (a \div m) * m
<1>1. a \div m \in Nat
    OBVIOUS
<1>2. a % m \in 0 .. m - 1
    OBVIOUS
<1>3. (a \div m) * m \in Nat
    BY <1>1
<1>4. (a \div m) * m <= a /\ a < (a \div m) * m + m
    OBVIOUS
<1>5. a % m = a - (a \div m) * m
    OBVIOUS
<1> QED BY <1>1, <1>2, <1>3, <1>4, <1>5

LEMMA Multiple ==
    ASSUME NEW k \in Nat, NEW m \in Nat \ {0}
    PROVE  /\ k * m \in Nat
           /\ (k * m) % m = 0 /\ (k * m) \div m = k
           /\ (k + 1) * m = k * m + m
<1>1. k * m \in Nat
    OBVIOUS
<1>2. (k * m) % m = 0
    OBVIOUS
<1>3. (k * m) \div m = k
    OBVIOUS
<1>4. (k + 1) * m = k * m + m
    OBVIOUS
<1> QED BY <1>1, <1>2, <1>3, <1>4

LEMMA Monotone ==
    ASSUME NEW a \in Nat, NEW b \in Nat, NEW m \in Nat, a <= b
    PROVE  a * m <= b * m
OBVIOUS

LEMMA QuotientIs ==
    ASSUME NEW a \in Nat, NEW m \in Nat \ {0}, NEW k \in Nat, k * m <= a, a < k * m + m
    PROVE  a \div m = k
<1> DEFINE q == a \div m
<1>1. q \in Nat /\ q * m <= a /\ a < q * m + m
    BY Euclid
<1>2. q * m \in Nat /\ (q + 1) * m = q * m + m
    BY <1>1, Multiple
<1>3. k * m \in Nat /\ (k + 1) * m = k * m + m
    BY Multiple
<1> HIDE DEF q
<1>4. ASSUME q < k PROVE FALSE
    <2>1. (q + 1) * m <= k * m
        BY <1>1, <1>4, Monotone
    <2> QED BY <2>1, <1>1, <1>2, <1>3
<1>5. ASSUME k < q PROVE FALSE
    <2>1. (k + 1) * m <= q * m
        BY <1>1, <1>5, Monotone
    <2> QED BY <2>1, <1>1, <1>2, <1>3
<1>6. q = k
    BY <1>1, <1>4, <1>5
<1> QED BY <1>6 DEF q

LEMMA Whole ==
    ASSUME NEW a \in Nat, NEW m \in Nat \ {0}, a % m = 0
    PROVE  (a \div m) * m = a
<1>1. (a \div m) * m \in Nat /\ a % m = a - (a \div m) * m
    BY Euclid
<1> QED BY <1>1

LEMMA Divides ==
    ASSUME NEW a \in Nat, NEW m \in Nat \ {0}, NEW v \in Nat \ {0}, a % m = 0, m % v = 0
    PROVE  a % v = 0
<1>1. PICK x \in Nat : a = x * m
    BY Whole, Euclid
<1>2. PICK y \in Nat : m = y * v
    BY Whole, Euclid
<1>3. x * y \in Nat /\ (x * y) * v = x * (y * v)
    OBVIOUS
<1>4. a = (x * y) * v
    BY <1>1, <1>2, <1>3
<1>5. ((x * y) * v) % v = 0
    BY <1>3, Multiple
<1> QED BY <1>4, <1>5

LEMMA DividesSum ==
    ASSUME NEW a \in Nat, NEW b \in Nat, NEW m \in Nat \ {0}, a % m = 0, b % m = 0
    PROVE  (a + b) % m = 0
<1>1. PICK x \in Nat : a = x * m
    BY Whole, Euclid
<1>2. PICK y \in Nat : b = y * m
    BY Whole, Euclid
<1>3. a + b = (x + y) * m
    BY <1>1, <1>2
<1>4. ((x + y) * m) % m = 0
    BY Multiple
<1> QED BY <1>3, <1>4

-----------------------------------------------------------------------------
(* Part sizes *)

LEMMA Smallest ==
    ASSUME NEW S, S \subseteq Nat, S # {}
    PROVE  \E v \in S : \A w \in S : v <= w
<1>1. IsWellFoundedOn(OpToRel(<, Nat), Nat)
    BY NatLessThanWellFounded
<1>2. PICK v \in S : \A w \in S : ~(<<w, v>> \in OpToRel(<, Nat))
    BY <1>1, WFMin
<1>3. \A w \in S : v <= w
    <2>1. SUFFICES ASSUME NEW w \in S, w < v PROVE FALSE
        OBVIOUS
    <2>2. <<w, v>> \in OpToRel(<, Nat)
        BY <2>1 DEF OpToRel
    <2> QED BY <2>1, <2>2, <1>2
<1> QED BY <1>3

LEMMA Largest ==
    ASSUME NEW n \in Nat, NEW S, S \subseteq 0 .. n, S # {}
    PROVE  \E v \in S : \A w \in S : v >= w
<1> DEFINE R == {n - v : v \in S}
<1>1. R \subseteq Nat /\ R # {}
    <2>1. PICK s \in S : TRUE
        OBVIOUS
    <2>2. n - s \in R
        BY <2>1
    <2>3. ASSUME NEW r \in R PROVE r \in Nat
        BY <2>3
    <2> QED BY <2>2, <2>3
<1>2. PICK r \in R : \A w \in R : r <= w
    BY <1>1, Smallest
<1>3. PICK v \in S : r = n - v
    BY <1>2
<1>4. ASSUME NEW w \in S PROVE v >= w
    <2>1. n - w \in R
        BY <1>4
    <2>2. r <= n - w /\ v \in 0 .. n /\ w \in 0 .. n
        BY <2>1, <1>2
    <2> QED BY <2>2, <1>3
<1> QED BY <1>4

(* MinChunk and MaxChunk are part sizes, and every other is between them.  *)
LEMMA Chunks ==
    /\ Mb \in Nat \ {0} /\ Mb = 2 * MaxChunk /\ Mb % MaxChunk = 0
    /\ PartSizes \subseteq Nat \ {0} /\ Prime \in Nat \ {0}
    /\ MinChunk \in PartSizes /\ MaxChunk \in PartSizes
    /\ \A v \in PartSizes : MinChunk <= v /\ v <= MaxChunk
    /\ \A v \in PartSizes :
           /\ MaxChunk % v = 0 /\ v % MinChunk = 0
           /\ v = MaxChunk \/ 2 * v \in PartSizes
<1>1. Mb \in Nat \ {0} /\ PartSizes # {} /\ PartSizes \subseteq 1 .. Mb
    BY PartsAssumption
<1>a. PartSizes \subseteq Nat /\ PartSizes \subseteq 0 .. Mb
    BY <1>1
<1>2. \E v \in PartSizes : \A w \in PartSizes : v <= w
    BY <1>1, <1>a, Smallest
<1>3. MinChunk \in PartSizes /\ \A w \in PartSizes : MinChunk <= w
    BY <1>2 DEF MinChunk
<1>4. \E v \in PartSizes : \A w \in PartSizes : v >= w
    BY <1>1, <1>a, Largest
<1>5. MaxChunk \in PartSizes /\ \A w \in PartSizes : MaxChunk >= w
    BY <1>4 DEF MaxChunk
<1>6. Mb % MaxChunk = 0
    BY <1>5, PartsAssumption
<1>7. PartSizes \subseteq Nat \ {0} /\ Prime \in Nat \ {0} /\ Mb = 2 * MaxChunk
    BY <1>1, <1>5, HeadAssumption
<1>8. \A v \in PartSizes : MinChunk <= v /\ v <= MaxChunk
    BY <1>3, <1>5, <1>7
<1> QED BY <1>1, <1>3, <1>5, <1>6, <1>7, <1>8, PartsAssumption

LEMMA LeastIs ==
    ASSUME NEW x \in Int, NEW y \in Int
    PROVE  /\ Least(x, y) \in Int /\ Least(x, y) <= x /\ Least(x, y) <= y
           /\ Least(x, y) = x \/ Least(x, y) = y
BY DEF Least

(* The part size is one that divides pos, and none that fits is larger.    *)
LEMMA LimitIs ==
    ASSUME NEW pos \in Nat, NEW want \in Nat, pos % MinChunk = 0
    PROVE  /\ PlanLimit(pos, want) \in PartSizes
           /\ pos % PlanLimit(pos, want) = 0
           /\ \A w \in PartSizes :
                  w <= Least(want, Mb - (pos % Mb)) /\ pos % w = 0 => PlanLimit(pos, want) >= w
<1> DEFINE cap == Least(want, Mb - (pos % Mb))
           fits == {v \in PartSizes : v <= cap /\ pos % v = 0}
<1>1. fits \subseteq 0 .. Mb /\ fits \subseteq PartSizes
    <2>1. PartSizes \subseteq 0 .. Mb
        BY PartsAssumption
    <2> QED BY <2>1
<1>2. \E v \in fits \cup {MinChunk} : \A w \in fits : v >= w
    <2>1. CASE fits = {}
        BY <2>1
    <2>2. CASE fits # {}
        BY <2>2, <1>1, Largest, Chunks
    <2> QED BY <2>1, <2>2
<1>3. PlanLimit(pos, want) = CHOOSE v \in fits \cup {MinChunk} : \A w \in fits : v >= w
    BY DEF PlanLimit
<1>4. PlanLimit(pos, want) \in fits \cup {MinChunk} /\ \A w \in fits : PlanLimit(pos, want) >= w
    BY <1>2, <1>3
<1>5. PlanLimit(pos, want) \in PartSizes /\ pos % PlanLimit(pos, want) = 0
    BY <1>4, <1>1, Chunks
<1> QED BY <1>4, <1>5

(* A fetch from where a part can start gives what is asked for of the file *)
(* from there on.                                                          *)
LEMMA FetchIs ==
    ASSUME NEW pos \in Nat, NEW want \in Nat, pos % MinChunk = 0
    PROVE  Fetch(pos, want) = Piece(pos, Least(want, Minus(size, pos)))
<1> DEFINE limit == PlanLimit(pos, want)
<1>1. limit \in Nat \ {0} /\ pos % limit = 0
    BY LimitIs, Chunks
<1> HIDE DEF limit
<1>2. (pos \div limit) * limit = pos
    BY <1>1, Whole
<1> QED BY <1>2 DEF Fetch, limit

-----------------------------------------------------------------------------
(* The head *)

(* The Range is inside the file as it was when it was read.                *)
Inside ==
    /\ start \in Nat /\ end \in Nat /\ declared \in Nat /\ size \in Nat
    /\ start <= end /\ end < declared

LEMMA AlignedIs ==
    ASSUME start \in Nat
    PROVE  /\ Aligned \in Nat /\ Aligned <= start /\ start < Aligned + Mb
           /\ Aligned % MaxChunk = 0 /\ Aligned % MinChunk = 0
           /\ (Aligned + MaxChunk) % MaxChunk = 0 /\ (Aligned + MaxChunk) % MinChunk = 0
<1>1. start \div Mb \in Nat
    BY Euclid, Chunks
<1>2. Aligned \in Nat /\ Aligned <= start /\ start < Aligned + Mb
    BY Euclid, Chunks DEF Aligned
<1>3. Aligned % Mb = 0
    BY <1>1, Multiple, Chunks DEF Aligned
<1>4. MaxChunk \in Nat \ {0} /\ MinChunk \in Nat \ {0} /\ MaxChunk % MinChunk = 0
    BY Chunks
<1>5. Aligned % MaxChunk = 0
    BY <1>2, <1>3, <1>4, Chunks, Divides
<1>6. MaxChunk % MaxChunk = 0
    BY <1>4
<1>7. (Aligned + MaxChunk) % MaxChunk = 0
    BY <1>2, <1>4, <1>5, <1>6, DividesSum
<1>8. Aligned % MinChunk = 0
    BY <1>2, <1>4, <1>5, Divides
<1>9. (Aligned + MaxChunk) % MinChunk = 0
    BY <1>2, <1>4, <1>8, DividesSum
<1> QED BY <1>2, <1>5, <1>7, <1>8, <1>9

(* The head goes past start and ends where a part can, or with the file.   *)
LEMMA HeadIs ==
    ASSUME Inside
    PROVE  /\ HeadWant \in Nat /\ HeadWant > start - Aligned /\ HeadWant <= Mb
           /\ HeadWant % MaxChunk = 0 \/ HeadWant = declared - Aligned
<1> DEFINE want == (start - Aligned) + Least(Total, Prime)
           up == ((want + MaxChunk - 1) \div MaxChunk) * MaxChunk
<1>1. Aligned \in Nat /\ Aligned <= start /\ start < Aligned + Mb
    BY AlignedIs DEF Inside
<1>2. MaxChunk \in Nat \ {0} /\ Mb \in Nat \ {0} /\ Mb % MaxChunk = 0 /\ Prime \in Nat \ {0}
    BY Chunks
<1>3. want \in Nat /\ want > start - Aligned
    BY <1>1, <1>2 DEF Inside, Total, Least
<1>4. want + MaxChunk - 1 \in Nat
    BY <1>2, <1>3
<1> HIDE DEF want
<1>5. up \in Nat /\ want + MaxChunk - 1 < up + MaxChunk
    BY <1>2, <1>4, Euclid
<1>6. up % MaxChunk = 0
    BY <1>2, <1>4, Euclid, Multiple
<1>7. up >= want
    BY <1>2, <1>3, <1>5
<1>8. HeadWant = Least(Least(up, Mb), Minus(declared, Aligned))
    BY DEF HeadWant, want
<1> HIDE DEF up
<1>9. Minus(declared, Aligned) = declared - Aligned /\ declared - Aligned > start - Aligned
    BY <1>1 DEF Inside, Minus
<1>10. Least(up, Mb) \in {up, Mb} /\ Least(up, Mb) <= Mb /\ Least(up, Mb) > start - Aligned
    BY <1>1, <1>2, <1>3, <1>5, <1>7 DEF Inside, Least
<1>11. Least(up, Mb) \in Nat /\ Least(up, Mb) % MaxChunk = 0
    BY <1>2, <1>5, <1>6, <1>10
<1> DEFINE whole == Least(up, Mb)
           file == declared - Aligned
<1>12. HeadWant = Least(whole, file)
    BY <1>8, <1>9
<1>13. /\ whole \in Nat /\ whole <= Mb /\ whole > start - Aligned /\ whole % MaxChunk = 0
       /\ file \in Nat /\ file > start - Aligned
    BY <1>1, <1>9, <1>10, <1>11 DEF Inside
<1> HIDE DEF whole, file
<1>14. CASE whole < file
    BY <1>12, <1>13, <1>14 DEF Least
<1>15. CASE ~ (whole < file)
    BY <1>12, <1>13, <1>15, <1>2 DEF Least, file
<1> QED BY <1>14, <1>15

(* What comes of the head, in one part or two, is what of it the file has. *)
LEMMA PrimedIs ==
    ASSUME Inside
    PROVE  Primed.len = Least(HeadWant, Minus(size, Aligned))
<1>1. /\ Aligned \in Nat /\ Aligned % MinChunk = 0
      /\ Aligned + MaxChunk \in Nat /\ (Aligned + MaxChunk) % MinChunk = 0
    BY AlignedIs, Chunks DEF Inside
<1>2. HeadWant \in Nat /\ MaxChunk \in Nat
    BY HeadIs, Chunks
<1> DEFINE got == [n \in 1 .. Len(HeadParts) |-> Fetch(HeadParts[n].at, HeadParts[n].len)]
<1>3. Primed = Piece(Aligned, IF Len(got) = 1 THEN got[1].len ELSE got[1].len + got[2].len)
    BY DEF Primed
<1>4. CASE HeadWant <= MaxChunk
    <2>1. HeadParts = <<Piece(Aligned, HeadWant)>>
        BY <1>4 DEF HeadParts
    <2>2. HeadParts[1].at = Aligned /\ HeadParts[1].len = HeadWant /\ Len(HeadParts) = 1
        BY <2>1 DEF Piece
    <2>3. Len(got) = 1 /\ got[1] = Fetch(Aligned, HeadWant)
        BY <2>2
    <2>4. got[1].len = Least(HeadWant, Minus(size, Aligned))
        BY <2>3, <1>1, <1>2, FetchIs DEF Piece
    <2> QED BY <1>3, <2>3, <2>4 DEF Piece
<1>5. CASE HeadWant > MaxChunk
    <2>1. HeadParts = <<Piece(Aligned, MaxChunk), Piece(Aligned + MaxChunk, HeadWant - MaxChunk)>>
        BY <1>2, <1>5 DEF HeadParts
    <2>2. /\ HeadParts[1].at = Aligned /\ HeadParts[1].len = MaxChunk
          /\ HeadParts[2].at = Aligned + MaxChunk /\ HeadParts[2].len = HeadWant - MaxChunk
          /\ Len(HeadParts) = 2
        BY <2>1 DEF Piece
    <2>3. /\ Len(got) = 2 /\ got[1] = Fetch(Aligned, MaxChunk)
          /\ got[2] = Fetch(Aligned + MaxChunk, HeadWant - MaxChunk)
        BY <2>2
    <2>4. got[1].len = Least(MaxChunk, Minus(size, Aligned))
        BY <2>3, <1>1, <1>2, FetchIs DEF Piece
    <2>5. HeadWant - MaxChunk \in Nat
        BY <1>2, <1>5
    <2>6. got[2].len = Least(HeadWant - MaxChunk, Minus(size, Aligned + MaxChunk))
        BY <2>3, <2>5, <1>1, <1>2, FetchIs DEF Piece
    <2>7. Primed.len = got[1].len + got[2].len
        BY <1>3, <2>3 DEF Piece
    <2>8. Least(MaxChunk, Minus(size, Aligned)) + Least(HeadWant - MaxChunk, Minus(size, Aligned + MaxChunk))
              = Least(HeadWant, Minus(size, Aligned))
        BY <1>1, <1>2, <1>5 DEF Least, Minus, Inside
    <2> QED BY <2>4, <2>6, <2>7, <2>8
<1> QED BY <1>2, <1>4, <1>5

-----------------------------------------------------------------------------
(* The plan *)

(* A window that is inside the file and inside one block, and starts where *)
(* a part of the largest size can.                                         *)
Legal(w) ==
    /\ w.at \in Nat /\ w.len \in Nat /\ w.len > 0
    /\ w.at + w.len <= size
    /\ w.at % MaxChunk = 0
    /\ w.at \div Mb = (w.at + w.len - 1) \div Mb

(* The windows of a plan follow each other.                                *)
Chained(ws) == \A k \in 1 .. Len(ws) - 1 : ws[k + 1].at = ws[k].at + ws[k].len

(* The window of block c of the bytes from p to stop.                      *)
LEMMA WindowIs ==
    ASSUME NEW p \in Nat, NEW stop \in Nat, p < stop, stop <= size, size \in Nat,
           p % MaxChunk = 0,
           NEW c \in Nat, p \div Mb <= c, c <= (stop - 1) \div Mb,
           NEW at \in Nat, at = IF c = p \div Mb THEN p ELSE c * Mb,
           NEW to \in Nat, to = Least((c + 1) * Mb, stop)
    PROVE  /\ Legal(Piece(at, to - at))
           /\ c < (stop - 1) \div Mb => to = (c + 1) * Mb
           /\ c = (stop - 1) \div Mb => to = stop
<1> DEFINE b == p \div Mb
           q == (stop - 1) \div Mb
<1>1. Mb \in Nat \ {0} /\ MaxChunk \in Nat \ {0} /\ Mb % MaxChunk = 0
    BY Chunks
<1>2. b \in Nat /\ b * Mb \in Nat /\ b * Mb <= p /\ p < b * Mb + Mb
    BY <1>1, Euclid
<1>3. stop - 1 \in Nat
    OBVIOUS
<1>4. q \in Nat /\ q * Mb \in Nat /\ q * Mb <= stop - 1 /\ stop - 1 < q * Mb + Mb
    BY <1>1, <1>3, Euclid
<1>5. c * Mb \in Nat /\ (c * Mb) % Mb = 0 /\ (c + 1) * Mb = c * Mb + Mb
    BY <1>1, Multiple
<1>6. b <= c /\ c <= q
    OBVIOUS
<1>7. at = IF c = b THEN p ELSE c * Mb
    OBVIOUS
<1> HIDE DEF b, q
<1>8. c * Mb <= q * Mb
    BY <1>1, <1>4, <1>6, Monotone
<1>9. c * Mb <= at /\ at < c * Mb + Mb /\ at < stop
    BY <1>1, <1>2, <1>4, <1>5, <1>7, <1>8
<1>10. at % MaxChunk = 0
    BY <1>1, <1>5, <1>7, Divides
<1>11. to \in {c * Mb + Mb, stop} /\ to <= c * Mb + Mb /\ to <= stop
    BY <1>1, <1>5 DEF Least
<1>12. to > at /\ to - at \in Nat
    BY <1>1, <1>5, <1>9, <1>11
<1>13. at \div Mb = c
    BY <1>1, <1>9, QuotientIs
<1>14. to - 1 \in Nat /\ c * Mb <= to - 1 /\ to - 1 < c * Mb + Mb
    BY <1>1, <1>5, <1>9, <1>11, <1>12
<1>15. (to - 1) \div Mb = c
    BY <1>1, <1>14, QuotientIs
<1>16. at + (to - at) - 1 = to - 1 /\ at + (to - at) <= size
    BY <1>11, <1>12
<1>17. Legal(Piece(at, to - at))
    BY <1>10, <1>12, <1>13, <1>15, <1>16 DEF Legal, Piece
<1>18. ASSUME c < q PROVE to = (c + 1) * Mb
    <2>1. (c + 1) * Mb <= q * Mb
        BY <1>1, <1>4, <1>18, Monotone
    <2> QED BY <2>1, <1>1, <1>4, <1>5, <1>11 DEF Least
<1>19. ASSUME c = q PROVE to = stop
    BY <1>1, <1>4, <1>5, <1>19 DEF Least
<1> QED BY <1>17, <1>18, <1>19 DEF q

(* The windows are legal, follow each other without a gap, and are exactly *)
(* the bytes from p to stop.                                               *)
LEMMA WindowsAre ==
    ASSUME NEW p \in Nat, NEW rem \in Nat, size \in Nat,
           p % MaxChunk = 0 \/ p >= Least(p + rem, size)
    PROVE  /\ Windows(p, rem) \in Seq([at : Nat, len : Nat])
           /\ Windows(p, rem) = <<>> <=> p >= Least(p + rem, size)
           /\ \A k \in DOMAIN Windows(p, rem) : Legal(Windows(p, rem)[k])
           /\ Chained(Windows(p, rem))
           /\ Windows(p, rem) # <<>> =>
                  LET ws == Windows(p, rem) IN
                  /\ ws[1].at = p
                  /\ ws[Len(ws)].at + ws[Len(ws)].len = Least(p + rem, size)
<1> DEFINE ws == Windows(p, rem)
           stop == Least(p + rem, size)
           block == p \div Mb
           last == (stop - 1) \div Mb
           at(k) == IF k = 1 THEN p ELSE (block + k - 1) * Mb
           to(k) == Least((block + k) * Mb, stop)
<1>1. stop \in Nat /\ stop <= size
    BY DEF Least
<1>2. CASE p >= stop
    <2>1. ws = <<>>
        BY <1>2 DEF Windows
    <2> QED BY <1>2, <2>1 DEF Chained
<1>3. CASE p < stop
    <2>1. ws = [k \in 1 .. last - block + 1 |-> Piece(at(k), to(k) - at(k))]
        BY <1>1, <1>3 DEF Windows
    <2>2. p % MaxChunk = 0 /\ stop - 1 \in Nat /\ p <= stop - 1
        BY <1>1, <1>3
    <2>3. Mb \in Nat \ {0} /\ block \in Nat /\ last \in Nat
        BY <2>2, Chunks, Euclid
    <2>4. block <= last
        <3>1. block * Mb \in Nat /\ block * Mb <= p
            BY <2>3, Euclid
        <3>2. last * Mb \in Nat /\ stop - 1 < last * Mb + Mb
            BY <2>2, <2>3, Euclid
        <3>3. (last + 1) * Mb = last * Mb + Mb
            BY <2>3, Multiple
        <3>4. p < stop /\ stop \in Nat
            BY <1>1, <1>3
        <3> HIDE DEF last, block
        <3>5. ASSUME block > last PROVE FALSE
            <4>1. (last + 1) * Mb <= block * Mb
                BY <3>5, <2>3, Monotone
            <4> HIDE DEF stop
            <4> QED BY <4>1, <2>3, <3>1, <3>2, <3>3, <3>4
        <3> QED BY <3>5, <2>3
    <2> DEFINE n == last - block + 1
    <2>5. n \in Nat \ {0} /\ DOMAIN ws = 1 .. n /\ Len(ws) = n
        BY <2>1, <2>3, <2>4
    <2>6. ASSUME NEW k \in 1 .. n
          PROVE  /\ at(k) \in Nat /\ to(k) \in Nat
                 /\ Legal(ws[k]) /\ ws[k].at = at(k) /\ ws[k].at + ws[k].len = to(k)
                 /\ k < n => to(k) = at(k + 1)
                 /\ k = n => to(k) = stop
        <3> DEFINE c == block + k - 1
        <3>1. c \in Nat /\ block <= c /\ c <= last /\ c + 1 = block + k /\ (c = block <=> k = 1)
            BY <2>3, <2>4
        <3>2. c < last <=> k < n
            BY <2>3, <2>4
        <3>3. at(k) = IF c = block THEN p ELSE c * Mb
            BY <3>1
        <3>4. to(k) = Least((c + 1) * Mb, stop)
            BY <3>1
        <3> HIDE DEF c
        <3>5. c * Mb \in Nat /\ (c + 1) * Mb \in Nat
            BY <3>1, <2>3, Multiple
        <3>6. at(k) \in Nat /\ to(k) \in Nat
            BY <3>3, <3>4, <3>5, <1>1 DEF Least
        <3>7. /\ Legal(Piece(at(k), to(k) - at(k)))
              /\ c < last => to(k) = (c + 1) * Mb
              /\ c = last => to(k) = stop
            BY <1>1, <1>3, <2>2, <3>1, <3>3, <3>4, <3>6, WindowIs
        <3>8. ws[k] = Piece(at(k), to(k) - at(k))
            BY <2>1, <2>5
        <3>9. at(k + 1) = (c + 1) * Mb
            BY <3>1, <2>3
        <3>10. k = n <=> c = last
            BY <2>3 DEF c
        <3> HIDE DEF at, to
        <3>11. ws[k].at = at(k) /\ ws[k].at + ws[k].len = to(k)
            BY <3>6, <3>8 DEF Piece
        <3> QED BY <3>1, <3>2, <3>6, <3>7, <3>8, <3>9, <3>10, <3>11
    <2>7. \A k \in DOMAIN ws : Legal(ws[k])
        BY <2>5, <2>6
    <2>8. ws \in Seq([at : Nat, len : Nat])
        <3>1. \A k \in 1 .. n : ws[k] \in [at : Nat, len : Nat]
            <4>1. ASSUME NEW k \in 1 .. n PROVE ws[k] \in [at : Nat, len : Nat]
                <5>1. ws[k] = Piece(at(k), to(k) - at(k)) /\ Legal(ws[k])
                    BY <2>1, <2>5, <2>6
                <5> HIDE DEF at, to, ws
                <5> QED BY <5>1 DEF Piece, Legal
            <4> QED BY <4>1
        <3>2. ws = [k \in 1 .. n |-> ws[k]]
            BY <2>1
        <3> HIDE DEF ws, n
        <3> DEFINE Ws == [at : Nat, len : Nat]
        <3>3. ws \in [1 .. n -> Ws]
            BY <3>1, <3>2
        <3> HIDE DEF Ws
        <3>4. n \in Nat
            BY <2>5
        <3>5. ws \in Seq(Ws)
            BY <3>3, <3>4, SeqDef, ZenonT(30)
        <3> QED BY <3>5 DEF Ws
    <2>9. Chained(ws)
        <3>1. ASSUME NEW k \in 1 .. Len(ws) - 1 PROVE ws[k + 1].at = ws[k].at + ws[k].len
            <4>1. k \in 1 .. n /\ k + 1 \in 1 .. n /\ k < n
                BY <2>5
            <4>2. ws[k].at + ws[k].len = to(k) /\ to(k) = at(k + 1)
                BY <2>6, <4>1
            <4>3. ws[k + 1].at = at(k + 1)
                BY <2>6, <4>1
            <4> QED BY <4>2, <4>3
        <3> HIDE DEF ws
        <3> QED BY <3>1 DEF Chained
    <2>10. ws # <<>> /\ ws[1].at = p /\ ws[Len(ws)].at + ws[Len(ws)].len = stop
        <3>1. 1 \in 1 .. n /\ n \in 1 .. n
            BY <2>5
        <3>2. ws[1].at = at(1) /\ ws[n].at + ws[n].len = to(n) /\ to(n) = stop
            BY <2>6, <3>1
        <3>3. at(1) = p
            OBVIOUS
        <3> HIDE DEF ws
        <3> QED BY <2>5, <3>2, <3>3
    <2> HIDE DEF ws, stop
    <2>11. QED
        BY <1>1, <1>3, <2>7, <2>8, <2>9, <2>10 DEF ws, stop
<1> QED BY <1>1, <1>2, <1>3

(* A legal window is two parts at most.                                    *)
LEMMA TwoParts ==
    ASSUME NEW w, Legal(w)
    PROVE  PartsOf(w) <= Mb \div MaxChunk
<1> DEFINE at == w.at
           len == w.len
           limit == PlanLimit(w.at, w.len)
           block == at \div Mb
<1>1. at \in Nat /\ len \in Nat /\ len > 0 /\ at % MaxChunk = 0 /\ block = (at + len - 1) \div Mb
    BY DEF Legal
<1>2. Mb \in Nat \ {0} /\ MaxChunk \in Nat \ {0} /\ MinChunk \in Nat \ {0} /\ Mb = 2 * MaxChunk
    BY Chunks
<1>3. MaxChunk % MinChunk = 0 /\ \A v \in PartSizes : v \in Nat \ {0} /\ MaxChunk % v = 0
    BY Chunks
<1> HIDE DEF at, len
<1>4. at % MinChunk = 0
    BY <1>1, <1>2, <1>3, Divides
<1>5. limit \in PartSizes
    BY <1>1, <1>4, LimitIs DEF at, len
<1>6. \A v \in PartSizes : v <= Least(len, Mb - (at % Mb)) /\ at % v = 0 => limit >= v
    BY <1>1, <1>4, LimitIs DEF at, len
<1>7. \A v \in PartSizes : at % v = 0
    BY <1>1, <1>2, <1>3, Divides
<1>8. len <= Mb - (at % Mb)
    <2>1. at % Mb = at - block * Mb /\ block * Mb \in Nat
        BY <1>1, <1>2, Euclid
    <2>2. at + len - 1 \in Nat /\ at + len - 1 < block * Mb + Mb
        <3>1. at + len - 1 \in Nat /\ block = (at + len - 1) \div Mb
            BY <1>1
        <3> DEFINE upto == at + len - 1
        <3>2. upto \in Nat /\ block = upto \div Mb
            BY <3>1
        <3> HIDE DEF upto, block
        <3>3. upto < (upto \div Mb) * Mb + Mb
            BY <1>2, <3>2, Euclid
        <3> QED BY <3>1, <3>2, <3>3 DEF upto
    <2>3. at \in Nat /\ len \in Nat
        BY <1>1
    <2> DEFINE off == at % Mb
               first == block * Mb
    <2>4. off = at - first /\ first \in Nat /\ at + len - 1 < first + Mb
        BY <2>1, <2>2
    <2> HIDE DEF off, first
    <2>5. len <= Mb - off
        BY <2>3, <2>4, <1>2
    <2> QED BY <2>5 DEF off
<1>9. at % Mb \in Nat
    BY <1>1, <1>2, Euclid
<1>10. \A v \in PartSizes : v <= len => limit >= v
    BY <1>1, <1>2, <1>6, <1>7, <1>8, <1>9 DEF Least
<1> HIDE DEF limit
<1>11. limit \in Nat \ {0} /\ (limit = MaxChunk \/ 2 * limit \in PartSizes)
    BY <1>5, Chunks
<1>12. len <= 2 * limit
    <2>1. CASE limit = MaxChunk
        <3>1. at % Mb >= 0
            BY <1>1, <1>2, Euclid
        <3>2. len <= Mb
            BY <1>1, <1>2, <1>8, <1>9, <3>1
        <3> QED BY <2>1, <1>2, <3>2
    <2>2. CASE 2 * limit \in PartSizes
        BY <2>2, <1>1, <1>10, <1>11
    <2> QED BY <2>1, <2>2, <1>11
<1> DEFINE parts == (len + limit - 1) \div limit
<1>13. len + limit - 1 \in Nat
    BY <1>1, <1>11
<1>14. parts \in Nat /\ parts * limit <= len + limit - 1
    BY <1>11, <1>13, Euclid
<1> HIDE DEF parts
<1>15. ASSUME parts >= 3 PROVE FALSE
    <2>1. 3 * limit <= parts * limit
        BY <1>11, <1>14, <1>15, Monotone
    <2>2. parts * limit \in Nat
        BY <1>11, <1>14
    <2> QED BY <2>1, <2>2, <1>1, <1>11, <1>12, <1>14
<1>16. parts <= 2
    BY <1>14, <1>15
<1>17. Mb \div MaxChunk = 2
    BY <1>2, Multiple
<1> QED BY <1>16, <1>17 DEF PartsOf, parts, limit, at, len

-----------------------------------------------------------------------------
(* The Range *)

LEMMA SizesAre == Sizes \subseteq Nat \ {0} /\ MaxAttempts \in Nat \ {0} /\ Depth \in Nat \ {0}
BY SizesAssumption, HeadAssumption

(* What is accepted is what was asked for, and what is refused is nothing. *)
LEMMA ParseIs ==
    ASSUME NEW h \in Bounds \X Bounds, NEW n \in Nat \ {0}
    PROVE  \/ Parse(h, n) = NoBytes /\ Asked(h, n) = {}
           \/ /\ Parse(h, n) # NoBytes
              /\ Parse(h, n).first \in Nat /\ Parse(h, n).last \in Nat
              /\ Parse(h, n).first <= Parse(h, n).last /\ Parse(h, n).last < n
              /\ Parse(h, n).first .. Parse(h, n).last = Asked(h, n)
<1>1. PICK f \in Bounds, l \in Bounds : h = <<f, l>>
    OBVIOUS
<1>2. h[1] = f /\ h[2] = l /\ h # NoRange
    BY <1>1 DEF NoRange
<1>3. (f \in Nat \/ f = Blank \/ f = Junk) /\ (l \in Nat \/ l = Blank \/ l = Junk)
    BY SizesAssumption DEF Bounds
<1>4. Blank \notin Nat /\ Junk \notin Nat /\ Blank # Junk
    BY BoundsAssumption
<1> DEFINE last == IF l \in {Blank, Junk} THEN n - 1 ELSE Least(l, n - 1)
<1>5. Parse(h, n) =
          IF f = Junk \/ (f = Blank /\ l \in {Blank, Junk, 0}) THEN NoBytes
          ELSE IF f = Blank THEN [first |-> Minus(n, l), last |-> n - 1]
          ELSE IF f >= n \/ last < f THEN NoBytes
          ELSE [first |-> f, last |-> last]
    BY <1>2 DEF Parse
<1>6. Asked(h, n) = {b \in 0 .. n - 1 :
          /\ f # Junk
          /\ f \in Nat => b >= f /\ (l \in Nat => b <= l)
          /\ f = Blank => l \in Nat /\ b >= n - l}
    BY <1>2 DEF Asked
<1>7. NoBytes.last = -1
    BY DEF NoBytes
<1>8. CASE f = Junk \/ (f = Blank /\ l \in {Blank, Junk, 0})
    <2>1. Parse(h, n) = NoBytes
        BY <1>5, <1>8
    <2>2. \A b \in 0 .. n - 1 : ~ (/\ f # Junk /\ (f = Blank => l \in Nat /\ b >= n - l))
        BY <1>4, <1>8
    <2> QED BY <1>6, <2>1, <2>2
<1>9. CASE f = Blank /\ l \notin {Blank, Junk, 0}
    <2>1. l \in Nat \ {0}
        BY <1>3, <1>9
    <2>2. Parse(h, n) = [first |-> Minus(n, l), last |-> n - 1]
        BY <1>4, <1>5, <1>9
    <2>3. Asked(h, n) = {b \in 0 .. n - 1 : b >= n - l}
        <3>1. f # Junk /\ f \notin Nat /\ f = Blank /\ l \in Nat
            BY <1>4, <1>9, <2>1
        <3>2. \A b \in 0 .. n - 1 :
                  (/\ f # Junk
                   /\ f \in Nat => b >= f /\ (l \in Nat => b <= l)
                   /\ f = Blank => l \in Nat /\ b >= n - l) <=> b >= n - l
            BY <3>1
        <3> QED BY <1>6, <3>2
    <2>4. Minus(n, l) .. n - 1 = {b \in 0 .. n - 1 : b >= n - l}
        BY <2>1 DEF Minus
    <2>5. Minus(n, l) \in Nat /\ Minus(n, l) <= n - 1 /\ n - 1 \in Nat
        BY <2>1 DEF Minus
    <2> QED BY <1>7, <2>2, <2>3, <2>4, <2>5
<1>10. CASE f \in Nat
    <2>1. f # Junk /\ f # Blank
        BY <1>4, <1>10
    <2>2. Asked(h, n) = {b \in 0 .. n - 1 : b >= f /\ (l \in Nat => b <= l)}
        BY <1>6, <1>10, <2>1
    <2>3. last \in Int /\ last <= n - 1 /\ \A b \in 0 .. n - 1 : (l \in Nat => b <= l) <=> b <= last
        <3>1. CASE l \in Nat
            <4>1. last = Least(l, n - 1)
                BY <1>4, <3>1
            <4>2. last = (IF l < n - 1 THEN l ELSE n - 1)
                BY <4>1 DEF Least
            <4> HIDE DEF last
            <4> QED BY <3>1, <4>2
        <3>2. CASE l \notin Nat
            <4>1. last = n - 1
                BY <1>3, <3>2
            <4> HIDE DEF last
            <4> QED BY <3>2, <4>1
        <3> QED BY <3>1, <3>2
    <2> HIDE DEF last
    <2>4. CASE f >= n \/ last < f
        <3>1. Parse(h, n) = NoBytes
            BY <1>5, <2>1, <2>4
        <3>2. Asked(h, n) = {}
            BY <1>10, <2>2, <2>3, <2>4
        <3> QED BY <3>1, <3>2
    <2>5. CASE ~ (f >= n \/ last < f)
        <3>1. Parse(h, n) = [first |-> f, last |-> last]
            BY <1>5, <2>1, <2>5
        <3>2. f <= last /\ last < n /\ last \in Nat
            BY <1>10, <2>3, <2>5
        <3>3. f .. last = {b \in 0 .. n - 1 : b >= f /\ b <= last}
            BY <1>10, <3>2
        <3>4. Asked(h, n) = f .. last
            BY <1>10, <2>2, <2>3, <3>3
        <3> QED BY <1>7, <1>10, <3>1, <3>2, <3>4
    <2> QED BY <2>4, <2>5
<1> QED BY <1>3, <1>8, <1>9, <1>10

(* Without a Range all of the file is asked for.                           *)
LEMMA AllIs ==
    ASSUME NEW n \in Nat \ {0}
    PROVE  Asked(NoRange, n) = 0 .. n - 1
BY DEF Asked

-----------------------------------------------------------------------------
(* The steps *)

(* Before the headers nothing is planned or sent, and an attempt that      *)
(* fails is one at the head.                                               *)
Early ==
    /\ stage = "asked" => attempt = 0
    /\ stage \in {"asked", "prime"} => plan = <<>> /\ taken = 0 /\ ready = {} /\ sent = {}

(* Once it was accepted the Range is inside the file.                      *)
Ranged ==
    stage \in {"prime", "body"} => start <= end /\ end < declared

(* The window that is next in the plan is where the body is, and with a    *)
(* plan nothing is left to throw away.                                     *)
InPlace ==
    stage = "body" =>
        /\ remaining <= Total
        /\ Len(plan) > 0 => skip = 0
        /\ taken < Len(plan) /\ remaining > 0 => plan[taken + 1].at = start + (Total - remaining)

(* The plan reaches the end of what was asked for, if the file does.       *)
Reaches ==
    stage = "body" /\ size > end =>
        /\ taken < Len(plan) /\ remaining > 0 =>
               plan[Len(plan)].at + plan[Len(plan)].len = end + 1
        /\ taken = Len(plan) => remaining = 0

PlanInv ==
    /\ plan \in Seq([at : Nat, len : Nat])
    /\ \A k \in DOMAIN plan : Legal(plan[k])
    /\ Chained(plan)

IInv ==
    /\ TypeOK /\ PlanInv /\ Early /\ Ranged /\ InPlace /\ Reaches
    /\ BytesInOrder /\ WholeBody /\ RangeIsWhatWasAsked

(* What the head leaves: a plan is needed only for a head that came whole  *)
(* and ends where a part can, at what is to be sent next.                  *)
LEMMA CommitIs ==
    ASSUME Inside,
           NEW got, got = Primed.len,
           NEW take, take = IF start - Aligned < got
                            THEN Least(got - (start - Aligned), Total) ELSE 0,
           NEW left, left = IF take > 0 THEN 0
                            ELSE IF got > 0 THEN Minus(start - Aligned, got) ELSE start - Aligned,
           NEW p, p = Aligned + got,
           NEW rem, rem = (Total - take) + left
    PROVE  /\ take \in Nat /\ take <= Total /\ left \in Nat /\ p \in Nat /\ rem \in Nat
           /\ p % MaxChunk = 0 \/ p >= Least(p + rem, size)
           /\ p < Least(p + rem, size) =>
                  take > 0 /\ take < Total /\ p = start + take
                  /\ (size > end => Least(p + rem, size) = end + 1)
           /\ p >= Least(p + rem, size) /\ size > end => take = Total
<1>1. start \in Nat /\ end \in Nat /\ declared \in Nat /\ size \in Nat /\ start <= end /\ end < declared
    BY DEF Inside
<1>2. Aligned \in Nat /\ Aligned <= start /\ start < Aligned + Mb /\ Aligned % MaxChunk = 0
    BY <1>1, AlignedIs
<1>3. HeadWant \in Nat /\ HeadWant > start - Aligned
    BY HeadIs
<1>4. HeadWant % MaxChunk = 0 \/ HeadWant = declared - Aligned
    BY HeadIs
<1>5. got = Least(HeadWant, Minus(size, Aligned))
    BY PrimedIs
<1>6. Mb \in Nat /\ MaxChunk \in Nat \ {0} /\ Total = end - start + 1
    BY Chunks DEF Total
<1> DEFINE stop == Least(p + rem, size)
<1>7. got \in Nat /\ got <= HeadWant /\ (size > Aligned => got <= size - Aligned)
    BY <1>1, <1>2, <1>3, <1>5 DEF Least, Minus
<1>8. take \in Nat /\ take <= Total
    BY <1>1, <1>2, <1>6, <1>7 DEF Least
<1>9. left \in Nat
    BY <1>1, <1>2, <1>7 DEF Minus
<1>10. p \in Nat /\ rem \in Nat
    BY <1>1, <1>2, <1>6, <1>7, <1>8, <1>9
<1>11. ASSUME p < stop
       PROVE  take > 0 /\ take < Total /\ p = start + take /\ got = HeadWant /\ left = 0
    <2>1. p < size /\ p < p + rem
        BY <1>1, <1>10, <1>11 DEF Least
    <2>2. got = HeadWant
        BY <2>1, <1>1, <1>2, <1>3, <1>5, <1>7 DEF Least, Minus
    <2>3. take = Least(HeadWant - (start - Aligned), Total) /\ take > 0
        BY <2>2, <1>1, <1>2, <1>3, <1>6 DEF Least
    <2>4. left = 0 /\ rem = Total - take
        BY <2>3, <1>6, <1>8, <1>1
    <2>5. take < Total
        BY <2>1, <2>4, <1>1, <1>6, <1>8, <1>10
    <2>6. take = HeadWant - (start - Aligned)
        BY <2>3, <2>5, <1>1, <1>2, <1>3, <1>6 DEF Least
    <2> QED BY <2>2, <2>3, <2>4, <2>5, <2>6, <1>1, <1>2, <1>3
<1>12. ASSUME p < stop PROVE p % MaxChunk = 0
    <2>1. take < Total /\ p = start + take /\ p = Aligned + HeadWant
        BY <1>11, <1>12
    <2>2. HeadWant # declared - Aligned
        BY <2>1, <1>1, <1>2, <1>3, <1>6, <1>8
    <2>3. (Aligned + HeadWant) % MaxChunk = 0
        BY <2>2, <1>2, <1>3, <1>4, <1>6, DividesSum
    <2> QED BY <2>1, <2>3
<1>13. ASSUME p < stop, size > end PROVE stop = end + 1
    BY <1>11, <1>13, <1>1, <1>6, <1>8 DEF Least
<1>14. ASSUME p >= stop, size > end PROVE take = Total
    <2>1. size > Aligned /\ got <= size - Aligned /\ p <= size
        BY <1>14, <1>1, <1>2, <1>7
    <2>2. CASE rem = 0
        <3> DEFINE rest == Total - take
        <3>1. Total \in Nat
            BY <1>1, <1>6
        <3>2. rest \in Nat /\ rest + left = 0
            BY <2>2, <3>1, <1>8
        <3> HIDE DEF rest
        <3>3. rest = 0
            BY <3>2, <1>9
        <3>4. Total - take = 0
            BY <3>3 DEF rest
        <3> QED BY <3>1, <3>4, <1>8
    <2>3. CASE rem > 0
        <3>1. p = size
            BY <2>1, <2>3, <1>1, <1>10, <1>14 DEF Least
        <3>2. got = size - Aligned /\ got > start - Aligned
            BY <3>1, <1>14, <1>1, <1>2, <1>7
        <3>3. take = Least(got - (start - Aligned), Total)
            BY <3>2
        <3> QED BY <3>2, <3>3, <1>14, <1>1, <1>2, <1>6, <1>7 DEF Least
    <2> QED BY <2>2, <2>3, <1>10
<1>15. p < stop \/ p >= stop
    BY <1>1, <1>10 DEF Least
<1> HIDE DEF stop
<1>16. p % MaxChunk = 0 \/ p >= stop
    BY <1>12, <1>15
<1>17. p < stop => take > 0 /\ take < Total /\ p = start + take /\ (size > end => stop = end + 1)
    BY <1>11, <1>13
<1>18. p >= stop /\ size > end => take = Total
    BY <1>14
<1> QED BY <1>8, <1>9, <1>10, <1>16, <1>17, <1>18 DEF stop

LEMMA TypeIs ==
    TypeOK =>
        /\ declared \in Nat \ {0} /\ size \in Nat \ {0} /\ start \in Nat /\ end \in Nat
        /\ attempt \in Nat /\ skip \in Nat /\ remaining \in Nat
BY SizesAssumption DEF TypeOK

LEMMA InitInv == Init => IInv
<1> SUFFICES ASSUME Init PROVE IInv
    OBVIOUS
<1>1. TypeOK
    BY SizesAssumption DEF Init, TypeOK, Stages
<1>2. PlanInv
    BY DEF Init, PlanInv, Chained
<1> QED BY <1>1, <1>2 DEF Init, IInv, Early, Ranged, InPlace, Reaches, BytesInOrder, WholeBody,
                          RangeIsWhatWasAsked

LEMMA AcceptInv == IInv /\ Accept => IInv'
<1> SUFFICES ASSUME IInv, Accept PROVE IInv'
    OBVIOUS
<1> DEFINE r == IF header = NoRange THEN [first |-> 0, last |-> declared - 1]
                ELSE Parse(header, declared)
<1>1. declared \in Nat \ {0} /\ header \in Headers
    BY TypeIs DEF IInv, TypeOK
<1>2. /\ r.first \in Nat /\ r.last \in Nat /\ r.first <= r.last /\ r.last < declared
      /\ r.first .. r.last = Asked(header, declared)
    <2>1. CASE header = NoRange
        <3>1. r = [first |-> 0, last |-> declared - 1]
            BY <2>1
        <3> HIDE DEF r
        <3> QED BY <1>1, <2>1, <3>1, AllIs
    <2>2. CASE header # NoRange
        <3>1. r = Parse(header, declared) /\ r # NoBytes
            BY <2>2 DEF Accept
        <3> HIDE DEF r
        <3> QED BY <1>1, <2>2, <3>1, ParseIs DEF Headers
    <2> QED BY <2>1, <2>2
<1>3. /\ stage = "asked" /\ stage' = "prime" /\ start' = r.first /\ end' = r.last
      /\ UNCHANGED <<header, declared, size, attempt, skip, remaining, plan, taken, ready, sent>>
    BY DEF Accept
<1> HIDE DEF r
<1>4. plan = <<>> /\ taken = 0 /\ ready = {} /\ sent = {}
    BY <1>3 DEF IInv, Early
<1>5. TypeOK'
    BY <1>2, <1>3, <1>4 DEF IInv, TypeOK, Stages
<1>6. PlanInv'
    BY <1>3, <1>4 DEF PlanInv, Chained
<1>7. RangeIsWhatWasAsked'
    BY <1>2, <1>3 DEF RangeIsWhatWasAsked, Asked
<1>8. Early' /\ Ranged' /\ InPlace' /\ Reaches' /\ BytesInOrder' /\ WholeBody'
    BY <1>2, <1>3, <1>4 DEF Early, Ranged, InPlace, Reaches, BytesInOrder, WholeBody
<1> QED BY <1>5, <1>6, <1>7, <1>8 DEF IInv

LEMMA UnsatisfiableInv == IInv /\ Unsatisfiable => IInv'
<1> SUFFICES ASSUME IInv, Unsatisfiable PROVE IInv'
    OBVIOUS
<1>1. declared \in Nat \ {0} /\ header \in Bounds \X Bounds /\ Parse(header, declared) = NoBytes
    BY TypeIs DEF IInv, TypeOK, Unsatisfiable, Headers
<1>2. Asked(header, declared) = {}
    BY <1>1, ParseIs
<1>3. /\ stage = "asked" /\ stage' = "refused"
      /\ UNCHANGED <<header, declared, size, start, end, attempt, skip, remaining, plan, taken, ready, sent>>
    BY DEF Unsatisfiable
<1>4. plan = <<>> /\ attempt = 0 /\ sent = {}
    BY <1>3 DEF IInv, Early
<1>5. TypeOK'
    BY <1>3 DEF IInv, TypeOK, Stages
<1>6. PlanInv'
    BY <1>3, <1>4 DEF PlanInv, Chained
<1>7. RangeIsWhatWasAsked'
    BY <1>2, <1>3, <1>4 DEF RangeIsWhatWasAsked, Asked
<1>8. Early' /\ Ranged' /\ InPlace' /\ Reaches' /\ BytesInOrder' /\ WholeBody'
    BY <1>3, <1>4 DEF Early, Ranged, InPlace, Reaches, BytesInOrder, WholeBody
<1> QED BY <1>5, <1>6, <1>7, <1>8 DEF IInv

(* After Accept the Range is right and stays as it is.                     *)
LEMMA RangeStays ==
    ASSUME RangeIsWhatWasAsked, stage \in {"prime", "body"},
           UNCHANGED <<header, declared, start, end>>
    PROVE  RangeIsWhatWasAsked'
BY DEF RangeIsWhatWasAsked, Asked

LEMMA HeadFailsInv == IInv /\ HeadFails => IInv'
<1> SUFFICES ASSUME IInv, HeadFails PROVE IInv'
    OBVIOUS
<1>1. /\ stage = "prime" /\ attempt < MaxAttempts /\ attempt' = attempt + 1
      /\ stage' \in {"prime", "broken"} /\ size' \in Sizes
      /\ UNCHANGED <<header, declared, start, end, skip, remaining, plan, taken, ready, sent>>
    BY DEF HeadFails, IInv, TypeOK
<1>2. plan = <<>> /\ taken = 0 /\ ready = {} /\ sent = {}
    BY <1>1 DEF IInv, Early
<1>3. TypeOK'
    BY <1>1, <1>2, SizesAre DEF IInv, TypeOK, Stages
<1>4. PlanInv'
    BY <1>1, <1>2 DEF PlanInv, Chained
<1>5. RangeIsWhatWasAsked'
    BY <1>1, RangeStays DEF IInv
<1>6. Early' /\ Ranged' /\ InPlace' /\ Reaches' /\ BytesInOrder' /\ WholeBody'
    BY <1>1, <1>2 DEF IInv, Early, Ranged, InPlace, Reaches, BytesInOrder, WholeBody
<1> QED BY <1>3, <1>4, <1>5, <1>6 DEF IInv

(* A step that only ends the download; Finish has more to show.            *)
LEMMA EndInv ==
    ASSUME IInv, stage \in {"prime", "body"}, stage' \in {"refused", "broken", "closed", "done"},
           stage' = "done" /\ size > end => remaining = 0,
           UNCHANGED <<header, declared, size, start, end, attempt, skip, remaining, plan, taken, ready, sent>>
    PROVE  IInv'
<1>1. TypeOK'
    BY DEF IInv, TypeOK, Stages
<1>2. PlanInv'
    <2>1. plan \in Seq([at : Nat, len : Nat]) /\ (\A k \in DOMAIN plan : Legal(plan[k])) /\ Chained(plan)
        BY DEF IInv, PlanInv
    <2>2. (\A k \in DOMAIN plan' : Legal(plan[k])') /\ Chained(plan)'
        BY <2>1 DEF Legal, Chained
    <2> QED BY <2>1, <2>2 DEF PlanInv
<1>3. RangeIsWhatWasAsked'
    BY RangeStays DEF IInv
<1>4. BytesInOrder'
    BY DEF IInv, BytesInOrder
<1>5. Early' /\ Ranged' /\ InPlace' /\ Reaches' /\ WholeBody'
    BY DEF IInv, Early, Ranged, InPlace, Reaches, WholeBody
<1> QED BY <1>1, <1>2, <1>3, <1>4, <1>5 DEF IInv

LEMMA CommitInv == IInv /\ Commit => IInv'
<1> SUFFICES ASSUME IInv, Commit PROVE IInv'
    OBVIOUS
<1>1. stage = "prime" /\ plan = <<>> /\ taken = 0 /\ ready = {} /\ sent = {}
    BY DEF IInv, Commit, Early
<1>2. Inside
    BY <1>1, TypeIs DEF IInv, Inside, Ranged
<1> DEFINE before == start - Aligned
           got == Primed.len
           take == IF before < got THEN Least(got - before, Total) ELSE 0
           left == IF take > 0 THEN 0 ELSE IF got > 0 THEN Minus(before, got) ELSE before
           p == Aligned + got
           rem == (Total - take) + left
           ws == Windows(p, rem)
           stop == Least(p + rem, size)
<1>3. /\ stage' = "body"
      /\ sent' = (IF take = 0 THEN {} ELSE {[off |-> 0, at |-> start, len |-> take]})
      /\ remaining' = Total - take
      /\ skip' = left
      /\ plan' = ws
      /\ UNCHANGED <<header, declared, size, start, end, attempt, taken, ready>>
    BY DEF Commit
<1>4. /\ take \in Nat /\ take <= Total /\ left \in Nat /\ p \in Nat /\ rem \in Nat
      /\ p % MaxChunk = 0 \/ p >= stop
      /\ p < stop => take > 0 /\ take < Total /\ p = start + take /\ (size > end => stop = end + 1)
      /\ p >= stop /\ size > end => take = Total
    BY <1>2, CommitIs
<1>5. size \in Nat /\ start \in Nat /\ end \in Nat /\ Total \in Nat /\ Total = end - start + 1
    BY <1>2 DEF Inside, Total
<1>6. p < stop => left = 0
    BY <1>4
<1>7. p < stop \/ p >= stop
    BY <1>4, <1>5 DEF Least
<1> HIDE DEF take, left, p, rem
<1>8. /\ ws \in Seq([at : Nat, len : Nat])
      /\ ws = <<>> <=> p >= stop
      /\ \A k \in DOMAIN ws : Legal(ws[k])
      /\ Chained(ws)
      /\ ws # <<>> => ws[1].at = p /\ ws[Len(ws)].at + ws[Len(ws)].len = stop
    BY <1>4, <1>5, WindowsAre
<1> HIDE DEF ws, stop
<1>9. Len(ws) \in Nat /\ DOMAIN ws = 1 .. Len(ws) /\ (ws = <<>> <=> Len(ws) = 0)
    BY <1>8
<1>10. TypeOK'
    <2>1. \A k \in DOMAIN plan' : Windowed(plan'[k])
        BY <1>3, <1>8 DEF Legal, Windowed
    <2>2. \A c \in sent' : c.off \in Nat /\ Windowed(c)
        BY <1>3, <1>4, <1>5 DEF Windowed
    <2>3. remaining' \in Nat /\ skip' \in Nat
        BY <1>3, <1>4, <1>5
    <2>4. taken' \in 0 .. Len(plan') /\ ready' \subseteq taken' + 1 .. Least(taken' + Depth, Len(plan'))
        BY <1>1, <1>3, <1>9
    <2> QED BY <1>3, <2>1, <2>2, <2>3, <2>4 DEF IInv, TypeOK, Stages
<1>11. PlanInv'
    BY <1>3, <1>8 DEF PlanInv, Legal, Chained
<1>12. Early' /\ Ranged' /\ WholeBody'
    BY <1>1, <1>3 DEF IInv, Early, Ranged, WholeBody
<1>13. Total' = Total
    BY <1>3 DEF Total
<1>14. InPlace'
    <2>1. remaining' <= Total
        BY <1>3, <1>4, <1>5
    <2>2. ASSUME Len(ws) > 0 PROVE skip' = 0 /\ ws[1].at = start + (Total - remaining')
        <3>1. ws # <<>> /\ p < stop
            BY <2>2, <1>8, <1>7, <1>9
        <3>2. ws[1].at = p /\ p = start + take /\ left = 0
            BY <3>1, <1>4, <1>8, <1>6
        <3>3. Total - (Total - take) = take
            BY <1>4, <1>5
        <3> QED BY <3>2, <3>3, <1>3
    <2>3. taken' = 0 /\ plan' = ws /\ start' = start
        BY <1>1, <1>3
    <2> QED BY <2>1, <2>2, <2>3, <1>13, <1>9 DEF InPlace
<1>15. Reaches'
    <2>1. ASSUME size > end, Len(ws) > 0 PROVE ws[Len(ws)].at + ws[Len(ws)].len = end + 1
        BY <2>1, <1>4, <1>8, <1>7, <1>9
    <2>2. ASSUME size > end, Len(ws) = 0 PROVE remaining' = 0
        BY <2>2, <1>3, <1>4, <1>5, <1>8, <1>9
    <2>3. taken' = 0 /\ plan' = ws /\ size' = size /\ end' = end
        BY <1>1, <1>3
    <2> QED BY <2>1, <2>2, <2>3, <1>9 DEF Reaches
<1>16. BytesInOrder'
    BY <1>3, <1>5 DEF BytesInOrder
<1>17. RangeIsWhatWasAsked'
    BY <1>1, <1>3, RangeStays DEF IInv
<1> QED BY <1>10, <1>11, <1>12, <1>14, <1>15, <1>16, <1>17 DEF IInv

LEMMA PlanStays ==
    ASSUME PlanInv, UNCHANGED <<plan, size>>
    PROVE  PlanInv'
BY DEF PlanInv, Legal, Chained

LEMMA ReadyInv == ASSUME IInv, NEW k \in 1 .. Len(plan), Ready(k) PROVE IInv'
<1>1. /\ stage = "body" /\ k \in taken + 1 .. Least(taken + Depth, Len(plan))
      /\ ready' = ready \cup {k}
      /\ UNCHANGED <<stage, header, declared, size, start, end, attempt, skip, remaining, plan, taken, sent>>
    BY DEF Ready
<1>2. TypeOK'
    BY <1>1 DEF IInv, TypeOK
<1>3. PlanInv'
    BY <1>1, PlanStays DEF IInv
<1>4. RangeIsWhatWasAsked'
    BY <1>1, RangeStays DEF IInv
<1>5. Early' /\ Ranged' /\ InPlace' /\ Reaches' /\ WholeBody'
    BY <1>1 DEF IInv, Early, Ranged, InPlace, Reaches, WholeBody, Total
<1>6. BytesInOrder'
    BY <1>1 DEF IInv, BytesInOrder
<1> QED BY <1>2, <1>3, <1>4, <1>5, <1>6 DEF IInv

(* The next window goes out whole, or as much of it as is still asked for: *)
(* nothing of it is thrown away, and it goes on where the body is.         *)
LEMMA EmitIs ==
    ASSUME IInv, Emit
    PROVE  \E n \in Nat \ {0} :
               /\ n <= remaining /\ n <= plan[taken + 1].len
               /\ n < remaining => n = plan[taken + 1].len
               /\ remaining' = remaining - n
               /\ sent' = sent \cup {[off |-> Total - remaining, at |-> plan[taken + 1].at, len |-> n]}
               /\ plan[taken + 1].at = start + (Total - remaining)
<1> DEFINE k == taken + 1
           w == plan[k]
           data == Fetch(w.at, w.len)
           cut == Least(skip, data.len)
           take == Least(data.len - cut, remaining)
<1>1. /\ stage = "body" /\ remaining > 0 /\ k \in ready
      /\ sent' = (IF take = 0 THEN sent
                  ELSE sent \cup {[off |-> Total - remaining, at |-> data.at + cut, len |-> take]})
      /\ remaining' = remaining - take
      /\ skip' = 0
      /\ taken' = k
      /\ ready' = ready \ {k}
      /\ UNCHANGED <<stage, header, declared, size, start, end, attempt, plan>>
    BY DEF Emit, Send
<1>2. /\ size \in Nat /\ start \in Nat /\ end \in Nat /\ skip \in Nat /\ remaining \in Nat
      /\ start <= end
    BY <1>1, TypeIs DEF IInv, Ranged
<1>3. Total \in Nat /\ remaining <= Total /\ Total = end - start + 1
    BY <1>1, <1>2 DEF IInv, InPlace, Total
<1>4. Len(plan) \in Nat /\ DOMAIN plan = 1 .. Len(plan)
    BY DEF IInv, PlanInv
<1>5. taken \in 0 .. Len(plan) /\ ready \subseteq taken + 1 .. Least(taken + Depth, Len(plan))
    BY DEF IInv, TypeOK
<1>6. k \in 1 .. Len(plan) /\ taken < Len(plan)
    BY <1>1, <1>4, <1>5, SizesAre DEF Least
<1>7. Legal(w)
    BY <1>4, <1>6 DEF IInv, PlanInv
<1>8. skip = 0 /\ w.at = start + (Total - remaining)
    BY <1>1, <1>4, <1>6 DEF IInv, InPlace
<1>9. data.at = w.at /\ data.len = w.len
    <2>1. w.at \in Nat /\ w.len \in Nat /\ w.at + w.len <= size /\ w.len > 0 /\ w.at % MaxChunk = 0
        BY <1>7 DEF Legal
    <2>2. w.at % MinChunk = 0
        <3>1. MaxChunk \in Nat \ {0} /\ MinChunk \in Nat \ {0} /\ MaxChunk % MinChunk = 0
            BY Chunks
        <3> HIDE DEF w
        <3> QED BY <2>1, <3>1, Divides
    <2> HIDE DEF w
    <2>3. data = Piece(w.at, Least(w.len, Minus(size, w.at)))
        BY <2>1, <2>2, FetchIs
    <2>4. Least(w.len, Minus(size, w.at)) = w.len
        BY <1>2, <2>1 DEF Least, Minus
    <2> QED BY <2>3, <2>4 DEF Piece
<1>10. w.at \in Nat /\ w.len \in Nat /\ w.len > 0
    BY <1>7 DEF Legal
<1> HIDE DEF w
<1>11. cut = 0
    BY <1>8, <1>9, <1>10 DEF Least
<1>12. take = Least(w.len, remaining)
    <2> HIDE DEF data, cut
    <2> QED BY <1>9, <1>10, <1>11
<1> HIDE DEF data, cut, take
<1>13. take \in Nat /\ take > 0 /\ take <= remaining /\ (take < remaining => take = w.len) /\ take <= w.len
    BY <1>1, <1>2, <1>10, <1>12 DEF Least
<1>14. sent' = sent \cup {[off |-> Total - remaining, at |-> w.at, len |-> take]}
    BY <1>1, <1>9, <1>10, <1>11, <1>13
<1>15. /\ take <= remaining /\ take <= w.len
       /\ take < remaining => take = w.len
       /\ remaining' = remaining - take
       /\ w.at = start + (Total - remaining)
    BY <1>1, <1>8, <1>13
<1>16. take \in Nat \ {0} /\ plan[taken + 1] = w
    BY <1>13 DEF w
<1> QED BY <1>14, <1>15, <1>16

LEMMA EmitInv == IInv /\ Emit => IInv'
<1> SUFFICES ASSUME IInv, Emit PROVE IInv'
    OBVIOUS
<1> DEFINE k == taken + 1
           w == plan[k]
<1>1. PICK take \in Nat \ {0} :
          /\ take <= remaining /\ take <= w.len
          /\ take < remaining => take = w.len
          /\ remaining' = remaining - take
          /\ sent' = sent \cup {[off |-> Total - remaining, at |-> w.at, len |-> take]}
          /\ w.at = start + (Total - remaining)
    BY EmitIs
<1>2. /\ stage = "body" /\ remaining > 0 /\ k \in ready
      /\ skip' = 0
      /\ taken' = k
      /\ ready' = ready \ {k}
      /\ UNCHANGED <<stage, header, declared, size, start, end, attempt, plan>>
    BY DEF Emit, Send
<1>3. /\ size \in Nat /\ start \in Nat /\ end \in Nat /\ remaining \in Nat
      /\ start <= end
    BY <1>2, TypeIs DEF IInv, Ranged
<1>4. Total \in Nat /\ remaining <= Total /\ Total = end - start + 1
    BY <1>2, <1>3 DEF IInv, InPlace, Total
<1>5. Len(plan) \in Nat /\ DOMAIN plan = 1 .. Len(plan)
    BY DEF IInv, PlanInv
<1>6. taken \in 0 .. Len(plan) /\ ready \subseteq taken + 1 .. Least(taken + Depth, Len(plan))
    BY DEF IInv, TypeOK
<1>7. k \in 1 .. Len(plan) /\ taken < Len(plan)
    BY <1>2, <1>5, <1>6, SizesAre DEF Least
<1>8. w.at \in Nat /\ w.len \in Nat /\ w.len > 0
    BY <1>5, <1>7 DEF IInv, PlanInv, Legal
<1> HIDE DEF w
<1>9. Total' = Total
    BY <1>2 DEF Total
<1>10. ASSUME remaining' > 0 PROVE take = w.len
    BY <1>10, <1>1, <1>3
<1>11. remaining' \in Nat /\ remaining' <= Total
    BY <1>1, <1>3, <1>4
<1>12. TypeOK'
    <2>1. \A c \in sent' : c.off \in Nat /\ Windowed(c)
        BY <1>1, <1>3, <1>4, <1>8 DEF IInv, TypeOK, Windowed
    <2>2. taken' \in 0 .. Len(plan') /\ ready' \subseteq taken' + 1 .. Least(taken' + Depth, Len(plan'))
        <3>1. \A n \in taken + 1 .. Least(taken + Depth, Len(plan)) :
                  n # k => n \in k + 1 .. Least(k + Depth, Len(plan))
            BY <1>5, <1>6, SizesAre DEF Least
        <3> QED BY <1>2, <1>5, <1>6, <1>7, <3>1
    <2>3. \A n \in DOMAIN plan' : Windowed(plan'[n])
        BY <1>2 DEF IInv, TypeOK
    <2> QED BY <1>2, <1>11, <2>1, <2>2, <2>3 DEF IInv, TypeOK
<1>13. PlanInv'
    BY <1>2, PlanStays DEF IInv
<1>14. Early' /\ Ranged' /\ WholeBody'
    BY <1>2 DEF IInv, Early, Ranged, WholeBody
<1>15. InPlace'
    <2>1. ASSUME taken' < Len(plan), remaining' > 0
          PROVE  plan[taken' + 1].at = start + (Total - remaining')
        <3>1. k \in 1 .. Len(plan) - 1
            BY <2>1, <1>2, <1>5, <1>7
        <3>2. plan[k + 1].at = plan[k].at + plan[k].len
            BY <3>1 DEF IInv, PlanInv, Chained
        <3>3. plan[k + 1].at = w.at + w.len
            BY <3>2 DEF w
        <3>4. w.at + w.len = start + (Total - remaining')
            BY <2>1, <1>1, <1>3, <1>4, <1>8, <1>10
        <3> QED BY <1>2, <3>3, <3>4
    <2>2. remaining' <= Total' /\ skip' = 0 /\ plan' = plan /\ start' = start
        BY <1>2, <1>9, <1>11
    <2> QED BY <2>1, <2>2, <1>9 DEF InPlace
<1>16. Reaches'
    <2>1. ASSUME size > end PROVE plan[Len(plan)].at + plan[Len(plan)].len = end + 1
        BY <2>1, <1>2, <1>7 DEF IInv, Reaches
    <2>2. ASSUME size > end, taken' = Len(plan) PROVE remaining' = 0
        <3>1. w.at + w.len = end + 1
            BY <2>1, <2>2, <1>2 DEF w
        <3>2. w.len = remaining
            BY <3>1, <1>1, <1>3, <1>4, <1>8
        <3> QED BY <3>2, <1>1, <1>3
    <2>3. plan' = plan /\ size' = size /\ end' = end
        BY <1>2
    <2> QED BY <2>1, <2>2, <2>3 DEF Reaches
<1>17. BytesInOrder'
    BY <1>1, <1>2 DEF IInv, BytesInOrder
<1>18. RangeIsWhatWasAsked'
    BY <1>2, RangeStays DEF IInv
<1> QED BY <1>12, <1>13, <1>14, <1>15, <1>16, <1>17, <1>18 DEF IInv

LEMMA FinishInv == IInv /\ Finish => IInv'
<1> SUFFICES ASSUME IInv, Finish PROVE IInv'
    OBVIOUS
<1>1. /\ stage = "body" /\ stage' = "done" /\ (remaining = 0 \/ taken = Len(plan))
      /\ UNCHANGED <<header, declared, size, start, end, attempt, skip, remaining, plan, taken, ready, sent>>
    BY DEF Finish
<1>2. size > end => remaining = 0
    BY <1>1 DEF IInv, Reaches
<1> QED BY <1>1, <1>2, EndInv

LEMMA StepInv == IInv /\ [Next]_vars => IInv'
<1> SUFFICES ASSUME IInv, [Next]_vars PROVE IInv'
    OBVIOUS
<1>1. CASE Accept
    BY <1>1, AcceptInv
<1>2. CASE Unsatisfiable
    BY <1>2, UnsatisfiableInv
<1>3. CASE HeadFails
    BY <1>3, HeadFailsInv
<1>4. CASE Disguised
    BY <1>4, EndInv DEF Disguised
<1>5. CASE Commit
    BY <1>5, CommitInv
<1>6. CASE \E k \in 1 .. Len(plan) : Ready(k)
    BY <1>6, ReadyInv
<1>7. CASE Emit
    BY <1>7, EmitInv
<1>8. CASE Abort
    BY <1>8, EndInv DEF Abort
<1>9. CASE Finish
    BY <1>9, FinishInv
<1>10. CASE Close
    BY <1>10, EndInv DEF Close
<1>11. CASE UNCHANGED vars
    <2>1. PlanInv'
        BY <1>11, PlanStays DEF IInv, vars
    <2>2. TypeOK' /\ Early' /\ Ranged' /\ InPlace' /\ Reaches' /\ WholeBody'
        BY <1>11 DEF IInv, vars, TypeOK, Early, Ranged, InPlace, Reaches, WholeBody, Total
    <2>3. BytesInOrder' /\ RangeIsWhatWasAsked'
        BY <1>11 DEF IInv, vars, BytesInOrder, RangeIsWhatWasAsked, Asked
    <2> QED BY <2>1, <2>2, <2>3 DEF IInv
<1> QED BY <1>1, <1>2, <1>3, <1>4, <1>5, <1>6, <1>7, <1>8, <1>9, <1>10, <1>11 DEF Next

LEMMA InvHolds == Spec => []IInv
<1>1. Init => IInv
    BY InitInv
<1>2. IInv /\ [Next]_vars => IInv'
    BY StepInv
<1> QED BY <1>1, <1>2, PTL DEF Spec

-----------------------------------------------------------------------------
(* The theorems *)

(* Every variable keeps its type, the windows in flight are among the next *)
(* Depth of the plan, and no more is sent than was asked for.              *)
THEOREM BodyTyped == Spec => []TypeOK
<1>1. IInv => TypeOK
    BY DEF IInv
<1> QED BY <1>1, InvHolds, PTL

(* The byte at offset n of the body is the byte start + n of the file, for *)
(* every plan that a Range and a file can lead to, whatever order the      *)
(* windows are fetched in.                                                 *)
THEOREM BodyInOrder == Spec => []BytesInOrder
<1>1. IInv => BytesInOrder
    BY DEF IInv
<1> QED BY <1>1, InvHolds, PTL

(* A body that ends by itself has sent what was asked for, if the file has *)
(* it: the head and the windows reach its end and no window is short.      *)
THEOREM BodyWhole == Spec => []WholeBody
<1>1. IInv => WholeBody
    BY DEF IInv
<1> QED BY <1>1, InvHolds, PTL

(* parse_range_header accepts what a Range asks for, no byte more or less, *)
(* and refuses a Range only if it asks for nothing.                        *)
THEOREM RangeRight == Spec => []RangeIsWhatWasAsked
<1>1. IInv => RangeIsWhatWasAsked
    BY DEF IInv
<1> QED BY <1>1, InvHolds, PTL

(* Every window that the plan can have is inside the file and one block,   *)
(* starts where a part can, and costs the two parts of 1 MB at most.       *)
THEOREM WindowsLegal == Spec => []WindowsAreLegal
<1>1. ASSUME IInv PROVE WindowsAreLegal
    <2>1. ASSUME NEW k \in DOMAIN plan
          PROVE  LET w == plan[k] IN
                 /\ w.len > 0 /\ w.at + w.len <= size
                 /\ w.at \div Mb = (w.at + w.len - 1) \div Mb
                 /\ w.at % MinChunk = 0
                 /\ PartsOf(w) <= Mb \div MaxChunk
        <3> DEFINE w == plan[k]
        <3>1. Legal(w) /\ PartsOf(w) <= Mb \div MaxChunk
            BY <1>1, TwoParts DEF IInv, PlanInv
        <3>2. MaxChunk \in Nat \ {0} /\ MinChunk \in Nat \ {0} /\ MaxChunk % MinChunk = 0
            BY Chunks
        <3>3. w.at \in Nat /\ w.at % MaxChunk = 0
            BY <3>1 DEF Legal
        <3> HIDE DEF w
        <3>4. w.at % MinChunk = 0
            BY <3>2, <3>3, Divides
        <3> QED BY <3>1, <3>4 DEF Legal, w
    <2> QED BY <2>1 DEF WindowsAreLegal
<1> QED BY <1>1, InvHolds, PTL

-----------------------------------------------------------------------------
(* Body implements Delivery. *)

(* m bytes from s and the n bytes after them are m + n bytes from s.       *)
LEMMA Appended ==
    ASSUME NEW s \in Nat, NEW m \in Nat, NEW n \in Nat
    PROVE  {<<i, s + i>> : i \in 0 .. m - 1} \cup {<<m + i, (s + m) + i>> : i \in 0 .. n - 1}
               = {<<i, s + i>> : i \in 0 .. (m + n) - 1}
<1>1. ASSUME NEW i \in 0 .. m - 1 PROVE i \in 0 .. (m + n) - 1
    OBVIOUS
<1>2. ASSUME NEW i \in 0 .. n - 1
      PROVE  m + i \in 0 .. (m + n) - 1 /\ (s + m) + i = s + (m + i)
    OBVIOUS
<1>3. ASSUME NEW i \in 0 .. (m + n) - 1, i \notin 0 .. m - 1
      PROVE  i - m \in 0 .. n - 1 /\ m + (i - m) = i /\ (s + m) + (i - m) = s + i
    BY <1>3
<1> QED BY <1>1, <1>2, <1>3

(* What the client has of the download is the beginning of its range; the   *)
(* Range is read of the file as it is.                                      *)
Joined ==
    /\ stage = "asked" => size = declared
    /\ stage = "body" => Received = Client!Upto(Total - remaining)

LEMMA NothingReceived == sent = {} => Received = {}
BY DEF Received

LEMMA NothingDue == Client!Upto(0) = {}
BY DEF Client!Upto

LEMMA ReceivedStays == sent' = sent => Received' = Received
BY DEF Received

LEMMA ReceivedGrows ==
    ASSUME NEW c, sent' = sent \cup {c}
    PROVE  Received' = Received \cup BytesOf(c)
BY DEF Received

(* The head: the first bytes of the range, or none.                        *)
LEMMA CommitSends ==
    ASSUME IInv, Commit
    PROVE  \E n \in 0 .. Total :
               /\ remaining' = Total - n
               /\ sent' = IF n = 0 THEN {} ELSE {[off |-> 0, at |-> start, len |-> n]}
<1>1. stage = "prime"
    BY DEF Commit
<1>2. Inside
    BY <1>1, TypeIs DEF IInv, Inside, Ranged
<1> DEFINE take == IF start - Aligned < Primed.len
                   THEN Least(Primed.len - (start - Aligned), Total) ELSE 0
<1>3. take \in Nat /\ take <= Total
    BY <1>2, CommitIs
<1>4. /\ remaining' = Total - take
      /\ sent' = IF take = 0 THEN {} ELSE {[off |-> 0, at |-> start, len |-> take]}
    BY DEF Commit
<1>5. Total \in Int
    BY <1>2 DEF Inside, Total
<1> HIDE DEF take
<1>6. take \in 0 .. Total
    BY <1>3, <1>5
<1> QED BY <1>4, <1>6

LEMMA CommitDelivers ==
    ASSUME IInv, Commit
    PROVE  Client!Deliver /\ Joined'
<1>1. PICK n \in 0 .. Total :
          /\ remaining' = Total - n
          /\ sent' = IF n = 0 THEN {} ELSE {[off |-> 0, at |-> start, len |-> n]}
    BY CommitSends
<1>2. /\ stage = "prime" /\ stage' = "body"
      /\ UNCHANGED <<size, start, end>>
    BY DEF Commit
<1>3. start \in Nat /\ end \in Nat /\ Total \in Nat /\ Total = end - start + 1
    BY <1>2, TypeIs DEF IInv, Ranged, Total
<1>4. Received' = Client!Upto(n)
    <2>1. CASE n = 0
        BY <1>1, <2>1, NothingDue DEF Received
    <2>2. CASE n # 0
        <3>1. Received' = {<<0 + i, start + i>> : i \in 0 .. n - 1}
            BY <1>1, <2>2 DEF Received, BytesOf
        <3>2. \A i \in 0 .. n - 1 : 0 + i = i
            OBVIOUS
        <3> QED BY <3>1, <3>2 DEF Client!Upto
    <2> QED BY <2>1, <2>2
<1>5. Received = {}
    BY <1>2, NothingReceived DEF IInv, Early
<1>6. Total' = Total /\ Total' - remaining' = n
    BY <1>1, <1>2, <1>3 DEF Total
<1>7. Client!Upto(n)' = Client!Upto(n)
    BY <1>2 DEF Client!Upto
<1>8. Joined'
    BY <1>2, <1>4, <1>6, <1>7 DEF Joined
<1>9. Client!Deliver
    BY <1>1, <1>2, <1>3, <1>4, <1>5 DEF Client!Deliver, Client!Due, Phase
<1> QED BY <1>8, <1>9

LEMMA EmitDelivers ==
    ASSUME IInv, Joined, Emit
    PROVE  Client!Deliver /\ Joined'
<1>0. PICK m : m = Total - remaining
    OBVIOUS
<1>1. PICK n \in Nat \ {0} :
          /\ n <= remaining
          /\ remaining' = remaining - n
          /\ sent' = sent \cup {[off |-> m, at |-> start + m, len |-> n]}
    <2>1. PICK n \in Nat \ {0} :
              /\ n <= remaining
              /\ remaining' = remaining - n
              /\ sent' = sent \cup {[off |-> Total - remaining, at |-> plan[taken + 1].at, len |-> n]}
              /\ plan[taken + 1].at = start + (Total - remaining)
        BY EmitIs
    <2> QED BY <1>0, <2>1
<1>2. stage = "body" /\ stage' = "body" /\ UNCHANGED <<size, start, end>>
    BY DEF Emit, Send
<1>3. start \in Nat /\ end \in Nat /\ remaining \in Nat /\ Total = end - start + 1
    BY TypeIs DEF IInv, Total
<1>4. remaining <= Total /\ Total \in Nat
    BY <1>2, <1>3, TypeIs DEF IInv, InPlace, Ranged
<1>5. m \in Nat /\ m + n \in 0 .. Total /\ Total - remaining' = m + n
    BY <1>0, <1>1, <1>3, <1>4
<1>6. Received = Client!Upto(m)
    BY <1>0, <1>2 DEF Joined
<1>7. Received' = Received \cup {<<m + i, (start + m) + i>> : i \in 0 .. n - 1}
    <2>1. Received' = Received \cup BytesOf([off |-> m, at |-> start + m, len |-> n])
        BY <1>1, ReceivedGrows
    <2> QED BY <2>1 DEF BytesOf
<1>8. Received' = Client!Upto(m + n)
    <2>1. {<<i, start + i>> : i \in 0 .. m - 1} \cup {<<m + i, (start + m) + i>> : i \in 0 .. n - 1}
              = {<<i, start + i>> : i \in 0 .. (m + n) - 1}
        <3>1. start \in Nat /\ m \in Nat /\ n \in Nat
            BY <1>3, <1>5
        <3> QED BY <3>1, Appended, Zenon
    <2> QED BY <1>6, <1>7, <2>1 DEF Client!Upto
<1>9. Received \subseteq Received'
    BY <1>7
<1>10. Total' = Total /\ Client!Upto(m + n)' = Client!Upto(m + n)
    BY <1>2, <1>5 DEF Total, Client!Upto
<1>11. Joined'
    BY <1>2, <1>5, <1>8, <1>10 DEF Joined
<1>12. Client!Deliver
    BY <1>2, <1>3, <1>5, <1>8, <1>9 DEF Client!Deliver, Client!Due, Phase
<1> QED BY <1>11, <1>12

(* A body that ends by itself is whole, or the file was too short.         *)
LEMMA FinishEnds ==
    ASSUME IInv, Joined, Finish
    PROVE  Client!End /\ Joined'
<1>1. /\ stage = "body" /\ stage' = "done" /\ (remaining = 0 \/ taken = Len(plan))
      /\ UNCHANGED <<size, start, end, sent>>
    BY DEF Finish
<1>2. size > end => remaining = 0
    BY <1>1 DEF IInv, Reaches
<1>3. start \in Nat /\ end \in Nat /\ size \in Nat /\ Total = end - start + 1
    BY TypeIs DEF IInv, Total
<1>4. end < size => Received = Client!Upto(Client!Due)
    <2>1. ASSUME end < size PROVE Total - remaining = Client!Due
        BY <2>1, <1>2, <1>3 DEF Client!Due
    <2> QED BY <1>1, <2>1 DEF Joined
<1>5. Received' = Received
    BY <1>1, ReceivedStays
<1>6. Client!End
    BY <1>1, <1>4, <1>5 DEF Client!End, Phase
<1> QED BY <1>1, <1>6 DEF Joined

(* The other ends leave what the client has as it is.                      *)
LEMMA EndFails ==
    ASSUME stage \in {"asked", "prime", "body"}, stage' \in {"refused", "broken", "closed"},
           UNCHANGED <<size, start, end, sent>>
    PROVE  Client!Fail /\ Joined'
<1>1. Received' = Received
    BY ReceivedStays
<1> QED BY <1>1 DEF Client!Fail, Phase, Joined

LEMMA ClientStep ==
    ASSUME IInv, Joined, [Next]_vars
    PROVE  [Client!Next]_(Client!vars) /\ Joined'
<1>1. ASSUME Accept PROVE Client!Promise /\ Joined'
    <2>1. /\ stage = "asked" /\ stage' = "prime" /\ UNCHANGED <<size, declared, sent>>
        BY <1>1 DEF Accept
    <2>2. start' <= end' /\ end' < size /\ start' \in Nat /\ end' \in Nat /\ size \in Nat
        <3>1. IInv'
            BY <1>1, AcceptInv
        <3>2. start' <= end' /\ end' < declared' /\ start' \in Nat /\ end' \in Nat
            BY <2>1, <3>1 DEF IInv, Ranged, TypeOK
        <3>3. size = declared
            BY <2>1 DEF Joined
        <3> QED BY <2>1, <3>2, <3>3, TypeIs DEF IInv
    <2>3. Received' = Received
        BY <2>1, ReceivedStays
    <2>4. Client!Promise
        BY <2>1, <2>2, <2>3 DEF Client!Promise, Phase
    <2> QED BY <2>1, <2>4 DEF Joined
<1>2. ASSUME HeadFails PROVE (Client!Replace \/ Client!Fail) /\ Joined'
    <2>1. /\ stage = "prime" /\ UNCHANGED <<start, end, sent>>
          /\ \/ stage' = "prime" /\ size' \in Sizes
             \/ stage' = "broken" /\ size' = size
        BY <1>2 DEF HeadFails
    <2>2. CASE stage' = "prime"
        BY <2>1, <2>2, ReceivedStays DEF Client!Replace, Phase, Joined
    <2>3. CASE stage' = "broken"
        BY <2>1, <2>3, EndFails
    <2> QED BY <2>1, <2>2, <2>3
<1>3. ASSUME Unsatisfiable \/ Disguised \/ Abort \/ Close PROVE Client!Fail /\ Joined'
    BY <1>3, EndFails DEF Unsatisfiable, Disguised, Abort, Close
<1>4. ASSUME UNCHANGED <<stage, declared, size, start, end, remaining, sent>>
      PROVE  UNCHANGED Client!vars /\ Joined'
    <2>1. Received' = Received
        BY <1>4, ReceivedStays
    <2>2. Client!Upto(Total - remaining)' = Client!Upto(Total - remaining)
        BY <1>4 DEF Client!Upto, Total
    <2> QED BY <1>4, <2>1, <2>2 DEF Client!vars, Phase, Joined
<1>5. ASSUME NEW k \in 1 .. Len(plan), Ready(k) PROVE UNCHANGED Client!vars /\ Joined'
    BY <1>4, <1>5 DEF Ready
<1>6. CASE UNCHANGED vars
    BY <1>4, <1>6 DEF vars
<1>7. CASE Commit
    BY <1>7, CommitDelivers DEF Client!Next
<1>8. CASE Emit
    BY <1>8, EmitDelivers DEF Client!Next
<1>9. CASE Finish
    BY <1>9, FinishEnds DEF Client!Next
<1> QED BY <1>1, <1>2, <1>3, <1>5, <1>6, <1>7, <1>8, <1>9 DEF Next, Client!Next

LEMMA ClientInit == Init => Client!Init /\ Joined
<1> SUFFICES ASSUME Init PROVE Client!Init /\ Joined
    OBVIOUS
<1>1. Received = {}
    BY NothingReceived DEF Init
<1> QED BY <1>1 DEF Init, Client!Init, Phase, Joined

(* A client receives the range it was promised from its first byte on, no  *)
(* byte left out, repeated or out of place, and a response that ends by    *)
(* itself is whole unless the file is shorter than it was said to be: for  *)
(* every Range, file, size of block, part, head and pipeline, and every    *)
(* order in which the windows come.                                        *)
THEOREM BodyDelivers == Spec => DeliversTheRange
<1>1. Init => Client!Init /\ Joined
    BY ClientInit
<1>2. IInv /\ Joined /\ [Next]_vars => [Client!Next]_(Client!vars) /\ Joined'
    BY ClientStep
<1>3. Spec => [][Client!Next]_(Client!vars)
    BY <1>1, <1>2, InvHolds, PTL DEF Spec
<1> QED BY <1>1, <1>3, PTL DEF Spec, DeliversTheRange, Client!Spec

====
