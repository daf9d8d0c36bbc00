---- MODULE ColdBudgetProofs ----
(***************************************************************************)
(* What holds of ColdBudget for every burst, window, number of clients and *)
(* number of calls.                                                        *)
(*                                                                         *)
(* The entry of a key is never behind what its starts since the last sweep *)
(* add up to, and never more than a window ahead of the clock.  All that   *)
(* is known of one key is KeyInv, and a lemma says of each thing that can  *)
(* happen to a key that it keeps it.  How far ahead of a call an entry can *)
(* be is Charged, which the refusals rest on.                              *)
(***************************************************************************)
EXTENDS ColdBudget, FiniteSetTheorems, WellFoundedInduction, TLAPS

(* A key at the time n: its entry tat, its starts s, of which m are before *)
(* the last sweep, and what it was promised, p.                            *)
Chained(tat, s, m) ==
    \A i \in 1..Len(s) : m < i => s[i] * Grain + (Len(s) - i + 1) * Interval <= tat

Rated(s, m) ==
    \A i, j \in 1..Len(s) :
        m < i /\ i <= j => (j - i + 1) * Interval <= (s[j] - s[i] + Window) * Grain

Promised(n, tat, p) ==
    p > 0 => \/ \A t \in Nat : Spent(tat, t) <=> t < p
             \/ tat = 0 /\ p <= n

KeyInv(n, tat, s, m, p) ==
    /\ tat \in Nat /\ s \in Seq(Nat) /\ m \in Nat /\ p \in Nat
    /\ tat <= n * Grain + Window * Grain
    /\ m <= Len(s)
    /\ p <= n + Window
    /\ Chained(tat, s, m)
    /\ Rated(s, m)
    /\ Promised(n, tat, p)

CallInv ==
    /\ now \in Nat
    /\ who \in [Calls -> Keys \cup {None}]
    /\ stamp \in [Calls -> Nat]
    /\ \A c \in Calls : stamp[c] <= now

MapsInv ==
    /\ cold \in [Keys -> Nat]
    /\ starts \in [Keys -> Seq(Nat)]
    /\ kept \in [Keys -> Nat]
    /\ promise \in [Keys -> Nat]

Inv ==
    /\ CallInv
    /\ MapsInv
    /\ \A k \in Keys : KeyInv(now, cold[k], starts[k], kept[k], promise[k])

-----------------------------------------------------------------------------
(* Arithmetic *)

LEMMA Division ==
    ASSUME NEW x \in Int, NEW d \in Nat \ {0}
    PROVE  /\ x \div d \in Int
           /\ d * (x \div d) <= x /\ x < d * (x \div d) + d
OBVIOUS

LEMMA Multiple ==
    ASSUME NEW d \in Nat \ {0}, NEW q \in Int
    PROVE  (d * q) % d = 0
OBVIOUS

(* The interval and the tolerance make up a window: where one is rounded   *)
(* up the other is rounded down by the same.                               *)
LEMMA Rounding ==
    ASSUME NEW B \in Nat \ {0}, NEW W \in Nat, (2 * W + B) % (2 * B) # 0
    PROVE  Nearest(W * (B - 1), B) + Nearest(W, B) = W
<1> DEFINE d == 2 * B
           x == 2 * W + B
           y == 2 * (W * (B - 1)) + B
           i == x \div d
           k == y \div d
<1>1. d \in Nat \ {0} /\ x \in Int /\ y \in Int
  BY W * (B - 1) \in Int
<1>2. x + y = d * W + d
  <2>1. W * (B - 1) = W * B - W /\ d * W = 2 * (W * B) /\ W * B \in Int
    OBVIOUS
  <2>2. QED
    BY <2>1
<1>3. /\ i \in Int /\ d * i < x /\ x < d * i + d
      /\ k \in Int /\ d * k <= y /\ y < d * k + d
  <2>1. /\ i \in Int /\ d * i <= x /\ x < d * i + d
        /\ k \in Int /\ d * k <= y /\ y < d * k + d
    BY <1>1, Division
  <2>2. x # d * i
    BY <1>1, <2>1, Multiple
  <2>3. d * i \in Int
    BY <1>1, <2>1
  <2> HIDE DEF d, x, y, i, k
  <2>4. QED
    BY <1>1, <2>1, <2>2, <2>3
<1>4. Nearest(W, B) = i /\ Nearest(W * (B - 1), B) = k
  BY DEF Nearest
<1> HIDE DEF d, x, y, i, k
<1>5. d * (i + k) < d * W + d /\ d * W - d < d * (i + k)
  <2>1. d * i \in Int /\ d * k \in Int /\ d * W \in Int
    BY <1>1, <1>3
  <2>2. d * (i + k) = d * i + d * k
    BY <1>1, <1>3
  <2>3. QED
    BY <1>1, <1>2, <1>3, <2>1, <2>2
<1>6. \A u \in Int : d * u < d * W + d /\ d * W - d < d * u => u = W
  <2> SUFFICES ASSUME NEW u \in Int, u # W
               PROVE  ~ (d * u < d * W + d /\ d * W - d < d * u)
    OBVIOUS
  <2>1. d * u \in Int /\ d * W \in Int /\ d * (W + 1) = d * W + d /\ d * (W - 1) = d * W - d
    BY <1>1
  <2>2. CASE u >= W + 1
    <3>1. d * (W + 1) <= d * u
      BY <1>1, <2>2
    <3>2. QED
      BY <1>1, <2>1, <3>1
  <2>3. CASE u <= W - 1
    <3>1. d * u <= d * (W - 1)
      BY <1>1, <2>3
    <3>2. QED
      BY <1>1, <2>1, <3>1
  <2>4. QED
    BY <2>2, <2>3
<1>7. QED
  BY <1>3, <1>4, <1>5, <1>6

LEMMA Constants ==
    /\ Burst \in Nat /\ Burst >= 1 /\ Window \in Nat /\ Window >= 1
    /\ Grain \in Nat /\ Grain >= 1 /\ Window * Grain \in Nat
    /\ Interval \in Nat /\ Interval >= 1 /\ Tolerance \in Nat
    /\ Tolerance + Interval = Window * Grain
<1> DEFINE W == Window * Grain
<1>1. /\ Burst \in Nat /\ Burst >= 1 /\ Window \in Nat /\ Window >= 1
      /\ Grain \in Nat /\ Grain >= 1 /\ W \in Nat /\ Burst <= W
  BY BudgetAssumption
<1>2. (2 * W + Burst) % (2 * Burst) # 0
  <2>1. 2 * Window * Grain = 2 * W
    BY <1>1
  <2>2. QED
    BY <2>1, BudgetAssumption
<1>3. Tolerance + Interval = W
  BY <1>1, <1>2, Rounding DEF Tolerance, Interval
<1>4. Interval \in Nat /\ Interval >= 1
  <2> DEFINE d == 2 * Burst
             x == 2 * W + Burst
  <2>1. d \in Nat \ {0} /\ x \in Nat /\ d <= x
    BY <1>1
  <2>2. x \div d \in Int /\ x < d * (x \div d) + d
    BY <2>1, Division
  <2> DEFINE q == x \div d
  <2>3. Interval = q
    BY DEF Interval, Nearest
  <2> HIDE DEF x, q, d
  <2>4. q \in Int /\ x < d * q + d
    BY <2>1, <2>2 DEF q
  <2>5. q >= 1
    <3>1. d * q > 0
      BY <2>1, <2>4
    <3>2. QED
      BY <2>1, <2>4, <3>1
  <2>6. QED
    BY <2>3, <2>4, <2>5
<1>5. Tolerance \in Nat
  <2> DEFINE a == W * (Burst - 1)
             d == 2 * Burst
             x == 2 * a + Burst
  <2>1. a \in Nat /\ d \in Nat \ {0} /\ x \in Nat
    BY <1>1
  <2>2. x \div d \in Nat
    BY <2>1
  <2>3. Tolerance = x \div d
    BY DEF Tolerance, Nearest
  <2>4. QED
    BY <2>2, <2>3
<1>6. QED
  BY <1>1, <1>3, <1>4, <1>5

LEMMA Times ==
    ASSUME NEW a \in Int, NEW b \in Int, a <= b
    PROVE  a * Grain \in Int /\ b * Grain \in Int /\ a * Grain <= b * Grain
BY Constants

LEMMA Nonnegative ==
    ASSUME NEW a \in Nat
    PROVE  a * Grain \in Nat
BY Constants

LEMMA Intervals ==
    ASSUME NEW a \in Int
    PROVE  a * Interval \in Int /\ (a + 1) * Interval = a * Interval + Interval
BY Constants

LEMMA Quotient ==
    ASSUME NEW x \in Int
    PROVE  /\ x \div Grain \in Int
           /\ (x \div Grain) * Grain <= x
           /\ x < (x \div Grain) * Grain + Grain
BY Constants

-----------------------------------------------------------------------------
(* One key *)

LEMMA KeySwept ==
    ASSUME NEW n \in Nat, NEW tat, NEW s, NEW m, NEW p, KeyInv(n, tat, s, m, p),
           NEW t \in Nat, t <= n, ~ Spent(tat, t)
    PROVE  KeyInv(n, 0, s, Len(s), p)
<1>1. Len(s) \in Nat
  BY DEF KeyInv
<1>2. Chained(0, s, Len(s)) /\ Rated(s, Len(s))
  BY <1>1 DEF Chained, Rated
<1>3. Promised(n, 0, p)
  BY DEF KeyInv, Promised
<1>4. 0 <= n * Grain + Window * Grain
  BY Constants
<1>5. QED
  BY <1>1, <1>2, <1>3, <1>4 DEF KeyInv

LEMMA KeyTick ==
    ASSUME NEW n \in Nat, NEW tat, NEW s, NEW m, NEW p, KeyInv(n, tat, s, m, p)
    PROVE  KeyInv(n + 1, tat, s, m, p)
<1>1. tat \in Nat /\ p \in Nat /\ tat <= n * Grain + Window * Grain /\ p <= n + Window
  BY DEF KeyInv
<1>2. n * Grain <= (n + 1) * Grain
  BY Constants
<1>3. tat <= (n + 1) * Grain + Window * Grain
  BY <1>1, <1>2, Constants
<1>4. p <= n + 1 + Window
  BY <1>1, Constants
<1>5. Promised(n + 1, tat, p)
  BY <1>1 DEF KeyInv, Promised
<1>6. QED
  BY <1>3, <1>4, <1>5 DEF KeyInv

LEMMA KeyStart ==
    ASSUME NEW n \in Nat, NEW tat, NEW s, NEW m, NEW p, KeyInv(n, tat, s, m, p),
           NEW t \in Nat, t <= n, ~ Spent(tat, t)
    PROVE  KeyInv(n, AllowedAt(tat, t) + Interval, Append(s, t), m, 0)
<1> DEFINE new == AllowedAt(tat, t) + Interval
           l == Len(s)
<1>1. tat \in Nat /\ s \in Seq(Nat) /\ m \in Nat /\ l \in Nat /\ m <= l
  BY DEF KeyInv
<1>2. t * Grain \in Nat /\ Window * Grain \in Nat /\ Interval \in Nat
  BY Nonnegative, Constants
<1>3. /\ new \in Nat
      /\ tat + Interval <= new
      /\ t * Grain + Interval <= new
      /\ new <= t * Grain + Window * Grain
  <2>1. tat <= t * Grain + Tolerance
    BY <1>1, <1>2, Constants DEF Spent
  <2>2. QED
    BY <1>1, <1>2, <2>1, Constants DEF AllowedAt
<1> HIDE DEF new
<1>4. new <= n * Grain + Window * Grain
  BY <1>2, <1>3, Times
<1>5. /\ Append(s, t) \in Seq(Nat) /\ Len(Append(s, t)) = l + 1
      /\ \A i \in 1..l : Append(s, t)[i] = s[i] /\ s[i] \in Nat
      /\ Append(s, t)[l + 1] = t
  BY <1>1
<1>6. ASSUME NEW i \in 1..l, m < i
      PROVE  s[i] * Grain + (l + 1 - i + 1) * Interval <= new
  <2>1. s[i] * Grain + (l - i + 1) * Interval <= tat
    BY <1>6 DEF KeyInv, Chained
  <2>2. l - i + 1 \in Int /\ l - i + 1 + 1 = l + 1 - i + 1
    BY <1>1
  <2>3. /\ (l - i + 1) * Interval \in Int
        /\ (l + 1 - i + 1) * Interval = (l - i + 1) * Interval + Interval
    BY <2>2, Intervals
  <2> DEFINE b == s[i] * Grain
             d == (l - i + 1) * Interval
             e == (l + 1 - i + 1) * Interval
  <2>4. b \in Nat
    BY <1>5, Nonnegative
  <2>5. d \in Int /\ e = d + Interval /\ b + d <= tat
    BY <2>1, <2>3
  <2> HIDE DEF b, d, e
  <2>6. b + e <= new
    BY <1>1, <1>2, <1>3, <2>4, <2>5
  <2>7. QED
    BY <2>6 DEF b, e
<1>7. Chained(new, Append(s, t), m)
  <2> SUFFICES ASSUME NEW i \in 1..(l + 1), m < i
               PROVE  Append(s, t)[i] * Grain + (l + 1 - i + 1) * Interval <= new
    BY <1>5 DEF Chained
  <2>1. CASE i \in 1..l
    BY <1>5, <1>6, <2>1
  <2>2. CASE i = l + 1
    BY <1>1, <1>2, <1>3, <1>5, <2>2
  <2>3. QED
    BY <1>1, <2>1, <2>2
<1>8. Rated(Append(s, t), m)
  <2> SUFFICES ASSUME NEW i \in 1..(l + 1), NEW j \in 1..(l + 1), m < i, i <= j
               PROVE  (j - i + 1) * Interval
                        <= (Append(s, t)[j] - Append(s, t)[i] + Window) * Grain
    BY <1>5 DEF Rated
  <2>1. CASE j \in 1..l
    <3>1. i \in 1..l
      BY <1>1, <2>1
    <3>2. QED
      BY <1>5, <2>1, <3>1 DEF KeyInv, Rated
  <2>2. CASE j = l + 1 /\ i \in 1..l
    <3>1. s[i] * Grain + (l + 1 - i + 1) * Interval <= t * Grain + Window * Grain
      <4>1. s[i] * Grain \in Nat
        BY <1>5, <2>2, Nonnegative
      <4>2. l + 1 - i + 1 \in Int
        BY <1>1, <2>2
      <4>3. (l + 1 - i + 1) * Interval \in Int
        BY <4>2, Intervals
      <4>4. s[i] * Grain + (l + 1 - i + 1) * Interval <= new
        BY <1>6, <2>2
      <4>5. QED
        BY <1>2, <1>3, <4>1, <4>3, <4>4
    <3>2. (t - s[i] + Window) * Grain = t * Grain - s[i] * Grain + Window * Grain
      BY <1>5, <2>2, Constants
    <3>3. s[i] * Grain \in Nat
      BY <1>5, <2>2, Nonnegative
    <3>4. j - i + 1 \in Int /\ j - i + 1 = l + 1 - i + 1
      BY <1>1, <2>2
    <3>5. (j - i + 1) * Interval \in Int /\ (j - i + 1) * Interval = (l + 1 - i + 1) * Interval
      BY <3>4, Intervals
    <3>6. QED
      BY <1>2, <1>5, <2>2, <3>1, <3>2, <3>3, <3>5
  <2>3. CASE j = l + 1 /\ i = l + 1
    <3>1. (j - i + 1) * Interval = Interval /\ (t - t + Window) * Grain = Window * Grain
      BY <1>1, <1>2, <2>3, Constants
    <3>2. Interval <= Window * Grain
      BY Constants
    <3>3. QED
      BY <1>2, <1>5, <2>3, <3>1, <3>2
  <2>4. QED
    BY <1>1, <2>1, <2>2, <2>3
<1>9. Promised(n, new, 0)
  BY DEF Promised
<1>10. m <= l + 1 /\ 0 <= n + Window
  BY <1>1, Constants
<1>11. KeyInv(n, new, Append(s, t), m, 0)
  BY <1>1, <1>3, <1>4, <1>5, <1>7, <1>8, <1>9, <1>10 DEF KeyInv
<1>12. QED
  BY <1>11 DEF new

LEMMA KeyRefuse ==
    ASSUME NEW n \in Nat, NEW tat, NEW s, NEW m, NEW p, KeyInv(n, tat, s, m, p),
           NEW t \in Nat, t <= n, Spent(tat, t)
    PROVE  KeyInv(n, tat, s, m, t + Wait(tat, t))
<1> DEFINE x == tat - Tolerance - t * Grain
           w == Wait(tat, t)
<1>1. tat \in Nat /\ t * Grain \in Nat /\ x \in Int /\ x > 0
  BY Nonnegative, Constants DEF KeyInv, Spent
<1>2. w \in Int /\ w * Grain <= x + Grain - 1 /\ x <= w * Grain
  <2>1. w = (x + Grain - 1) \div Grain /\ x + Grain - 1 \in Int
    BY <1>1, Constants DEF Wait
  <2>2. w \in Int /\ w * Grain <= x + Grain - 1 /\ x + Grain - 1 < w * Grain + Grain
    BY <2>1, Quotient
  <2>3. w * Grain \in Int
    BY <2>2, Constants
  <2>4. QED
    BY <1>1, <2>2, <2>3, Constants
<1> HIDE DEF w
<1>3. w >= 1
  <2>1. CASE w <= 0
    <3>1. w * Grain <= 0 * Grain /\ 0 * Grain = 0 /\ w * Grain \in Int
      BY <1>2, <2>1, Times, Constants
    <3>2. QED
      BY <1>1, <1>2, <3>1
  <2>2. QED
    BY <1>2, <2>1
<1>4. t + w \in Nat
  BY <1>2, <1>3
<1>5. \A u \in Nat : Spent(tat, u) <=> u < t + w
  <2> SUFFICES ASSUME NEW u \in Nat PROVE Spent(tat, u) <=> u < t + w
    OBVIOUS
  <2>1. /\ u * Grain \in Nat /\ w * Grain \in Int /\ (t + w) * Grain = t * Grain + w * Grain
        /\ (t + w - 1) * Grain = t * Grain + w * Grain - Grain
    BY <1>2, Nonnegative, Constants
  <2>2. Spent(tat, u) <=> u * Grain < t * Grain + x
    BY <1>1, <2>1, Constants DEF Spent
  <2>3. CASE u < t + w
    <3>1. u * Grain <= (t + w - 1) * Grain
      BY <1>2, <2>3, Times
    <3>2. QED
      BY <1>1, <1>2, <2>1, <2>2, <2>3, <3>1, Constants
  <2>4. CASE u >= t + w
    <3>1. (t + w) * Grain <= u * Grain
      BY <1>2, <2>4, Times
    <3>2. QED
      BY <1>1, <1>2, <1>4, <2>1, <2>2, <2>4, <3>1, Constants
  <2>5. QED
    BY <1>4, <2>3, <2>4
<1>6. t + w <= n + Window
  <2>1. ~ Spent(tat, n + Window)
    <3>1. (n + Window) * Grain = n * Grain + Window * Grain /\ n * Grain \in Nat
          /\ Window * Grain \in Nat
      BY Nonnegative, Constants
    <3>2. tat <= (n + Window) * Grain
      BY <3>1 DEF KeyInv
    <3>3. QED
      BY <1>1, <3>1, <3>2, Constants DEF Spent
  <2>2. n + Window \in Nat
    BY Constants
  <2>3. QED
    BY <1>4, <1>5, <2>1, <2>2
<1>7. Promised(n, tat, t + w)
  BY <1>5 DEF Promised
<1>8. KeyInv(n, tat, s, m, t + w)
  BY <1>4, <1>6, <1>7 DEF KeyInv
<1>9. QED
  BY <1>8 DEF w

-----------------------------------------------------------------------------

LEMMA InvInit == Init => Inv
<1> SUFFICES ASSUME Init PROVE Inv
  OBVIOUS
<1>1. CallInv /\ MapsInv
  BY DEF Init, CallInv, MapsInv
<1>2. ASSUME NEW k \in Keys
      PROVE  KeyInv(now, cold[k], starts[k], kept[k], promise[k])
  <2>1. now = 1 /\ cold[k] = 0 /\ starts[k] = <<>> /\ kept[k] = 0 /\ promise[k] = 0
    BY DEF Init
  <2>2. Window * Grain \in Nat
    BY Constants
  <2>3. KeyInv(1, 0, <<>>, 0, 0)
    BY <2>2, Constants DEF KeyInv, Chained, Rated, Promised
  <2>4. QED
    BY <2>1, <2>3
<1>3. QED
  BY <1>1, <1>2 DEF Inv

(* The sweep of a call leaves every key with its invariant.                *)
LEMMA SweepKeeps ==
    ASSUME Inv, NEW t \in Nat, t <= now
    PROVE  /\ AfterSweep(t) \in [Keys -> Nat]
           /\ KeptAfterSweep(t) \in [Keys -> Nat]
           /\ \A k \in Keys :
                KeyInv(now, AfterSweep(t)[k], starts[k], KeptAfterSweep(t)[k], promise[k])
<1>1. AfterSweep(t) \in [Keys -> Nat] /\ KeptAfterSweep(t) \in [Keys -> Nat]
  BY DEF Inv, MapsInv, AfterSweep, KeptAfterSweep
<1>2. ASSUME NEW k \in Keys
      PROVE  KeyInv(now, AfterSweep(t)[k], starts[k], KeptAfterSweep(t)[k], promise[k])
  <2>1. KeyInv(now, cold[k], starts[k], kept[k], promise[k]) /\ now \in Nat
    BY DEF Inv, CallInv
  <2>2. CASE k \in Swept(t)
    <3>1. ~ Spent(cold[k], t)
      BY <2>2 DEF Swept
    <3>2. AfterSweep(t)[k] = 0 /\ KeptAfterSweep(t)[k] = Len(starts[k])
      BY <2>2 DEF AfterSweep, KeptAfterSweep
    <3>3. QED
      BY <2>1, <3>1, <3>2, KeySwept
  <2>3. CASE k \notin Swept(t)
    <3>1. AfterSweep(t)[k] = cold[k] /\ KeptAfterSweep(t)[k] = kept[k]
      BY <2>3 DEF AfterSweep, KeptAfterSweep
    <3>2. QED
      BY <2>1, <3>1
  <2>4. QED
    BY <2>2, <2>3
<1>3. QED
  BY <1>1, <1>2

LEMMA InvStep == Inv /\ [Next]_vars => Inv'
<1> SUFFICES ASSUME Inv, [Next]_vars PROVE Inv'
  OBVIOUS
<1>i. CallInv /\ MapsInv /\ \A k \in Keys : KeyInv(now, cold[k], starts[k], kept[k], promise[k])
  BY DEF Inv
<1>1. CASE Tick
  <2>1. CallInv'
    BY <1>i, <1>1 DEF Tick, CallInv
  <2>2. MapsInv'
    BY <1>i, <1>1 DEF Tick, MapsInv
  <2>3. \A k \in Keys : KeyInv(now + 1, cold[k], starts[k], kept[k], promise[k])
    BY <1>i, KeyTick DEF CallInv
  <2>4. QED
    BY <1>1, <2>1, <2>2, <2>3 DEF Inv, Tick
<1>2. ASSUME NEW c \in Calls, NEW k \in Keys, Arrive(c, k)
      PROVE  Inv'
  <2>1. CallInv'
    BY <1>i, <1>2 DEF Arrive, CallInv
  <2>2. UNCHANGED <<now, cold, starts, kept, promise>>
    BY <1>2 DEF Arrive
  <2>3. QED
    BY <1>i, <2>1, <2>2 DEF Inv, MapsInv
<1>3. ASSUME NEW c \in Calls, Start(c) \/ Refuse(c)
      PROVE  Inv'
  <2>1. PICK k \in Keys, t \in Nat : who[c] = k /\ stamp[c] = t /\ t <= now
    BY <1>i, <1>3 DEF CallInv, Start, Refuse
  <2>2. CallInv'
    BY <1>i, <1>3 DEF Start, Refuse, Leave, CallInv
  <2> DEFINE swept == AfterSweep(t)
             old == KeptAfterSweep(t)
  <2>3. /\ swept \in [Keys -> Nat] /\ old \in [Keys -> Nat]
        /\ \A j \in Keys : KeyInv(now, swept[j], starts[j], old[j], promise[j])
    BY <2>1, SweepKeeps
  <2>n. now \in Nat /\ now' = now
    BY <1>i, <1>3 DEF CallInv, Start, Refuse
  <2>4. CASE Start(c)
    <3>1. /\ ~ Spent(swept[k], t)
          /\ cold' = [swept EXCEPT ![k] = AllowedAt(swept[k], t) + Interval]
          /\ kept' = old
          /\ starts' = [starts EXCEPT ![k] = Append(@, t)]
          /\ promise' = [promise EXCEPT ![k] = 0]
      BY <2>1, <2>4 DEF Start
    <3> HIDE DEF swept, old
    <3>2. KeyInv(now, AllowedAt(swept[k], t) + Interval, Append(starts[k], t), old[k], 0)
      BY <2>1, <2>3, <2>n, <3>1, KeyStart
    <3>3. AllowedAt(swept[k], t) + Interval \in Nat /\ Append(starts[k], t) \in Seq(Nat)
      BY <3>2 DEF KeyInv
    <3>4. MapsInv'
      BY <1>i, <2>3, <3>1, <3>3 DEF MapsInv
    <3>5. ASSUME NEW j \in Keys
          PROVE  KeyInv(now', cold'[j], starts'[j], kept'[j], promise'[j])
      <4>1. CASE j = k
        BY <1>i, <2>3, <2>n, <3>1, <3>2, <4>1 DEF MapsInv
      <4>2. CASE j # k
        <5>1. cold'[j] = swept[j] /\ starts'[j] = starts[j] /\ kept'[j] = old[j] /\ promise'[j] = promise[j]
          BY <1>i, <2>3, <3>1, <4>2 DEF MapsInv
        <5>2. QED
          BY <2>3, <2>n, <5>1
      <4>3. QED
        BY <4>1, <4>2
    <3>6. QED
      BY <2>2, <3>4, <3>5 DEF Inv
  <2>5. CASE Refuse(c)
    <3>1. /\ Spent(swept[k], t)
          /\ cold' = swept
          /\ kept' = old
          /\ promise' = [promise EXCEPT ![k] = t + Wait(swept[k], t)]
          /\ starts' = starts
      BY <2>1, <2>5 DEF Refuse
    <3> HIDE DEF swept, old
    <3>2. KeyInv(now, swept[k], starts[k], old[k], t + Wait(swept[k], t))
      BY <2>1, <2>3, <2>n, <3>1, KeyRefuse
    <3>3. t + Wait(swept[k], t) \in Nat
      BY <3>2 DEF KeyInv
    <3>4. MapsInv'
      BY <1>i, <2>3, <3>1, <3>3 DEF MapsInv
    <3>5. ASSUME NEW j \in Keys
          PROVE  KeyInv(now', cold'[j], starts'[j], kept'[j], promise'[j])
      <4>1. CASE j = k
        BY <1>i, <2>3, <2>n, <3>1, <3>2, <4>1 DEF MapsInv
      <4>2. CASE j # k
        <5>1. promise'[j] = promise[j]
          BY <1>i, <3>1, <4>2 DEF MapsInv
        <5>2. QED
          BY <2>3, <2>n, <3>1, <5>1
      <4>3. QED
        BY <4>1, <4>2
    <3>6. QED
      BY <2>2, <3>4, <3>5 DEF Inv
  <2>6. QED
    BY <1>3, <2>4, <2>5
<1>4. CASE UNCHANGED vars
  BY <1>i, <1>4 DEF vars, Inv, CallInv, MapsInv
<1>5. QED
  BY <1>1, <1>2, <1>3, <1>4 DEF Next

LEMMA Invariance == Spec => []Inv
BY InvInit, InvStep, PTL DEF Spec

-----------------------------------------------------------------------------

(* Every variable of the budget keeps its type, and no client is told to   *)
(* wait for longer than one window.                                        *)
THEOREM TypeCorrect == Spec => []TypeOK
<1>1. Inv => TypeOK
  BY DEF Inv, CallInv, MapsInv, KeyInv, TypeOK
<1>2. QED
  BY Invariance, <1>1, PTL

(* The rate of the comment, between two sweeps of a key, with the interval *)
(* as rounded.                                                             *)
THEOREM RateIsKept == Spec => []RateBetweenSweeps
<1>1. Inv => RateBetweenSweeps
  BY DEF Inv, KeyInv, Rated, RateBetweenSweeps, WithinRate
<1>2. QED
  BY Invariance, <1>1, PTL

NothingSwept == \A k \in Keys : kept[k] = 0

(* Where there are fewer clients than MAX_KEYS nothing is ever swept, and  *)
(* the comment holds of everything a client starts.                        *)
THEOREM RateWithoutSweeps ==
    ASSUME IsFiniteSet(Keys), MaxKeys \in Nat, Cardinality(Keys) < MaxKeys
    PROVE  Spec => []RateHolds
<1>1. ASSUME NEW t PROVE Swept(t) = {}
  <2> DEFINE full == {k \in Keys : cold[k] > 0}
  <2>1. Cardinality(full) \in Nat /\ Cardinality(full) <= Cardinality(Keys) /\ Cardinality(Keys) \in Nat
    BY FS_Subset, FS_CardinalityType
  <2>2. ~ Cardinality(full) >= MaxKeys
    BY <2>1
  <2>3. QED
    BY <2>2 DEF Swept
<1>2. ASSUME NEW t PROVE KeptAfterSweep(t) = [k \in Keys |-> kept[k]]
  BY <1>1 DEF KeptAfterSweep
<1>3. Init => NothingSwept
  BY DEF Init, NothingSwept
<1>4. NothingSwept /\ [Next]_vars => NothingSwept'
  BY <1>2 DEF NothingSwept, Next, Tick, Arrive, Start, Refuse, vars
<1>5. RateBetweenSweeps /\ NothingSwept => RateHolds
  BY DEF RateBetweenSweeps, NothingSwept, RateHolds
<1>6. QED
  BY <1>3, <1>4, <1>5, RateIsKept, PTL DEF Spec

LEMMA RetryFollows == Inv => RetryIsHonest
<1> SUFFICES ASSUME Inv, NEW k \in Keys, promise[k] > 0
             PROVE  Spent(cold[k], now) <=> now < promise[k]
  BY DEF RetryIsHonest
<1>1. now \in Nat /\ Promised(now, cold[k], promise[k]) /\ promise[k] \in Nat
  BY DEF Inv, CallInv, KeyInv
<1>2. CASE \A t \in Nat : Spent(cold[k], t) <=> t < promise[k]
  BY <1>1, <1>2
<1>3. CASE cold[k] = 0 /\ promise[k] <= now
  <2>1. now * Grain \in Nat
    BY <1>1, Nonnegative
  <2>2. QED
    BY <1>1, <1>3, <2>1, Constants DEF Spent
<1>4. QED
  BY <1>1, <1>2, <1>3 DEF Promised

(* The Retry-After of a refusal is exact, whatever is swept in between.    *)
THEOREM RetryAlwaysHonest == Spec => []RetryIsHonest
BY Invariance, RetryFollows, PTL

-----------------------------------------------------------------------------
(* What the entry of a key may be at most, seen by a call with the clock t *)
(* that no start is ahead of: a start that is a window old leaves no more  *)
(* than t, and every start after it has added an interval.                 *)
Charged(tat, s) ==
    \A t \in Nat : \A i \in 0..Len(s) :
        /\ i = 0 \/ s[i] <= t - Window
        /\ \A j \in i + 1..Len(s) : s[j] <= t
        => tat <= t * Grain + (Len(s) - i) * Interval

ChargedInv == \A k \in Keys : Charged(cold[k], starts[k])

LEMMA ChargedSwept ==
    ASSUME NEW s \in Seq(Nat)
    PROVE  Charged(0, s)
<1>1. ASSUME NEW t \in Nat, NEW i \in 0..Len(s)
      PROVE  0 <= t * Grain + (Len(s) - i) * Interval
  <2>1. Len(s) - i \in Nat /\ t * Grain \in Nat
    BY Nonnegative
  <2>2. (Len(s) - i) * Interval \in Nat
    BY <2>1, Constants
  <2>3. QED
    BY <2>1, <2>2
<1>2. QED
  BY <1>1 DEF Charged

LEMMA ChargedStart ==
    ASSUME NEW tat \in Nat, NEW s \in Seq(Nat), Charged(tat, s),
           NEW t \in Nat, ~ Spent(tat, t)
    PROVE  Charged(AllowedAt(tat, t) + Interval, Append(s, t))
<1> DEFINE new == AllowedAt(tat, t) + Interval
           more == Append(s, t)
           l == Len(s)
<1>1. l \in Nat /\ Len(more) = l + 1 /\ more[l + 1] = t /\ \A j \in 1..l : more[j] = s[j]
  OBVIOUS
<1>2. t * Grain \in Nat /\ Interval \in Nat /\ Window \in Nat /\ Window * Grain \in Nat
  BY Nonnegative, Constants
<1>3. tat <= t * Grain + Tolerance
  BY <1>2, Constants DEF Spent
<1>4. new \in Nat /\ (new = tat + Interval \/ new = t * Grain + Interval)
  BY <1>2, Constants DEF AllowedAt
<1>5. new <= t * Grain + Window * Grain
  BY <1>2, <1>3, Constants DEF AllowedAt
<1> HIDE DEF new, more, l
<1>6. ASSUME NEW u \in Nat, NEW i \in 0..l + 1,
             i = 0 \/ more[i] <= u - Window,
             \A j \in i + 1..l + 1 : more[j] <= u
      PROVE  new <= u * Grain + (l + 1 - i) * Interval
  <2>1. u * Grain \in Nat
    BY Nonnegative
  <2>2. CASE i = l + 1
    <3>1. t + Window <= u
      BY <1>1, <1>2, <1>6, <2>2
    <3>2. (t + Window) * Grain <= u * Grain
      BY <3>1, <1>2, Times
    <3>3. (t + Window) * Grain = t * Grain + Window * Grain
      BY Constants
    <3>4. (l + 1 - i) * Interval = 0
      BY <1>1, <1>2, <2>2
    <3>5. QED
      BY <1>2, <1>4, <1>5, <2>1, <3>2, <3>3, <3>4
  <2>3. CASE i # l + 1
    <3>1. i \in 0..l /\ l - i \in Nat
      BY <1>1, <2>3
    <3>2. t <= u
      BY <1>1, <1>6, <3>1
    <3>3. t * Grain <= u * Grain
      BY <3>2, Times
    <3> DEFINE owed == (l - i) * Interval
    <3>4. owed \in Nat /\ (l + 1 - i) * Interval = owed + Interval
      <4>1. (l - i) * Interval \in Nat
        BY <3>1, <1>2
      <4>2. ((l - i) + 1) * Interval = (l - i) * Interval + Interval
        BY <3>1, Intervals
      <4>3. (l - i) + 1 = l + 1 - i
        BY <1>1, <3>1
      <4>4. QED
        BY <4>1, <4>2, <4>3
    <3>5. i = 0 \/ s[i] <= u - Window
      BY <1>1, <1>6, <3>1
    <3>6. \A j \in i + 1..l : s[j] <= u
      BY <1>1, <1>6, <3>1
    <3>7. tat <= u * Grain + owed
      BY <3>1, <3>5, <3>6 DEF Charged, l
    <3> HIDE DEF owed
    <3>8. QED
      BY <1>2, <1>4, <2>1, <3>3, <3>4, <3>7
  <2>4. QED
    BY <2>2, <2>3
<1>7. ASSUME NEW u \in Nat, NEW i \in 0..Len(more),
             i = 0 \/ more[i] <= u - Window,
             \A j \in i + 1..Len(more) : more[j] <= u
      PROVE  new <= u * Grain + (Len(more) - i) * Interval
  BY <1>1, <1>6, <1>7
<1>8. Charged(new, more)
  BY <1>7, Zenon DEF Charged
<1>9. QED
  BY <1>8 DEF new, more

LEMMA ChargedStep == Inv /\ ChargedInv /\ [Next]_vars => ChargedInv'
<1> SUFFICES ASSUME Inv, ChargedInv, [Next]_vars PROVE ChargedInv'
  OBVIOUS
<1>1. CallInv /\ MapsInv
  BY DEF Inv
<1>2. CASE Tick \/ (\E c \in Calls, k \in Keys : Arrive(c, k)) \/ UNCHANGED vars
  <2>1. UNCHANGED <<cold, starts>>
    BY <1>2 DEF Tick, Arrive, vars
  <2>2. QED
    BY <2>1 DEF ChargedInv
<1>3. ASSUME NEW c \in Calls, Start(c) \/ Refuse(c)
      PROVE  ChargedInv'
  <2>1. PICK k \in Keys, t \in Nat : who[c] = k /\ stamp[c] = t
    BY <1>1, <1>3 DEF CallInv, Start, Refuse
  <2> DEFINE swept == AfterSweep(t)
  <2>2. swept \in [Keys -> Nat] /\ \A j \in Keys : Charged(swept[j], starts[j])
    BY <1>1, ChargedSwept DEF MapsInv, ChargedInv, AfterSweep
  <2>3. CASE Start(c)
    <3>1. /\ ~ Spent(swept[k], t)
          /\ cold' = [swept EXCEPT ![k] = AllowedAt(swept[k], t) + Interval]
          /\ starts' = [starts EXCEPT ![k] = Append(@, t)]
      BY <2>1, <2>3 DEF Start
    <3> HIDE DEF swept
    <3>2. swept[k] \in Nat /\ starts[k] \in Seq(Nat)
      BY <1>1, <2>1, <2>2 DEF MapsInv
    <3>3. Charged(AllowedAt(swept[k], t) + Interval, Append(starts[k], t))
      BY <2>1, <2>2, <3>1, <3>2, ChargedStart
    <3>4. ASSUME NEW j \in Keys PROVE Charged(cold'[j], starts'[j])
      <4>1. CASE j = k
        BY <1>1, <2>2, <3>1, <3>3, <4>1 DEF MapsInv
      <4>2. CASE j # k
        <5>1. cold'[j] = swept[j] /\ starts'[j] = starts[j]
          BY <1>1, <2>2, <3>1, <4>2 DEF MapsInv
        <5>2. QED
          BY <2>2, <5>1
      <4>3. QED
        BY <4>1, <4>2
    <3>5. QED
      BY <3>4 DEF ChargedInv
  <2>4. CASE Refuse(c)
    <3>1. cold' = swept /\ starts' = starts
      BY <2>1, <2>4 DEF Refuse
    <3>2. QED
      BY <2>2, <3>1 DEF ChargedInv
  <2>5. QED
    BY <1>3, <2>3, <2>4
<1>4. QED
  BY <1>2, <1>3 DEF Next

LEMMA Smallest ==
    ASSUME NEW S, S \subseteq Nat, S # {}
    PROVE  \E v \in S : \A w \in S : v <= w
<1>1. IsWellFoundedOn(OpToRel(<, Nat), Nat)
  BY NatLessThanWellFounded
<1>2. PICK v \in S : \A w \in S : ~(<<w, v>> \in OpToRel(<, Nat))
  BY <1>1, WFMin
<1>3. ASSUME NEW w \in S, w < v PROVE FALSE
  <2>1. <<w, v>> \in OpToRel(<, Nat)
    BY <1>3 DEF OpToRel
  <2>2. QED
    BY <1>2, <1>3, <2>1
<1>4. \A w \in S : v <= w
  BY <1>3
<1>5. QED
  BY <1>4

(* A refusal with Charged has so many starts that are not a window old     *)
(* that the intervals of one more do not fit a window.                     *)
LEMMA SpentHasStarts ==
    ASSUME NEW tat \in Nat, NEW s \in Seq(Nat), Charged(tat, s),
           NEW t \in Nat, Spent(tat, t), \A i \in 1..Len(s) : s[i] <= t
    PROVE  /\ Cardinality({i \in 1..Len(s) : s[i] > t - Window}) \in Nat
           /\ (Cardinality({i \in 1..Len(s) : s[i] > t - Window}) + 1) * Interval
                > Window * Grain
<1> DEFINE l == Len(s)
           old == {i \in 1..l : s[i] <= t - Window}
           fresh == {i \in 1..l : s[i] > t - Window}
<1>1. l \in Nat /\ t * Grain \in Nat /\ Window \in Nat /\ Window >= 1
  BY Nonnegative, Constants
<1>2. PICK i \in 0..l : (i = 0 \/ i \in old) /\ \A j \in i + 1..l : j \in fresh
  <2> DEFINE D == {d \in 0..l : d = l \/ l - d \in old}
  <2>1. D \subseteq Nat /\ l \in D
    BY <1>1
  <2>2. PICK d \in D : \A e \in D : d <= e
    BY <2>1, Smallest
  <2>3. \A e \in D : ~ (e < d)
    BY <2>1, <2>2
  <2>4. d \in 0..l /\ l - d \in 0..l /\ (l - d = 0 \/ l - d \in old)
    BY <1>1, <2>2
  <2>5. ASSUME NEW j \in (l - d) + 1..l PROVE j \in fresh
    <3>1. j \in 1..l /\ l - j \in 0..l /\ l - j < d
      BY <1>1, <2>4
    <3>2. l - j \notin D
      BY <2>3, <3>1
    <3>3. l - (l - j) = j
      BY <1>1, <3>1
    <3>4. j \notin old
      BY <3>1, <3>2, <3>3
    <3>5. s[j] \in Nat
      BY <3>1
    <3>6. QED
      BY <1>1, <3>1, <3>4, <3>5
  <2>6. QED
    BY <2>4, <2>5
<1>3. tat <= t * Grain + (l - i) * Interval
  <2>1. i = 0 \/ s[i] <= t - Window
    BY <1>2
  <2>2. \A j \in i + 1..l : s[j] <= t
    BY <1>1, <1>2
  <2>3. QED
    BY <1>2, <2>1, <2>2 DEF Charged
<1>4. tat > t * Grain + Tolerance
  BY <1>1, Constants DEF Spent
<1> HIDE DEF l, fresh
<1>5. (l - i + 1) * Interval > Window * Grain
  <2>1. l - i \in Int
    BY <1>1, <1>2
  <2>2. (l - i) * Interval \in Int /\ (l - i + 1) * Interval = (l - i) * Interval + Interval
    BY <2>1, Intervals
  <2> DEFINE b == (l - i) * Interval
  <2> HIDE DEF b
  <2>3. b \in Int /\ tat <= t * Grain + b /\ (l - i + 1) * Interval = b + Interval
    BY <1>3, <2>2 DEF b
  <2>4. QED
    BY <1>1, <1>4, <2>3, Constants
<1>6. IsFiniteSet(fresh) /\ Cardinality(i + 1..l) <= Cardinality(fresh) /\ Cardinality(fresh) \in Nat
  <2>1. IsFiniteSet(1..l)
    BY <1>1, FS_Interval
  <2>2. IsFiniteSet(fresh)
    BY <2>1, FS_Subset DEF fresh, l
  <2>3. i + 1..l \subseteq fresh
    BY <1>2
  <2>4. QED
    BY <2>2, <2>3, FS_Subset, FS_CardinalityType
<1>7. Cardinality(i + 1..l) = l - i
  <2>1. i + 1 \in Int /\ l \in Int
    BY <1>1, <1>2
  <2>2. Cardinality(i + 1..l) = IF i + 1 > l THEN 0 ELSE l - (i + 1) + 1
    BY <2>1, FS_Interval
  <2>3. QED
    BY <2>2, <1>1, <1>2
<1>8. (Cardinality(fresh) + 1) * Interval > Window * Grain
  <2> DEFINE c == Cardinality(fresh)
  <2>1. c \in Nat /\ l - i \in Int /\ l - i <= c
    BY <1>1, <1>2, <1>6, <1>7
  <2> HIDE DEF c
  <2>2. (l - i + 1) * Interval <= (c + 1) * Interval
    BY <2>1, Constants
  <2>3. (l - i + 1) * Interval \in Int /\ (c + 1) * Interval \in Int
    BY <2>1, Constants
  <2>4. QED
    BY <1>5, <2>2, <2>3, Constants DEF c
<1>9. QED
  BY <1>6, <1>8 DEF fresh, l

(* What is known of a step that refuses a key with fewer starts than n.    *)
LEMMA RefusedHasStarts ==
    ASSUME Inv, ChargedInv, Next, NEW c \in Calls, NEW n \in Nat, RefusedBelow(c, n)
    PROVE  \E m \in Nat : m < n /\ (m + 1) * Interval > Window * Grain
<1> DEFINE mine == starts[who[c]]
           fresh == {i \in 1..Len(mine) : mine[i] > stamp[c] - Window}
<1>1. /\ who[c] # None /\ who'[c] = None /\ starts' = starts
      /\ \A i \in 1..Len(mine) : mine[i] <= stamp[c]
      /\ Cardinality(fresh) < n
  BY DEF RefusedBelow
<1>2. CallInv /\ MapsInv
  BY DEF Inv
<1>3. ~ Tick
  BY <1>1 DEF Tick
<1>4. ASSUME NEW d \in Calls, NEW k \in Keys, Arrive(d, k) PROVE FALSE
  BY <1>1, <1>2, <1>4, BudgetAssumption DEF Arrive, CallInv
<1>5. ASSUME NEW d \in Calls, Start(d) PROVE FALSE
  <2>1. PICK k \in Keys : who[d] = k
    BY <1>2, <1>5 DEF Start, CallInv
  <2>2. starts'[k] = Append(starts[k], stamp[d])
    BY <1>2, <1>5, <2>1 DEF Start, MapsInv
  <2>3. starts[k] \in Seq(Nat) /\ stamp[d] \in Nat
    BY <1>2 DEF MapsInv, CallInv
  <2>4. Len(starts'[k]) = Len(starts[k]) + 1 /\ Len(starts[k]) \in Nat
    BY <2>2, <2>3
  <2>5. QED
    BY <1>1, <2>4
<1>6. PICK d \in Calls : Refuse(d)
  BY <1>3, <1>4, <1>5 DEF Next
<1>7. d = c
  BY <1>1, <1>2, <1>6 DEF Refuse, Leave, CallInv
<1>8. PICK k \in Keys, t \in Nat : who[c] = k /\ stamp[c] = t
  BY <1>1, <1>2 DEF CallInv
<1>9. Spent(AfterSweep(t)[k], t)
  BY <1>6, <1>7, <1>8 DEF Refuse
<1>10. cold[k] \in Nat /\ starts[k] \in Seq(Nat) /\ Charged(cold[k], starts[k])
  BY <1>2 DEF MapsInv, ChargedInv
<1>11. Spent(cold[k], t)
  <2>1. ~ Spent(0, t)
    BY Nonnegative, Constants DEF Spent
  <2>2. QED
    BY <1>9, <2>1 DEF AfterSweep
<1>12. mine = starts[k] /\ stamp[c] = t
  BY <1>8
<1>13. Cardinality(fresh) \in Nat /\ (Cardinality(fresh) + 1) * Interval > Window * Grain
  BY <1>1, <1>10, <1>11, <1>12, SpentHasStarts
<1>14. QED
  BY <1>1, <1>13

LEMMA ChargedInvariance == Spec => [](Inv /\ ChargedInv)
<1>1. Init => ChargedInv
  <2>1. <<>> \in Seq(Nat)
    OBVIOUS
  <2>2. QED
    BY <2>1, ChargedSwept DEF Init, ChargedInv
<1>2. QED
  BY <1>1, InvInit, InvStep, ChargedStep, PTL DEF Spec

(* Nor is any step such a refusal where n intervals fit a window.          *)
LEMMA NoneRefusedBelow ==
    ASSUME Inv, ChargedInv, Next, NEW c \in Calls,
           NEW n \in Nat, n * Interval <= Window * Grain
    PROVE  ~ RefusedBelow(c, n)
<1> SUFFICES ASSUME RefusedBelow(c, n) PROVE FALSE
  OBVIOUS
<1>1. PICK m \in Nat : m < n /\ (m + 1) * Interval > Window * Grain
  BY RefusedHasStarts
<1>2. (m + 1) * Interval <= n * Interval
  BY <1>1, Constants
<1>3. (m + 1) * Interval \in Int /\ n * Interval \in Int /\ Window * Grain \in Int
  BY Constants
<1>4. QED
  BY <1>1, <1>2, <1>3

(* A refusal is of a key with as many starts that are not a window old as  *)
(* there are intervals to a window, in whatever order calls read the clock *)
(* and get the lock, and whenever the map is swept.                        *)
THEOREM RefusalsJustified == Spec => RefusedOnlyWhenSpent
<1>1. Fits \in Nat /\ Fits * Interval <= Window * Grain
  <2>1. Window * Grain \in Nat /\ Interval \in Nat \ {0}
    BY Constants
  <2>2. Fits \in Nat /\ Interval * Fits <= Window * Grain
    BY <2>1, Division DEF Fits
  <2>3. QED
    BY <2>1, <2>2
<1>2. ASSUME Inv, ChargedInv, [Next]_vars
      PROVE  [\A c \in Calls : ~ RefusedBelow(c, Fits)]_vars
  BY <1>1, <1>2, NoneRefusedBelow
<1>3. QED
  BY <1>2, ChargedInvariance, PTL DEF Spec, RefusedOnlyWhenSpent

(* Where the interval is exact or rounded down, the comment's burst is     *)
(* what a client gets: no refusal with fewer than Burst starts that are    *)
(* not a window old.                                                       *)
THEOREM BurstIsWhole ==
    ASSUME Burst * Interval <= Window * Grain
    PROVE  Spec => BurstIsAllowed
<1>1. ASSUME Inv, ChargedInv, [Next]_vars
      PROVE  [\A c \in Calls : ~ RefusedBelow(c, Burst)]_vars
  BY <1>1, NoneRefusedBelow, Constants
<1>2. QED
  BY <1>1, ChargedInvariance, PTL DEF Spec, BurstIsAllowed

====
