----------------------------- MODULE MovementProofs -----------------------------
(***************************************************************************)
(* What the movement judge lets through, for every speed, window, tolerance, boost and *)
(* knockback: any client's path is bounded by the walk at the cap of each time, and a  *)
(* driver that keeps its pace is flagged only as far as a cap that fell explains.       *)
(*                                                                             *)
(* Sums along the window come first, then what may have been walked by a time          *)
(* (Allowed) and how it grows, then what one judged step does, and the two invariants: *)
(* MoveInv, of whatever a client reports, and HonestInv, of the steady drivers.        *)
(***************************************************************************)
EXTENDS Movement, Sums, SequenceTheorems

(* Of products. *)
LEMMA TimesGrows == ASSUME NEW a \in Nat, NEW x \in Int, NEW y \in Int, x <= y PROVE a * x <= a * y /\ a * x \in Int
<1>1. PICK z \in Nat : y = x + z
  <2>1. y - x \in Nat /\ y = x + (y - x)
    OBVIOUS
  <2> QED  BY <2>1
<1>2. a * (x + z) = a * x + a * z /\ a * z \in Nat /\ a * x \in Int
  OBVIOUS
<1> QED  BY <1>1, <1>2

(* A product of a sum. *)
LEMMA TimesSum == ASSUME NEW a \in Int, NEW x \in Int, NEW y \in Int PROVE a * (x + y) = a * x + a * y /\ (x + y) * a = x * a + y * a
OBVIOUS

(* A whole window more is one more in a count of windows. *)
LEMMA WindowsCount ==
    ASSUME NEW w \in Nat \ {0}, NEW x \in Nat, NEW y \in Nat
    PROVE  /\ x \div w \in Nat
           /\ x <= y => x \div w <= y \div w
           /\ x + w <= y => x \div w + 1 <= y \div w
<1> DEFINE q == x \div w
           r == y \div w
<1>1. q \in Int /\ w * q <= x /\ x < w * (q + 1)
  OBVIOUS
<1>2. r \in Int /\ w * r <= y /\ y < w * (r + 1)
  OBVIOUS
<1> HIDE DEF q, r
<1>3. q >= 0
  <2>1. q + 1 <= 0 => w * (q + 1) <= w * 0
    BY <1>1, TimesGrows
  <2> QED  BY <1>1, <2>1
<1>4. ASSUME x <= y PROVE q <= r
  <2>1. r + 1 <= q => w * (r + 1) <= w * q
    BY <1>1, <1>2, TimesGrows
  <2>2. w * (r + 1) \in Int /\ w * q \in Int
    BY <1>1, <1>2
  <2> QED  BY <1>1, <1>2, <1>4, <2>1, <2>2
<1>5. ASSUME x + w <= y PROVE q + 1 <= r
  <2>1. r + 1 <= q + 1 => w * (r + 1) <= w * (q + 1)
    BY <1>1, <1>2, TimesGrows
  <2>2. w * (q + 1) = w * q + w
    BY <1>1
  <2>3. w * (r + 1) \in Int /\ w * q \in Int
    BY <1>1, <1>2
  <2> QED  BY <1>1, <1>2, <1>5, <2>1, <2>2, <2>3
<1> QED  BY <1>1, <1>3, <1>4, <1>5 DEF q, r
-----------------------------------------------------------------------------
(* Sums along a list. *)

USE DEF Sum, SumFunction

(* The same terms of g as of f, c further on. *)
SameTerms(f, g, a, c, l) ==
    a \in Nat /\ c \in Int /\ l \in Nat /\ \A i \in a .. a + l - 1 : f[i] \in Int /\ g[i + c] = f[i]
(* They have the same sum. *)
LEMMA SumShifted ==
    ASSUME NEW f, NEW g, NEW a, NEW c, NEW l, SameTerms(f, g, a, c, l)
    PROVE  Sum(f, a .. a + l - 1) = Sum(g, a + c .. a + c + l - 1)
<1> USE DEF SameTerms
<1> DEFINE T == {n \in Nat : n <= l => Sum(f, a .. a + n - 1) = Sum(g, a + c .. a + c + n - 1)}
<1>1. 0 \in T
  <2>1. a .. a + 0 - 1 = {} /\ a + c .. a + c + 0 - 1 = {}
    OBVIOUS
  <2> QED  BY <2>1, SumEmpty
<1>2. ASSUME NEW n \in Nat, n \in T PROVE n + 1 \in T
  <2> SUFFICES ASSUME n + 1 <= l
               PROVE  Sum(f, a .. a + (n + 1) - 1) = Sum(g, a + c .. a + c + (n + 1) - 1)
    OBVIOUS
  <2> DEFINE A == a .. a + n - 1
             B == a + c .. a + c + n - 1
  <2>0. IsFiniteSet(A) /\ IsFiniteSet(B)
    <3>1. a + n - 1 \in Int /\ a + c \in Int /\ a + c + n - 1 \in Int
      OBVIOUS
    <3> QED  BY <3>1, FS_Interval
  <2>1. a .. a + (n + 1) - 1 = A \cup {a + n} /\ a + n \notin A
    OBVIOUS
  <2>2. a + c .. a + c + (n + 1) - 1 = B \cup {a + n + c} /\ a + n + c \notin B
    OBVIOUS
  <2>3. \A i \in A : f[i] \in Int
    OBVIOUS
  <2>4. \A i \in B : g[i] \in Int
    <3> SUFFICES ASSUME NEW i \in B PROVE g[i] \in Int
      OBVIOUS
    <3>1. i - c \in a .. a + l - 1 /\ i - c + c = i
      OBVIOUS
    <3>2. g[i - c + c] = f[i - c] /\ f[i - c] \in Int
      BY <3>1
    <3> QED  BY <3>1, <3>2
  <2>5. f[a + n] \in Int /\ g[a + n + c] = f[a + n]
    OBVIOUS
  <2>6. Sum(f, A) = Sum(g, B)
    BY <1>2
  <2> HIDE DEF A, B
  <2>7. Sum(f, A \cup {a + n}) = f[a + n] + Sum(f, A)
    BY <2>0, <2>1, <2>3, <2>5, SumAdd
  <2>8. Sum(g, B \cup {a + n + c}) = g[a + n + c] + Sum(g, B)
    BY <2>0, <2>2, <2>4, <2>5, SumAdd
  <2> QED  BY <2>1, <2>2, <2>5, <2>6, <2>7, <2>8
<1> HIDE DEF T
<1>3. l \in T
  BY <1>1, <1>2, NaturalInduction
<1> QED  BY <1>3 DEF T

(* How long the steps of ss are from the i-th on. *)
Steps(ss) == [i \in DOMAIN ss |-> ss[i].d]
LengthFrom(ss, i) == Sum(Steps(ss), i .. Len(ss))

Sample == [from : Nat, to : Nat, d : Nat, cap : Nat]

(* The parts of a sample. *)
LEMMA SampleParts == ASSUME NEW x \in Sample PROVE x.from \in Nat /\ x.to \in Nat /\ x.d \in Nat /\ x.cap \in Nat
BY DEF Sample

(* The lengths from a sample on: its own and the lengths from the next. *)
LEMMA LengthsAre ==
    ASSUME NEW ss, ss \in Seq(Sample)
    PROVE  /\ Lengths(ss) = LengthFrom(ss, 1)
           /\ \A i \in Nat \ {0} : LengthFrom(ss, i) \in Nat
           /\ \A i \in 1 .. Len(ss) : LengthFrom(ss, i) = ss[i].d + LengthFrom(ss, i + 1)
           /\ LengthFrom(ss, Len(ss) + 1) = 0
<1> DEFINE f == Steps(ss)
           n == Len(ss)
<1>0. n \in Nat /\ DOMAIN ss = 1 .. n /\ \A i \in 1 .. n : ss[i] \in Sample
  OBVIOUS
<1>1. n \in Nat /\ DOMAIN f = 1 .. n /\ DOMAIN ss = 1 .. n /\ \A i \in 1 .. n : f[i] = ss[i].d /\ f[i] \in Nat
  BY <1>0 DEF Steps, Sample
<1>2. Lengths(ss) = LengthFrom(ss, 1)
  BY <1>1 DEF Lengths, LengthFrom, Steps
<1> HIDE DEF f, n
<1>3. ASSUME NEW i \in Nat \ {0} PROVE Sum(f, i .. n) \in Nat
  <2>1. IsFiniteSet(i .. n)
    BY <1>1, FS_Interval
  <2>2. \A j \in i .. n : f[j] \in Nat
    BY <1>1
  <2> QED  BY <2>1, <2>2, SumType
<1>4. ASSUME NEW i \in 1 .. n PROVE Sum(f, i .. n) = f[i] + Sum(f, i + 1 .. n)
  <2> DEFINE S == i + 1 .. n
  <2>1. (\A j \in S : f[j] \in Int) /\ i \notin S /\ f[i] \in Int /\ S \cup {i} = i .. n
    BY <1>1
  <2>3. i + 1 \in Int /\ n \in Int
    BY <1>1
  <2>4. IsFiniteSet(S)
    BY <2>3, FS_Interval
  <2> HIDE DEF S
  <2>2. Sum(f, S \cup {i}) = f[i] + Sum(f, S)
    BY <2>1, <2>4, SumAdd
  <2> QED  BY <2>1, <2>2 DEF S
<1>5. Sum(f, n + 1 .. n) = 0
  <2>1. n + 1 .. n = {}
    BY <1>1
  <2> QED  BY <2>1, SumEmpty
<1> QED  BY <1>1, <1>2, <1>3, <1>4, <1>5 DEF LengthFrom, f, n

(* Another list that goes on like ss from the k-th on. *)
LEMMA LengthsShift ==
    ASSUME NEW ss, ss \in Seq(Sample), NEW tt, tt \in Seq(Sample), NEW k \in 1 .. Len(ss) + 1,
           Len(tt) = Len(ss) - k + 1, \A j \in 1 .. Len(tt) : tt[j].d = ss[j + k - 1].d
    PROVE  \A j \in 1 .. Len(tt) + 1 : LengthFrom(tt, j) = LengthFrom(ss, j + k - 1)
<1> SUFFICES ASSUME NEW j \in 1 .. Len(tt) + 1 PROVE LengthFrom(tt, j) = LengthFrom(ss, j + k - 1)
  OBVIOUS
<1> DEFINE f == Steps(tt)
           g == Steps(ss)
           l == Len(tt) - j + 1
           c == k - 1
<1>1. Len(tt) \in Nat /\ Len(ss) \in Nat /\ k \in Nat
  OBVIOUS
<1>2. l \in Nat /\ c \in Int /\ j \in Nat /\ j + l - 1 = Len(tt) /\ j + c + l - 1 = Len(ss) /\ j + c = j + k - 1
  BY <1>1
<1>3. \A i \in 1 .. Len(tt) : f[i] = tt[i].d /\ g[i + c] = ss[i + k - 1].d /\ f[i] \in Int
  <2> SUFFICES ASSUME NEW i \in 1 .. Len(tt)
               PROVE  f[i] = tt[i].d /\ g[i + c] = ss[i + k - 1].d /\ f[i] \in Int
    OBVIOUS
  <2>1. i \in DOMAIN tt /\ i + c = i + k - 1 /\ i + k - 1 \in DOMAIN ss
    BY <1>1
  <2>2. tt[i] \in Sample
    BY <2>1
  <2>3. tt[i].d \in Int
    BY <2>2, SampleParts
  <2>4. f[i] = tt[i].d /\ g[i + k - 1] = ss[i + k - 1].d
    BY <2>1 DEF Steps
  <2> HIDE DEF f, g, c
  <2> QED  BY <2>1, <2>3, <2>4
<1>4. \A i \in j .. j + l - 1 : f[i] \in Int /\ g[i + c] = f[i]
  <2>1. \A i \in 1 .. Len(tt) : tt[i].d = ss[i + k - 1].d
    OBVIOUS
  <2> HIDE DEF f, g, l, c
  <2> QED  BY <1>1, <1>2, <1>3, <2>1
<1> HIDE DEF f, g, l, c
<1>5. Sum(f, j .. j + l - 1) = Sum(g, j + c .. j + c + l - 1)
  <2>1. SameTerms(f, g, j, c, l)
    BY <1>2, <1>4 DEF SameTerms
  <2> QED  BY <2>1, SumShifted
<1> QED  BY <1>2, <1>5 DEF LengthFrom, f, g

-----------------------------------------------------------------------------
(* What may have been walked by a time: a walk at the base speed, a tolerance for every  *)
(* window, and of each boost what it adds from the oldest step in the window when it     *)
(* began until it ran out.                                                           *)

Span(si) == BoostTime + Window + si
Reach(x, st, un, si) == Most(0, Least(x, un) - (st - Window - si))
Extra(x, n, st, un, si) == IF n = 0 THEN 0 ELSE Span(si) * (n - 1) + Reach(x, st, un, si)
Windows(x) == (x - 1) \div Window + 1
Allowed(x, n, st, un, si) ==
    Base * x + Tolerance * Windows(x) + (Boost - Base) * Extra(x, n, st, un, si)

(* n boosts, of which the last began at st and ends at un; nobody was silent longer than si. *)
Boosts(n, st, un, si) ==
    /\ n \in Nat /\ st \in Nat /\ un \in Nat /\ si \in Nat
    /\ n > 0 => un = st + BoostTime

(* What is assumed of the constants, one by one. *)
LEMMA Constants ==
    /\ Base \in Nat /\ Boost \in Nat /\ BotPace \in Nat /\ Window \in Nat /\ Tolerance \in Nat
    /\ Knock \in Nat /\ KnockTime \in Nat /\ BoostTime \in Nat /\ MaxDt \in Nat /\ Jump \in Nat
    /\ Base > 0 /\ Window > 0 /\ KnockTime > 0 /\ Base <= Boost /\ Boost - Base \in Nat
    /\ FullSize \in Nat /\ FullSize > 0 /\ Penalty \in Nat /\ Penalty <= 100
    /\ MaxCarried \in Nat /\ Loads \subseteq 0 .. MaxCarried
BY MovementAssumption

(* Growth takes something off a cap, at most all of it. *)
LEMMA GrowCaps ==
    ASSUME NEW c \in Nat, NEW n \in Nat
    PROVE  GrowCap(c, n) \in Nat /\ GrowCap(c, n) <= c
<1> DEFINE k == Least(n, FullSize)
           m == FullSize * 100
           x == c * k * Penalty
           q == x \div m
<1>1. k \in Nat /\ k <= FullSize /\ FullSize \in Nat /\ Penalty \in Nat /\ Penalty <= 100
  BY Constants DEF Least
<1>2. m \in Nat /\ m > 0
  BY Constants
<1>3. k * Penalty \in Nat /\ k * Penalty <= m
  <2> HIDE DEF k
  <2>1. k * Penalty <= k * 100 /\ 100 * k <= 100 * FullSize
    BY <1>1, TimesGrows
  <2> QED  BY <1>1, <2>1
<1>4. x = c * (k * Penalty) /\ x \in Nat
  <2> HIDE DEF k
  <2> QED  BY <1>1
<1>5. x <= m * c
  <2> DEFINE z == k * Penalty
  <2>1. z \in Nat /\ z <= m /\ x = c * z
    BY <1>3, <1>4
  <2> HIDE DEF z, x, m
  <2>2. c * z <= c * m
    BY <1>2, <2>1, TimesGrows
  <2> QED  BY <1>2, <2>1, <2>2
<1> HIDE DEF k, m, x
<1>6. q \in Nat /\ m * q <= x
  <2>1. m \in Nat \ {0}
    BY <1>2
  <2>2. q \in Nat
    BY <1>4, <2>1, WindowsCount
  <2> QED  BY <1>4, <2>1, <2>2
<1>7. q <= c
  <2> HIDE DEF q
  <2> SUFFICES ASSUME c + 1 <= q PROVE FALSE
    BY <1>6
  <2>1. m * (c + 1) <= m * q /\ m * (c + 1) = m * c + m
    BY <1>2, <1>6, TimesGrows
  <2>2. m * c \in Int /\ m * q \in Int
    BY <1>2, <1>6
  <2> QED  BY <1>2, <1>4, <1>5, <1>6, <2>1, <2>2
<1>8. GrowCap(c, n) = c - q
  BY DEF GrowCap, q, x, m, k
<1> HIDE DEF q
<1> QED  BY <1>6, <1>7, <1>8

(* What began at most s before b, when b is at most w before c. *)
LEMMA NotLongBefore ==
    ASSUME NEW a \in Int, NEW b \in Int, NEW c \in Int, NEW w \in Int, NEW s \in Int,
           b - a <= s, b >= c - w
    PROVE  a >= c - w - s
OBVIOUS

(* Of three numbers in order the first is at most the last. *)
LEMMA Through ==
    ASSUME NEW a \in Int, NEW b \in Int, NEW c \in Int, a <= b, b <= c
    PROVE  a <= c
OBVIOUS

(* A cap of this time: that of a boosted seat while the boost lasts, else the base. *)
IsCap(c) == c \in Nat /\ (c <= Base \/ (boostUntil > clock /\ c <= Boost))

(* So is the cap of whoever carries n fragments. *)
LEMMA CapIs ==
    ASSUME NEW n \in Nat, NEW t
    PROVE  IsCap(Cap(n)) /\ Cap(n) \in Nat /\ CapAt(n, t) \in Nat
<1>1. ASSUME NEW u PROVE /\ CapAt(n, u) \in Nat
                         /\ CapAt(n, u) <= Base \/ (boostUntil > u /\ CapAt(n, u) <= Boost)
  <2>1. CASE boostUntil > u
    <3>1. CapAt(n, u) = GrowCap(Boost, n)
      BY <2>1 DEF CapAt
    <3> QED  BY <2>1, <3>1, Constants, GrowCaps
  <2>2. CASE ~ (boostUntil > u)
    <3>1. CapAt(n, u) = GrowCap(Base, n)
      BY <2>2 DEF CapAt
    <3> QED  BY <3>1, Constants, GrowCaps
  <2> QED  BY <2>1, <2>2
<1> QED  BY <1>1 DEF Cap, IsCap

(* The extra of a boost: it only grows, a boosted stretch at least by its length, a new   *)
(* boost takes none away, and it is at most a span for each boost.                     *)
LEMMA ExtraGrows ==
    ASSUME NEW x \in Nat, NEW y \in Nat, NEW n, NEW st, NEW un, NEW si, Boosts(n, st, un, si)
    PROVE  /\ Extra(x, n, st, un, si) \in Nat
           /\ Extra(x, n, st, un, si) <= Span(si) * n
           /\ x <= y => Extra(x, n, st, un, si) <= Extra(y, n, st, un, si)
           /\ n > 0 /\ x <= y /\ y < un /\ st <= y /\ x >= y - Window - si =>
                 Extra(x, n, st, un, si) + (y - x) <= Extra(y, n, st, un, si)
           /\ n > 0 /\ y < un /\ st <= y => Window + si <= Extra(y, n, st, un, si)
           /\ \A m \in Nat : si <= m => Extra(x, n, st, un, si) <= Extra(x, n, st, un, m)
           /\ \A b \in Nat : Extra(x, n, st, un, si) <= Extra(x, n + 1, b, b + BoostTime, si)
<1> DEFINE l == Span(si)
           r == Reach(x, st, un, si)
<1>1. n \in Nat /\ st \in Nat /\ un \in Nat /\ si \in Nat /\ (n > 0 => un = st + BoostTime)
  BY DEF Boosts
<1>2. l \in Nat /\ r \in Nat /\ Reach(y, st, un, si) \in Nat /\ (n > 0 => r <= l)
  BY <1>1, Constants DEF Span, Reach, Most, Least
<1>3. n > 0 => l * (n - 1) \in Nat /\ l * n = l * (n - 1) + l
  <2>1. n > 0 => n - 1 \in Nat /\ n = (n - 1) + 1
    BY <1>1
  <2>2. n > 0 => l * ((n - 1) + 1) = l * (n - 1) + l * 1
    BY <1>2, <2>1, TimesSum
  <2>3. l * 1 = l
    BY <1>2
  <2>4. n > 0 => l * (n - 1) \in Nat
    BY <1>2, <2>1
  <2> HIDE DEF l
  <2> QED  BY <2>1, <2>2, <2>3, <2>4
<1>4. n = 0 => l * n = 0
  BY <1>2
<1>5. x <= y => r <= Reach(y, st, un, si)
  BY <1>1, Constants DEF Reach, Most, Least
<1>6. n > 0 /\ x <= y /\ y < un /\ st <= y /\ x >= y - Window - si => r + (y - x) <= Reach(y, st, un, si)
  BY <1>1, Constants DEF Reach, Most, Least
<1>12. n > 0 /\ y < un /\ st <= y => Window + si <= Reach(y, st, un, si)
  BY <1>1, Constants DEF Reach, Most, Least
<1> HIDE DEF l, r
<1>13. n > 0 /\ y < un /\ st <= y => Window + si <= Extra(y, n, st, un, si)
  BY <1>1, <1>2, <1>3, <1>12, Constants DEF Extra, l
<1>7. /\ Extra(x, n, st, un, si) \in Nat
      /\ Extra(x, n, st, un, si) <= l * n
  BY <1>1, <1>2, <1>3, <1>4 DEF Extra, l, r
<1>8. x <= y => Extra(x, n, st, un, si) <= Extra(y, n, st, un, si)
  BY <1>1, <1>2, <1>3, <1>5 DEF Extra, l, r
<1>9. n > 0 /\ x <= y /\ y < un /\ st <= y /\ x >= y - Window - si =>
         Extra(x, n, st, un, si) + (y - x) <= Extra(y, n, st, un, si)
  BY <1>1, <1>2, <1>3, <1>6 DEF Extra, l, r
<1>10. ASSUME NEW m \in Nat, si <= m PROVE Extra(x, n, st, un, si) <= Extra(x, n, st, un, m)
  <2> DEFINE k == Span(m)
             q == Reach(x, st, un, m)
  <2>1. k \in Nat /\ l <= k /\ q \in Nat /\ r <= q
    BY <1>1, <1>10, Constants DEF Span, Reach, Most, Least, l, r
  <2>2. n > 0 => (n - 1) * l <= (n - 1) * k /\ (n - 1) * l = l * (n - 1) /\ (n - 1) * k = k * (n - 1)
    BY <1>1, <1>2, <2>1, TimesGrows
  <2>3. n > 0 => k * (n - 1) \in Nat
    BY <1>1, <2>1
  <2> HIDE DEF k, q
  <2>4. n > 0 => l * (n - 1) + r <= k * (n - 1) + q
    BY <1>2, <1>3, <2>1, <2>2, <2>3
  <2> QED  BY <1>1, <2>4 DEF Extra, l, r, k, q
<1>11. ASSUME NEW b \in Nat PROVE Extra(x, n, st, un, si) <= Extra(x, n + 1, b, b + BoostTime, si)
  <2> DEFINE q == Reach(x, b, b + BoostTime, si)
  <2>1. q \in Nat
    BY <1>1, Constants DEF Reach, Most, Least
  <2>2. Extra(x, n + 1, b, b + BoostTime, si) = l * n + q
    <3>1. n + 1 # 0 /\ n + 1 - 1 = n
      BY <1>1
    <3>2. Extra(x, n + 1, b, b + BoostTime, si) = l * ((n + 1) - 1) + q
      <4> HIDE DEF q
      <4>1. q = Reach(x, b, b + BoostTime, si)
        BY DEF q
      <4> QED  BY <3>1, <4>1, Zenon DEF Extra, l
    <3>3. l * ((n + 1) - 1) = l * n
      BY <1>1, <1>2
    <3> HIDE DEF q
    <3> QED  BY <3>2, <3>3, Zenon
  <2>3. l * n \in Nat
    BY <1>1, <1>2
  <2> HIDE DEF q
  <2> QED  BY <1>7, <2>1, <2>2, <2>3
<1> QED  BY <1>7, <1>8, <1>9, <1>10, <1>11, <1>13 DEF l

(* What a cap of c lets through in a stretch from x to y. *)
Capped(c, x, y, n, st, un, si) ==
    /\ c \in Nat
    /\ \/ c <= Base
       \/ (c <= Boost /\ n > 0 /\ y < un /\ st <= y /\ x >= y - Window - si)

(* What is allowed only grows, with the time, with the silence and with a boost. *)
LEMMA AllowedGrows ==
    ASSUME NEW x \in Nat \ {0}, NEW y \in Nat \ {0},
           NEW n, NEW st, NEW un, NEW si, Boosts(n, st, un, si)
    PROVE  /\ Allowed(x, n, st, un, si) \in Nat
           /\ x <= y => Allowed(x, n, st, un, si) <= Allowed(y, n, st, un, si)
           /\ \A m \in Nat : si <= m => Allowed(x, n, st, un, si) <= Allowed(x, n, st, un, m)
           /\ \A b \in Nat : Allowed(x, n, st, un, si) <= Allowed(x, n + 1, b, b + BoostTime, si)
           /\ Allowed(x, n, st, un, si) <=
                 Base * x + Tolerance * Windows(x) + (Boost - Base) * (Span(si) * n)
<1> DEFINE e == Extra(x, n, st, un, si)
           g == Boost - Base
           w == Windows(x)
<1>1. e \in Nat /\ g \in Nat /\ Base \in Nat /\ Tolerance \in Nat /\ Span(si) * n \in Nat
  BY ExtraGrows, Constants DEF Boosts, Span
<1>2. /\ w \in Nat /\ Windows(y) \in Nat
      /\ x <= y => w <= Windows(y)
  <2>1. x - 1 \in Nat /\ y - 1 \in Nat /\ (x <= y => x - 1 <= y - 1) /\ Window \in Nat \ {0}
    BY Constants
  <2> QED  BY <2>1, WindowsCount DEF Windows
<1>3. Base * x \in Nat /\ Tolerance * w \in Nat /\ g * e \in Nat
  BY <1>1, <1>2
<1>4. Allowed(x, n, st, un, si) = Base * x + Tolerance * w + g * e
  BY DEF Allowed
<1> HIDE DEF e, g, w
<1>5. ASSUME x <= y PROVE Allowed(x, n, st, un, si) <= Allowed(y, n, st, un, si)
  <2> DEFINE f == Extra(y, n, st, un, si)
             v == Windows(y)
  <2>1. f \in Nat /\ e <= f /\ v \in Nat /\ w <= v
    BY <1>2, <1>5, ExtraGrows DEF e
  <2>2. Allowed(y, n, st, un, si) = Base * y + Tolerance * v + g * f
    BY DEF Allowed, g
  <2> HIDE DEF f, v
  <2>3. Base * x <= Base * y /\ Tolerance * w <= Tolerance * v /\ g * e <= g * f
    BY <1>1, <1>2, <1>5, <2>1, TimesGrows
  <2>4. Base * y \in Nat /\ Tolerance * v \in Nat /\ g * f \in Nat
    BY <1>1, <2>1
  <2> QED  BY <1>3, <1>4, <2>2, <2>3, <2>4
<1>6. ASSUME NEW m \in Nat, si <= m PROVE Allowed(x, n, st, un, si) <= Allowed(x, n, st, un, m)
  <2> DEFINE f == Extra(x, n, st, un, m)
  <2>0. Boosts(n, st, un, m)
    BY <1>6 DEF Boosts
  <2>1. f \in Nat /\ e <= f
    BY <1>6, <2>0, ExtraGrows DEF e
  <2>2. Allowed(x, n, st, un, m) = Base * x + Tolerance * w + g * f
    BY DEF Allowed, g, w
  <2> HIDE DEF f
  <2>3. g * e <= g * f /\ g * f \in Nat
    BY <1>1, <2>1, TimesGrows
  <2> QED  BY <1>3, <1>4, <2>2, <2>3
<1>7. ASSUME NEW b \in Nat PROVE Allowed(x, n, st, un, si) <= Allowed(x, n + 1, b, b + BoostTime, si)
  <2> DEFINE f == Extra(x, n + 1, b, b + BoostTime, si)
  <2>0. Boosts(n + 1, b, b + BoostTime, si)
    BY Constants DEF Boosts
  <2>1. f \in Nat
    BY <2>0, ExtraGrows
  <2>5. e <= f
    BY ExtraGrows DEF e
  <2>2. Allowed(x, n + 1, b, b + BoostTime, si) = Base * x + Tolerance * w + g * f
    BY DEF Allowed, g, w
  <2> HIDE DEF f
  <2>3. g * e <= g * f /\ g * f \in Nat
    BY <1>1, <2>1, <2>5, TimesGrows
  <2> QED  BY <1>3, <1>4, <2>2, <2>3
<1>8. g * e <= g * (Span(si) * n)
  <2>1. e <= Span(si) * n
    BY ExtraGrows DEF e
  <2> QED  BY <1>1, <2>1, TimesGrows
<1>9. g * (Span(si) * n) \in Int
  BY <1>1
<1> QED  BY <1>3, <1>4, <1>5, <1>6, <1>7, <1>8, <1>9 DEF g, w

(* A window further on, a walk at the cap and one tolerance more are allowed. *)
LEMMA AllowedStep ==
    ASSUME NEW x \in Nat \ {0}, NEW y \in Nat \ {0}, x + Window <= y, NEW c,
           NEW n, NEW st, NEW un, NEW si, Boosts(n, st, un, si), Capped(c, x, y, n, st, un, si)
    PROVE  Allowed(x, n, st, un, si) + c * (y - x) + Tolerance <= Allowed(y, n, st, un, si)
<1> DEFINE e == Extra(x, n, st, un, si)
           f == Extra(y, n, st, un, si)
           g == Boost - Base
           w == Windows(x)
           v == Windows(y)
           z == y - x
<1>1. e \in Nat /\ f \in Nat /\ g \in Nat /\ Base \in Nat /\ Tolerance \in Nat /\ z \in Nat /\ Base + g = Boost
  BY ExtraGrows, Constants
<1>2. w \in Nat /\ v \in Nat /\ w + 1 <= v
  <2>1. x - 1 \in Nat /\ y - 1 \in Nat /\ x - 1 + Window <= y - 1 /\ Window \in Nat \ {0}
    BY Constants
  <2> QED  BY <2>1, WindowsCount DEF Windows
<1>3. /\ Allowed(x, n, st, un, si) = Base * x + Tolerance * w + g * e
      /\ Allowed(y, n, st, un, si) = Base * y + Tolerance * v + g * f
  BY DEF Allowed
<1>4. e <= f /\ c \in Nat /\ (c <= Base \/ (c <= Boost /\ e + z <= f))
  <2>1. x <= y
    BY Constants
  <2>2. e <= f
    BY <2>1, ExtraGrows
  <2>3. n > 0 /\ y < un /\ st <= y /\ x >= y - Window - si => e + z <= f
    BY <2>1, ExtraGrows
  <2>4. c \in Nat /\ (c <= Base \/ (c <= Boost /\ n > 0 /\ y < un /\ st <= y /\ x >= y - Window - si))
    BY Zenon DEF Capped
  <2> HIDE DEF e, f, z
  <2> QED  BY <2>2, <2>3, <2>4, Zenon
<1>5. y = x + z
  OBVIOUS
<1> HIDE DEF e, f, g, w, v, z
<1>6. Base * y = Base * x + Base * z /\ Base * x \in Nat /\ Base * z \in Nat
  BY <1>1, <1>5, TimesSum
<1>7. Tolerance * w + Tolerance <= Tolerance * v /\ Tolerance * w \in Nat /\ Tolerance * v \in Nat
  <2>1. Tolerance * (w + 1) <= Tolerance * v
    BY <1>1, <1>2, TimesGrows
  <2>2. Tolerance * (w + 1) = Tolerance * w + Tolerance
    BY <1>1, <1>2
  <2> QED  BY <1>1, <1>2, <2>1, <2>2
<1>8. g * e <= g * f /\ g * e \in Nat /\ g * f \in Nat
  BY <1>1, <1>4, TimesGrows
<1>11. c * z \in Nat /\ (c <= Base => c * z <= Base * z) /\ (c <= Boost => c * z <= Boost * z)
  <2>1. Boost \in Nat /\ (c <= Base => z * c <= z * Base) /\ (c <= Boost => z * c <= z * Boost)
    BY <1>1, <1>4, TimesGrows
  <2>2. z * c = c * z /\ z * Base = Base * z /\ z * Boost = Boost * z /\ c * z \in Nat
    BY <1>1, <1>4, <2>1
  <2> QED  BY <2>1, <2>2
<1>9. CASE c <= Base
  BY <1>1, <1>3, <1>6, <1>7, <1>8, <1>9, <1>11 DEF z
<1>10. CASE c <= Boost /\ e + z <= f
  <2>1. g * (e + z) <= g * f /\ g * (e + z) = g * e + g * z /\ g * z \in Nat
    BY <1>1, <1>10, TimesGrows, TimesSum
  <2>2. Boost * z = Base * z + g * z
    BY <1>1, TimesSum
  <2> QED  BY <1>1, <1>3, <1>6, <1>7, <1>8, <1>10, <1>11, <2>1, <2>2 DEF z
<1> QED  BY <1>4, <1>9, <1>10

(* From the first update on, however little time has gone by. *)
LEMMA AllowedFirst ==
    ASSUME NEW x \in Nat \ {0}, NEW y \in Nat \ {0}, x <= y, NEW c,
           NEW n, NEW st, NEW un, NEW si, Boosts(n, st, un, si), Capped(c, x, y, n, st, un, si)
    PROVE  c * Most(y - x, 1) + Tolerance <= Allowed(y, n, st, un, si)
<1> DEFINE f == Extra(y, n, st, un, si)
           g == Boost - Base
           v == Windows(y)
           z == Most(y - x, 1)
<1>1. f \in Nat /\ g \in Nat /\ Base \in Nat /\ Tolerance \in Nat /\ Base + g = Boost
  BY ExtraGrows, Constants
<1>2. v \in Nat /\ 1 <= v
  <2>1. y - 1 \in Nat /\ Window \in Nat \ {0}
    BY Constants
  <2>2. (y - 1) \div Window \in Nat
    BY <2>1, WindowsCount
  <2> QED  BY <2>2 DEF Windows
<1>3. Allowed(y, n, st, un, si) = Base * y + Tolerance * v + g * f
  BY DEF Allowed
<1>4. z \in Nat /\ z <= y
  BY DEF Most
<1>5. c \in Nat /\ (c <= Base \/ (c <= Boost /\ z <= f))
  <2>1. n > 0 /\ y < un /\ st <= y => Window + si <= f
    BY ExtraGrows
  <2>2. Window \in Nat /\ Window >= 1 /\ si \in Nat
    BY Constants DEF Boosts
  <2>3. x >= y - Window - si => z <= Window + si
    BY <2>2 DEF Most
  <2>4. Window + si \in Nat
    BY <2>2
  <2>6. c \in Nat /\ (c <= Base \/ (c <= Boost /\ n > 0 /\ y < un /\ st <= y /\ x >= y - Window - si))
    BY Zenon DEF Capped
  <2> HIDE DEF f, z
  <2>5. x >= y - Window - si /\ Window + si <= f => z <= f
    BY <1>1, <1>4, <2>3, <2>4
  <2> QED  BY <2>1, <2>5, <2>6, Zenon
<1> HIDE DEF f, g, v, z
<1>6. Base * z <= Base * y /\ Base * z \in Nat /\ Base * y \in Nat
  BY <1>1, <1>4, TimesGrows
<1>7. Tolerance <= Tolerance * v /\ Tolerance * v \in Nat
  <2>1. Tolerance * 1 <= Tolerance * v /\ Tolerance * 1 = Tolerance
    BY <1>1, <1>2, TimesGrows
  <2> QED  BY <1>1, <1>2, <2>1
<1>8. g * f \in Nat
  BY <1>1
<1>11. c * z \in Nat /\ (c <= Base => c * z <= Base * z) /\ (c <= Boost => c * z <= Boost * z)
  <2>1. Boost \in Nat /\ (c <= Base => z * c <= z * Base) /\ (c <= Boost => z * c <= z * Boost)
    BY <1>1, <1>4, <1>5, TimesGrows
  <2>2. z * c = c * z /\ z * Base = Base * z /\ z * Boost = Boost * z /\ c * z \in Nat
    BY <1>1, <1>4, <1>5, <2>1
  <2> QED  BY <2>1, <2>2
<1>9. CASE c <= Base
  BY <1>1, <1>3, <1>6, <1>7, <1>8, <1>9, <1>11 DEF z
<1>10. CASE c <= Boost /\ z <= f
  <2>1. g * z <= g * f /\ g * z \in Nat
    BY <1>1, <1>4, <1>10, TimesGrows
  <2>2. Boost * z = Base * z + g * z
    BY <1>1, <1>4, TimesSum
  <2> QED  BY <1>1, <1>3, <1>6, <1>7, <1>8, <1>10, <1>11, <2>1, <2>2 DEF z
<1> QED  BY <1>5, <1>9, <1>10

-----------------------------------------------------------------------------
(* The judge. *)

(* Steps in the order of their times, each from the end of the last, the last at `at`;    *)
(* none longer than si.                                                             *)
Chained(ss, at, si) ==
    /\ \A i \in 1 .. Len(ss) : /\ 1 <= ss[i].from /\ ss[i].from <= ss[i].to
                               /\ ss[i].to <= at /\ ss[i].to - ss[i].from <= si
    /\ \A i \in 1 .. Len(ss) - 1 : ss[i].to = ss[i + 1].from
    /\ ss # <<>> => ss[Len(ss)].to = at

(* The window is what is left of the list from its k-th sample on. *)
Cut(ss, tt, k) ==
    /\ k \in 1 .. Len(ss) /\ tt \in Seq(Sample) /\ Len(tt) = Len(ss) - k + 1
    /\ \A j \in 1 .. Len(ss) - k + 1 : tt[j] = ss[j + k - 1]
    /\ ss[k].to >= clock - Window
    /\ k > 1 => ss[k - 1].to < clock - Window

(* The window is such a cut. *)
LEMMA RecentIs ==
    ASSUME NEW ss, ss \in Seq(Sample), Len(ss) > 0, ss[Len(ss)].to = clock, clock \in Nat
    PROVE  \E k : Cut(ss, Recent(ss), k)
<1> DEFINE S == {i \in DOMAIN ss : ss[i].to >= clock - Window}
           k == Min(S)
           n == Len(ss)
<1>1. n \in Nat /\ n > 0 /\ DOMAIN ss = 1 .. n /\ Window \in Nat /\ \A i \in 1 .. n : ss[i] \in Sample
  BY Constants
<1>2. \A i \in 1 .. n : ss[i].to \in Nat
  BY <1>1, SampleParts
<1>3. S \subseteq Nat /\ n \in S
  BY <1>1
<1>4. k \in S /\ \A i \in S : k <= i
  <2> HIDE DEF S
  <2> QED  BY <1>3, MinIs
<1>5. k \in 1 .. n /\ ss[k].to >= clock - Window
  BY <1>1, <1>4
<1>6. k > 1 => ss[k - 1].to < clock - Window
  <2> SUFFICES ASSUME k > 1 PROVE ss[k - 1].to < clock - Window
    OBVIOUS
  <2>1. k - 1 \in 1 .. n /\ ~ (k <= k - 1)
    BY <1>1, <1>5
  <2>2. k - 1 \notin S
    <3> HIDE DEF k, S
    <3> QED  BY <1>4, <2>1
  <2>3. ~ (ss[k - 1].to >= clock - Window)
    <3> HIDE DEF k
    <3> QED  BY <1>1, <2>1, <2>2
  <2>4. ss[k - 1].to \in Nat
    <3> HIDE DEF k
    <3> QED  BY <1>2, <2>1
  <2> HIDE DEF k
  <2> QED  BY <1>1, <2>3, <2>4
<1>7. Recent(ss) = SubSeq(ss, k, n)
  BY DEF Recent
<1> HIDE DEF k, S, n
<1>8. /\ SubSeq(ss, k, n) \in Seq(Sample) /\ Len(SubSeq(ss, k, n)) = n - k + 1
      /\ \A j \in 1 .. n - k + 1 : SubSeq(ss, k, n)[j] = ss[j + k - 1]
  <2>1. k \in Nat /\ n \in Nat /\ k <= n /\ k >= 1
    BY <1>1, <1>5
  <2>2. \A i \in k .. n : ss[i] \in Sample
    BY <1>1, <2>1
  <2>3. /\ SubSeq(ss, k, n) \in Seq(Sample)
        /\ Len(SubSeq(ss, k, n)) = IF k <= n THEN n - k + 1 ELSE 0
        /\ \A i \in 1 .. n - k + 1 : SubSeq(ss, k, n)[i] = ss[k + i - 1]
    BY <2>1, <2>2, SubSeqProperties
  <2>4. \A i \in Nat : k + i - 1 = i + k - 1
    BY <2>1
  <2> QED  BY <2>1, <2>3, <2>4
<1>9. Cut(ss, Recent(ss), k)
  BY <1>5, <1>6, <1>7, <1>8 DEF Cut, n
<1> QED  BY <1>9

(* Two lists that differ in the length of their last step. *)
LEMMA LastReplaced ==
    ASSUME NEW ss, ss \in Seq(Sample), NEW tt, tt \in Seq(Sample), Len(ss) > 0, Len(tt) = Len(ss),
           \A i \in 1 .. Len(ss) - 1 : tt[i].d = ss[i].d
    PROVE  /\ LengthFrom(ss, 1) - ss[Len(ss)].d \in Nat
           /\ LengthFrom(tt, 1) - tt[Len(ss)].d = LengthFrom(ss, 1) - ss[Len(ss)].d
<1> DEFINE n == Len(ss)
           T == {m \in Nat : m < n => /\ LengthFrom(ss, n - m) - ss[n].d \in Nat
                                      /\ LengthFrom(tt, n - m) - tt[n].d = LengthFrom(ss, n - m) - ss[n].d}
<1>1. n \in Nat /\ DOMAIN ss = 1 .. n /\ n > 0 /\ DOMAIN tt = 1 .. n /\ Len(tt) = n
  OBVIOUS
<1>2. \A i \in 1 .. n : ss[i].d \in Nat /\ tt[i].d \in Nat
  BY <1>1, SampleParts
<1>3. /\ \A i \in 1 .. n : LengthFrom(ss, i) = ss[i].d + LengthFrom(ss, i + 1)
      /\ \A i \in 1 .. n : LengthFrom(tt, i) = tt[i].d + LengthFrom(tt, i + 1)
      /\ \A i \in Nat \ {0} : LengthFrom(ss, i) \in Nat /\ LengthFrom(tt, i) \in Nat
      /\ LengthFrom(ss, n + 1) = 0 /\ LengthFrom(tt, n + 1) = 0
  <2>1. /\ \A i \in 1 .. n : LengthFrom(ss, i) = ss[i].d + LengthFrom(ss, i + 1)
        /\ \A i \in Nat \ {0} : LengthFrom(ss, i) \in Nat
        /\ LengthFrom(ss, n + 1) = 0
    BY LengthsAre
  <2>2. /\ \A i \in 1 .. Len(tt) : LengthFrom(tt, i) = tt[i].d + LengthFrom(tt, i + 1)
        /\ \A i \in Nat \ {0} : LengthFrom(tt, i) \in Nat
        /\ LengthFrom(tt, Len(tt) + 1) = 0
    BY LengthsAre
  <2> QED  BY <1>1, <2>1, <2>2
<1>4. \A i \in 1 .. n - 1 : tt[i].d = ss[i].d
  OBVIOUS
<1>5. 0 \in T
  <2>1. n \in 1 .. n /\ n - 0 = n
    BY <1>1
  <2> HIDE DEF n
  <2> QED  BY <1>2, <1>3, <2>1
<1>6. ASSUME NEW m \in Nat, m \in T PROVE m + 1 \in T
  <2> SUFFICES ASSUME m + 1 < n
               PROVE  /\ LengthFrom(ss, n - (m + 1)) - ss[n].d \in Nat
                      /\ LengthFrom(tt, n - (m + 1)) - tt[n].d = LengthFrom(ss, n - (m + 1)) - ss[n].d
    OBVIOUS
  <2> DEFINE i == n - (m + 1)
  <2> HIDE DEF n
  <2>1. i \in 1 .. n - 1 /\ i \in 1 .. n /\ i + 1 \in Nat \ {0} /\ n - m = i + 1 /\ n \in 1 .. n /\ m < n
    BY <1>1
  <2>2. /\ LengthFrom(ss, i + 1) - ss[n].d \in Nat
        /\ LengthFrom(tt, i + 1) - tt[n].d = LengthFrom(ss, i + 1) - ss[n].d
    BY <1>1, <1>6, <2>1
  <2> HIDE DEF i, n, T
  <2>3. ss[i].d \in Nat /\ tt[i].d = ss[i].d /\ ss[n].d \in Nat /\ tt[n].d \in Nat
    BY <1>2, <1>4, <2>1
  <2>4. /\ LengthFrom(ss, i) = ss[i].d + LengthFrom(ss, i + 1)
        /\ LengthFrom(tt, i) = tt[i].d + LengthFrom(tt, i + 1)
        /\ LengthFrom(ss, i + 1) \in Nat /\ LengthFrom(tt, i + 1) \in Nat
    BY <1>3, <2>1
  <2>5. LengthFrom(ss, i) - ss[n].d \in Nat /\ LengthFrom(tt, i) - tt[n].d = LengthFrom(ss, i) - ss[n].d
    <3> DEFINE a == LengthFrom(ss, i + 1)
               b == LengthFrom(tt, i + 1)
               x == ss[n].d
               y == tt[n].d
               d == ss[i].d
    <3>1. a \in Nat /\ b \in Nat /\ x \in Nat /\ y \in Nat /\ d \in Nat /\ a - x \in Nat /\ b - y = a - x
      BY <2>2, <2>3, <2>4
    <3>2. LengthFrom(ss, i) = d + a /\ LengthFrom(tt, i) = d + b
      BY <2>3, <2>4
    <3> HIDE DEF a, b, x, y, d
    <3>3. d + a - x \in Nat /\ d + b - y = d + a - x
      BY <3>1
    <3>4. LengthFrom(ss, i) - x \in Nat /\ LengthFrom(tt, i) - y = LengthFrom(ss, i) - x
      BY <3>1, <3>2, <3>3
    <3> QED  BY <3>4, Zenon DEF x, y
  <2> QED  BY <2>5 DEF i
<1> HIDE DEF T
<1>7. Nat \subseteq T
  BY <1>5, <1>6, NaturalInduction
<1>8. n - 1 \in T /\ n - 1 < n /\ n - (n - 1) = 1
  BY <1>1, <1>7
<1> QED  BY <1>8 DEF T

(* Steps no faster than c add up to no more than c allows for their whole time. *)
LEMMA PacesSum ==
    ASSUME NEW ss, ss \in Seq(Sample), Len(ss) > 0, NEW c \in Nat, NEW at, NEW si, Chained(ss, at, si),
           \A i \in 1 .. Len(ss) : ss[i].d <= c * (ss[i].to - ss[i].from)
    PROVE  LengthFrom(ss, 1) <= c * (at - ss[1].from)
<1> DEFINE n == Len(ss)
           T == {m \in Nat : m < n => LengthFrom(ss, n - m) <= c * (at - ss[n - m].from)}
<1>1. n \in Nat /\ DOMAIN ss = 1 .. n /\ ss[n].to = at /\ n > 0
  BY DEF Chained
<1>2. \A i \in 1 .. n : ss[i].from \in Nat /\ ss[i].to \in Nat /\ ss[i].d \in Nat
  BY <1>1, SampleParts
<1>3. \A i \in 1 .. n : /\ LengthFrom(ss, i) = ss[i].d + LengthFrom(ss, i + 1) /\ LengthFrom(ss, i) \in Nat
                        /\ LengthFrom(ss, i + 1) \in Nat
  BY <1>1, LengthsAre
<1>4. LengthFrom(ss, n + 1) = 0
  BY LengthsAre
<1>5. at \in Nat /\ \A i \in 1 .. n : ss[i].to <= at /\ ss[i].from <= ss[i].to
  BY <1>1, <1>2 DEF Chained
<1>6. \A i \in 1 .. n - 1 : ss[i].to = ss[i + 1].from
  BY DEF Chained
<1>7. \A i \in 1 .. n : ss[i].d <= c * (ss[i].to - ss[i].from)
  OBVIOUS
<1>8. 0 \in T
  <2>1. ss[n].d <= c * (at - ss[n].from) /\ LengthFrom(ss, n) = ss[n].d + 0
    BY <1>1, <1>3, <1>4, <1>7
  <2>2. n - 0 = n
    BY <1>1
  <2>3. ss[n].d \in Nat
    BY <1>1, <1>2
  <2> HIDE DEF n
  <2> QED  BY <2>1, <2>2, <2>3
<1>9. ASSUME NEW m \in Nat, m \in T PROVE m + 1 \in T
  <2> SUFFICES ASSUME m + 1 < n
               PROVE LengthFrom(ss, n - (m + 1)) <= c * (at - ss[n - (m + 1)].from)
    OBVIOUS
  <2> DEFINE i == n - (m + 1)
  <2>1. i \in 1 .. n /\ i + 1 \in 1 .. n /\ n - m = i + 1 /\ i \in 1 .. n - 1 /\ m < n
    BY <1>1
  <2>2. LengthFrom(ss, i + 1) <= c * (at - ss[i + 1].from)
    BY <1>9, <2>1
  <2> HIDE DEF i, n, T
  <2> DEFINE u == ss[i].to - ss[i].from
             v == at - ss[i + 1].from
  <2>3. u \in Int /\ v \in Int /\ at - ss[i].from = u + v
    BY <1>2, <1>5, <1>6, <2>1
  <2>4. ss[i].d <= c * u
    BY <1>7, <2>1
  <2>5. LengthFrom(ss, i) = ss[i].d + LengthFrom(ss, i + 1) /\ ss[i].d \in Nat /\ LengthFrom(ss, i + 1) \in Nat
    BY <1>2, <1>3, <2>1
  <2>6. LengthFrom(ss, i + 1) <= c * v
    BY <2>2
  <2> HIDE DEF u, v
  <2>7. c * (u + v) = c * u + c * v /\ c * u \in Int /\ c * v \in Int
    BY <2>3, TimesSum
  <2>8. LengthFrom(ss, i) <= c * (u + v)
    BY <2>4, <2>5, <2>6, <2>7
  <2> QED  BY <2>3, <2>8 DEF i
<1> HIDE DEF T
<1>10. Nat \subseteq T
  BY <1>8, <1>9, NaturalInduction
<1>11. n - 1 \in T /\ n - 1 < n /\ n - (n - 1) = 1
  BY <1>1, <1>10
<1> QED  BY <1>11 DEF T

(* Steps that kept to their caps add up to no more than c allows for their whole time and  *)
(* what it is less than those caps.                                                     *)
LEMMA FallsSum ==
    ASSUME NEW ss, ss \in Seq(Sample), Len(ss) > 0, NEW c \in Nat, NEW at, NEW si, Chained(ss, at, si),
           \A i \in 1 .. Len(ss) : ss[i].d <= ss[i].cap * (ss[i].to - ss[i].from)
    PROVE  Fall(ss, c) \in Int /\ Lengths(ss) <= Fall(ss, c) + c * (at - ss[1].from)
<1> DEFINE n == Len(ss)
           S == 1 .. n
           f == Steps(ss)
           h == [i \in S |-> (ss[i].cap - c) * (ss[i].to - ss[i].from)]
           tt == [i \in S |-> [from |-> ss[i].from, to |-> ss[i].to, d |-> c * (ss[i].to - ss[i].from),
                               cap |-> ss[i].cap]]
           g == Steps(tt)
           k == [i \in S |-> h[i] + g[i]]
<1>1. n \in Nat /\ n > 0 /\ DOMAIN ss = S /\ IsFiniteSet(S) /\ 1 \in S
  <2>1. n \in Nat /\ n > 0 /\ DOMAIN ss = S
    OBVIOUS
  <2> HIDE DEF n
  <2>2. IsFiniteSet(S) /\ 1 \in S
    BY <2>1, FS_Interval
  <2> QED  BY <2>1, <2>2
<1>2. \A i \in S : /\ ss[i].from \in Nat /\ ss[i].to \in Nat /\ ss[i].d \in Nat /\ ss[i].cap \in Nat
                   /\ ss[i].from <= ss[i].to /\ ss[i].to - ss[i].from \in Nat
  BY <1>1, SampleParts DEF Chained
<1>3. \A i \in S : ss[i].d <= ss[i].cap * (ss[i].to - ss[i].from)
  OBVIOUS
<1>4. tt \in Seq(Sample) /\ Len(tt) = n /\ DOMAIN tt = S
  <2> HIDE DEF n
  <2>1. \A i \in S : tt[i] \in Sample
    <3> SUFFICES ASSUME NEW i \in S PROVE tt[i] \in Sample
      OBVIOUS
    <3>1. c * (ss[i].to - ss[i].from) \in Nat
      BY <1>2
    <3> QED  BY <1>2, <3>1 DEF Sample
  <2>2. tt \in [1 .. n -> Sample]
    BY <2>1
  <2> HIDE DEF tt
  <2> QED  BY <1>1, <2>2
<1>5. \A i \in S : /\ tt[i].from = ss[i].from /\ tt[i].to = ss[i].to /\ tt[i].d = c * (ss[i].to - ss[i].from)
                   /\ f[i] = ss[i].d /\ g[i] = tt[i].d
                   /\ h[i] = (ss[i].cap - c) * (ss[i].to - ss[i].from) /\ k[i] = h[i] + g[i]
  <2>1. \A i \in S : f[i] = ss[i].d /\ g[i] = tt[i].d
    <3> HIDE DEF tt, n
    <3> QED  BY <1>1, <1>4 DEF Steps
  <2> HIDE DEF f, g, n
  <2> QED  BY <2>1
<1>6. Chained(tt, at, si)
  <2> HIDE DEF tt, n
  <2>1. ss # <<>>
    BY <1>1 DEF n
  <2>2. \A i \in 1 .. n - 1 : i \in S /\ i + 1 \in S
    BY <1>1
  <2>3. n \in S
    BY <1>1
  <2> QED  BY <1>1, <1>4, <1>5, <2>1, <2>2, <2>3 DEF Chained, n
<1>7. LengthFrom(tt, 1) <= c * (at - ss[1].from)
  <2>1. \A i \in 1 .. Len(tt) : tt[i].d <= c * (tt[i].to - tt[i].from)
    <3> HIDE DEF tt, n
    <3> SUFFICES ASSUME NEW i \in S PROVE tt[i].d <= c * (tt[i].to - tt[i].from)
      BY <1>4
    <3>1. c * (ss[i].to - ss[i].from) \in Nat
      BY <1>2
    <3> QED  BY <1>5, <3>1
  <2> HIDE DEF tt, n
  <2>2. tt[1].from = ss[1].from /\ Len(tt) > 0
    BY <1>1, <1>4, <1>5
  <2>3. LengthFrom(tt, 1) <= c * (at - tt[1].from)
    BY <1>4, <1>6, <2>1, <2>2, PacesSum
  <2> QED  BY <2>2, <2>3
<1>8. \A i \in S : f[i] \in Int /\ g[i] \in Int /\ h[i] \in Int /\ k[i] \in Int /\ f[i] <= k[i]
  <2> SUFFICES ASSUME NEW i \in S
               PROVE  f[i] \in Int /\ g[i] \in Int /\ h[i] \in Int /\ k[i] \in Int /\ f[i] <= k[i]
    OBVIOUS
  <2> DEFINE l == ss[i].to - ss[i].from
             a == ss[i].cap
             d == ss[i].d
  <2>1. l \in Nat /\ a \in Nat /\ d \in Nat /\ d <= a * l
    BY <1>2, <1>3
  <2>2. f[i] = d /\ g[i] = c * l /\ h[i] = (a - c) * l /\ k[i] = h[i] + g[i]
    BY <1>5
  <2> HIDE DEF l, a, d, f, g, h, k, S
  <2>3. (a - c) * l + c * l = a * l
    <3>1. ((a - c) + c) * l = (a - c) * l + c * l /\ (a - c) + c = a
      BY <2>1, TimesSum
    <3> QED  BY <3>1
  <2>4. (a - c) * l \in Int /\ c * l \in Int /\ a * l \in Int
    BY <2>1
  <2> QED  BY <2>1, <2>2, <2>3, <2>4
<1>9. Sum(f, S) <= Sum(k, S) /\ Sum(k, S) = Sum(h, S) + Sum(g, S) /\ Sum(h, S) \in Int
  <2>1. \A i \in S : k[i] = h[i] + g[i]
    BY <1>5
  <2> HIDE DEF f, g, h, k, S
  <2> QED  BY <1>1, <1>8, <2>1, SumGrows, SumOfSums, SumType
<1>10. Lengths(ss) = Sum(f, S) /\ Lengths(ss) \in Nat
  <2>1. Lengths(ss) = LengthFrom(ss, 1) /\ LengthFrom(ss, 1) \in Nat
    BY LengthsAre
  <2> QED  BY <2>1 DEF LengthFrom
<1>11. LengthFrom(tt, 1) = Sum(g, S) /\ LengthFrom(tt, 1) \in Nat
  <2> HIDE DEF tt
  <2> QED  BY <1>4, LengthsAre DEF LengthFrom
<1>12. Fall(ss, c) = Sum(h, S)
  <2>1. DOMAIN h = S /\ h = [i \in DOMAIN ss |-> (ss[i].cap - c) * (ss[i].to - ss[i].from)]
    BY <1>1
  <2> HIDE DEF h, S
  <2> QED  BY <2>1 DEF Fall
<1>13. c * (at - ss[1].from) \in Int
  <2>1. at \in Int
    <3>1. n \in S /\ ss # <<>>
      BY <1>1
    <3>2. ss[n].to = at
      BY <3>1 DEF Chained
    <3> QED  BY <1>2, <3>1, <3>2
  <2>2. ss[1].from \in Nat
    BY <1>1, <1>2
  <2> QED  BY <2>1, <2>2
<1> DEFINE x == Sum(f, S)
           y == Sum(k, S)
           z == Sum(g, S)
           w == Sum(h, S)
<1>14. x <= y /\ y = w + z /\ w \in Int /\ x \in Nat /\ z \in Nat /\ z <= c * (at - ss[1].from)
  BY <1>7, <1>9, <1>10, <1>11
<1>15. Lengths(ss) = x /\ Fall(ss, c) = w
  BY <1>10, <1>12
<1> HIDE DEF x, y, z, w
<1> QED  BY <1>13, <1>14, <1>15

(* Two lists of steps at the same times that kept to the same caps. *)
Alike(ss, tt) ==
    /\ ss \in Seq(Sample) /\ tt \in Seq(Sample) /\ Len(ss) = Len(tt)
    /\ \A i \in 1 .. Len(ss) : ss[i].from = tt[i].from /\ ss[i].to = tt[i].to /\ ss[i].cap = tt[i].cap

(* Lists that are alike fall alike. *)
LEMMA AlikeFalls ==
    ASSUME NEW ss, NEW tt, Alike(ss, tt), NEW c
    PROVE  Fall(ss, c) = Fall(tt, c)
<1>1. DOMAIN ss = 1 .. Len(ss) /\ DOMAIN tt = 1 .. Len(ss)
  BY DEF Alike
<1>2. [i \in DOMAIN ss |-> (ss[i].cap - c) * (ss[i].to - ss[i].from)]
      = [i \in DOMAIN tt |-> (tt[i].cap - c) * (tt[i].to - tt[i].from)]
  BY <1>1 DEF Alike
<1> QED  BY <1>2, Zenon DEF Fall

(* What knockback pays of a step: at most the budget and the step; nothing of a walk, and   *)
(* while it lasts all that the budget covers above one.                                  *)
LEMMA CreditIs ==
    ASSUME knockback \in [budget : 0 .. Knock, until : Nat], clock \in Nat, lastAt \in Nat,
           NEW step \in Nat, NEW cap \in Nat
    PROVE  /\ Credit(step, cap) \in Nat /\ Credit(step, cap) <= step /\ Credit(step, cap) <= knockback.budget
           /\ step <= cap * Most(clock - lastAt, 1) => Credit(step, cap) = 0
           /\ clock <= knockback.until =>
                 \/ step - Credit(step, cap) <= cap * Most(clock - lastAt, 1)
                 \/ Credit(step, cap) = knockback.budget
<1> DEFINE w == cap * Most(clock - lastAt, 1)
<1>2. Most(clock - lastAt, 1) \in Nat
  BY DEF Most
<1>3. w \in Nat
  BY <1>2
<1>4. knockback.budget \in Nat /\ knockback.until \in Nat
  BY Constants
<1>5. Credit(step, cap) = IF clock > knockback.until \/ knockback.budget <= 0 THEN 0
                     ELSE Least(knockback.budget, Most(0, step - w))
  BY DEF Credit
<1> HIDE DEF w
<1>6. /\ Credit(step, cap) \in Nat /\ Credit(step, cap) <= step /\ Credit(step, cap) <= knockback.budget
      /\ step <= w => Credit(step, cap) = 0
      /\ clock <= knockback.until => step - Credit(step, cap) <= w \/ Credit(step, cap) = knockback.budget
  BY <1>3, <1>4, <1>5 DEF Least, Most
<1> QED  BY <1>6 DEF w

(* The list with a step more, and its window; then the step as the judge lets it stand. *)
With(d, kept) == Append(samples, [from |-> lastAt, to |-> clock, d |-> d, cap |-> kept])
Windowed(step, kept, cap) == Recent(With(step - Credit(step, cap), kept))
Over(step, kept, cap) ==
    LET ss == Windowed(step, kept, cap)
    IN  Lengths(ss) > Allowance(ss, cap) + Tolerance

(* The parts of the list with a step more. *)
LEMMA WithIs ==
    ASSUME samples \in Seq(Sample), lastAt \in Nat, clock \in Nat, NEW d \in Nat, NEW kept \in Nat
    PROVE  /\ With(d, kept) \in Seq(Sample) /\ Len(With(d, kept)) = Len(samples) + 1 /\ Len(samples) \in Nat
           /\ \A i \in 1 .. Len(samples) : With(d, kept)[i] = samples[i] /\ samples[i] \in Sample
           /\ With(d, kept)[Len(samples) + 1] = [from |-> lastAt, to |-> clock, d |-> d, cap |-> kept]
           /\ \E k : Cut(With(d, kept), Recent(With(d, kept)), k)
<1> DEFINE x == [from |-> lastAt, to |-> clock, d |-> d, cap |-> kept]
           ss == Append(samples, x)
           n == Len(samples)
<1>1. x \in Sample /\ x.to = clock
  BY DEF Sample
<1> HIDE DEF x
<1>2. /\ ss \in Seq(Sample) /\ Len(ss) = n + 1 /\ n \in Nat
      /\ \A i \in 1 .. n : ss[i] = samples[i] /\ samples[i] \in Sample
      /\ ss[n + 1] = x
  BY <1>1
<1> HIDE DEF ss, n
<1>3. Len(ss) > 0 /\ ss[Len(ss)].to = clock
  BY <1>1, <1>2
<1>4. \E k : Cut(ss, Recent(ss), k)
  BY <1>2, <1>3, RecentIs
<1>5. With(d, kept) = ss
  BY Zenon DEF With, ss, x
<1> QED  BY <1>2, <1>4, <1>5 DEF x, n

(* The list after a judged step of dd, of which k - 1 samples are gone. *)
Judged(k, dd, kept, cap) ==
    /\ k \in 1 .. Len(samples) + 1 /\ dd \in Nat
    /\ samples' \in Seq(Sample) /\ Len(samples') = Len(samples) + 2 - k
    /\ \A j \in 1 .. Len(samples) + 1 - k : samples'[j] = samples[j + k - 1]
    /\ samples'[Len(samples')] = [from |-> lastAt, to |-> clock, d |-> dd, cap |-> kept]
    /\ samples'[1].to >= clock - Window
    /\ k > 1 => samples[k - 1].to < clock - Window
    /\ walked' = walked + dd /\ lastAt' = clock /\ silence' = Most(silence, clock - lastAt)
    /\ \/ dd = 0
       \/ LengthFrom(samples', 1) <= cap * Most(clock - samples'[1].from, 1) + Tolerance

(* What the server keeps as walked of a step. *)
Stood(step, accepted, cap) == Most(0, accepted - Credit(step, cap))

(* What a judged step does: it goes on from the window, and stands only as far as allowed. *)
LEMMA JudgeGives ==
    ASSUME MoveTypeOK, lastAt # 0, NEW step \in Nat, NEW accepted \in Nat, NEW kept \in Nat, NEW cap \in Nat,
           Judge(step, accepted, kept, cap)
    PROVE  /\ \E k : Judged(k, Stood(step, accepted, cap), kept, cap)
           /\ accepted <= step /\ Stood(step, accepted, cap) <= step - Credit(step, cap)
           /\ violations' = violations + (IF Over(step, kept, cap) THEN 1 ELSE 0)
           /\ ~ Over(step, kept, cap) => accepted = step
           /\ Alike(samples', Windowed(step, kept, cap))
           /\ knockback' = [knockback EXCEPT !.budget = @ - Credit(step, cap)]
           /\ pushed' = pushed + Least(accepted, Credit(step, cap))
<1> DEFINE c == Credit(step, cap)
           W == With(step - c, kept)
           ss == Recent(W)
           n == Len(ss)
           before == Lengths(ss) - (step - c)
           dd == Stood(step, accepted, cap)
<1>1. /\ samples \in Seq(Sample) /\ lastAt \in Nat /\ clock \in Nat /\ silence \in Nat /\ walked \in Nat
      /\ knockback \in [budget : 0 .. Knock, until : Nat] /\ Knock \in Nat /\ pushed \in Nat
  BY Constants DEF MoveTypeOK, Sample
<1>2. c \in Nat /\ c <= step
  BY <1>1, CreditIs
<1>3. step - c \in Nat
  BY <1>2
<1>4. /\ accepted = IF Over(step, kept, cap) THEN Least(step, Most(0, Allowance(ss, cap) - before) + c) ELSE step
      /\ violations' = violations + (IF Over(step, kept, cap) THEN 1 ELSE 0)
      /\ samples' = [ss EXCEPT ![n].d = dd]
      /\ knockback' = [knockback EXCEPT !.budget = @ - c]
      /\ lastAt' = clock /\ silence' = Most(silence, clock - lastAt)
      /\ walked' = walked + dd
      /\ pushed' = pushed + Least(accepted, c)
  BY DEF Judge, Over, Windowed, With, Stood
<1>5. /\ W \in Seq(Sample) /\ Len(W) = Len(samples) + 1 /\ Len(samples) \in Nat
      /\ \A i \in 1 .. Len(samples) : W[i] = samples[i] /\ samples[i] \in Sample
      /\ W[Len(samples) + 1] = [from |-> lastAt, to |-> clock, d |-> step - c, cap |-> kept]
  BY <1>1, <1>3, WithIs
<1>6. PICK k : Cut(W, ss, k)
  BY <1>1, <1>3, WithIs
<1> HIDE DEF c, W, ss, before
<1>7. /\ k \in 1 .. Len(samples) + 1 /\ ss \in Seq(Sample) /\ n = Len(samples) + 2 - k /\ n \in Nat /\ n > 0
      /\ \A j \in 1 .. n : ss[j] = W[j + k - 1]
      /\ W[k].to >= clock - Window
      /\ k > 1 => W[k - 1].to < clock - Window
  BY <1>5, <1>6 DEF Cut
<1>8. accepted <= step /\ dd \in Nat /\ dd <= step - c
  BY <1>2, <1>4 DEF Least, Most, Stood, c
<1> HIDE DEF n, dd
<1>9. DOMAIN ss = 1 .. n /\ \A j \in 1 .. n : ss[j] \in Sample
  BY <1>7 DEF n
<1>10. ss[n] = [from |-> lastAt, to |-> clock, d |-> step - c, cap |-> kept]
  <2>1. n \in 1 .. n /\ n + k - 1 = Len(samples) + 1
    BY <1>5, <1>7
  <2> QED  BY <1>5, <1>7, <2>1
<1>11. /\ samples' \in Seq(Sample) /\ Len(samples') = n
       /\ \A j \in 1 .. n - 1 : samples'[j] = ss[j]
       /\ samples'[n] = [from |-> lastAt, to |-> clock, d |-> dd, cap |-> kept]
  <2> DEFINE x == [ss[n] EXCEPT !.d = dd]
  <2>1. samples' = [ss EXCEPT ![n] = x]
    BY <1>4
  <2>2. x = [from |-> lastAt, to |-> clock, d |-> dd, cap |-> kept]
    BY <1>10
  <2>3. x \in Sample
    BY <1>1, <1>8, <2>2 DEF Sample
  <2>4. n \in 1 .. n
    BY <1>7
  <2> HIDE DEF x
  <2>5. samples' \in Seq(Sample) /\ Len(samples') = n
    BY <1>7, <1>9, <2>1, <2>3, <2>4 DEF n
  <2>6. \A j \in 1 .. n - 1 : samples'[j] = ss[j]
    BY <1>7, <1>9, <2>1
  <2>7. samples'[n] = x
    BY <1>9, <2>1, <2>4
  <2> QED  BY <2>2, <2>5, <2>6, <2>7
<1>12. \A j \in 1 .. Len(samples) + 1 - k : samples'[j] = samples[j + k - 1]
  <2> SUFFICES ASSUME NEW j \in 1 .. Len(samples) + 1 - k PROVE samples'[j] = samples[j + k - 1]
    OBVIOUS
  <2>1. j \in 1 .. n - 1 /\ j \in 1 .. n /\ j + k - 1 \in 1 .. Len(samples)
    BY <1>5, <1>7
  <2> QED  BY <1>5, <1>7, <1>11, <2>1
<1>13. samples'[1].to >= clock - Window
  <2>1. 1 \in 1 .. n /\ 1 + k - 1 = k
    BY <1>7
  <2>2. ss[1].to >= clock - Window
    BY <1>7, <2>1
  <2>3. CASE n = 1
    BY <1>10, <1>11, <2>2, <2>3
  <2>4. CASE n # 1
    <3>1. 1 \in 1 .. n - 1
      BY <1>7, <2>4
    <3> QED  BY <1>11, <2>2, <3>1
  <2> QED  BY <2>3, <2>4
<1>14. k > 1 => samples[k - 1].to < clock - Window
  <2>1. k > 1 => k - 1 \in 1 .. Len(samples)
    BY <1>5, <1>7
  <2> QED  BY <1>5, <1>7, <2>1
<1>15. samples'[1].from = ss[1].from
  <2>3. CASE n = 1
    BY <1>10, <1>11, <2>3
  <2>4. CASE n # 1
    <3>1. 1 \in 1 .. n - 1
      BY <1>7, <2>4
    <3> QED  BY <1>11, <3>1
  <2> QED  BY <2>3, <2>4
<1>16. /\ LengthFrom(samples', 1) = before + dd
       /\ before \in Nat /\ Lengths(ss) = before + (step - c)
  <2>1. /\ LengthFrom(ss, 1) - ss[n].d \in Nat
        /\ LengthFrom(samples', 1) - samples'[n].d = LengthFrom(ss, 1) - ss[n].d
    <3>1. \A j \in 1 .. Len(ss) - 1 : samples'[j].d = ss[j].d
      BY <1>11 DEF n
    <3> HIDE DEF Judge
    <3> QED  BY <1>7, <1>11, <3>1, LastReplaced DEF n
  <2>2. Lengths(ss) = LengthFrom(ss, 1) /\ LengthFrom(ss, 1) \in Nat /\ LengthFrom(samples', 1) \in Nat
    BY <1>7, <1>11, LengthsAre
  <2>3. ss[n].d = step - c /\ samples'[n].d = dd
    BY <1>10, <1>11
  <2> QED  BY <1>3, <1>8, <2>1, <2>2, <2>3 DEF before
<1>17. Allowance(ss, cap) = cap * Most(clock - samples'[1].from, 1) /\ Allowance(ss, cap) \in Nat
  <2>1. ss[1].from \in Nat
    <3>1. 1 \in 1 .. n
      BY <1>7
    <3> QED  BY <1>9, <3>1, SampleParts
  <2>2. Most(clock - ss[1].from, 1) \in Nat
    BY <1>1, <2>1 DEF Most
  <2> QED  BY <1>2, <1>15, <2>2 DEF Allowance
<1>18. dd = 0 \/ LengthFrom(samples', 1) <= Allowance(ss, cap) + Tolerance
  <2> DEFINE al == Allowance(ss, cap)
  <2>1. Over(step, kept, cap) <=> Lengths(ss) > al + Tolerance
    BY DEF Over, Windowed, ss, W, c
  <2>2. al \in Nat /\ Tolerance \in Nat
    BY <1>17, Constants
  <2>3. accepted = IF Over(step, kept, cap) THEN Least(step, Most(0, al - before) + c) ELSE step
    BY <1>4
  <2>4. dd = Most(0, accepted - c)
    BY DEF dd, Stood, c
  <2> HIDE DEF al
  <2>5. CASE Over(step, kept, cap)
    <3>1. dd = 0 \/ before + dd <= al
      BY <1>2, <1>16, <2>2, <2>3, <2>4, <2>5 DEF Least, Most
    <3> QED  BY <1>8, <1>16, <2>2, <3>1 DEF al
  <2>6. CASE ~ Over(step, kept, cap)
    <3>1. Lengths(ss) <= al + Tolerance
      BY <1>3, <1>16, <2>1, <2>2, <2>6
    <3>2. dd = step - c
      BY <1>2, <2>3, <2>4, <2>6 DEF Most
    <3> QED  BY <1>8, <1>16, <2>2, <3>1, <3>2 DEF al
  <2> QED  BY <2>5, <2>6
<1>19. Judged(k, dd, kept, cap)
  <2>1. Len(samples') = Len(samples) + 2 - k
    BY <1>7, <1>11
  <2> QED  BY <1>4, <1>7, <1>8, <1>11, <1>12, <1>13, <1>14, <1>17, <1>18, <2>1 DEF Judged
<1>20. Alike(samples', ss)
  <2>1. \A i \in 1 .. n : samples'[i].from = ss[i].from /\ samples'[i].to = ss[i].to /\ samples'[i].cap = ss[i].cap
    <3> SUFFICES ASSUME NEW i \in 1 .. n
                 PROVE  samples'[i].from = ss[i].from /\ samples'[i].to = ss[i].to /\ samples'[i].cap = ss[i].cap
      OBVIOUS
    <3>1. CASE i = n
      BY <1>10, <1>11, <3>1
    <3>2. CASE i # n
      <4>1. i \in 1 .. n - 1
        BY <1>7, <3>2
      <4> QED  BY <1>11, <4>1
    <3> QED  BY <3>1, <3>2
  <2> QED  BY <1>7, <1>11, <2>1 DEF Alike, n
<1>21. Alike(samples', Windowed(step, kept, cap))
  BY <1>20 DEF Windowed, ss, W, c
<1> QED  BY <1>4, <1>8, <1>19, <1>21 DEF c, dd

(* Lengths with a step more. *)
LEMMA WithLengths ==
    ASSUME samples \in Seq(Sample), lastAt \in Nat, clock \in Nat, NEW d \in Nat, NEW kept \in Nat
    PROVE  \A i \in 1 .. Len(samples) + 1 : LengthFrom(With(d, kept), i) = LengthFrom(samples, i) + d
<1> SUFFICES ASSUME NEW i \in 1 .. Len(samples) + 1
             PROVE  LengthFrom(With(d, kept), i) = LengthFrom(samples, i) + d
  OBVIOUS
<1> DEFINE n == Len(samples)
           f == Steps(samples)
           g == Steps(With(d, kept))
           S == i .. n
           l == n - i + 1
<1>1. /\ With(d, kept) \in Seq(Sample) /\ Len(With(d, kept)) = n + 1 /\ n \in Nat /\ DOMAIN samples = 1 .. n
      /\ \A j \in 1 .. n : With(d, kept)[j] = samples[j] /\ samples[j] \in Sample
      /\ With(d, kept)[n + 1] = [from |-> lastAt, to |-> clock, d |-> d, cap |-> kept]
  BY WithIs
<1>2. \A j \in 1 .. n : f[j] = samples[j].d /\ f[j] \in Nat
  <2>1. \A j \in 1 .. n : f[j] = samples[j].d
    BY <1>1 DEF Steps
  <2> QED  BY <1>1, <2>1, SampleParts
<1>3. DOMAIN With(d, kept) = 1 .. n + 1
  BY <1>1
<1>4. (\A j \in 1 .. n : g[j] = f[j]) /\ g[n + 1] = d
  <2>1. \A j \in 1 .. n + 1 : g[j] = With(d, kept)[j].d
    BY <1>3 DEF Steps
  <2>2. \A j \in 1 .. n : j \in 1 .. n + 1
    BY <1>1
  <2>3. n + 1 \in 1 .. n + 1
    BY <1>1
  <2> HIDE DEF g, f, n
  <2> QED  BY <1>1, <1>2, <2>1, <2>2, <2>3
<1>5. S \cup {n + 1} = i .. n + 1 /\ n + 1 \notin S /\ \A j \in S : j \in 1 .. n
  BY <1>1
<1>6. IsFiniteSet(S)
  <2>1. i \in Int /\ n \in Int
    BY <1>1
  <2> HIDE DEF n
  <2> QED  BY <2>1, FS_Interval
<1>7. l \in Nat /\ i \in Nat /\ i + l - 1 = n /\ i + 0 = i
  BY <1>1
<1> HIDE DEF f, g, n, l
<1>8. SameTerms(f, g, i, 0, l)
  <2>1. \A j \in i .. i + l - 1 : f[j] \in Int /\ g[j + 0] = f[j]
    <3> SUFFICES ASSUME NEW j \in i .. i + l - 1 PROVE f[j] \in Int /\ g[j + 0] = f[j]
      OBVIOUS
    <3>1. j \in 1 .. n /\ j + 0 = j
      BY <1>5, <1>7
    <3> QED  BY <1>2, <1>4, <3>1
  <2> QED  BY <1>7, <2>1 DEF SameTerms
<1>9. Sum(f, i .. i + l - 1) = Sum(g, i + 0 .. i + 0 + l - 1)
  BY <1>8, SumShifted
<1>10. Sum(g, S) = Sum(f, S)
  <2>1. i + l - 1 = n /\ i + 0 + l - 1 = n
    BY <1>7
  <2> QED  BY <1>7, <1>9, <2>1
<1>11. Sum(g, S \cup {n + 1}) = g[n + 1] + Sum(g, S)
  <2>1. (\A j \in S : g[j] \in Int) /\ g[n + 1] \in Int
    BY <1>2, <1>4, <1>5
  <2> HIDE DEF S
  <2> QED  BY <1>5, <1>6, <2>1, SumAdd
<1>12. LengthFrom(With(d, kept), i) = d + LengthFrom(samples, i)
  BY <1>1, <1>4, <1>5, <1>10, <1>11, Zenon DEF LengthFrom, f, g, n
<1>13. LengthFrom(samples, i) \in Nat
  BY <1>7, LengthsAre
<1> QED  BY <1>12, <1>13

(* A chain goes on with a step from where it ended, and may lose its first samples. *)
GoesOn(ss, tt, k, at, cl) ==
    /\ k \in 1 .. Len(ss) + 1 /\ Len(tt) = Len(ss) + 2 - k
    /\ \A j \in 1 .. Len(ss) + 1 - k : tt[j] = ss[j + k - 1]
    /\ tt[Len(tt)].from = at /\ tt[Len(tt)].to = cl

(* The list that goes on is a chain again, and begins where the samples lost ended. *)
LEMMA ChainedOn ==
    ASSUME NEW ss, ss \in Seq(Sample), NEW tt, tt \in Seq(Sample), NEW at \in Nat \ {0}, NEW cl \in Nat,
           at <= cl, NEW si \in Nat, NEW k, Chained(ss, at, si), GoesOn(ss, tt, k, at, cl)
    PROVE  /\ Chained(tt, cl, Most(si, cl - at))
           /\ k > 1 => ss[k - 1].to = tt[1].from
<1> DEFINE n == Len(ss)
           m == Len(tt)
           mo == Most(si, cl - at)
<1>1. n \in Nat /\ m \in Nat /\ m = n + 2 - k /\ k \in Nat /\ k >= 1 /\ m >= 1 /\ tt[m].from = at /\ tt[m].to = cl
  BY DEF GoesOn
<1>2. \A i \in 1 .. n : /\ ss[i].from \in Nat /\ ss[i].to \in Nat /\ 1 <= ss[i].from /\ ss[i].from <= ss[i].to
                        /\ ss[i].to <= at /\ ss[i].to - ss[i].from <= si
  BY SampleParts DEF Chained
<1>3. \A i \in 1 .. n - 1 : ss[i].to = ss[i + 1].from
  BY DEF Chained
<1>4. n > 0 => ss[n].to = at
  BY <1>1 DEF Chained
<1>5. \A j \in 1 .. m - 1 : tt[j] = ss[j + k - 1] /\ j + k - 1 \in 1 .. n
  BY <1>1 DEF GoesOn
<1>6. mo \in Nat /\ si <= mo /\ cl - at <= mo
  BY DEF Most
<1> HIDE DEF n, m, mo
<1>7. ASSUME NEW i \in 1 .. m
      PROVE  1 <= tt[i].from /\ tt[i].from <= tt[i].to /\ tt[i].to <= cl /\ tt[i].to - tt[i].from <= mo
  <2>1. CASE i = m
    BY <1>1, <1>6, <2>1
  <2>2. CASE i # m
    <3>1. i \in 1 .. m - 1
      BY <1>1, <2>2
    <3>2. tt[i] = ss[i + k - 1] /\ i + k - 1 \in 1 .. n
      BY <1>5, <3>1
    <3> DEFINE x == ss[i + k - 1]
    <3>3. /\ x.from \in Nat /\ x.to \in Nat /\ 1 <= x.from /\ x.from <= x.to
          /\ x.to <= at /\ x.to - x.from <= si /\ tt[i] = x
      BY <1>2, <3>2
    <3> HIDE DEF x
    <3> QED  BY <1>6, <3>3
  <2> QED  BY <2>1, <2>2
<1>8. ASSUME NEW i \in 1 .. m - 1 PROVE tt[i].to = tt[i + 1].from
  <2>1. tt[i] = ss[i + k - 1] /\ i + k - 1 \in 1 .. n
    BY <1>5
  <2>2. CASE i + 1 = m
    <3>1. i + k - 1 = n /\ n > 0
      BY <1>1, <2>2
    <3>2. ss[n].to = at
      BY <1>4, <3>1
    <3> QED  BY <1>1, <2>1, <2>2, <3>1, <3>2
  <2>3. CASE i + 1 # m
    <3>1. i + 1 \in 1 .. m - 1 /\ i + k - 1 \in 1 .. n - 1 /\ (i + 1) + k - 1 = (i + k - 1) + 1
      BY <1>1, <2>3
    <3>2. tt[i + 1] = ss[(i + k - 1) + 1]
      BY <1>5, <3>1
    <3>3. ss[i + k - 1].to = ss[(i + k - 1) + 1].from
      BY <1>3, <3>1
    <3> QED  BY <2>1, <3>2, <3>3
  <2> QED  BY <2>2, <2>3
<1>9. ASSUME k > 1 PROVE ss[k - 1].to = tt[1].from
  <2>1. CASE m = 1
    <3>1. k - 1 = n /\ n > 0
      BY <1>1, <1>9, <2>1
    <3>2. ss[n].to = at
      BY <1>4, <3>1
    <3> QED  BY <1>1, <2>1, <3>1, <3>2
  <2>2. CASE m # 1
    <3>1. 1 \in 1 .. m - 1 /\ k - 1 \in 1 .. n - 1 /\ 1 + k - 1 = (k - 1) + 1
      BY <1>1, <1>9, <2>2
    <3>2. tt[1] = ss[(k - 1) + 1]
      BY <1>5, <3>1
    <3>3. ss[k - 1].to = ss[(k - 1) + 1].from
      BY <1>3, <3>1
    <3> QED  BY <3>2, <3>3
  <2> QED  BY <2>1, <2>2
<1> QED  BY <1>1, <1>7, <1>8, <1>9 DEF Chained, m, mo

-----------------------------------------------------------------------------
(* The invariant: the window is a chain of the last steps, and what was walked before any  *)
(* of them is allowed for the time it began; the first window is judged whole, a later one *)
(* began more than a window ago.                                                       *)

WalkAllowed ==
    /\ walked <= Allowed(lastAt, boosts, boostStart, boostUntil, silence)
    /\ \A i \in 1 .. Len(samples) :
          walked - LengthFrom(samples, i) <= Allowed(samples[i].from, boosts, boostStart, boostUntil, silence)
    /\ \/ walked = LengthFrom(samples, 1)
       \/ (samples # <<>> /\ samples[1].from + Window < lastAt)

MoveInv ==
    /\ MoveTypeOK
    /\ 1 <= clock /\ lastAt <= clock
    /\ Boosts(boosts, boostStart, boostUntil, silence) /\ boostStart <= clock
    /\ boosts = 0 => boostUntil = 0
    /\ lastAt = 0 => samples = <<>> /\ walked = 0
    /\ Chained(samples, lastAt, silence)
    /\ pushed + knockback.budget <= Knock * grants
    /\ lastAt # 0 => WalkAllowed

(* The list and the walk after a judged step. *)
LEMMA JudgedWalk ==
    ASSUME MoveInv, lastAt # 0, NEW k, NEW dd, NEW kept \in Nat, NEW cap, IsCap(cap), Judged(k, dd, kept, cap),
           UNCHANGED <<boosts, boostStart, boostUntil>>
    PROVE  /\ Chained(samples', clock, silence')
           /\ silence' \in Nat
           /\ WalkAllowed'
<1> DEFINE n == Len(samples)
           m == Len(samples')
           A(x) == Allowed(x, boosts, boostStart, boostUntil, silence')
           L(i) == LengthFrom(samples, i)
           M(i) == LengthFrom(samples', i)
           a == samples'[1].from
<1>1. /\ samples \in Seq(Sample) /\ lastAt \in Nat \ {0} /\ clock \in Nat \ {0} /\ silence \in Nat /\ walked \in Nat
      /\ lastAt <= clock /\ Boosts(boosts, boostStart, boostUntil, silence) /\ boostStart <= clock
      /\ (boosts = 0 => boostUntil = 0) /\ Chained(samples, lastAt, silence) /\ WalkAllowed
      /\ boosts \in Nat /\ boostStart \in Nat /\ boostUntil \in Nat
  BY DEF MoveInv, MoveTypeOK, Sample
<1>2. /\ k \in 1 .. n + 1 /\ dd \in Nat /\ samples' \in Seq(Sample) /\ m = n + 2 - k /\ n \in Nat /\ m \in Nat /\ m >= 1
      /\ \A j \in 1 .. n + 1 - k : samples'[j] = samples[j + k - 1]
      /\ samples'[m] = [from |-> lastAt, to |-> clock, d |-> dd, cap |-> kept]
      /\ samples'[1].to >= clock - Window
      /\ k > 1 => samples[k - 1].to < clock - Window
      /\ walked' = walked + dd /\ lastAt' = clock /\ silence' = Most(silence, clock - lastAt)
      /\ \/ dd = 0
         \/ M(1) <= cap * Most(clock - a, 1) + Tolerance
  BY <1>1 DEF Judged
<1>3. silence' \in Nat /\ silence <= silence'
  BY <1>1, <1>2 DEF Most
<1>4. Chained(samples', clock, silence') /\ (k > 1 => samples[k - 1].to = a)
  <2>1. samples' \in Seq(Sample) /\ GoesOn(samples, samples', k, lastAt, clock)
    BY <1>2 DEF GoesOn
  <2>2. /\ samples \in Seq(Sample) /\ lastAt \in Nat \ {0} /\ clock \in Nat /\ lastAt <= clock /\ silence \in Nat
        /\ Chained(samples, lastAt, silence)
    BY <1>1
  <2>3. PICK tt : tt = samples'
    OBVIOUS
  <2>4. /\ Chained(tt, clock, Most(silence, clock - lastAt))
        /\ k > 1 => samples[k - 1].to = tt[1].from
    BY <2>1, <2>2, <2>3, ChainedOn
  <2> QED  BY <1>2, <2>3, <2>4, Zenon DEF a
<1> HIDE DEF m, n, a
<1>5. \A j \in 1 .. m : M(j) = L(j + k - 1) + dd /\ j + k - 1 \in 1 .. n + 1
  <2>1. /\ With(dd, kept) \in Seq(Sample) /\ Len(With(dd, kept)) = n + 1
        /\ \A i \in 1 .. n : With(dd, kept)[i] = samples[i]
        /\ With(dd, kept)[n + 1] = [from |-> lastAt, to |-> clock, d |-> dd, cap |-> kept]
    BY <1>1, <1>2, WithIs DEF n
  <2>2. \A j \in 1 .. m : samples'[j].d = With(dd, kept)[j + k - 1].d
    <3> SUFFICES ASSUME NEW j \in 1 .. m PROVE samples'[j] = With(dd, kept)[j + k - 1]
      OBVIOUS
    <3>1. CASE j = m
      <4>1. m + k - 1 = n + 1
        BY <1>2
      <4> QED  BY <1>2, <2>1, <3>1, <4>1
    <3>2. CASE j # m
      <4>1. j \in 1 .. n + 1 - k /\ j + k - 1 \in 1 .. n
        BY <1>2, <3>2
      <4> QED  BY <1>2, <2>1, <4>1
    <3> QED  BY <3>1, <3>2
  <2>3. k \in 1 .. Len(With(dd, kept)) + 1 /\ m = Len(With(dd, kept)) - k + 1
    BY <1>2, <2>1
  <2>4. \A j \in 1 .. m + 1 : M(j) = LengthFrom(With(dd, kept), j + k - 1)
    BY <1>2, <2>1, <2>2, <2>3, LengthsShift DEF m
  <2>5. \A i \in 1 .. n + 1 : LengthFrom(With(dd, kept), i) = L(i) + dd
    BY <1>1, <1>2, WithLengths DEF n
  <2>6. \A j \in 1 .. m : j \in 1 .. m + 1 /\ j + k - 1 \in 1 .. n + 1
    BY <1>2
  <2> QED  BY <2>4, <2>5, <2>6
<1>6. \A i \in 1 .. n + 1 : L(i) \in Nat
  <2>1. \A i \in 1 .. n + 1 : i \in Nat \ {0}
    BY <1>2
  <2> QED  BY <1>1, <2>1, LengthsAre
<1>7. L(n + 1) = 0
  BY <1>1, LengthsAre DEF n
<1>8. ASSUME NEW x \in Nat \ {0}
      PROVE  /\ Allowed(x, boosts, boostStart, boostUntil, silence) <= A(x)
             /\ Allowed(x, boosts, boostStart, boostUntil, silence) \in Nat
             /\ A(x) \in Nat
  <2>1. Boosts(boosts, boostStart, boostUntil, silence')
    BY <1>1, <1>3 DEF Boosts
  <2>2. A(x) \in Nat
    BY <2>1, AllowedGrows
  <2> QED  BY <1>1, <1>3, <2>2, AllowedGrows
<1>9. \A i \in 1 .. m : samples'[i].from \in Nat \ {0} /\ samples'[i].to \in Nat /\ samples'[i].from <= clock
  <2>1. DOMAIN samples' = 1 .. m
    BY <1>2 DEF m
  <2>2. \A i \in 1 .. m : samples'[i].from \in Nat /\ samples'[i].to \in Nat
    BY <1>2, <2>1, SampleParts
  <2>3. \A i \in 1 .. m : 1 <= samples'[i].from /\ samples'[i].from <= samples'[i].to /\ samples'[i].to <= clock
    BY <1>4 DEF Chained, m
  <2> QED  BY <1>1, <2>2, <2>3
<1>10. ASSUME NEW i \in 1 .. m PROVE walked' - M(i) <= A(samples'[i].from)
  <2> DEFINE x == samples'[i].from
             o == Allowed(x, boosts, boostStart, boostUntil, silence)
  <2>1. M(i) = L(i + k - 1) + dd /\ L(i + k - 1) \in Nat
    BY <1>5, <1>6
  <2>2. walked - L(i + k - 1) <= o
    <3>1. CASE i = m
      <4>1. i + k - 1 = n + 1 /\ x = lastAt
        BY <1>2, <3>1
      <4>2. walked <= o
        BY <1>1, <4>1 DEF WalkAllowed
      <4> HIDE DEF o
      <4> QED  BY <1>1, <1>7, <4>1, <4>2
    <3>2. CASE i # m
      <4>1. i \in 1 .. n + 1 - k /\ i + k - 1 \in 1 .. n
        BY <1>2, <3>2
      <4>2. x = samples[i + k - 1].from
        BY <1>2, <4>1
      <4> QED  BY <1>1, <4>1, <4>2 DEF WalkAllowed, n
    <3> QED  BY <3>1, <3>2
  <2>3. o <= A(x) /\ o \in Nat /\ A(x) \in Nat
    BY <1>8, <1>9
  <2> DEFINE ax == A(x)
             li == L(i + k - 1)
             mi == M(i)
  <2>5. /\ mi = li + dd /\ li \in Nat /\ walked - li <= o
        /\ o <= ax /\ o \in Nat /\ ax \in Nat
    BY <2>1, <2>2, <2>3
  <2>6. walked' = walked + dd /\ walked \in Nat /\ dd \in Nat
    BY <1>1, <1>2
  <2> HIDE DEF o, ax, li, mi
  <2>7. walked' - mi <= ax
    BY <2>5, <2>6
  <2>4. walked' - M(i) <= A(x)
    BY <2>7 DEF mi, ax
  <2> QED  BY <2>4 DEF A, M
<1>11. walked' = M(1) \/ a + Window < clock
  <2>0. 1 \in 1 .. m /\ 1 + k - 1 = k
    BY <1>2
  <2>1. CASE k = 1
    <3>1. M(1) = L(1) + dd
      BY <1>5, <2>0, <2>1
    <3>2. CASE walked = L(1)
      BY <1>1, <1>2, <3>1, <3>2
    <3>3. CASE samples # <<>> /\ samples[1].from + Window < lastAt
      <4>1. n > 0
        BY <1>1, <3>3 DEF n
      <4>2. 1 \in 1 .. n + 1 - k
        BY <1>2, <2>1, <4>1
      <4>3. a = samples[1].from
        BY <1>2, <2>0, <2>1, <4>2 DEF a
      <4>4. a \in Nat /\ Window \in Nat
        BY <1>9, <2>0, Constants DEF a
      <4> QED  BY <1>1, <3>3, <4>3, <4>4
    <3> QED  BY <1>1, <3>2, <3>3 DEF WalkAllowed
  <2>2. CASE k # 1
    <3>1. k > 1
      BY <1>2, <2>2
    <3>2. a < clock - Window
      BY <1>2, <1>4, <3>1
    <3>3. a \in Nat /\ Window \in Nat
      BY <1>9, <2>0, Constants DEF a
    <3> QED  BY <1>1, <3>2, <3>3
  <2> QED  BY <2>1, <2>2
<1>12. walked' <= A(clock)
  <2>0. 1 \in 1 .. m
    BY <1>2
  <2>1. a \in Nat \ {0} /\ a <= clock /\ Window \in Nat /\ Window > 0 /\ Tolerance \in Nat
    BY <1>9, <2>0, Constants DEF a
  <2>2. A(a) \in Nat /\ A(clock) \in Nat /\ A(lastAt) \in Nat
    BY <1>1, <1>8, <2>1
  <2>3. walked' - M(1) <= A(a)
    BY <1>10, <2>0 DEF a
  <2>4. M(1) \in Nat /\ walked' \in Nat
    <3>1. M(1) = L(1 + k - 1) + dd /\ L(1 + k - 1) \in Nat
      BY <1>5, <1>6, <2>0
    <3> HIDE DEF L, M
    <3> QED  BY <1>1, <1>2, <3>1
  <2>5. Boosts(boosts, boostStart, boostUntil, silence')
    BY <1>1, <1>3 DEF Boosts
  <2>6. Capped(cap, a, clock, boosts, boostStart, boostUntil, silence')
    <3>0. cap \in Nat /\ (cap <= Base \/ (boostUntil > clock /\ cap <= Boost))
      BY DEF IsCap
    <3>1. CASE boostUntil > clock
      <4>1. boosts > 0 /\ clock < boostUntil
        BY <1>1, <3>1
      <4>2. samples'[1].to - a <= silence' /\ samples'[1].to \in Nat
        BY <1>4, <1>9, <2>0 DEF Chained, m, a
      <4>5. samples'[1].to >= clock - Window
        BY <1>2
      <4>6. a \in Nat /\ clock \in Nat /\ silence' \in Nat
        BY <1>1, <1>3, <2>1
      <4> DEFINE b == samples'[1].to
      <4>7. b \in Nat /\ b - a <= silence' /\ b >= clock - Window /\ Window \in Nat
        BY <2>1, <4>2, <4>5
      <4>8. a \in Int /\ b \in Int /\ clock \in Int /\ Window \in Int /\ silence' \in Int
        BY <4>6, <4>7
      <4> HIDE DEF a, b
      <4>3. a >= clock - Window - silence'
        BY <4>7, <4>8, NotLongBefore, Zenon
      <4> QED  BY <1>1, <3>0, <3>1, <4>1, <4>3 DEF Capped
    <3>2. CASE ~ (boostUntil > clock)
      BY <3>0, <3>2 DEF Capped
    <3> QED  BY <3>1, <3>2
  <2>7. cap \in Nat
    BY DEF IsCap
  <2>8. CASE dd = 0
    <3>1. walked <= A(lastAt)
      <4>1. walked <= Allowed(lastAt, boosts, boostStart, boostUntil, silence)
        BY <1>1 DEF WalkAllowed
      <4>2. /\ Allowed(lastAt, boosts, boostStart, boostUntil, silence) <= A(lastAt)
            /\ Allowed(lastAt, boosts, boostStart, boostUntil, silence) \in Nat
        BY <1>1, <1>8
      <4> HIDE DEF A
      <4> QED  BY <1>1, <2>2, <4>1, <4>2
    <3>2. A(lastAt) <= A(clock)
      BY <1>1, <2>5, AllowedGrows
    <3> HIDE DEF A
    <3> QED  BY <1>1, <1>2, <2>2, <2>8, <3>1, <3>2
  <2>9. CASE dd # 0
    <3> DEFINE s == cap * Most(clock - a, 1)
    <3>1. s \in Nat
      <4>1. Most(clock - a, 1) \in Nat
        BY <1>1, <2>1 DEF Most
      <4> QED  BY <2>7, <4>1
    <3>2. M(1) <= s + Tolerance
      BY <1>2, <2>9
    <3>3. CASE a + Window <= clock
      <4>1. A(a) + cap * (clock - a) + Tolerance <= A(clock)
        BY <1>1, <2>1, <2>5, <2>6, <3>3, AllowedStep
      <4>2. Most(clock - a, 1) = clock - a
        BY <1>1, <2>1, <3>3 DEF Most
      <4>3. A(a) + s + Tolerance <= A(clock)
        BY <4>1, <4>2
      <4> HIDE DEF A, M, s
      <4> QED  BY <2>1, <2>2, <2>3, <2>4, <3>1, <3>2, <4>3
    <3>4. CASE ~ (a + Window <= clock)
      <4>1. walked' = M(1)
        BY <1>1, <1>11, <2>1, <3>4
      <4>2. s + Tolerance <= A(clock)
        BY <1>1, <2>1, <2>5, <2>6, AllowedFirst
      <4> HIDE DEF A, M, s
      <4> QED  BY <2>1, <2>2, <2>4, <3>1, <3>2, <4>1, <4>2
    <3> QED  BY <3>3, <3>4
  <2> QED  BY <2>8, <2>9
<1>13. samples' # <<>>
  BY <1>2 DEF m
<1>14. WalkAllowed'
  <2>1. walked' <= Allowed(lastAt', boosts', boostStart', boostUntil', silence')
    BY <1>2, <1>12
  <2>2. \A i \in 1 .. Len(samples') :
          walked' - LengthFrom(samples', i) <= Allowed(samples'[i].from, boosts', boostStart', boostUntil', silence')
    BY <1>10 DEF m
  <2>3. \/ walked' = LengthFrom(samples', 1)
        \/ (samples' # <<>> /\ samples'[1].from + Window < lastAt')
    BY <1>2, <1>11, <1>13 DEF a
  <2> QED  BY <2>1, <2>2, <2>3 DEF WalkAllowed
<1> QED  BY <1>3, <1>4, <1>14

(* The type invariant, variable by variable. *)
LEMMA MoveTypes ==
    MoveTypeOK <=> /\ driver \in {"bot", "walker", "client"}
                   /\ clock \in Nat /\ lastAt \in Nat /\ boostUntil \in Nat /\ lag \in Nat /\ carry \in Nat
                   /\ walked \in Nat /\ pushed \in Nat /\ silence \in Nat /\ grants \in Nat /\ boosts \in Nat
                   /\ boostStart \in Nat
                   /\ samples \in Seq(Sample)
                   /\ knockback \in [budget : 0 .. Knock, until : Nat]
                   /\ violations \in Nat /\ carried \in 0 .. MaxCarried
BY DEF MoveTypeOK, Sample

(* A judged update is flagged once or not at all. *)
LEMMA JudgeCounts ==
    ASSUME NEW step, NEW accepted, NEW kept, NEW cap, Judge(step, accepted, kept, cap), violations \in Nat
    PROVE  violations' \in {violations, violations + 1}
<1>1. CASE lastAt = 0
  <2>1. violations' = violations
    BY <1>1 DEF Judge
  <2> QED  BY <2>1
<1>2. CASE lastAt # 0
  <2>1. \E b \in {0, 1} : violations' = violations + b
    <3> DEFINE over == Over(step, kept, cap)
    <3>1. violations' = violations + (IF over THEN 1 ELSE 0)
      BY <1>2 DEF Judge, Over, Windowed, With
    <3> HIDE DEF over
    <3> QED  BY <3>1
  <2> QED  BY <2>1
<1> QED  BY <1>1, <1>2

(* Every update, whoever sends it, keeps the invariant. *)
LEMMA JudgeKeeps ==
    ASSUME MoveInv, NEW step \in Nat, NEW accepted \in Nat, NEW kept \in Nat, NEW cap, IsCap(cap),
           Judge(step, accepted, kept, cap), carried' \in 0 .. MaxCarried,
           UNCHANGED <<driver, clock, boostUntil, grants, boosts, boostStart>>, lag' \in Nat, carry' \in Nat
    PROVE  MoveInv'
<1>1. /\ MoveTypeOK /\ 1 <= clock /\ lastAt <= clock /\ Boosts(boosts, boostStart, boostUntil, silence)
      /\ boostStart <= clock /\ (boosts = 0 => boostUntil = 0) /\ pushed + knockback.budget <= Knock * grants
  BY DEF MoveInv
<1>2. /\ driver \in {"bot", "walker", "client"}
      /\ clock \in Nat /\ lastAt \in Nat /\ boostUntil \in Nat
      /\ walked \in Nat /\ pushed \in Nat /\ silence \in Nat /\ grants \in Nat /\ boosts \in Nat
      /\ boostStart \in Nat /\ samples \in Seq(Sample)
      /\ knockback \in [budget : 0 .. Knock, until : Nat] /\ violations \in Nat /\ Knock \in Nat
  BY <1>1, MoveTypes, Constants
<1>3. CASE lastAt = 0
  <2>1. /\ lastAt' = clock /\ violations' = violations
        /\ samples' = samples /\ knockback' = knockback /\ walked' = walked /\ pushed' = pushed /\ silence' = silence
    BY <1>3 DEF Judge
  <2>2. samples = <<>> /\ walked = 0
    BY <1>3 DEF MoveInv
  <2>3. MoveTypeOK'
    BY <1>1, <1>2, <2>1 DEF MoveTypeOK, Sample
  <2>4. Chained(samples', lastAt', silence')
    BY <2>1, <2>2 DEF Chained
  <2>5. WalkAllowed'
    <3> DEFINE o == Allowed(clock, boosts, boostStart, boostUntil, silence)
    <3>1. o \in Nat
      <4>1. clock \in Nat \ {0}
        BY <1>1, <1>2
      <4> QED  BY <1>1, <4>1, AllowedGrows
    <3>2. LengthFrom(samples', 1) = 0
      <4>1. <<>> \in Seq(Sample) /\ Len(<<>>) + 1 = 1
        OBVIOUS
      <4>2. LengthFrom(<<>>, 1) = 0
        BY <4>1, LengthsAre
      <4> QED  BY <2>1, <2>2, <4>2
    <3>3. Allowed(lastAt', boosts', boostStart', boostUntil', silence') = o
      BY <2>1
    <3>4. 1 .. Len(samples') = {} /\ walked' = 0
      BY <2>1, <2>2
    <3> HIDE DEF o
    <3>5. walked' <= Allowed(lastAt', boosts', boostStart', boostUntil', silence')
      BY <3>1, <3>3, <3>4
    <3> QED  BY <3>2, <3>4, <3>5 DEF WalkAllowed
  <2>6. lastAt' # 0
    BY <1>1, <1>2, <2>1
  <2>7. /\ 1 <= clock' /\ lastAt' <= clock' /\ Boosts(boosts', boostStart', boostUntil', silence')
        /\ boostStart' <= clock' /\ (boosts' = 0 => boostUntil' = 0) /\ pushed' + knockback'.budget <= Knock * grants'
    BY <1>1, <1>2, <2>1
  <2> QED  BY <2>3, <2>4, <2>5, <2>6, <2>7 DEF MoveInv
<1>4. CASE lastAt # 0
  <2> DEFINE c == Credit(step, cap)
  <2>0. cap \in Nat
    BY DEF IsCap
  <2>1. PICK k : Judged(k, Stood(step, accepted, cap), kept, cap)
    BY <1>1, <1>4, <2>0, JudgeGives
  <2>2. /\ violations' = violations + (IF Over(step, kept, cap) THEN 1 ELSE 0)
        /\ knockback' = [knockback EXCEPT !.budget = @ - c]
        /\ pushed' = pushed + Least(accepted, c)
    BY <1>1, <1>4, <2>0, JudgeGives
  <2>3. c \in Nat /\ c <= knockback.budget
    BY <1>2, <2>0, CreditIs
  <2>4. Chained(samples', clock, silence') /\ silence' \in Nat /\ WalkAllowed'
    BY <1>4, <2>1, JudgedWalk
  <2>5. /\ samples' \in Seq(Sample) /\ Stood(step, accepted, cap) \in Nat
        /\ walked' = walked + Stood(step, accepted, cap) /\ lastAt' = clock
    BY <2>1 DEF Judged
  <2>6. violations' \in Nat
    BY <1>2, <2>2
  <2> HIDE DEF c
  <2>7. /\ knockback' \in [budget : 0 .. Knock, until : Nat] /\ pushed' \in Nat
        /\ pushed' + knockback'.budget <= pushed + knockback.budget
    <3>1. Least(accepted, c) \in Nat /\ Least(accepted, c) <= c
      BY <2>3 DEF Least
    <3>2. knockback'.budget = knockback.budget - c /\ knockback'.until = knockback.until
          /\ knockback' = [budget |-> knockback.budget - c, until |-> knockback.until]
      BY <1>2, <2>2
    <3>3. knockback.budget \in 0 .. Knock /\ knockback.until \in Nat
      BY <1>2
    <3>8. pushed' \in Nat
      <4>1. pushed' = pushed + Least(accepted, c) /\ pushed \in Nat
        BY <1>2, <2>2
      <4> QED  BY <3>1, <4>1
    <3> DEFINE b == knockback.budget
    <3>4. b - c \in 0 .. Knock /\ b \in Nat
      BY <1>2, <2>3, <3>3
    <3>5. knockback' = [budget |-> b - c, until |-> knockback.until] /\ knockback'.budget = b - c
      BY <3>2
    <3> HIDE DEF b
    <3>6. knockback' \in [budget : 0 .. Knock, until : Nat]
      BY <3>3, <3>4, <3>5
    <3>7. pushed' + knockback'.budget <= pushed + b
      <4> DEFINE l == Least(accepted, c)
      <4>1. l \in Nat /\ l <= c /\ pushed' = pushed + l /\ knockback'.budget = b - c
        BY <2>2, <3>1, <3>5
      <4> HIDE DEF l
      <4> QED  BY <1>2, <2>3, <3>4, <4>1
    <3> QED  BY <3>6, <3>7, <3>8 DEF b
  <2>8. MoveTypeOK'
    <3>1. /\ clock' \in Nat /\ lastAt' \in Nat /\ boostUntil' \in Nat /\ lag' \in Nat /\ carry' \in Nat
          /\ walked' \in Nat /\ pushed' \in Nat /\ silence' \in Nat /\ grants' \in Nat /\ boosts' \in Nat
          /\ boostStart' \in Nat /\ driver' \in {"bot", "walker", "client"}
      <4>1. walked' \in Nat
        BY <1>2, <2>5
      <4> QED  BY <1>2, <2>4, <2>5, <2>7, <4>1
    <3>2. {clock, lastAt, boostUntil, lag, carry, violations, walked, pushed, silence, grants,
           boosts, boostStart}' \subseteq Nat
      BY <2>6, <3>1
    <3> QED  BY <2>5, <2>7, <3>1, <3>2 DEF MoveTypeOK, Sample
  <2>9. Boosts(boosts', boostStart', boostUntil', silence')
    BY <1>1, <2>4 DEF Boosts
  <2>10. lastAt' # 0 /\ 1 <= clock' /\ lastAt' <= clock' /\ boostStart' <= clock' /\ (boosts' = 0 => boostUntil' = 0)
         /\ Chained(samples', lastAt', silence')
    BY <1>1, <1>2, <2>4, <2>5
  <2>11. pushed' + knockback'.budget <= Knock * grants'
    <3>1. Knock * grants \in Nat /\ grants' = grants
      BY <1>2
    <3>2. knockback.budget \in Nat /\ knockback'.budget \in Nat
      BY <1>2, <2>7
    <3> DEFINE most == Knock * grants
               b == knockback.budget
               bb == knockback'.budget
    <3>3. /\ pushed' + bb <= pushed + b /\ pushed + b <= most /\ most = Knock * grants'
          /\ pushed + b \in Int /\ pushed' + bb \in Int /\ most \in Int
      <4>1. most = Knock * grants'
        BY <3>1
      <4>2. pushed' + bb <= pushed + b
        BY <2>7
      <4>3. pushed + b <= most
        BY <1>1
      <4> HIDE DEF most
      <4>4. pushed + b \in Int /\ pushed' + bb \in Int
        BY <1>2, <2>7, <3>2
      <4>5. most \in Int
        BY <3>1 DEF most
      <4> QED  BY <4>1, <4>2, <4>3, <4>4, <4>5, Zenon
    <3> HIDE DEF most, b, bb
    <3>4. pushed' + bb <= Knock * grants'
      BY <3>3, Through, Zenon
    <3> QED  BY <3>4 DEF bb
  <2> QED  BY <2>4, <2>8, <2>9, <2>10, <2>11 DEF MoveInv
<1> QED  BY <1>3, <1>4

(* A clock that goes on, a boost or a boink keeps it too. *)
LEMMA OthersKeep ==
    ASSUME MoveInv, UNCHANGED <<driver, judgeVars>>
    PROVE  /\ Pass => MoveInv'
           /\ GrantKnockback => MoveInv'
           /\ TakeSpeed => MoveInv'
<1>1. /\ MoveTypeOK /\ 1 <= clock /\ lastAt <= clock /\ Boosts(boosts, boostStart, boostUntil, silence)
      /\ boostStart <= clock /\ (boosts = 0 => boostUntil = 0) /\ pushed + knockback.budget <= Knock * grants
      /\ (lastAt = 0 => samples = <<>> /\ walked = 0) /\ Chained(samples, lastAt, silence)
      /\ (lastAt # 0 => WalkAllowed)
  BY DEF MoveInv
<1>2. /\ driver \in {"bot", "walker", "client"}
      /\ clock \in Nat /\ lastAt \in Nat /\ boostUntil \in Nat /\ lag \in Nat /\ carry \in Nat
      /\ walked \in Nat /\ pushed \in Nat /\ silence \in Nat /\ grants \in Nat /\ boosts \in Nat
      /\ boostStart \in Nat /\ samples \in Seq(Sample)
      /\ knockback \in [budget : 0 .. Knock, until : Nat] /\ violations \in Nat /\ carried \in 0 .. MaxCarried
      /\ Knock \in Nat /\ KnockTime \in Nat /\ BoostTime \in Nat
  BY <1>1, MoveTypes, Constants
<1>3. /\ lastAt' = lastAt /\ samples' = samples /\ violations' = violations /\ carried' = carried /\ walked' = walked /\ pushed' = pushed
      /\ silence' = silence /\ driver' = driver
  BY DEF judgeVars
<1>4. Chained(samples', lastAt', silence') /\ (lastAt' = 0 => samples' = <<>> /\ walked' = 0) /\ lastAt' <= clock
  BY <1>1, <1>3
<1>5. ASSUME Pass PROVE MoveInv'
  <2>1. clock' = clock + 1 /\ UNCHANGED <<grantVars, walkVars>>
    BY <1>5 DEF Pass
  <2>2. /\ knockback' = knockback /\ boostUntil' = boostUntil /\ grants' = grants /\ boosts' = boosts
        /\ boostStart' = boostStart /\ lag' = lag /\ carry' = carry
    BY <2>1 DEF grantVars, walkVars
  <2>3. MoveTypeOK'
    BY <1>2, <1>3, <2>1, <2>2 DEF MoveTypeOK, Sample
  <2>4. WalkAllowed' <=> WalkAllowed
    BY <1>3, <2>2 DEF WalkAllowed
  <2>5. 1 <= clock' /\ lastAt' <= clock' /\ boostStart' <= clock'
    BY <1>1, <1>2, <1>3, <2>1, <2>2
  <2>6. Boosts(boosts', boostStart', boostUntil', silence') /\ (boosts' = 0 => boostUntil' = 0)
        /\ pushed' + knockback'.budget <= Knock * grants' /\ (lastAt' # 0 => WalkAllowed')
    BY <1>1, <1>3, <2>2, <2>4
  <2> QED  BY <1>4, <2>3, <2>5, <2>6 DEF MoveInv
<1>6. ASSUME GrantKnockback PROVE MoveInv'
  <2>1. /\ carry' = (IF driver = "walker" THEN Knock ELSE carry) /\ grants' = grants + 1
        /\ knockback' = [budget |-> Knock, until |-> clock + KnockTime]
        /\ clock' = clock /\ lag' = lag /\ boostUntil' = boostUntil /\ boosts' = boosts /\ boostStart' = boostStart
    BY <1>6 DEF GrantKnockback
  <2>2. knockback' \in [budget : 0 .. Knock, until : Nat] /\ knockback'.budget = Knock
    BY <1>2, <2>1
  <2>3. MoveTypeOK'
    BY <1>2, <1>3, <2>1, <2>2 DEF MoveTypeOK, Sample
  <2>4. WalkAllowed' <=> WalkAllowed
    BY <1>3, <2>1 DEF WalkAllowed
  <2>5. pushed' + knockback'.budget <= Knock * grants'
    <3>1. Knock * (grants + 1) = Knock * grants + Knock * 1 /\ Knock * 1 = Knock
      BY <1>2, TimesSum
    <3>2. knockback.budget \in Nat /\ Knock * grants \in Nat
      BY <1>2
    <3> QED  BY <1>1, <1>2, <1>3, <2>1, <2>2, <3>1, <3>2
  <2>6. /\ 1 <= clock' /\ lastAt' <= clock' /\ boostStart' <= clock'
        /\ Boosts(boosts', boostStart', boostUntil', silence') /\ (boosts' = 0 => boostUntil' = 0)
        /\ (lastAt' # 0 => WalkAllowed')
    BY <1>1, <1>3, <2>1, <2>4
  <2> QED  BY <1>4, <2>3, <2>5, <2>6 DEF MoveInv
<1>7. ASSUME TakeSpeed PROVE MoveInv'
  <2>1. /\ boosts' = boosts + 1 /\ boostUntil' = clock + BoostTime /\ boostStart' = clock
        /\ clock' = clock /\ knockback' = knockback /\ lag' = lag /\ carry' = carry /\ grants' = grants
    BY <1>7 DEF TakeSpeed, walkVars
  <2>3. MoveTypeOK'
    BY <1>2, <1>3, <2>1 DEF MoveTypeOK, Sample
  <2>4. Boosts(boosts', boostStart', boostUntil', silence') /\ (boosts' = 0 => boostUntil' = 0)
    BY <1>1, <1>2, <1>3, <2>1 DEF Boosts
  <2>5. ASSUME NEW x \in Nat \ {0}
        PROVE  /\ Allowed(x, boosts, boostStart, boostUntil, silence)
                     <= Allowed(x, boosts', boostStart', boostUntil', silence')
               /\ Allowed(x, boosts, boostStart, boostUntil, silence) \in Nat
               /\ Allowed(x, boosts', boostStart', boostUntil', silence') \in Nat
    <3>1. Allowed(x, boosts, boostStart, boostUntil, silence)
             <= Allowed(x, boosts + 1, clock, clock + BoostTime, silence)
      BY <1>1, <1>2, AllowedGrows
    <3>2. Allowed(x, boosts, boostStart, boostUntil, silence) \in Nat
      BY <1>1, AllowedGrows
    <3>3. Allowed(x, boosts + 1, clock, clock + BoostTime, silence) \in Nat
      <4>1. Boosts(boosts + 1, clock, clock + BoostTime, silence)
        BY <1>3, <2>1, <2>4
      <4> QED  BY <4>1, AllowedGrows
    <3> QED  BY <1>3, <2>1, <3>1, <3>2, <3>3
  <2>6. ASSUME lastAt' # 0 PROVE WalkAllowed'
    <3>1. WalkAllowed /\ lastAt \in Nat \ {0}
      BY <1>1, <1>2, <1>3, <2>6
    <3>2. walked' <= Allowed(lastAt', boosts', boostStart', boostUntil', silence')
      <4> DEFINE u == Allowed(lastAt, boosts, boostStart, boostUntil, silence)
                 v == Allowed(lastAt, boosts', boostStart', boostUntil', silence')
      <4>1. u <= v /\ u \in Nat /\ v \in Nat
        BY <2>5, <3>1
      <4>2. walked <= u
        BY <3>1 DEF WalkAllowed
      <4> HIDE DEF u, v
      <4>3. walked' <= v
        BY <1>2, <1>3, <4>1, <4>2
      <4> QED  BY <1>3, <4>3 DEF v
    <3>3. ASSUME NEW i \in 1 .. Len(samples')
          PROVE walked' - LengthFrom(samples', i) <=
                   Allowed(samples'[i].from, boosts', boostStart', boostUntil', silence')
      <4> DEFINE x == samples[i].from
                 l == LengthFrom(samples, i)
                 u == Allowed(x, boosts, boostStart, boostUntil, silence)
                 v == Allowed(x, boosts', boostStart', boostUntil', silence')
      <4>0. i \in 1 .. Len(samples)
        BY <1>3
      <4>1. x \in Nat \ {0}
        <5>1. 1 <= x
          BY <1>1, <4>0 DEF Chained
        <5>2. x \in Nat
          BY <1>2, <4>0, SampleParts
        <5> QED  BY <5>1, <5>2
      <4>2. u <= v /\ u \in Nat /\ v \in Nat
        <5> HIDE DEF x
        <5> QED  BY <2>5, <4>1
      <4>3. walked - l <= u
        BY <3>1, <4>0 DEF WalkAllowed
      <4>4. l \in Nat
        <5>1. i \in Nat \ {0}
          BY <4>0
        <5> QED  BY <1>2, <5>1, LengthsAre
      <4> HIDE DEF l, u, v
      <4>5. walked - l <= v
        BY <1>2, <4>2, <4>3, <4>4
      <4> QED  BY <1>3, <4>5 DEF v, l
    <3>4. \/ walked' = LengthFrom(samples', 1)
          \/ (samples' # <<>> /\ samples'[1].from + Window < lastAt')
      BY <1>3, <3>1 DEF WalkAllowed
    <3> QED  BY <3>2, <3>3, <3>4 DEF WalkAllowed
  <2>7. /\ 1 <= clock' /\ lastAt' <= clock' /\ boostStart' <= clock'
        /\ pushed' + knockback'.budget <= Knock * grants'
    BY <1>1, <1>2, <1>3, <2>1
  <2> QED  BY <1>4, <2>3, <2>4, <2>6, <2>7 DEF MoveInv
<1> QED  BY <1>5, <1>6, <1>7

(* Nothing is walked at first. *)
LEMMA MoveInvInit == MoveInit => MoveInv
<1> SUFFICES ASSUME MoveInit PROVE MoveInv
  OBVIOUS
<1>1. MoveTypeOK
  <2>1. samples = <<>> /\ <<>> \in Seq([from : Nat, to : Nat, d : Nat, cap : Nat])
    BY DEF MoveInit
  <2>2. knockback \in [budget : 0 .. Knock, until : Nat]
    BY Constants DEF MoveInit
  <2>3. violations \in Nat /\ carried \in 0 .. MaxCarried /\ driver \in {"bot", "walker", "client"}
    BY Constants DEF MoveInit
  <2>4. {clock, lastAt, boostUntil, lag, carry, violations, walked, pushed, silence, grants, boosts, boostStart} \subseteq Nat
    BY DEF MoveInit
  <2> QED  BY <2>1, <2>2, <2>3, <2>4 DEF MoveTypeOK
<1>2. Chained(samples, lastAt, silence) /\ Boosts(boosts, boostStart, boostUntil, silence)
  BY DEF MoveInit, Chained, Boosts
<1>3. pushed + knockback.budget <= Knock * grants
  BY Constants DEF MoveInit
<1> QED  BY <1>1, <1>2, <1>3 DEF MoveInv, MoveInit

(* What an update may be. *)
LEMMA StepsOf ==
    ASSUME MoveInv
    PROVE  /\ BotTick => \E step \in Nat, accepted \in Nat, cap \in Nat :
                 /\ Judge(step, accepted, cap, cap) /\ IsCap(cap) /\ cap = Cap(carried)
                 /\ driver = "bot" /\ clock > lastAt /\ step <= cap * (clock - lastAt)
                 /\ carried' \in 0 .. MaxCarried
           /\ WalkerUpdate => \E move \in Nat, accepted \in Nat, told \in Nat, cap \in Nat :
                 /\ Judge(lag + move + carry, accepted, Most(told, cap), cap)
                 /\ IsCap(cap) /\ cap = Cap(carried') /\ driver = "walker" /\ clock > lastAt
                 /\ move <= told /\ accepted <= lag + move + carry /\ lag' = lag + move + carry - accepted
                 /\ carried' \in 0 .. MaxCarried
           /\ ClientUpdate => \E step \in Nat, accepted \in Nat, cap \in Nat :
                 /\ Judge(step, accepted, 0, cap) /\ IsCap(cap) /\ driver = "client"
                 /\ carried' \in 0 .. MaxCarried
<1>1. MoveTypeOK /\ lastAt <= clock
  BY DEF MoveInv
<1>3. /\ clock \in Nat /\ lastAt \in Nat /\ lag \in Nat /\ carry \in Nat /\ carried \in 0 .. MaxCarried
      /\ MaxDt \in Nat /\ BotPace \in Nat /\ Base \in Nat /\ Jump \in Nat
      /\ MaxCarried \in Nat /\ Loads \subseteq 0 .. MaxCarried
  BY <1>1, MoveTypes, Constants
<1>4. ASSUME BotTick
      PROVE  \E step \in Nat, accepted \in Nat, cap \in Nat :
                 /\ Judge(step, accepted, cap, cap) /\ IsCap(cap) /\ cap = Cap(carried)
                 /\ driver = "bot" /\ clock > lastAt /\ step <= cap * (clock - lastAt)
                 /\ carried' \in 0 .. MaxCarried
  <2> DEFINE t == IF lastAt = 0 THEN 1 ELSE Least(clock - lastAt, MaxDt)
             c == Cap(carried)
             top == BotSpeed * t
  <2>1. clock > lastAt /\ driver = "bot"
    BY <1>4 DEF BotTick
  <2>2. t \in Nat /\ t <= clock - lastAt
    BY <1>3, <2>1 DEF Least
  <2>9. carried' \in 0 .. MaxCarried
    <3>1. PICK claims \in {0, 1} : carried' = Least(carried + claims, MaxCarried)
      BY <1>4 DEF BotTick
    <3> QED  BY <1>3, <3>1 DEF Least
  <2>3. PICK step \in UpTo(top) : \E accepted \in 0 .. step : Judge(step, accepted, Cap(carried), Cap(carried))
    BY <1>4 DEF BotTick
  <2>4. c \in Nat /\ IsCap(c)
    <3>1. carried \in Nat
      BY <1>3
    <3> QED  BY <3>1, CapIs
  <2>10. BotSpeed \in Nat /\ BotSpeed <= c
    BY <1>3, <2>4 DEF BotSpeed, Least
  <2>11. PICK accepted \in 0 .. step : Judge(step, accepted, c, c)
    BY <2>3
  <2> HIDE DEF t, c
  <2>5. top \in Nat /\ top <= c * t /\ c * t <= c * (clock - lastAt)
    <3>1. t * BotSpeed <= t * c
      BY <2>2, <2>4, <2>10, TimesGrows
    <3>2. t * BotSpeed = BotSpeed * t /\ t * c = c * t /\ BotSpeed * t \in Nat
      BY <2>2, <2>4, <2>10
    <3>3. c * t <= c * (clock - lastAt)
      BY <1>3, <2>2, <2>4, TimesGrows
    <3> QED  BY <3>1, <3>2, <3>3
  <2>6. step \in Nat /\ step <= c * (clock - lastAt)
    <3>1. c * t \in Int /\ c * (clock - lastAt) \in Int
      BY <1>3, <2>2, <2>4
    <3> HIDE DEF top
    <3>2. step \in Nat /\ step <= top
      BY <2>3, <2>5 DEF UpTo
    <3> QED  BY <2>5, <3>1, <3>2
  <2>7. accepted \in Nat
    BY <2>6
  <2>8. c = Cap(carried)
    BY DEF c
  <2> QED  BY <2>1, <2>4, <2>6, <2>7, <2>8, <2>9, <2>11
<1>5. ASSUME WalkerUpdate
      PROVE  \E move \in Nat, accepted \in Nat, told \in Nat, cap \in Nat :
                 /\ Judge(lag + move + carry, accepted, Most(told, cap), cap)
                 /\ IsCap(cap) /\ cap = Cap(carried') /\ driver = "walker" /\ clock > lastAt
                 /\ move <= told /\ accepted <= lag + move + carry /\ lag' = lag + move + carry - accepted
                 /\ carried' \in 0 .. MaxCarried
  <2> DEFINE told == CapAt(carried, lastAt)
  <2>1. clock > lastAt /\ driver = "walker"
    BY <1>5 DEF WalkerUpdate
  <2>2. PICK n \in Loads :
          /\ carried' = n
          /\ \E move \in UpTo(told) : \E accepted \in 0 .. lag + move + carry :
                 /\ Judge(lag + move + carry, accepted, Most(told, Cap(n)), Cap(n))
                 /\ lag' = lag + move + carry - accepted
    BY <1>5 DEF WalkerUpdate
  <2> DEFINE c == Cap(n)
  <2>3. n \in 0 .. MaxCarried /\ n \in Nat
    BY <1>3
  <2>4. told \in Nat /\ c \in Nat /\ IsCap(c)
    <3>1. carried \in Nat
      BY <1>3
    <3> QED  BY <2>3, <3>1, CapIs
  <2> HIDE DEF told, c
  <2>10. PICK move \in UpTo(told) : \E accepted \in 0 .. lag + move + carry :
                 /\ Judge(lag + move + carry, accepted, Most(told, c), c)
                 /\ lag' = lag + move + carry - accepted
    BY <2>2 DEF c
  <2>5. PICK accepted \in 0 .. lag + move + carry :
                 /\ Judge(lag + move + carry, accepted, Most(told, c), c)
                 /\ lag' = lag + move + carry - accepted
    BY <2>10
  <2>6. move \in Nat /\ move <= told
    BY <2>4, <2>10 DEF UpTo
  <2>7. accepted \in Nat /\ accepted <= lag + move + carry
    BY <1>3, <2>6
  <2>8. c = Cap(carried')
    BY <2>2 DEF c
  <2>9. carried' \in 0 .. MaxCarried
    BY <2>2, <2>3
  <2> QED  BY <2>1, <2>4, <2>5, <2>6, <2>7, <2>8, <2>9
<1>6. ASSUME ClientUpdate
      PROVE  \E step \in Nat, accepted \in Nat, cap \in Nat :
                 /\ Judge(step, accepted, 0, cap) /\ IsCap(cap) /\ driver = "client"
                 /\ carried' \in 0 .. MaxCarried
  <2>1. PICK n \in Loads, step \in {Base, Jump}, accepted \in 0 .. Jump :
           carried' = n /\ Judge(step, accepted, 0, Cap(n))
    BY <1>6 DEF ClientUpdate
  <2>2. step \in Nat /\ accepted \in Nat /\ n \in Nat /\ carried' \in 0 .. MaxCarried
    BY <1>3, <2>1
  <2>3. Cap(n) \in Nat /\ IsCap(Cap(n))
    BY <2>2, CapIs
  <2>4. driver = "client"
    BY <1>6 DEF ClientUpdate
  <2> QED  BY <2>1, <2>2, <2>3, <2>4
<1> QED  BY <1>4, <1>5, <1>6

(* The invariant is inductive. *)
LEMMA MoveInvNext == MoveInv /\ [MoveNext]_moveVars => MoveInv'
<1> SUFFICES ASSUME MoveInv, [MoveNext]_moveVars PROVE MoveInv'
  OBVIOUS
<1>1. lag \in Nat /\ carry \in Nat
  BY MoveTypes DEF MoveInv
<1>2. CASE BotTick
  <2>1. PICK step \in Nat, accepted \in Nat, cap \in Nat :
            Judge(step, accepted, cap, cap) /\ IsCap(cap) /\ carried' \in 0 .. MaxCarried
    BY <1>2, StepsOf
  <2>2. UNCHANGED <<driver, clock, boostUntil, grants, boosts, boostStart>> /\ lag' \in Nat /\ carry' \in Nat
    BY <1>1, <1>2 DEF BotTick, walkVars
  <2> QED  BY <2>1, <2>2, JudgeKeeps
<1>3. CASE WalkerUpdate
  <2>1. PICK move \in Nat, accepted \in Nat, told \in Nat, cap \in Nat :
            /\ Judge(lag + move + carry, accepted, Most(told, cap), cap) /\ IsCap(cap)
            /\ accepted <= lag + move + carry
            /\ lag' = lag + move + carry - accepted /\ carried' \in 0 .. MaxCarried
    BY <1>3, StepsOf
  <2>2. UNCHANGED <<driver, clock, boostUntil, grants, boosts, boostStart>> /\ carry' \in Nat
    BY <1>3 DEF WalkerUpdate
  <2>3. lag + move + carry \in Nat /\ lag' \in Nat
    BY <1>1, <2>1
  <2>4. PICK kept \in Nat : kept = Most(told, cap)
    BY DEF Most
  <2> QED  BY <2>1, <2>2, <2>3, <2>4, JudgeKeeps
<1>4. CASE ClientUpdate
  <2>1. PICK step \in Nat, accepted \in Nat, cap \in Nat :
            Judge(step, accepted, 0, cap) /\ IsCap(cap) /\ carried' \in 0 .. MaxCarried
    BY <1>4, StepsOf
  <2>2. UNCHANGED <<driver, clock, boostUntil, grants, boosts, boostStart>> /\ lag' \in Nat /\ carry' \in Nat
    BY <1>1, <1>4 DEF ClientUpdate, walkVars
  <2> QED  BY <2>1, <2>2, JudgeKeeps
<1>5. CASE GrantKnockback
  <2>1. UNCHANGED <<driver, judgeVars>>
    BY <1>5 DEF GrantKnockback
  <2> QED  BY <1>5, <2>1, OthersKeep
<1>6. CASE TakeSpeed
  <2>1. UNCHANGED <<driver, judgeVars>>
    BY <1>6 DEF TakeSpeed
  <2> QED  BY <1>6, <2>1, OthersKeep
<1>7. CASE Pass
  <2>1. UNCHANGED <<driver, judgeVars>>
    BY <1>7 DEF Pass
  <2> QED  BY <1>7, <2>1, OthersKeep
<1>8. CASE UNCHANGED moveVars
  <2>1. /\ driver' = driver /\ clock' = clock /\ lastAt' = lastAt /\ samples' = samples /\ violations' = violations
        /\ carried' = carried /\ walked' = walked /\ pushed' = pushed /\ silence' = silence /\ knockback' = knockback
        /\ boostUntil' = boostUntil /\ grants' = grants /\ boosts' = boosts /\ boostStart' = boostStart
        /\ lag' = lag /\ carry' = carry
    BY <1>8 DEF moveVars, judgeVars, grantVars, walkVars
  <2>2. MoveTypeOK' /\ (WalkAllowed' <=> WalkAllowed)
    BY <2>1 DEF MoveInv, MoveTypeOK, WalkAllowed
  <2> QED  BY <2>1, <2>2 DEF MoveInv
<1> QED  BY <1>2, <1>3, <1>4, <1>5, <1>6, <1>7, <1>8 DEF MoveNext

(* Every variable keeps its type, whatever is reported and granted. *)
THEOREM MoveTyped == MoveSpec => []MoveTypeOK
<1>1. MoveSpec => []MoveInv
  BY MoveInvInit, MoveInvNext, PTL DEF MoveSpec
<1>2. MoveInv => MoveTypeOK
  BY DEF MoveInv
<1> QED  BY <1>1, <1>2, PTL

(* movement.js:34: the invariant bounds what was walked by what is allowed until the last   *)
(* update, and that by the clock and the number of boosts.                               *)
LEMMA WalkIsCapped == MoveInv => PathWithinCap
<1> SUFFICES ASSUME MoveInv PROVE PathWithinCap
  OBVIOUS
<1>1. /\ clock \in Nat \ {0} /\ lastAt \in Nat /\ walked \in Nat /\ pushed \in Nat /\ silence \in Nat
      /\ boosts \in Nat /\ knockback.budget \in Nat /\ grants \in Nat
      /\ lastAt <= clock /\ Boosts(boosts, boostStart, boostUntil, silence)
  <2>1. MoveTypeOK /\ 1 <= clock
    BY DEF MoveInv
  <2> QED  BY <2>1, MoveTypes, Constants DEF MoveInv
<1>2. pushed <= Knock * grants
  <2>1. pushed + knockback.budget <= Knock * grants
    BY DEF MoveInv
  <2>2. Knock * grants \in Nat
    BY <1>1, Constants
  <2> QED  BY <1>1, <2>1, <2>2
<1> DEFINE g == Boost - Base
           s == BoostTime + Window + silence
           o == Base * clock + Tolerance * ((clock - 1) \div Window + 1) + g * (s * boosts)
<1>3. walked <= o
  <2> DEFINE p == Allowed(lastAt, boosts, boostStart, boostUntil, silence)
             q == Allowed(clock, boosts, boostStart, boostUntil, silence)
  <2>1. q \in Nat /\ q <= o
    BY <1>1, AllowedGrows DEF Windows, Span
  <2>4. o \in Int
    <3>1. clock - 1 \in Nat /\ Window \in Nat \ {0}
      BY <1>1, Constants
    <3>2. (clock - 1) \div Window \in Nat
      BY <3>1, WindowsCount
    <3> DEFINE v == (clock - 1) \div Window + 1
    <3>3. v \in Nat /\ g \in Nat /\ s \in Nat /\ Base \in Nat /\ Tolerance \in Nat
      BY <1>1, <3>2, Constants
    <3> HIDE DEF v, g, s
    <3>4. Base * clock \in Nat /\ Tolerance * v \in Nat /\ s * boosts \in Nat /\ g * (s * boosts) \in Nat
      BY <1>1, <3>3
    <3> QED  BY <3>4 DEF v
  <2>2. CASE lastAt = 0
    <3>1. walked = 0
      BY <2>2 DEF MoveInv
    <3> HIDE DEF o, q
    <3> QED  BY <2>1, <2>4, <3>1
  <2>3. CASE lastAt # 0
    <3>1. walked <= p
      BY <2>3 DEF MoveInv, WalkAllowed
    <3>2. p <= q /\ p \in Nat
      <4>1. lastAt \in Nat \ {0}
        BY <1>1, <2>3
      <4> QED  BY <1>1, <4>1, AllowedGrows
    <3> HIDE DEF o, p, q
    <3> QED  BY <1>1, <2>1, <2>4, <3>1, <3>2
  <2> QED  BY <2>2, <2>3
<1>4. g * (s * boosts) = g * s * boosts
  <2>1. g \in Nat /\ s \in Nat
    BY <1>1, Constants
  <2> HIDE DEF g, s
  <2> QED  BY <1>1, <2>1
<1>5. Elapsed + 1 = clock /\ Elapsed = clock - 1
  BY <1>1 DEF Elapsed
<1> HIDE DEF o
<1>6. o = Base * (Elapsed + 1) + Tolerance * (Elapsed \div Window + 1)
            + (Boost - Base) * (BoostTime + Window + silence) * boosts
  BY <1>4, <1>5, Zenon DEF o, g, s
<1> QED  BY <1>2, <1>3, <1>6, Zenon DEF PathWithinCap

(* movement.js:34 "the server position moves only as far as the window allowance permits":   *)
(* whatever a client reports, it has walked no further than a walk at the cap, one tolerance  *)
(* per window, and was pushed no further than the knockbacks it was granted.               *)
THEOREM PathsAreCapped == MoveSpec => []PathWithinCap
<1>1. MoveSpec => []MoveInv
  BY MoveInvInit, MoveInvNext, PTL DEF MoveSpec
<1> QED  BY <1>1, WalkIsCapped, PTL

-----------------------------------------------------------------------------
(* The steady drivers: a bot keeps to the cap of its tick, and so does a walker to that of  *)
(* its last update or of this one until it is flagged, once its throw is paid from the     *)
(* knockback that threw it.                                                            *)

Paced(ss) == \A i \in 1 .. Len(ss) : ss[i].d <= ss[i].cap * (ss[i].to - ss[i].from)

(* A step that keeps to its cap keeps the pace. *)
LEMMA PacedNext ==
    ASSUME MoveInv, Paced(samples), NEW k, NEW dd, NEW kept \in Nat, NEW cap, Judged(k, dd, kept, cap),
           dd <= kept * (clock - lastAt)
    PROVE  Paced(samples')
<1> DEFINE n == Len(samples)
           m == Len(samples')
<1>1. /\ k \in 1 .. n + 1 /\ m = n + 2 - k /\ n \in Nat /\ m \in Nat
      /\ \A j \in 1 .. n + 1 - k : samples'[j] = samples[j + k - 1]
      /\ samples'[m] = [from |-> lastAt, to |-> clock, d |-> dd, cap |-> kept]
  <2>1. samples \in Seq(Sample) /\ n \in Nat
    BY DEF MoveInv, MoveTypeOK, Sample
  <2>2. /\ k \in 1 .. n + 1 /\ m = n + 2 - k
        /\ \A j \in 1 .. n + 1 - k : samples'[j] = samples[j + k - 1]
        /\ samples'[m] = [from |-> lastAt, to |-> clock, d |-> dd, cap |-> kept]
    BY DEF Judged
  <2> HIDE DEF n, m
  <2>3. m \in Nat
    BY <2>1, <2>2
  <2> QED  BY <2>1, <2>2, <2>3
<1> HIDE DEF n, m
<1>4. ASSUME NEW i \in 1 .. m
      PROVE  samples'[i].d <= samples'[i].cap * (samples'[i].to - samples'[i].from)
  <2>1. CASE i = m
    <3>1. samples'[i].d = dd /\ samples'[i].to = clock /\ samples'[i].from = lastAt /\ samples'[i].cap = kept
      BY <1>1, <2>1
    <3> QED  BY <3>1
  <2>2. CASE i # m
    <3>1. i \in 1 .. n + 1 - k /\ i + k - 1 \in 1 .. n
      BY <1>1, <2>2
    <3>2. samples'[i] = samples[i + k - 1]
      BY <1>1, <3>1
    <3> DEFINE x == samples[i + k - 1]
    <3>3. x.d <= x.cap * (x.to - x.from)
      BY <3>1 DEF Paced, n
    <3> HIDE DEF x
    <3>4. samples'[i] = x
      BY <3>2 DEF x
    <3> QED  BY <3>3, <3>4
  <2> QED  BY <2>1, <2>2
<1> QED  BY <1>4 DEF Paced, m

(* Whoever keeps the pace is flagged only as far as the cap fell in the window. *)
LEMMA PacedFalls ==
    ASSUME MoveInv, lastAt # 0, Paced(samples), NEW step \in Nat, NEW kept \in Nat, NEW cap \in Nat,
           step - Credit(step, cap) <= kept * (clock - lastAt), Over(step, kept, cap)
    PROVE  Fall(Windowed(step, kept, cap), cap) > Tolerance
<1> DEFINE c == Credit(step, cap)
           e == step - c
           W == With(e, kept)
           ss == Recent(W)
           n == Len(samples)
           m == Len(ss)
           u == Most(silence, clock - lastAt)
<1>1. /\ samples \in Seq(Sample) /\ lastAt \in Nat \ {0} /\ clock \in Nat /\ silence \in Nat /\ n \in Nat
      /\ lastAt <= clock /\ Chained(samples, lastAt, silence)
      /\ knockback \in [budget : 0 .. Knock, until : Nat] /\ Tolerance \in Nat
  BY Constants DEF MoveInv, MoveTypeOK, Sample
<1>2. c \in Nat /\ c <= step
  BY <1>1, CreditIs
<1>3. e \in Nat
  BY <1>2
<1>4. /\ W \in Seq(Sample) /\ Len(W) = n + 1
      /\ \A i \in 1 .. n : W[i] = samples[i]
      /\ W[n + 1] = [from |-> lastAt, to |-> clock, d |-> e, cap |-> kept]
  <2> HIDE DEF e
  <2> QED  BY <1>1, <1>3, WithIs
<1>5. PICK k : Cut(W, ss, k)
  <2> HIDE DEF e
  <2> QED  BY <1>1, <1>3, WithIs
<1>6. ss = Windowed(step, kept, cap) /\ Lengths(ss) > Allowance(ss, cap) + Tolerance
  BY DEF Over, Windowed
<1>13. e <= kept * (clock - lastAt)
  OBVIOUS
<1> HIDE DEF c, e, W, ss, n, m, u
<1>7. /\ k \in 1 .. n + 1 /\ ss \in Seq(Sample) /\ m = n + 2 - k /\ m \in Nat /\ m >= 1
      /\ \A j \in 1 .. m : ss[j] = W[j + k - 1]
  <2>1. /\ k \in 1 .. Len(W) /\ ss \in Seq(Sample) /\ m = Len(W) - k + 1
        /\ \A j \in 1 .. Len(W) - k + 1 : ss[j] = W[j + k - 1]
    BY <1>5 DEF Cut, m
  <2>2. k \in 1 .. n + 1 /\ m = n + 2 - k /\ m \in Nat /\ m >= 1 /\ Len(W) - k + 1 = m
    BY <1>1, <1>4, <2>1
  <2> QED  BY <2>1, <2>2
<1>8. ss[m] = [from |-> lastAt, to |-> clock, d |-> e, cap |-> kept]
  <2>1. m \in 1 .. m /\ m + k - 1 = n + 1
    BY <1>1, <1>7
  <2> QED  BY <1>4, <1>7, <2>1
<1>9. \A j \in 1 .. n + 1 - k : ss[j] = samples[j + k - 1] /\ j \in 1 .. m /\ j + k - 1 \in 1 .. n
  <2> SUFFICES ASSUME NEW j \in 1 .. n + 1 - k
               PROVE  ss[j] = samples[j + k - 1] /\ j \in 1 .. m /\ j + k - 1 \in 1 .. n
    OBVIOUS
  <2>1. j \in 1 .. m /\ j + k - 1 \in 1 .. n
    BY <1>1, <1>7
  <2> QED  BY <1>4, <1>7, <2>1
<1>10. Chained(ss, clock, u)
  <2>1. GoesOn(samples, ss, k, lastAt, clock)
    BY <1>7, <1>8, <1>9 DEF GoesOn, n, m
  <2> QED  BY <1>1, <1>7, <2>1, ChainedOn DEF u
<1>12. ASSUME NEW j \in 1 .. m PROVE ss[j].d <= ss[j].cap * (ss[j].to - ss[j].from)
  <2>1. CASE j = m
    <3>1. ss[j].d = e /\ ss[j].to = clock /\ ss[j].from = lastAt /\ ss[j].cap = kept
      BY <1>8, <2>1
    <3> QED  BY <1>13, <3>1
  <2>2. CASE j # m
    <3>1. j \in 1 .. n + 1 - k
      BY <1>1, <1>7, <2>2
    <3>2. ss[j] = samples[j + k - 1] /\ j + k - 1 \in 1 .. n
      BY <1>9, <3>1
    <3> DEFINE x == samples[j + k - 1]
    <3>3. x.d <= x.cap * (x.to - x.from)
      BY <3>2 DEF Paced, n
    <3>4. ss[j] = x
      BY <3>2
    <3> HIDE DEF x
    <3> QED  BY <3>3, <3>4
  <2> QED  BY <2>1, <2>2
<1>14. Fall(ss, cap) \in Int /\ Lengths(ss) <= Fall(ss, cap) + cap * (clock - ss[1].from)
  <2>1. Len(ss) > 0 /\ \A i \in 1 .. Len(ss) : ss[i].d <= ss[i].cap * (ss[i].to - ss[i].from)
    BY <1>7, <1>12 DEF m
  <2> QED  BY <1>7, <1>10, <2>1, FallsSum
<1>15. cap * (clock - ss[1].from) <= Allowance(ss, cap) /\ Allowance(ss, cap) \in Nat
       /\ cap * (clock - ss[1].from) \in Int
  <2>1. 1 \in 1 .. m
    BY <1>7
  <2>4. ss[1].from \in Nat
    BY <1>7, <2>1, SampleParts DEF m
  <2>2. clock - ss[1].from \in Int /\ Most(clock - ss[1].from, 1) \in Nat
        /\ clock - ss[1].from <= Most(clock - ss[1].from, 1)
    BY <1>1, <2>4 DEF Most
  <2>3. cap * (clock - ss[1].from) <= cap * Most(clock - ss[1].from, 1) /\ cap * (clock - ss[1].from) \in Int
    BY <2>2, TimesGrows
  <2> QED  BY <2>2, <2>3 DEF Allowance
<1>16. Lengths(ss) \in Nat
  BY <1>7, LengthsAre
<1> DEFINE al == Allowance(ss, cap)
           le == Lengths(ss)
           x == cap * (clock - ss[1].from)
           fa == Fall(ss, cap)
<1>17. le <= fa + x /\ fa \in Int /\ x <= al /\ al \in Nat /\ le \in Nat /\ x \in Int /\ le > al + Tolerance
  BY <1>6, <1>14, <1>15, <1>16
<1>18. Fall(Windowed(step, kept, cap), cap) = fa
  BY <1>6
<1> HIDE DEF al, le, x, fa
<1> QED  BY <1>1, <1>17, <1>18

(* A throw is paid from a budget that still lasts at the next report. *)
Thrown ==
    driver = "walker" =>
        /\ carry \in {0, Knock}
        /\ carry # 0 => /\ knockback.budget = Knock /\ clock <= knockback.until
                        /\ lastAt = clock => clock + 1 <= knockback.until

HonestInv ==
    /\ MoveInv /\ Thrown
    /\ driver = "bot" => Paced(samples)
    /\ driver = "walker" /\ violations = 0 => lag = 0 /\ Paced(samples)

(* The step of a walker that was never flagged, without what a knockback pays of it, keeps to *)
(* the cap it was told or to that it is judged by.                                         *)
LEMMA ThrowIsPaid ==
    ASSUME HonestInv, driver = "walker", violations = 0, clock > lastAt, NEW cap \in Nat, NEW told \in Nat,
           NEW move \in Nat, move <= told
    PROVE  /\ lag + move + carry \in Nat
           /\ (lag + move + carry) - Credit(lag + move + carry, cap) <= Most(told, cap) * (clock - lastAt)
<1> DEFINE step == lag + move + carry
           t == clock - lastAt
           kept == Most(told, cap)
           cr == Credit(step, cap)
<1>1. /\ clock \in Nat /\ lastAt \in Nat /\ lag = 0 /\ carry \in Nat /\ knockback \in [budget : 0 .. Knock, until : Nat]
      /\ Knock \in Nat
  BY Constants DEF HonestInv, MoveInv, MoveTypeOK
<1>2. step \in Nat
  BY <1>1
<1>3. /\ cr \in Nat
      /\ clock <= knockback.until =>
            step - cr <= cap * Most(clock - lastAt, 1) \/ cr = knockback.budget
  <2> HIDE DEF step
  <2> QED  BY <1>1, <1>2, CreditIs
<1>4. Most(clock - lastAt, 1) = t /\ t \in Nat /\ 1 <= t
  BY <1>1 DEF Most
<1>5. step = move + carry
  BY <1>1
<1>6. kept \in Nat /\ told <= kept /\ cap <= kept
  BY DEF Most
<1> HIDE DEF step, t, kept, cr
<1>7. cap * t <= kept * t /\ told * t <= kept * t /\ told <= told * t
      /\ cap * t \in Nat /\ kept * t \in Nat /\ told * t \in Nat
  <2>1. t * cap <= t * kept /\ t * told <= t * kept /\ told * 1 <= told * t
    BY <1>4, <1>6, TimesGrows
  <2>2. t * cap = cap * t /\ t * kept = kept * t /\ t * told = told * t /\ told * 1 = told
        /\ cap * t \in Nat /\ kept * t \in Nat /\ told * t \in Nat
    BY <1>4, <1>6
  <2> QED  BY <2>1, <2>2
<1>10. move <= kept * t
  BY <1>7
<1>8. CASE carry = 0
  <2>1. step - cr <= kept * t
    BY <1>2, <1>3, <1>5, <1>7, <1>8, <1>10
  <2> QED  BY <1>2, <2>1 DEF step, t, kept, cr
<1>9. CASE carry # 0
  <2>1. carry = Knock /\ knockback.budget = Knock /\ clock <= knockback.until
    BY <1>9 DEF HonestInv, Thrown
  <2>2. step - cr <= cap * t \/ cr = carry
    BY <1>3, <1>4, <2>1
  <2>3. step - cr <= kept * t
    BY <1>1, <1>2, <1>3, <1>5, <1>7, <1>10, <2>2
  <2> QED  BY <1>2, <2>3 DEF step, t, kept, cr
<1> QED  BY <1>8, <1>9

(* What the bot reports is a walk: no knockback pays for it. *)
LEMMA BotWalks ==
    ASSUME MoveInv, NEW step \in Nat, NEW cap \in Nat, clock > lastAt, step <= cap * (clock - lastAt)
    PROVE  Credit(step, cap) = 0 /\ step - Credit(step, cap) <= cap * (clock - lastAt)
<1>1. /\ clock \in Nat /\ lastAt \in Nat /\ knockback \in [budget : 0 .. Knock, until : Nat]
  BY DEF MoveInv, MoveTypeOK
<1>2. Most(clock - lastAt, 1) = clock - lastAt
  BY <1>1 DEF Most
<1>3. Credit(step, cap) = 0
  BY <1>1, <1>2, CreditIs
<1> QED  BY <1>3

(* A judged step that keeps to its cap keeps the pace, and is flagged only as far as the cap  *)
(* it is judged by is less than those of the window.                                       *)
LEMMA PacedStep ==
    ASSUME MoveInv, lastAt # 0, Paced(samples), NEW step \in Nat, NEW accepted \in Nat,
           NEW kept \in Nat, NEW cap \in Nat, Judge(step, accepted, kept, cap),
           step - Credit(step, cap) <= kept * (clock - lastAt)
    PROVE  /\ Paced(samples')
           /\ violations' > violations => Fall(samples', cap) > Tolerance
           /\ violations' = 0 => accepted = step
<1>0. /\ MoveTypeOK /\ clock \in Nat /\ lastAt \in Nat /\ violations \in Nat
      /\ knockback \in [budget : 0 .. Knock, until : Nat]
  BY DEF MoveInv, MoveTypeOK
<1>1. /\ \E k : Judged(k, Stood(step, accepted, cap), kept, cap)
      /\ Stood(step, accepted, cap) <= step - Credit(step, cap)
      /\ violations' = violations + (IF Over(step, kept, cap) THEN 1 ELSE 0)
      /\ ~ Over(step, kept, cap) => accepted = step
      /\ Alike(samples', Windowed(step, kept, cap))
  BY <1>0, JudgeGives
<1>2. PICK k : Judged(k, Stood(step, accepted, cap), kept, cap)
  BY <1>1
<1>3. Stood(step, accepted, cap) <= kept * (clock - lastAt)
  <2>1. Stood(step, accepted, cap) \in Nat
    BY <1>2 DEF Judged
  <2>2. Credit(step, cap) \in Nat
    BY <1>0, CreditIs
  <2>3. kept * (clock - lastAt) \in Int /\ step - Credit(step, cap) \in Int
    BY <1>0, <2>2
  <2> QED  BY <1>1, <2>1, <2>3
<1>4. Paced(samples')
  BY <1>2, <1>3, PacedNext
<1>5. ASSUME violations' > violations PROVE Fall(samples', cap) > Tolerance
  <2>1. Over(step, kept, cap)
    BY <1>0, <1>1, <1>5
  <2>2. Fall(Windowed(step, kept, cap), cap) > Tolerance
    BY <2>1, PacedFalls
  <2>3. Fall(samples', cap) = Fall(Windowed(step, kept, cap), cap)
    BY <1>1, AlikeFalls
  <2> QED  BY <2>2, <2>3
<1>6. violations' = 0 => accepted = step
  BY <1>0, <1>1
<1> QED  BY <1>4, <1>5, <1>6

(* Nobody is thrown or held back at first. *)
LEMMA HonestInit == MoveInit => HonestInv
<1> SUFFICES ASSUME MoveInit PROVE HonestInv
  OBVIOUS
<1>1. MoveInv
  BY MoveInvInit
<1>2. Paced(samples) /\ Thrown /\ lag = 0
  BY DEF MoveInit, Paced, Thrown
<1> QED  BY <1>1, <1>2 DEF HonestInv

(* What the property says of a step. *)
FlagStep ==
    violations' > violations /\ driver # "client" =>
        \/ driver = "walker" /\ violations > 0
        \/ Fall(samples', Cap(IF driver = "bot" THEN carried ELSE carried')) > Tolerance

(* A tick of the bot keeps the pace, and is flagged only as the property says. *)
LEMMA HonestBot ==
    ASSUME HonestInv, MoveInv', BotTick
    PROVE  HonestInv' /\ FlagStep
<1>1. MoveInv /\ Paced(samples) /\ driver = "bot"
  BY DEF HonestInv, BotTick
<1>2. PICK step \in Nat, accepted \in Nat, cap \in Nat :
         /\ Judge(step, accepted, cap, cap) /\ cap = Cap(carried) /\ clock > lastAt
         /\ step <= cap * (clock - lastAt)
  BY <1>1, StepsOf
<1>3. driver' = driver /\ violations \in Nat
  BY <1>1 DEF BotTick, MoveInv, MoveTypeOK
<1>4. step - Credit(step, cap) <= cap * (clock - lastAt)
  BY <1>1, <1>2, BotWalks
<1>5. ASSUME Paced(samples') PROVE HonestInv'
  BY <1>1, <1>3, <1>5 DEF HonestInv, Thrown
<1>6. CASE lastAt = 0
  <2>1. samples' = samples /\ violations' = violations
    BY <1>2, <1>6 DEF Judge
  <2>2. Paced(samples')
    BY <1>1, <2>1
  <2>3. ~ (violations' > violations)
    BY <1>3, <2>1
  <2> QED  BY <1>5, <2>2, <2>3 DEF FlagStep
<1>7. CASE lastAt # 0
  <2>1. Paced(samples') /\ (violations' > violations => Fall(samples', cap) > Tolerance)
    BY <1>1, <1>2, <1>4, <1>7, PacedStep
  <2>2. Cap(IF driver = "bot" THEN carried ELSE carried') = cap
    BY <1>1, <1>2
  <2> QED  BY <1>5, <2>1, <2>2, Zenon DEF FlagStep
<1> QED  BY <1>6, <1>7

(* A report of the walker keeps the pace until the first flag, which is as the property says. *)
LEMMA HonestWalker ==
    ASSUME HonestInv, MoveInv', WalkerUpdate
    PROVE  HonestInv' /\ FlagStep
<1>1. MoveInv /\ driver = "walker" /\ (violations = 0 => lag = 0 /\ Paced(samples))
  BY DEF HonestInv, WalkerUpdate
<1>2. PICK move \in Nat, accepted \in Nat, told \in Nat, cap \in Nat :
         /\ Judge(lag + move + carry, accepted, Most(told, cap), cap) /\ cap = Cap(carried') /\ clock > lastAt
         /\ move <= told /\ accepted <= lag + move + carry /\ lag' = lag + move + carry - accepted
  BY <1>1, StepsOf
<1>3. /\ driver' = driver /\ carry' = 0 /\ violations \in Nat
      /\ lag \in Nat /\ carry \in Nat
  BY <1>1, Constants DEF WalkerUpdate, MoveInv, MoveTypeOK
<1> DEFINE step == lag + move + carry
<1>4. Thrown' /\ driver' = "walker"
  BY <1>1, <1>3 DEF Thrown
<1>5. ASSUME violations' = 0 => lag' = 0 /\ Paced(samples') PROVE HonestInv'
  BY <1>4, <1>5 DEF HonestInv
<1>6. CASE violations # 0
  <2>1. FlagStep
    BY <1>1, <1>3, <1>6 DEF FlagStep
  <2>2. violations' # 0
    <3>1. violations' \in {violations, violations + 1}
      BY <1>2, <1>3, JudgeCounts
    <3> QED  BY <1>3, <1>6, <3>1
  <2> QED  BY <1>5, <2>1, <2>2
<1>7. CASE violations = 0
  <2> DEFINE kept == Most(told, cap)
  <2>1. step \in Nat /\ step - Credit(step, cap) <= kept * (clock - lastAt)
    BY <1>1, <1>2, <1>7, ThrowIsPaid
  <2>2. Judge(step, accepted, kept, cap) /\ lag' = step - accepted
    BY <1>2, <1>3
  <2>5. kept \in Nat
    BY DEF Most
  <2> HIDE DEF step, kept
  <2>3. CASE lastAt = 0
    <3>1. samples' = samples /\ violations' = violations /\ accepted = step
      BY <2>2, <2>3 DEF Judge
    <3>2. lag' = 0 /\ Paced(samples')
      BY <1>1, <1>7, <2>1, <2>2, <3>1
    <3>3. ~ (violations' > violations)
      BY <1>3, <3>1
    <3> QED  BY <1>5, <3>2, <3>3 DEF FlagStep
  <2>4. CASE lastAt # 0
    <3>1. /\ Paced(samples') /\ (violations' > violations => Fall(samples', cap) > Tolerance)
          /\ violations' = 0 => accepted = step
      BY <1>1, <1>7, <2>1, <2>2, <2>4, <2>5, PacedStep
    <3>2. violations' = 0 => lag' = 0
      BY <2>1, <2>2, <3>1
    <3>3. Cap(IF driver = "bot" THEN carried ELSE carried') = cap
      BY <1>1, <1>2
    <3>4. FlagStep
      BY <3>1, <3>3, Zenon DEF FlagStep
    <3> QED  BY <1>5, <3>1, <3>2, <3>4
  <2> QED  BY <2>3, <2>4
<1> QED  BY <1>6, <1>7

(* The clock, a boink and a boost keep what is true of the drivers. *)
LEMMA HonestOthers ==
    ASSUME HonestInv, MoveInv', UNCHANGED <<driver, judgeVars>>
    PROVE  /\ Pass => HonestInv'
           /\ GrantKnockback => HonestInv'
           /\ TakeSpeed => HonestInv'
<1>1. /\ MoveInv /\ Thrown /\ (driver = "bot" => Paced(samples))
      /\ (driver = "walker" /\ violations = 0 => lag = 0 /\ Paced(samples))
  BY DEF HonestInv
<1>2. /\ driver' = driver /\ lastAt' = lastAt /\ samples' = samples /\ violations' = violations
  BY DEF judgeVars
<1>3. /\ clock \in Nat /\ lastAt \in Nat /\ lastAt <= clock /\ knockback.until \in Nat
      /\ Knock \in Nat /\ KnockTime \in Nat /\ KnockTime > 0
  BY <1>1, Constants DEF MoveInv, MoveTypeOK
<1>4. ASSUME Pass PROVE HonestInv'
  <2>1. /\ clock' = clock + 1 /\ (driver = "walker" => lastAt = clock)
        /\ knockback' = knockback /\ lag' = lag /\ carry' = carry
    BY <1>4 DEF Pass, grantVars, walkVars
  <2>2. Thrown'
    BY <1>1, <1>2, <1>3, <2>1 DEF Thrown
  <2> QED  BY <1>1, <1>2, <2>1, <2>2 DEF HonestInv
<1>5. ASSUME GrantKnockback PROVE HonestInv'
  <2>1. /\ carry' = (IF driver = "walker" THEN Knock ELSE carry)
        /\ knockback' = [budget |-> Knock, until |-> clock + KnockTime]
        /\ clock' = clock /\ lag' = lag
    BY <1>5 DEF GrantKnockback
  <2>2. Thrown'
    BY <1>1, <1>2, <1>3, <2>1 DEF Thrown
  <2> QED  BY <1>1, <1>2, <2>1, <2>2 DEF HonestInv
<1>6. ASSUME TakeSpeed PROVE HonestInv'
  <2>1. clock' = clock /\ knockback' = knockback /\ lag' = lag /\ carry' = carry
    BY <1>6 DEF TakeSpeed, walkVars
  <2>2. Thrown'
    BY <1>1, <1>2, <2>1 DEF Thrown
  <2> QED  BY <1>1, <1>2, <2>1, <2>2 DEF HonestInv
<1> QED  BY <1>4, <1>5, <1>6

(* Every step does, and is flagged only as the property says. *)
LEMMA HonestNext == HonestInv /\ [MoveNext]_moveVars => HonestInv' /\ [FlagStep]_moveVars
<1> SUFFICES ASSUME HonestInv, [MoveNext]_moveVars PROVE HonestInv' /\ [FlagStep]_moveVars
  OBVIOUS
<1>1. MoveInv'
  BY MoveInvNext DEF HonestInv
<1>2. CASE BotTick
  BY <1>1, <1>2, HonestBot
<1>3. CASE WalkerUpdate
  BY <1>1, <1>3, HonestWalker
<1>4. CASE ClientUpdate
  <2>1. driver = "client" /\ driver' = "client"
    BY <1>4 DEF ClientUpdate
  <2> QED  BY <1>1, <2>1 DEF HonestInv, Thrown, FlagStep
<1>5. ASSUME violations' = violations PROVE FlagStep
  <2>1. violations \in Nat
    BY DEF HonestInv, MoveInv, MoveTypeOK
  <2> QED  BY <1>5, <2>1 DEF FlagStep
<1>6. CASE GrantKnockback
  <2>1. UNCHANGED <<driver, judgeVars>> /\ violations' = violations
    BY <1>6 DEF GrantKnockback, judgeVars
  <2> QED  BY <1>1, <1>5, <1>6, <2>1, HonestOthers
<1>7. CASE TakeSpeed
  <2>1. UNCHANGED <<driver, judgeVars>> /\ violations' = violations
    BY <1>7 DEF TakeSpeed, judgeVars
  <2> QED  BY <1>1, <1>5, <1>7, <2>1, HonestOthers
<1>8. CASE Pass
  <2>1. UNCHANGED <<driver, judgeVars>> /\ violations' = violations
    BY <1>8 DEF Pass, judgeVars
  <2> QED  BY <1>1, <1>5, <1>8, <2>1, HonestOthers
<1>9. CASE UNCHANGED moveVars
  <2>1. /\ driver' = driver /\ clock' = clock /\ lastAt' = lastAt /\ samples' = samples
        /\ violations' = violations /\ knockback' = knockback /\ lag' = lag /\ carry' = carry
    BY <1>9 DEF moveVars, judgeVars, grantVars, walkVars
  <2> QED  BY <1>1, <1>9, <2>1 DEF HonestInv, Thrown, Paced
<1> QED  BY <1>2, <1>3, <1>4, <1>6, <1>7, <1>8, <1>9 DEF MoveNext

(* botDriver.js:20, as far as the code keeps it: a bot that keeps its pace on any jittered   *)
(* tick is flagged only when its cap fell within the window by more than the tolerance pays  *)
(* for, as a boost ran out or fragments were claimed; and so is a player that walks at its    *)
(* cap and is thrown by boinks, the first time.                                          *)
THEOREM FlagsFollowFalls == MoveSpec => FlagOnlyAfterFall
<1>1. MoveSpec => [][FlagStep]_moveVars
  BY HonestInit, HonestNext, PTL DEF MoveSpec
<1> QED  BY <1>1 DEF FlagOnlyAfterFall, FlagStep
=============================================================================
