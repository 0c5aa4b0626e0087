--------------------------- MODULE ArithmeticProofs ---------------------------
(***************************************************************************)
(* Laws of the two kinds of arithmetic of the contract.  TotalOf: what a   *)
(* sum over a finite domain is, and what happens to it when the summed     *)
(* function changes at one point.  SlashAmount: what type and sign a       *)
(* quotient taken in floating point has, that it grows with the dividend,  *)
(* and how far it is from the exact one.                                   *)
(***************************************************************************)
EXTENDS Tally, FloatDivision, FiniteSetTheorems, TLAPS

\* The units at every point but x, and the n units at x.
UnitsBeside(f, x) == UNION {{y} \X (1..f[y]) : y \in DOMAIN f \ {x}}
Column(x, n)      == {x} \X (1..n)

\* A column of n units has n members.
LEMMA ColumnCardinality ==
  ASSUME NEW x, NEW n \in Nat
  PROVE  IsFiniteSet(Column(x, n)) /\ Cardinality(Column(x, n)) = n
<1> DEFINE place == [i \in 1..n |-> <<x, i>>]
<1>1. IsFiniteSet(1..n) /\ Cardinality(1..n) = n
  BY FS_Interval
<1>2. place \in [1..n -> Column(x, n)]
  BY DEF Column
<1>3. IsInjective(place)
  BY DEF IsInjective
<1>4. ASSUME NEW u \in Column(x, n)
      PROVE  \E i \in 1..n : place[i] = u
  BY DEF Column
<1>5. place \in Bijection(1..n, Column(x, n))
  BY <1>2, <1>3, <1>4, Zenon DEF Bijection, Injection, Surjection
<1> QED BY <1>1, <1>5, FS_Bijection DEF ExistsBijection

\* The units of a function over a finite domain are finitely many, with or
\* without those at one point.
LEMMA UnitsFinite ==
  ASSUME NEW D, IsFiniteSet(D), NEW f \in [D -> Nat], NEW E \in SUBSET D
  PROVE  IsFiniteSet(UNION {{y} \X (1..f[y]) : y \in E})
<1> DEFINE columns == {Column(y, f[y]) : y \in E}
<1>1. IsFiniteSet(E)
  BY FS_Subset
<1>2. IsFiniteSet(columns)
  <2> DEFINE columnAt == [y \in E |-> Column(y, f[y])]
  <2>1. columnAt \in Surjection(E, columns)
    BY DEF Surjection
  <2> QED BY <1>1, <2>1, FS_Surjection
<1>3. \A T \in columns : IsFiniteSet(T)
  BY ColumnCardinality
<1>4. IsFiniteSet(UNION columns)
  BY <1>2, <1>3, FS_UNION
<1> QED BY <1>4 DEF Column

\* The sum is the value at one point and the number of units beside it.
LEMMA TotalSplit ==
  ASSUME NEW D, IsFiniteSet(D), NEW f \in [D -> Nat], NEW x \in D
  PROVE  /\ IsFiniteSet(UnitsBeside(f, x))
         /\ TotalOf(f) = Cardinality(UnitsBeside(f, x)) + f[x]
<1>1. IsFiniteSet(UnitsBeside(f, x))
  BY UnitsFinite DEF UnitsBeside
<1>2. /\ IsFiniteSet(Column(x, f[x]))
      /\ Cardinality(Column(x, f[x])) = f[x]
  BY ColumnCardinality
<1>3. Units(f) = UnitsBeside(f, x) \cup Column(x, f[x])
  BY DEF Units, UnitsBeside, Column
<1>4. UnitsBeside(f, x) \cap Column(x, f[x]) = {}
  BY DEF UnitsBeside, Column
<1>5. /\ Cardinality(UnitsBeside(f, x)) \in Nat
      /\ Cardinality({}) = 0
  BY <1>1, FS_CardinalityType, FS_EmptySet
<1>6. Cardinality(Units(f)) = Cardinality(UnitsBeside(f, x)) + f[x] - 0
  BY <1>1, <1>2, <1>3, <1>4, <1>5, FS_Union
<1> QED BY <1>1, <1>5, <1>6 DEF TotalOf

\* A sum of naturals is a natural, and no term exceeds it.
LEMMA TotalBounds ==
  ASSUME NEW D, IsFiniteSet(D), NEW f \in [D -> Nat]
  PROVE  /\ TotalOf(f) \in Nat
         /\ \A x \in D : f[x] <= TotalOf(f)
<1>1. TotalOf(f) \in Nat
  BY UnitsFinite, FS_CardinalityType DEF TotalOf, Units
<1>2. ASSUME NEW x \in D
      PROVE  f[x] <= TotalOf(f)
  <2>1. Cardinality(UnitsBeside(f, x)) \in Nat
    BY TotalSplit, FS_CardinalityType
  <2> QED BY <2>1, TotalSplit
<1> QED BY <1>1, <1>2

\* The sum of nothing but zeros is zero.
LEMMA TotalZero ==
  ASSUME NEW D
  PROVE  TotalOf([x \in D |-> 0]) = 0
<1>1. Units([x \in D |-> 0]) = {}
  BY DEF Units
<1> QED BY <1>1, FS_EmptySet DEF TotalOf

\* Two functions that agree beside x have sums that differ as they do at x.
LEMMA TotalUpdate ==
  ASSUME NEW D, IsFiniteSet(D), NEW f \in [D -> Nat], NEW g \in [D -> Nat],
         NEW x \in D, \A y \in D \ {x} : g[y] = f[y]
  PROVE  TotalOf(g) = TotalOf(f) - f[x] + g[x]
<1>1. UnitsBeside(g, x) = UnitsBeside(f, x)
  BY DEF UnitsBeside
<1>2. Cardinality(UnitsBeside(f, x)) \in Nat
  BY TotalSplit, FS_CardinalityType
<1>3. TotalOf(f) = Cardinality(UnitsBeside(f, x)) + f[x]
  BY TotalSplit
<1>4. TotalOf(g) = Cardinality(UnitsBeside(f, x)) + g[x]
  BY <1>1, TotalSplit
<1> QED BY <1>2, <1>3, <1>4

-----------------------------------------------------------------------------
\* Larger factors have larger products.
LEMMA TimesMonotone ==
  ASSUME NEW a \in Nat, NEW b \in Nat, a <= b, NEW c \in Nat
  PROVE  a * c <= b * c /\ c * a <= c * b
<1>1. b = a + (b - a) /\ b - a \in Nat
  OBVIOUS
<1>2. PICK w \in Nat : b = a + w
  BY <1>1
<1>3. /\ (a + w) * c = a * c + w * c
      /\ a * c \in Nat /\ w * c \in Nat
      /\ c * a = a * c /\ c * (a + w) = (a + w) * c
  OBVIOUS
<1> QED BY <1>2, <1>3

\* The nearest integer is off by half at most.
LEMMA NearestBounds ==
  ASSUME NEW p \in Nat, NEW d \in Nat \ {0}
  PROVE  /\ Nearest(p, d) \in Nat
         /\ 2 * p - d <= 2 * (d * Nearest(p, d))
         /\ 2 * (d * Nearest(p, d)) <= 2 * p + d
<1> DEFINE q == p \div d
           r == p % d
<1>1. /\ q \in Nat /\ r \in Nat
      /\ p = d * q + r /\ r < d
  OBVIOUS
<1>2. d * (q + 1) = d * q + d
  BY <1>1
<1>3. Nearest(p, d) = IF 2 * r > d \/ (2 * r = d /\ q % 2 = 1) THEN q + 1 ELSE q
  BY DEF Nearest
<1>4. d * q \in Nat
  BY <1>1
<1> HIDE DEF q, r
<1>5. CASE 2 * r > d \/ (2 * r = d /\ q % 2 = 1)
  BY <1>1, <1>2, <1>3, <1>4, <1>5
<1>6. CASE ~(2 * r > d \/ (2 * r = d /\ q % 2 = 1))
  BY <1>1, <1>3, <1>4, <1>6
<1> QED BY <1>5, <1>6

LEMMA NearestMonotone ==
  ASSUME NEW p \in Nat, NEW s \in Nat, NEW d \in Nat \ {0}, p <= s
  PROVE  Nearest(p, d) <= Nearest(s, d)
<1>1. /\ p \div d \in Nat /\ p % d \in Nat
      /\ s \div d \in Nat /\ s % d \in Nat
      /\ p = d * (p \div d) + (p % d) /\ p % d < d
      /\ s = d * (s \div d) + (s % d) /\ s % d < d
  OBVIOUS
<1> DEFINE q == p \div d
           t == s \div d
<1>2. CASE q = t
  BY <1>1, <1>2 DEF Nearest
<1>3. CASE q > t
  <2>1. q >= t + 1 
    BY <1>1, <1>3
  <2>2. d * q >= d * t + d
    BY <2>1, <1>1
  <2> QED BY <1>1, <2>2
<1>4. CASE q < t
  BY <1>1, <1>4 DEF Nearest
<1> QED BY <1>1, <1>2, <1>3, <1>4

\* A multiple is its own nearest multiple.
LEMMA NearestExact ==
  ASSUME NEW k \in Nat, NEW d \in Nat \ {0}
  PROVE  Nearest(d * k, d) = k
<1>1. d * k \in Nat
  OBVIOUS
<1>2. PICK m \in Nat : m = Nearest(d * k, d)
  BY <1>1, NearestBounds
<1>3. /\ 2 * (d * k) - d <= 2 * (d * m)
      /\ 2 * (d * m) <= 2 * (d * k) + d
  BY <1>1, <1>2, NearestBounds
<1>4. CASE m > k
  <2>1. d * m >= d * (k + 1) /\ d * (k + 1) = d * k + d
    BY <1>4
  <2> QED BY <2>1, <1>3, <1>1
<1>5. CASE m < k
  <2>1. d * k >= d * (m + 1) /\ d * (m + 1) = d * m + d /\ d * m \in Nat
    BY <1>5
  <2> QED BY <2>1, <1>3, <1>1
<1> QED BY <1>2, <1>4, <1>5

\* The spacing at n is a power whose bracket n is in.
LEMMA SpacingBrackets ==
  ASSUME NEW n \in Nat, Divisible(n)
  PROVE  Spacing(n) \in Powers /\ Bracket(n, Spacing(n))
<1>1. Magnitude(n) = n
  BY DEF Magnitude
<1>2. \E u \in Powers : Bracket(n, u)
  BY <1>1 DEF Divisible
<1> QED BY <1>2 DEF Spacing

\* The float nearest a quotient is off by half a spacing at most, and the
\* spacing is the quotient's size at most, or 1.
LEMMA RoundedBounds ==
  ASSUME NEW n \in Nat, Divisible(n)
  PROVE  /\ Rounded(n) \in Nat
         /\ FullBps * Rounded(n) <= n * (Significands + 1) + FullBps
         /\ n * (Significands - 1) < FullBps * Rounded(n) + FullBps
<1>1. PICK u \in Nat \ {0} : u = Spacing(n) /\ Bracket(n, u) /\ (u = 1 \/ u % 2 = 0)
  BY SpacingBrackets, FloatAssumption
<1>2. PICK p \in Nat : p = n * Significands
  BY FloatAssumption
<1>3. PICK m \in Nat : m = Nearest(p, FullBps * u)
  BY NearestBounds DEF FullBps
<1>4. /\ 2 * p - FullBps * u <= 2 * ((FullBps * u) * m)
      /\ 2 * ((FullBps * u) * m) <= 2 * p + FullBps * u
  BY <1>3, NearestBounds DEF FullBps
<1>5. PICK x \in Nat : x = m * u
  OBVIOUS
<1>6. Rounded(n) = x
  BY <1>1, <1>2, <1>3, <1>5 DEF Rounded
<1>7. (FullBps * u) * m = FullBps * x
  BY <1>5 DEF FullBps
<1>8. FullBps * u <= 2 * n \/ u = 1
  BY <1>1 DEF Bracket, FullBps
<1>9. n * (Significands + 1) = p + n /\ n * (Significands - 1) = p - n
  BY <1>2, FloatAssumption
<1> QED BY <1>4, <1>6, <1>7, <1>8, <1>9 DEF FullBps

\* A larger quotient has no smaller float near it, though the floats are
\* further apart where it is.
LEMMA RoundedMonotone ==
  ASSUME NEW n \in Nat, Divisible(n), NEW k \in Nat, Divisible(k), n <= k
  PROVE  Rounded(n) <= Rounded(k)
<1>1. PICK u \in Nat \ {0} : /\ u \in Powers /\ u = Spacing(n)
                             /\ Bracket(n, u) /\ (u = 1 \/ u % 2 = 0)
  BY SpacingBrackets, FloatAssumption
<1>2. PICK v \in Nat \ {0} : /\ v \in Powers /\ v = Spacing(k)
                             /\ Bracket(k, v) /\ (v = 1 \/ v % 2 = 0)
  BY SpacingBrackets, FloatAssumption
<1>3. PICK half \in Nat \ {0} : Significands = 2 * half
  <2>1. \E half \in Nat \ {0} : Significands = 2 * half
    <3>1. /\ Significands \div 2 \in Nat \ {0}
          /\ Significands = 2 * (Significands \div 2)
      BY FloatAssumption
    <3> QED BY <3>1
  <2> QED BY <2>1
<1>4. PICK p \in Nat : p = n * Significands
  BY FloatAssumption
<1>5. PICK s \in Nat : s = k * Significands
  BY FloatAssumption
<1>6. p <= s
  BY <1>4, <1>5, TimesMonotone, FloatAssumption
<1>7. PICK a \in Nat : a = Nearest(p, FullBps * u)
  BY NearestBounds DEF FullBps
<1>8. PICK b \in Nat : b = Nearest(s, FullBps * v)
  BY NearestBounds DEF FullBps
<1>9. Rounded(n) = a * u /\ Rounded(k) = b * v
  BY <1>1, <1>2, <1>4, <1>5, <1>7, <1>8 DEF Rounded
<1>10. CASE u = v
  <2>1. a <= b
    BY <1>6, <1>7, <1>8, <1>10, NearestMonotone DEF FullBps
  <2>2. a * u <= b * u
    BY <2>1, TimesMonotone
  <2> QED BY <1>9, <1>10, <2>2
<1>11. CASE v < u
  <2>1. u % 2 = 0 /\ 2 * v <= u
    BY <1>1, <1>2, <1>11, FloatAssumption
  <2>2. FullBps * (u \div 2) <= n /\ v <= u \div 2
    BY <1>1, <1>11, <2>1 DEF Bracket
  <2>3. FullBps * v <= n
    BY <2>2 DEF FullBps
  <2> QED BY <1>2, <2>3 DEF Bracket, FullBps
<1>12. CASE u < v
  <2>1. v % 2 = 0 /\ 2 * u <= v
    BY <1>1, <1>2, <1>12, FloatAssumption
  <2>2. FullBps * (v \div 2) <= k
    BY <1>2, <1>12, <2>1 DEF Bracket
  \* Below: a part of the spacing u at most Significands times.
  <2>3. a <= Significands
    <3>1. p <= (FullBps * u) * Significands
      <4>1. n <= FullBps * u /\ FullBps * u \in Nat
        BY <1>1 DEF Bracket, FullBps
      <4> QED BY <1>4, <4>1, TimesMonotone, FloatAssumption
    <3>2. (FullBps * u) * Significands \in Nat /\ FullBps * u \in Nat \ {0}
      BY FloatAssumption DEF FullBps
    <3>3. Nearest((FullBps * u) * Significands, FullBps * u) = Significands
      BY <3>2, NearestExact, FloatAssumption
    <3> QED BY <1>7, <3>1, <3>2, <3>3, NearestMonotone
  \* Above: half of Significands at least.
  <2>4. half <= b
    <3>1. (FullBps * v) * half <= s
      <4>1. PICK h \in Nat : h = v \div 2 /\ v = 2 * h
        BY <2>1
      <4>2. FullBps * h \in Nat /\ FullBps * h <= k
        BY <2>2, <4>1 DEF FullBps
      <4>3. (FullBps * h) * Significands <= s
        BY <1>5, <4>2, TimesMonotone, FloatAssumption
      <4>4. (FullBps * h) * (2 * half) = (FullBps * (2 * h)) * half
        BY DEF FullBps
      <4> QED BY <1>3, <4>1, <4>3, <4>4
    <3>2. (FullBps * v) * half \in Nat /\ FullBps * v \in Nat \ {0}
      BY DEF FullBps
    <3>3. Nearest((FullBps * v) * half, FullBps * v) = half
      BY <3>2, NearestExact
    <3> QED BY <1>8, <3>1, <3>2, <3>3, NearestMonotone
  <2>5. a * u <= Significands * u
    BY <2>3, TimesMonotone, FloatAssumption
  <2>6. half * v <= b * v
    BY <2>4, TimesMonotone
  <2>7. Significands * u <= half * v
    <3>1. half * (2 * u) <= half * v
      BY <2>1, TimesMonotone
    <3>2. half * (2 * u) = (2 * half) * u
      OBVIOUS
    <3> QED BY <1>3, <3>1, <3>2
  <2> QED BY <1>9, <2>5, <2>6, <2>7, FloatAssumption
<1> QED BY <1>1, <1>2, <1>10, <1>11, <1>12

\* int() cuts a float of so many parts off at the whole below.
LEMMA WholeParts ==
  ASSUME NEW x \in Nat
  PROVE  /\ x \div Significands \in Nat
         /\ Significands * (x \div Significands) <= x
         /\ x < Significands * (x \div Significands) + Significands
BY FloatAssumption

\* A quotient has the sign of the dividend.
LEMMA QuotientType ==
  ASSUME NEW n \in Int, Divisible(n)
  PROVE  /\ Quotient(n) \in Int
         /\ n >= 0 => Quotient(n) = Rounded(n) \div Significands /\ Quotient(n) \in Nat
         /\ n < 0 => Quotient(n) <= 0
<1>1. PICK k \in Nat : k = Magnitude(n)
  BY DEF Magnitude
<1>2. Divisible(k)
  BY <1>1 DEF Divisible, Magnitude
<1>3. Rounded(k) \div Significands \in Nat
  BY <1>2, RoundedBounds, WholeParts
<1>4. n >= 0 => k = n
  BY <1>1 DEF Magnitude
<1> QED BY <1>1, <1>3, <1>4 DEF Quotient

\* Nothing is a quotient, and it is nothing.
LEMMA QuotientZero == Divisible(0) /\ Quotient(0) = 0
<1>1. Bracket(0, 1) /\ Magnitude(0) = 0
  BY DEF Bracket, FullBps, Magnitude
<1>2. Divisible(0)
  BY <1>1, FloatAssumption DEF Divisible
<1>3. PICK u \in Nat \ {0} : u = Spacing(0)
  BY <1>2, SpacingBrackets, FloatAssumption
<1>4. FullBps * u \in Nat \ {0} /\ (FullBps * u) * 0 = 0
  BY DEF FullBps
<1>5. Nearest(0, FullBps * u) = 0
  BY <1>4, NearestExact
<1>6. Rounded(0) = 0
  <2>1. 0 * Significands = 0 /\ 0 * u = 0
    BY FloatAssumption
  <2> QED BY <1>3, <1>5, <2>1 DEF Rounded
<1>7. 0 \div Significands = 0
  BY FloatAssumption
<1> QED BY <1>1, <1>2, <1>6, <1>7 DEF Quotient

\* A larger dividend has no smaller quotient.
LEMMA QuotientMonotone ==
  ASSUME NEW n \in Nat, Divisible(n), NEW k \in Nat, Divisible(k), n <= k
  PROVE  Quotient(n) <= Quotient(k)
<1>1. PICK x \in Nat : x = Rounded(n)
  BY RoundedBounds
<1>2. PICK y \in Nat : y = Rounded(k)
  BY RoundedBounds
<1>3. x <= y
  BY <1>1, <1>2, RoundedMonotone
<1>4. PICK a \in Nat : a = x \div Significands
  BY WholeParts
<1>5. PICK b \in Nat : b = y \div Significands
  BY WholeParts
<1>6. Significands * a <= x /\ y < Significands * b + Significands
  BY <1>4, <1>5, WholeParts
<1>7. CASE b < a
  <2>1. Significands * (b + 1) <= Significands * a
    BY <1>7, TimesMonotone, FloatAssumption
  <2>2. /\ Significands * (b + 1) = Significands * b + Significands
        /\ Significands * b \in Nat /\ Significands * a \in Nat
    BY FloatAssumption
  <2> QED BY <1>3, <1>6, <2>1, <2>2, FloatAssumption
<1>8. Quotient(n) = a /\ Quotient(k) = b
  BY <1>1, <1>2, <1>4, <1>5, QuotientType
<1> QED BY <1>7, <1>8

\* An amount has the sign of the stake; a recommended one is never negative.
LEMMA AmountType ==
  ASSUME NEW b \in Nat, NEW stake \in Int, Divisible(b * stake)
  PROVE  /\ SlashAmount(b, stake) \in Int
         /\ RecommendedAmount(b, stake) \in Nat
         /\ stake >= 0 => /\ b * stake \in Nat
                          /\ SlashAmount(b, stake) \in Nat
                          /\ RecommendedAmount(b, stake) = SlashAmount(b, stake)
         /\ stake <= 0 => SlashAmount(b, stake) <= 0 /\ RecommendedAmount(b, stake) = 0
<1>1. PICK n \in Int : n = b * stake
  OBVIOUS
<1>2. stake >= 0 => n >= 0
  BY <1>1
<1>3. stake <= 0 => n <= 0
  BY <1>1
<1>4. PICK q \in Int : q = Quotient(n) /\ (n >= 0 => q \in Nat) /\ (n < 0 => q <= 0)
  BY <1>1, QuotientType
<1>5. n = 0 => q = 0
  BY <1>4, QuotientZero
<1> QED BY <1>1, <1>2, <1>3, <1>4, <1>5 DEF SlashAmount, RecommendedAmount, NonNegative

\* No basis points, no amount.
LEMMA AmountZero ==
  ASSUME NEW stake \in Int
  PROVE  Divisible(0 * stake) /\ SlashAmount(0, stake) = 0 /\ RecommendedAmount(0, stake) = 0
<1>1. 0 * stake = 0
  OBVIOUS
<1> QED BY <1>1, QuotientZero DEF SlashAmount, RecommendedAmount, NonNegative

\* Fewer basis points never mean a larger amount than is recommended for more.
LEMMA AmountMonotone ==
  ASSUME NEW b \in Nat, NEW c \in Nat, NEW stake \in Int, b <= c,
         Divisible(b * stake), Divisible(c * stake)
  PROVE  /\ SlashAmount(b, stake) <= RecommendedAmount(c, stake)
         /\ RecommendedAmount(b, stake) <= RecommendedAmount(c, stake)
<1>1. CASE stake >= 0
  <2>1. b * stake \in Nat /\ c * stake \in Nat /\ b * stake <= c * stake
    BY <1>1, TimesMonotone
  <2>2. SlashAmount(b, stake) <= SlashAmount(c, stake)
    BY <2>1, QuotientMonotone DEF SlashAmount
  <2> QED BY <1>1, <2>2, AmountType
<1>2. CASE stake < 0
  <2>1. stake <= 0
    BY <1>2
  <2>2. /\ SlashAmount(b, stake) \in Int /\ SlashAmount(b, stake) <= 0
        /\ RecommendedAmount(b, stake) = 0 /\ RecommendedAmount(c, stake) \in Nat
    BY <2>1, AmountType
  <2> QED BY <2>2
<1> QED BY <1>1, <1>2

\* The amount is off from the exact share by one part in Significands at most,
\* besides what is cut off.
LEMMA AmountNear ==
  ASSUME NEW b \in Nat, NEW stake \in Nat, Divisible(b * stake)
  PROVE  LET amount == SlashAmount(b, stake)
         IN  /\ amount \in Nat
             /\ amount * (FullBps * Significands)
                  <= (b * stake) * (Significands + 1) + FullBps
             /\ (b * stake) * (Significands - 1)
                  < (amount + 1) * (FullBps * Significands)
<1>1. PICK n \in Nat : n = b * stake
  OBVIOUS
<1>2. PICK x \in Nat : x = Rounded(n)
  BY <1>1, RoundedBounds
<1>3. /\ FullBps * x <= n * (Significands + 1) + FullBps
      /\ n * (Significands - 1) < FullBps * x + FullBps
  BY <1>1, <1>2, RoundedBounds
<1>4. PICK amount \in Nat : amount = x \div Significands
  BY WholeParts
<1>5. amount = SlashAmount(b, stake)
  BY <1>1, <1>2, <1>4, QuotientType DEF SlashAmount
<1>6. PICK y \in Nat : y = Significands * amount
  BY FloatAssumption
<1>7. y <= x /\ x + 1 <= y + Significands
  BY <1>4, <1>6, WholeParts, FloatAssumption
<1>8. amount * (FullBps * Significands) = FullBps * y
  BY <1>6, FloatAssumption DEF FullBps
<1>9. (amount + 1) * (FullBps * Significands) = FullBps * (y + Significands)
  BY <1>6, FloatAssumption DEF FullBps
<1>10. /\ n * (Significands + 1) \in Int
       /\ n * (Significands - 1) \in Int
  BY FloatAssumption
<1>11. amount * (FullBps * Significands) <= n * (Significands + 1) + FullBps
  BY <1>3, <1>7, <1>8, <1>10 DEF FullBps
<1>12. n * (Significands - 1) < (amount + 1) * (FullBps * Significands)
  BY <1>3, <1>7, <1>9, <1>10, FloatAssumption DEF FullBps
<1> QED BY ONLY <1>1, <1>4, <1>5, <1>11, <1>12
=============================================================================
