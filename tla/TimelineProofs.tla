--------------------------- MODULE TimelineProofs ---------------------------
(****************************************************************************)
(* What tide_time_convert, tide_rational_reduce and tide_edit_project_one   *)
(* return, for integers of every width.                                     *)
(****************************************************************************)
EXTENDS Algorithms, ParseProofs

------------------------------------------------------------------------------
(* tide_round_div_i128 *)

\* The quotient and the remainder of C, for a nonnegative numerator.
LEMMA Division ==
  ASSUME NEW n \in Nat, NEW d \in Nat \ {0}
  PROVE  /\ n \div d \in Nat /\ n % d \in 0..(d - 1)
         /\ n = (n \div d) * d + (n % d)
OBVIOUS

\* The same for any numerator: the remainder is the distance to the quotient.
LEMMA QuotientRemainder ==
  ASSUME NEW n \in Int, NEW d \in Nat \ {0}
  PROVE  /\ Quotient(n, d) \in Int /\ Remainder(n, d) \in 0..(d - 1)
         /\ n >= 0 => n = Quotient(n, d) * d + Remainder(n, d)
         /\ n < 0 => n = Quotient(n, d) * d - Remainder(n, d)
<1>1. CASE n >= 0
  BY <1>1, Division DEF Quotient, Remainder
<1>2. CASE n < 0
  <2>1. -n \in Nat
    BY <1>2
  <2> DEFINE q == (-n) \div d
             r == (-n) % d
  <2>2. q \in Nat /\ r \in 0..(d - 1) /\ -n = q * d + r
    BY <2>1, Division, Zenon
  <2>3. Quotient(n, d) = -q /\ Remainder(n, d) = r
    BY <1>2 DEF Quotient, Remainder
  <2> HIDE DEF q, r
  <2>4. (-q) * d = -(q * d)
    BY <2>2
  <2> QED BY <1>2, <2>2, <2>3, <2>4
<1> QED BY <1>1, <1>2

\* The quotient rounded by tide_round_div_i128 is the one its mode asks for.
THEOREM RoundingIsRight ==
  ASSUME NEW n \in Int, NEW d \in Nat \ {0}, NEW rounding \in Rounding
  PROVE  /\ Rounded(n, d, rounding) \in Int
         /\ IsRounded(Rounded(n, d, rounding), n, d, rounding)
<1> DEFINE q == Quotient(n, d)
           r == Remainder(n, d)
           x == q * d
<1>1. /\ q \in Int /\ r \in 0..(d - 1)
      /\ n >= 0 => n = q * d + r
      /\ n < 0 => n = q * d - r
  BY QuotientRemainder
<1>2. /\ Rounded(n, d, rounding) =
           IF Away(n, d, rounding) THEN q + (IF n >= 0 THEN 1 ELSE -1) ELSE q
      /\ Away(n, d, rounding) <=>
           \/ rounding = "FLOOR" /\ n < 0 /\ r # 0
           \/ rounding = "CEIL" /\ n > 0 /\ r # 0
           \/ rounding = "NEAREST_EVEN" /\ (2 * r > d \/ (2 * r = d /\ q % 2 = 1))
  BY DEF Rounded, Away
<1> HIDE DEF q, r
<1>3. /\ (q + 1) * d = x + d /\ (q - 1) * d = x - d /\ q * d = x /\ x \in Int
      /\ (q + 1 + 1) * d = x + 2 * d /\ (q - 1 - 1) * d = x - 2 * d
  BY <1>1
<1> HIDE DEF x
<1>4. CASE rounding = "FLOOR"
  BY <1>1, <1>2, <1>3, <1>4 DEF IsRounded
<1>5. CASE rounding = "CEIL"
  BY <1>1, <1>2, <1>3, <1>5 DEF IsRounded
<1>6. CASE rounding = "NEAREST_EVEN"
  <2>1. q % 2 = 1 => (q + 1) % 2 = 0 /\ (q - 1) % 2 = 0
    BY <1>1
  <2>2. q % 2 \in {0, 1}
    BY <1>1
  <2> QED BY <1>1, <1>2, <1>3, <1>6, <2>1, <2>2 DEF IsRounded
<1> QED BY <1>4, <1>5, <1>6 DEF Rounding

\* Rounding keeps the order of the numerators, so a rounded quotient is unique.
THEOREM RoundingIsMonotone ==
  ASSUME NEW n \in Int, NEW m \in Int, n <= m, NEW d \in Nat \ {0}, NEW rounding \in Rounding,
         NEW p \in Int, NEW q \in Int,
         IsRounded(p, n, d, rounding), IsRounded(q, m, d, rounding)
  PROVE  p <= q
<1> SUFFICES ASSUME q + 1 <= p PROVE FALSE
  OBVIOUS
<1>1. (q + 1) * d <= p * d
  <2>1. (p - (q + 1)) * d >= 0
    OBVIOUS
  <2>2. (p - (q + 1)) * d = p * d - (q + 1) * d
    OBVIOUS
  <2> QED BY <2>1, <2>2
<1> DEFINE x == q * d
           y == p * d
<1>2. x \in Int /\ y \in Int /\ (q + 1) * d = x + d /\ (p - 1) * d = y - d
  OBVIOUS
<1>3. x + d <= y
  BY <1>1, <1>2
<1>4. CASE rounding = "FLOOR"
  BY <1>2, <1>3, <1>4 DEF IsRounded
<1>5. CASE rounding = "CEIL"
  BY <1>2, <1>3, <1>5 DEF IsRounded
<1>6. CASE rounding = "NEAREST_EVEN"
  <2>1. /\ 2 * (n - y) <= d /\ 2 * (y - n) <= d /\ 2 * (m - x) <= d /\ 2 * (x - m) <= d
        /\ 2 * (n - y) = -d => p % 2 = 0
        /\ 2 * (m - x) = d => q % 2 = 0
    BY <1>6 DEF IsRounded
  <2> HIDE DEF x, y
  <2>2. n = m /\ 2 * (n - y) = -d /\ 2 * (m - x) = d /\ y = x + d
    BY <1>2, <1>3, <2>1
  <2>3. p % 2 = 0 /\ q % 2 = 0
    BY <2>1, <2>2
  <2>4. p = q + 1
    <3>1. p * d = (q + 1) * d
      BY <1>2, <2>2 DEF x, y
    <3> QED BY <3>1
  <2> QED BY <2>3, <2>4
<1> QED BY <1>4, <1>5, <1>6 DEF Rounding

\* tide_round_div_i128 returns the rounded quotient, and fails only when no int64_t is it.
THEOREM RoundDivIsExact ==
  ASSUME NEW n \in Int, NEW d \in Nat \ {0}, NEW rounding \in Rounding
  PROVE  LET r == tide_round_div_i128(n, d, rounding)
         IN  IF r.status = "OK" THEN IsRounded(r.out, n, d, rounding)
             ELSE ~\E q \in I64 : IsRounded(q, n, d, rounding)
<1> DEFINE x == Rounded(n, d, rounding)
<1>1. x \in Int /\ IsRounded(x, n, d, rounding)
  BY RoundingIsRight
<1>2. ASSUME NEW q \in I64, IsRounded(q, n, d, rounding) PROVE q = x
  <2>1. q \in Int
    BY WidthAssumption DEF I64
  <2>2. q <= x /\ x <= q
    BY <1>1, <1>2, <2>1, RoundingIsMonotone
  <2> QED BY <1>1, <2>1, <2>2
<1>3. tide_round_div_i128(n, d, rounding) = IF x \in I64 THEN Ok(x) ELSE Fails("TIMELINE")
  BY DEF tide_round_div_i128
<1> HIDE DEF x
<1>4. CASE x \in I64
  BY <1>1, <1>3, <1>4 DEF Ok
<1>5. CASE x \notin I64
  BY <1>2, <1>3, <1>5 DEF Fails
<1> QED BY <1>4, <1>5

------------------------------------------------------------------------------
(* tide_gcd_u64 and the time bases *)

\* tide_gcd_u64 is what its definition says: its second argument decreases.
LEMMA GcdUnfolds ==
  ASSUME NEW a \in Nat, NEW b \in Nat
  PROVE  /\ tide_gcd_u64[<<a, b>>] \in Nat
         /\ tide_gcd_u64[<<a, b>>] = IF b = 0 THEN a ELSE tide_gcd_u64[<<b, a % b>>]
<1> DEFINE D == Nat \X Nat
           e(f, x) == IF x[2] = 0 THEN x[1] ELSE f[<<x[2], x[1] % x[2]>>]
           B == [f \in [D -> Nat] |-> [x \in D |-> e(f, x)]]
           M == [x \in D |-> x[2]]
<1>1. \A x \in D : x[1] \in Nat /\ x[2] \in Nat
                   /\ (x[2] # 0 => <<x[2], x[1] % x[2]>> \in D /\ x[1] % x[2] < x[2])
  OBVIOUS
<1>2. ASSUME NEW f \in [D -> Nat], NEW x \in D PROVE e(f, x) \in Nat
  <2> HIDE DEF D
  <2> QED BY <1>1
<1>3. B \in [[D -> Nat] -> [D -> Nat]]
  <2> HIDE DEF D, e
  <2> QED BY <1>2
<1>4. M \in [D -> Nat] /\ Nat # {}
  <2> HIDE DEF D
  <2> QED BY <1>1, Zenon
<1>5. Descends(B, M, D, Nat)
  <2> SUFFICES ASSUME NEW f \in [D -> Nat], NEW g \in [D -> Nat], NEW x \in D,
                      \A y \in D : M[y] < M[x] => f[y] = g[y]
               PROVE  B[f][x] = B[g][x]
    BY DEF Descends
  <2>1. x[2] # 0 => f[<<x[2], x[1] % x[2]>>] = g[<<x[2], x[1] % x[2]>>]
    <3>1. ASSUME x[2] # 0 PROVE M[<<x[2], x[1] % x[2]>>] < M[x]
      BY <1>1, <3>1
    <3> HIDE DEF D, M
    <3> QED BY <1>1, <3>1
  <2>2. e(f, x) = e(g, x)
    BY <2>1
  <2> HIDE DEF D, e
  <2> QED BY <2>2
<1>6. PICK f \in [D -> Nat] : f = B[f]
  <2> HIDE DEF B, M, D
  <2>1. HasSolution(B, D, Nat)
    BY <1>3, <1>4, <1>5, RecursiveFunction, Zenon
  <2> QED BY <2>1 DEF HasSolution
<1>7. f = [x \in D |-> e(f, x)]
  <2> HIDE DEF e, D
  <2> QED BY <1>6
<1> DEFINE gcd == tide_gcd_u64
<1>8. gcd = [x \in D |-> e(gcd, x)]
  BY <1>7, Zenon DEF tide_gcd_u64
<1>9. \A x \in D : gcd[x] = e(gcd, x)
  <2> HIDE DEF gcd, e
  <2> QED BY <1>8
<1> HIDE DEF gcd
<1>10. \A y, z \in Nat : gcd[<<y, z>>] = IF z = 0 THEN y ELSE gcd[<<z, y % z>>]
  BY <1>9
<1>11. \A y, z \in Nat : z # 0 => y % z \in Nat /\ y % z < z
  OBVIOUS
<1> DEFINE X == {z \in Nat : \E y \in Nat : gcd[<<y, z>>] \notin Nat}
<1>12. X = {}
  <2> SUFFICES ASSUME X # {} PROVE FALSE
    BY Zenon
  <2>1. PICK z \in X : \A y \in X : z <= y
    BY LeastNumber, Zenon
  <2>2. PICK y \in Nat : gcd[<<y, z>>] \notin Nat
    BY <2>1
  <2>3. z \in Nat /\ z # 0 /\ gcd[<<z, y % z>>] \notin Nat
    BY <1>10, <2>1, <2>2
  <2>4. y % z \in X /\ y % z < z
    BY <1>11, <2>2, <2>3, Zenon
  <2> QED BY <2>1, <2>3, <2>4
<1> QED BY <1>10, <1>12, Zenon DEF gcd

\* Division with a remainder is unique.
LEMMA RemainderUnique ==
  ASSUME NEW n \in Nat, NEW d \in Nat \ {0}, NEW q \in Nat, NEW r \in Nat, n = q * d + r, r < d
  PROVE  n \div d = q /\ n % d = r
<1> DEFINE p == n \div d
           s == n % d
<1>1. p \in Nat /\ s \in 0..(d - 1) /\ n = p * d + s
  BY Division, Zenon
<1> HIDE DEF p, s
<1>2. ASSUME p < q PROVE FALSE
  <2>1. PICK k \in Nat : q = p + 1 + k
    <3>1. q - p - 1 \in Nat /\ q = p + 1 + (q - p - 1)
      BY <1>1, <1>2
    <3> QED BY <3>1
  <2>2. q * d = p * d + d + k * d /\ k * d \in Nat /\ p * d \in Nat
    BY <1>1, <2>1
  <2> QED BY <1>1, <2>2
<1>3. ASSUME q < p PROVE FALSE
  <2>1. PICK k \in Nat : p = q + 1 + k
    <3>1. p - q - 1 \in Nat /\ p = q + 1 + (p - q - 1)
      BY <1>1, <1>3
    <3> QED BY <3>1, Zenon
  <2>2. p * d = q * d + d + k * d /\ k * d \in Nat /\ q * d \in Nat
    BY <1>1, <2>1
  <2> QED BY <1>1, <2>2
<1>4. p = q
  BY <1>1, <1>2, <1>3
<1> QED BY <1>1, <1>4 DEF p, s

\* The remainder of two multiples of k.
LEMMA RemainderScales ==
  ASSUME NEW k \in Nat \ {0}, NEW x \in Nat, NEW y \in Nat \ {0}
  PROVE  (k * x) % (k * y) = k * (x % y)
<1>1. PICK q \in Nat, r \in 0..(y - 1) : x = q * y + r /\ r = x % y
  BY Division, Zenon
<1>2. k * x \in Nat /\ k * y \in Nat \ {0} /\ k * r \in Nat
  BY <1>1
<1>3. k * x = q * (k * y) + k * r
  BY <1>1
<1>4. k * r < k * y
  BY <1>1
<1>5. (k * x) % (k * y) = k * r
  BY <1>1, <1>2, <1>3, <1>4, RemainderUnique, Zenon
<1> QED BY <1>1, <1>5

\* Products in another order.
LEMMA Products ==
  ASSUME NEW a \in Int, NEW b \in Int, NEW c \in Int, NEW d \in Int
  PROVE  (a * b) * (c * d) = (a * c) * (b * d)
OBVIOUS

\* The same for three factors, and sums.
LEMMA Distributes ==
  ASSUME NEW a \in Int, NEW b \in Int, NEW c \in Int
  PROVE  /\ a * (b * c) = b * (a * c)
         /\ a * (b + c) = a * b + a * c
         /\ (b - a) * c = b * c - a * c
OBVIOUS

\* g divides a and b.
Divides(g, a, b) == g \in Nat \ {0} /\ \E x, y \in Nat : a = g * x /\ b = g * y

\* tide_gcd_u64 returns a common divisor.
LEMMA GcdDivides ==
  ASSUME NEW a \in Nat, NEW b \in Nat, a # 0 \/ b # 0
  PROVE  Divides(tide_gcd_u64[<<a, b>>], a, b)
<1> DEFINE gcd(y, z) == tide_gcd_u64[<<y, z>>]
           X == {z \in Nat : \E y \in Nat : (y # 0 \/ z # 0) /\ ~Divides(gcd(y, z), y, z)}
<1> SUFFICES ASSUME X # {} PROVE FALSE
  OBVIOUS
<1>1. PICK z \in X : \A y \in X : z <= y
  BY LeastNumber, Zenon
<1>2. PICK y \in Nat : (y # 0 \/ z # 0) /\ ~Divides(gcd(y, z), y, z)
  BY <1>1
<1>3. gcd(y, z) \in Nat /\ gcd(y, z) = IF z = 0 THEN y ELSE gcd(z, y % z)
  BY <1>1, <1>2, GcdUnfolds
<1> HIDE DEF gcd
<1>4. z # 0
  <2> SUFFICES ASSUME z = 0 PROVE FALSE
    OBVIOUS
  <2>1. gcd(y, z) = y /\ y # 0 /\ y = y * 1 /\ z = y * 0
    BY <1>2, <1>3
  <2> QED BY <1>2, <2>1, Zenon DEF Divides
<1>5. y % z \in Nat /\ y % z < z /\ z \in Nat \ {0}
  BY <1>1, <1>2, <1>4
<1>6. Divides(gcd(z, y % z), z, y % z)
  BY <1>1, <1>4, <1>5
<1>7. PICK g, u \in Nat, v \in Nat : g = gcd(z, y % z) /\ g \in Nat \ {0} /\ z = g * u /\ y % z = g * v
  BY <1>6 DEF Divides
<1>8. PICK q \in Nat, r \in Nat : y = q * z + r /\ r = y % z
  BY <1>2, <1>5, Division, Zenon
<1>9. y = g * (q * u + v) /\ q * u + v \in Nat
  <2>1. y = q * (g * u) + g * v
    BY <1>7, <1>8, Zenon
  <2>2. g \in Int /\ u \in Nat /\ v \in Nat /\ q \in Nat
    <3>1. g \in Nat
      BY <1>7, Zenon
    <3> QED BY <3>1
  <2>3. PICK w \in Nat : w = q * u
    <3>1. \A c, d \in Nat : c * d \in Nat
      OBVIOUS
    <3>2. q * u \in Nat
      BY <2>2, <3>1, Zenon
    <3> QED BY <3>2, Zenon
  <2>4. q * (g * u) = g * w
    BY <2>2, <2>3, Distributes
  <2>5. g * (w + v) = g * w + g * v
    BY <2>2, <2>3, Distributes
  <2>6. y = g * (w + v) /\ w + v \in Nat
    BY <2>1, <2>2, <2>3, <2>4, <2>5
  <2> QED BY <2>3, <2>6
<1>10. Divides(g, y, z)
  BY <1>7, <1>9 DEF Divides
<1> QED BY <1>2, <1>3, <1>4, <1>7, <1>10

\* It is the greatest: a common factor of both arguments is one of it.
LEMMA GcdScales ==
  ASSUME NEW k \in Nat \ {0}, NEW a \in Nat, NEW b \in Nat
  PROVE  tide_gcd_u64[<<k * a, k * b>>] = k * tide_gcd_u64[<<a, b>>]
<1> DEFINE gcd(y, z) == tide_gcd_u64[<<y, z>>]
           X == {z \in Nat : \E y \in Nat : gcd(k * y, k * z) # k * gcd(y, z)}
<1> SUFFICES ASSUME X # {} PROVE FALSE
  BY Zenon
<1>1. PICK z \in X : \A y \in X : z <= y
  BY LeastNumber, Zenon
<1>2. PICK y \in Nat : gcd(k * y, k * z) # k * gcd(y, z)
  BY <1>1, Zenon
<1>3. gcd(y, z) = IF z = 0 THEN y ELSE gcd(z, y % z)
  BY <1>1, <1>2, GcdUnfolds, Zenon
<1>4. k * y \in Nat /\ k * z \in Nat /\ (k * z = 0 <=> z = 0)
  BY <1>1
<1>5. gcd(k * y, k * z) = IF k * z = 0 THEN k * y ELSE gcd(k * z, (k * y) % (k * z))
  BY <1>4, GcdUnfolds
<1> HIDE DEF gcd
<1>6. z # 0
  BY <1>2, <1>3, <1>4, <1>5
<1>7. y % z \in Nat /\ y % z < z /\ z \in Nat \ {0}
  BY <1>1, <1>2, <1>6
<1>8. (k * y) % (k * z) = k * (y % z)
  BY <1>7, RemainderScales, Zenon
<1>9. gcd(k * z, k * (y % z)) = k * gcd(z, y % z)
  BY <1>1, <1>7
<1> QED BY <1>2, <1>3, <1>4, <1>5, <1>6, <1>8, <1>9

\* A positive factor can be cancelled in a comparison.
LEMMA FactorCancels ==
  ASSUME NEW k \in Nat \ {0}, NEW x \in Int, NEW y \in Int
  PROVE  /\ k * x <= k * y <=> x <= y
         /\ k * x < k * y <=> x < y
         /\ k * x = k * y <=> x = y
<1>1. ASSUME NEW u \in Int, NEW v \in Int, u < v PROVE k * u < k * v
  <2>1. PICK w \in Nat : v = u + 1 + w
    <3>1. v - u - 1 \in Nat /\ v = u + 1 + (v - u - 1)
      BY <1>1
    <3> QED BY <3>1
  <2>2. k * v = k * u + k + k * w /\ k * w \in Nat /\ k * u \in Int
    BY <2>1
  <2> QED BY <2>2
<1>2. k * x \in Int /\ k * y \in Int
  OBVIOUS
<1>3. x < y \/ x = y \/ y < x
  OBVIOUS
<1>4. CASE x < y
  BY <1>1, <1>2, <1>4
<1>5. CASE x = y
  BY <1>2, <1>5
<1>6. CASE y < x
  BY <1>1, <1>2, <1>6
<1> QED BY <1>3, <1>4, <1>5, <1>6

\* A quotient is rounded in the same way when both of its terms are multiplied by k.
LEMMA RoundedScales ==
  ASSUME NEW n \in Int, NEW d \in Nat \ {0}, NEW k \in Nat \ {0}, NEW q \in Int,
         NEW rounding \in Rounding
  PROVE  IsRounded(q, k * n, k * d, rounding) <=> IsRounded(q, n, d, rounding)
<1> DEFINE x == q * d
           kn == k * n
           kd == k * d
<1>1. x \in Int /\ kn \in Int /\ kd \in Int
  OBVIOUS
<1>2. q * kd = k * x /\ (q + 1) * kd = k * (x + d) /\ (q - 1) * kd = k * (x - d)
      /\ (q + 1) * d = x + d /\ (q - 1) * d = x - d
  OBVIOUS
<1>3. 2 * (kn - k * x) = k * (2 * (n - x)) /\ 2 * (k * x - kn) = k * (2 * (x - n))
      /\ -kd = k * (-d)
  OBVIOUS
<1> HIDE DEF x
<1>4. /\ k * x <= kn <=> x <= n
      /\ kn <= k * x <=> n <= x
      /\ kn < k * (x + d) <=> n < x + d
      /\ k * (x - d) < kn <=> x - d < n
  BY <1>1, FactorCancels
<1>5. /\ k * (2 * (n - x)) <= kd <=> 2 * (n - x) <= d
      /\ k * (2 * (x - n)) <= kd <=> 2 * (x - n) <= d
      /\ k * (2 * (n - x)) = kd <=> 2 * (n - x) = d
      /\ k * (2 * (n - x)) = k * (-d) <=> 2 * (n - x) = -d
  <2>1. 2 * (n - x) \in Int /\ 2 * (x - n) \in Int /\ -d \in Int
    BY <1>1
  <2> QED BY <2>1, FactorCancels
<1> HIDE DEF kn, kd
<1>6. CASE rounding = "FLOOR"
  BY <1>2, <1>4, <1>6 DEF IsRounded, x, kn, kd
<1>7. CASE rounding = "CEIL"
  BY <1>2, <1>4, <1>7 DEF IsRounded, x, kn, kd
<1>8. CASE rounding = "NEAREST_EVEN"
  <2>1. IsRounded(q, kn, kd, rounding) <=>
          /\ 2 * (kn - k * x) <= kd /\ 2 * (k * x - kn) <= kd
          /\ 2 * (kn - k * x) \in {kd, -kd} => q % 2 = 0
    BY <1>2, <1>8 DEF IsRounded
  <2>2. IsRounded(q, n, d, rounding) <=>
          /\ 2 * (n - x) <= d /\ 2 * (x - n) <= d
          /\ 2 * (n - x) \in {d, -d} => q % 2 = 0
    BY <1>8 DEF IsRounded, x
  <2>3. 2 * (kn - k * x) \in {kd, -kd} <=> 2 * (n - x) \in {d, -d}
    BY <1>3, <1>5
  <2>4. IsRounded(q, kn, kd, rounding) <=> IsRounded(q, n, d, rounding)
    BY <1>3, <1>5, <2>1, <2>2, <2>3
  <2> QED BY <2>4 DEF kn, kd
<1> QED BY <1>6, <1>7, <1>8 DEF Rounding

\* The quotient by a common divisor.
LEMMA DividedBy ==
  ASSUME NEW g \in Nat \ {0}, NEW x \in Nat
  PROVE  (g * x) \div g = x /\ x <= g * x
<1>1. g * x \in Nat /\ g * x = x * g + 0
  OBVIOUS
<1>2. (g * x) \div g = x
  BY <1>1, RemainderUnique
<1>3. x <= g * x
  <2>1. PICK h \in Nat : g = h + 1
    <3>1. g - 1 \in Nat /\ g = (g - 1) + 1
      OBVIOUS
    <3> QED BY <3>1
  <2>2. g * x = h * x + x /\ h * x \in Nat
    BY <2>1
  <2> QED BY <2>2
<1> QED BY <1>2, <1>3

\* The two numbers of a time base.
LEMMA RationalFields ==
  ASSUME NEW r \in Rational
  PROVE  /\ r = <<r[1], r[2]>> /\ r[1] \in Nat /\ r[2] \in Nat
         /\ r[1] <= U32_MAX /\ r[2] <= U32_MAX
BY WidthAssumption DEF Rational

\* A time base is valid exactly when tide_rational_reduce leaves it as it is.
LEMMA ValidIsReduced ==
  ASSUME NEW r \in Rational
  PROVE  tide_rational_is_valid(r) <=> tide_rational_reduce(r) = Ok(r)
<1>1. r = <<r[1], r[2]>> /\ r[1] \in Nat /\ r[2] \in Nat
  BY RationalFields
<1>2. CASE r[1] = 0 \/ r[2] = 0
  <2>1. tide_rational_reduce(r) = Fails("TIMELINE") /\ Fails("TIMELINE").status # Ok(r).status
    BY <1>2 DEF tide_rational_reduce, Fails, Ok
  <2> QED BY <1>2, <2>1 DEF tide_rational_is_valid
<1>3. CASE r[1] # 0 /\ r[2] # 0
  <2>1. Divides(tide_gcd_u64[r], r[1], r[2])
    <3>1. Divides(tide_gcd_u64[<<r[1], r[2]>>], r[1], r[2])
      BY <1>1, <1>3, GcdDivides
    <3> QED BY <1>1, <3>1
  <2>2. PICK g, x \in Nat, y \in Nat : /\ g = tide_gcd_u64[r] /\ g \in Nat \ {0}
                                       /\ r[1] = g * x /\ r[2] = g * y
    BY <2>1 DEF Divides
  <2>3. tide_rational_reduce(r) = Ok(<<x, y>>)
    <3>1. r[1] \div g = x /\ r[2] \div g = y
      BY <2>2, DividedBy
    <3> QED BY <1>3, <2>2, <3>1 DEF tide_rational_reduce
  <2>4. tide_rational_reduce(r) = Ok(r) <=> x = r[1] /\ y = r[2]
    <3>1. Ok(<<x, y>>) = Ok(r) <=> <<x, y>> = r
      BY DEF Ok
    <3>2. <<x, y>> = r <=> x = r[1] /\ y = r[2]
      BY <1>1
    <3> QED BY <2>3, <3>1, <3>2
  <2>5. ASSUME g = 1 PROVE x = r[1] /\ y = r[2]
    BY <2>2, <2>5
  <2>6. ASSUME x = r[1] PROVE g = 1
    <3>1. x # 0 /\ x = g * x
      BY <1>3, <2>2, <2>6
    <3>2. PICK one \in Int : one = 1
      OBVIOUS
    <3>3. x * g = x * one /\ x \in Nat \ {0} /\ g \in Int
      BY <2>2, <3>1, <3>2
    <3>4. g = one
      BY <3>3, FactorCancels
    <3> QED BY <3>2, <3>4
  <2> QED BY <1>3, <2>2, <2>4, <2>5, <2>6 DEF tide_rational_is_valid
<1> QED BY <1>2, <1>3

\* What tide_rational_reduce makes of a time base is equal to it, and valid.
LEMMA ReducedIsValid ==
  ASSUME NEW r \in Rational, NEW out, tide_rational_reduce(r).status = "OK",
         out = tide_rational_reduce(r).out
  PROVE  out[1] * r[2] = out[2] * r[1] /\ tide_rational_is_valid(out)
<1>1. r = <<r[1], r[2]>> /\ r[1] \in Nat /\ r[2] \in Nat
  BY RationalFields
<1>2. r[1] # 0 /\ r[2] # 0
  BY DEF tide_rational_reduce, Fails
<1>3. Divides(tide_gcd_u64[r], r[1], r[2])
  <2>1. Divides(tide_gcd_u64[<<r[1], r[2]>>], r[1], r[2])
    BY <1>1, <1>2, GcdDivides
  <2> QED BY <1>1, <2>1
<1>4. PICK g, x \in Nat, y \in Nat : /\ g = tide_gcd_u64[r] /\ g \in Nat \ {0}
                                     /\ r[1] = g * x /\ r[2] = g * y
  BY <1>3 DEF Divides
<1>5. out = <<x, y>>
  <2>1. r[1] \div g = x /\ r[2] \div g = y
    BY <1>4, DividedBy, Zenon
  <2> QED BY <1>2, <1>4, <2>1 DEF tide_rational_reduce, Ok
<1>6. x * (g * y) = y * (g * x)
  BY <1>4
<1>7. x # 0 /\ y # 0
  BY <1>2, <1>4
<1>8. tide_gcd_u64[<<x, y>>] = 1
  <2>1. tide_gcd_u64[<<g * x, g * y>>] = g * tide_gcd_u64[<<x, y>>]
    BY <1>4, GcdScales
  <2>2. tide_gcd_u64[<<x, y>>] \in Nat
    BY GcdUnfolds, Zenon
  <2>3. g * tide_gcd_u64[<<x, y>>] = g * 1
    <3>1. tide_gcd_u64[<<g * x, g * y>>] = g
      BY <1>1, <1>4
    <3> QED BY <1>4, <2>1, <3>1
  <2> QED BY <1>4, <2>2, <2>3, FactorCancels
<1>9. out[1] = x /\ out[2] = y
  BY <1>5
<1> QED BY <1>4, <1>5, <1>6, <1>7, <1>8, <1>9 DEF tide_rational_is_valid

\* p is the quotient of the two time bases, in terms within the products of two u32.
IsRatio(p, source, destination) ==
  /\ p[1] \in 1..(U32_MAX * U32_MAX) /\ p[2] \in 1..(U32_MAX * U32_MAX)
  /\ \E k \in Nat \ {0} : /\ k * p[1] = source[1] * destination[2]
                           /\ k * p[2] = source[2] * destination[1]

\* Products of numbers within a bound.
LEMMA ProductBounded ==
  ASSUME NEW x \in Nat \ {0}, NEW y \in Nat \ {0}, NEW m \in Nat, x <= m, y <= m
  PROVE  x * y \in 1..(m * m)
<1>1. PICK u \in Nat, v \in Nat : m = x + u /\ m = y + v
  <2>1. m - x \in Nat /\ m = x + (m - x) /\ m - y \in Nat /\ m = y + (m - y)
    OBVIOUS
  <2> QED BY <2>1
<1>2. m * m = (x + u) * (y + v)
  BY <1>1
<1>3. (x + u) * (y + v) = x * y + x * v + u * y + u * v
  OBVIOUS
<1>4. x * v \in Nat /\ u * y \in Nat /\ u * v \in Nat /\ x * y \in Nat /\ x * y # 0 /\ m * m \in Nat
  OBVIOUS
<1> QED BY <1>2, <1>3, <1>4

\* Cancelling the common factors first loses nothing.
LEMMA RatioExact ==
  ASSUME NEW s \in Rational, NEW t \in Rational,
         tide_rational_is_valid(s), tide_rational_is_valid(t)
  PROVE  IsRatio(Ratio(s, t), s, t)
<1>1. /\ s[1] \in Nat \ {0} /\ s[2] \in Nat \ {0} /\ t[1] \in Nat \ {0} /\ t[2] \in Nat \ {0}
      /\ s[1] <= U32_MAX /\ s[2] <= U32_MAX /\ t[1] <= U32_MAX /\ t[2] <= U32_MAX
      /\ U32_MAX \in Nat
  BY RationalFields, WidthAssumption DEF tide_rational_is_valid
<1>2. PICK g, x \in Nat, y \in Nat : /\ g = tide_gcd_u64[<<s[1], t[1]>>] /\ g \in Nat \ {0}
                                     /\ s[1] = g * x /\ t[1] = g * y
  <2>1. Divides(tide_gcd_u64[<<s[1], t[1]>>], s[1], t[1])
    BY <1>1, GcdDivides
  <2> QED BY <2>1 DEF Divides
<1>3. PICK h, u \in Nat, v \in Nat : /\ h = tide_gcd_u64[<<t[2], s[2]>>] /\ h \in Nat \ {0}
                                     /\ t[2] = h * u /\ s[2] = h * v
  <2>1. Divides(tide_gcd_u64[<<t[2], s[2]>>], t[2], s[2])
    BY <1>1, GcdDivides
  <2> QED BY <2>1 DEF Divides
<1>4. /\ s[1] \div g = x /\ t[1] \div g = y /\ t[2] \div h = u /\ s[2] \div h = v
      /\ x <= s[1] /\ y <= t[1] /\ u <= t[2] /\ v <= s[2]
  BY <1>2, <1>3, DividedBy, Zenon
<1>5. Ratio(s, t) = <<x * u, y * v>>
  BY <1>2, <1>3, <1>4 DEF Ratio
<1>6. x # 0 /\ y # 0 /\ u # 0 /\ v # 0
  BY <1>1, <1>2, <1>3
<1>7. x <= U32_MAX /\ y <= U32_MAX /\ u <= U32_MAX /\ v <= U32_MAX
  BY <1>1, <1>4
<1>8. x * u \in 1..(U32_MAX * U32_MAX) /\ y * v \in 1..(U32_MAX * U32_MAX)
  BY <1>1, <1>6, <1>7, ProductBounded
<1>9. /\ (g * h) * (x * u) = (g * x) * (h * u) /\ (g * h) * (y * v) = (h * v) * (g * y)
      /\ g * h \in Nat \ {0}
  <2>1. (g * h) * (x * u) = (g * x) * (h * u)
    BY <1>2, <1>3, Products
  <2>2. (h * g) * (v * y) = (h * v) * (g * y)
    BY <1>2, <1>3, Products
  <2>3. h * g = g * h /\ v * y = y * v /\ g * h \in Nat \ {0}
    BY <1>2, <1>3
  <2> QED BY <2>1, <2>2, <2>3
<1>10. \E k \in Nat \ {0} : k * (x * u) = s[1] * t[2] /\ k * (y * v) = s[2] * t[1]
  BY <1>2, <1>3, <1>9, Zenon
<1> QED BY <1>5, <1>8, <1>10 DEF IsRatio

\* The product of the value and the first term is of type __int128.
LEMMA ConvertedInRange ==
  ASSUME NEW value \in I64, NEW p, NEW s, NEW t, IsRatio(p, s, t)
  PROVE  value * p[1] \in I128 /\ 2 * p[2] \in I128
<1> DEFINE m == U32_MAX * U32_MAX
           w == I64_MAX + 1
<1>1. m \in Nat /\ w \in Nat /\ p[1] \in 1..m /\ p[2] \in 1..m /\ I128_MAX \in Nat
      /\ w * m <= I128_MAX /\ 2 * m <= I128_MAX
  BY WidthAssumption DEF IsRatio
<1> HIDE DEF m
<1>2. value \in Int /\ -w <= value /\ value <= w
  BY WidthAssumption DEF I64
<1> HIDE DEF w
<1>3. PICK a \in Nat, b \in Nat, c \in Nat : w = value + a /\ w = b - value /\ m = p[1] + c
  <2>1. w - value \in Nat /\ w + value \in Nat /\ m - p[1] \in Nat
    BY <1>1, <1>2
  <2>2. w = value + (w - value) /\ w = (w + value) - value /\ m = p[1] + (m - p[1])
    BY <1>1, <1>2
  <2> QED BY <2>1, <2>2
<1>4. w * p[1] <= w * m
  <2>1. w * m = w * p[1] + w * c /\ w * c \in Nat /\ w * p[1] \in Nat
    BY <1>1, <1>3
  <2> QED BY <2>1
<1>5. value * p[1] <= w * p[1] /\ -(value * p[1]) <= w * p[1] /\ value * p[1] \in Int
  <2>1. w * p[1] = value * p[1] + a * p[1] /\ a * p[1] \in Nat /\ value * p[1] \in Int
    BY <1>1, <1>2, <1>3
  <2>2. w * p[1] = b * p[1] - value * p[1] /\ b * p[1] \in Nat
    <3>1. (b - value) * p[1] = b * p[1] - value * p[1]
      BY <1>1, <1>2, <1>3, Distributes
    <3>2. w * p[1] = (b - value) * p[1] /\ b * p[1] \in Nat
      BY <1>1, <1>3
    <3> QED BY <3>1, <3>2
  <2> QED BY <2>1, <2>2
<1>6. w * p[1] \in Nat /\ w * m \in Nat
  BY <1>1
<1> QED BY <1>1, <1>4, <1>5, <1>6 DEF I128

------------------------------------------------------------------------------
(* tide_edit_project_one *)

\* The fields of an edit that the loop adds and compares are integers of I64.
LEMMA EditFields ==
  ASSUME NEW e \in Edit
  PROVE  /\ e.source_start \in I64 /\ e.output_start \in I64 /\ e.output_duration \in I64
         /\ I64 \subseteq Int /\ I64_MAX \in Nat
BY WidthAssumption DEF Edit, I64

\* The checks of the loop are enough: what it computes for an edit fits an int64_t.
LEMMA EditInRange ==
  ASSUME NEW e \in Edit, NEW pts \in I64, NEW duration \in I64, duration >= 0,
         ~Refused(e, pts, duration)
  PROVE  LET p == Piece(e, pts, duration)
         IN  /\ {e.source_start + e.output_duration, pts + duration} \subseteq I64
             /\ p.start < p.end => {p.start - e.source_start, p.end - p.start,
                                    I64_MAX - (p.start - e.source_start)} \subseteq I64
<1> DEFINE s == e.source_start
           l == e.output_duration
           a == Larger(pts, s)
           b == Smaller(pts + duration, s + l)
<1>1. s \in I64 /\ l \in I64 /\ I64_MAX \in Nat
  BY EditFields
<1>2. l >= 0 /\ s <= I64_MAX - l /\ pts <= I64_MAX - duration
  BY <1>1 DEF Refused, I64
<1>3. Piece(e, pts, duration).start = a /\ Piece(e, pts, duration).end = b
  BY DEF Piece
<1> HIDE DEF s, l
<1>4. {s + l, pts + duration} \subseteq I64
  BY <1>1, <1>2 DEF I64
<1>5. a < b => {a - s, b - a, I64_MAX - (a - s)} \subseteq I64
  BY <1>1, <1>2 DEF I64, Larger, Smaller
<1> QED BY <1>3, <1>4, <1>5 DEF s, l

\* The piece of an edit that is not refused shows the packet, and the whole of it.
LEMMA EditPiece ==
  ASSUME NEW e \in Edit, NEW pts \in I64, NEW duration \in I64, duration >= 0,
         ~Refused(e, pts, duration)
  PROVE  LET p == Piece(e, pts, duration)
             packet == pts..(pts + duration - 1)
             out == e.output_start + (p.start - e.source_start)
         IN  /\ Overlaps(e, pts, duration) =>
                  \A t \in out..(out + (p.end - p.start) - 1) :
                    t \in Covers(e) /\ Shows(e, t) \in packet
             /\ ~Overlaps(e, pts, duration) =>
                  \A t \in Covers(e) : Shows(e, t) \notin packet
<1> DEFINE s == e.source_start
           l == e.output_duration
           o == e.output_start
           a == Larger(pts, s)
           b == Smaller(pts + duration, s + l)
<1>1. s \in Int /\ l \in Int /\ o \in Int /\ pts \in Int /\ duration \in Int
  BY EditFields
<1>2. l >= 0
  BY <1>1 DEF Refused
<1>3. Piece(e, pts, duration).start = a /\ Piece(e, pts, duration).end = b
  BY DEF Piece
<1>4. Covers(e) = o..(o + l - 1) /\ \A t : Shows(e, t) = s + (t - o)
  BY DEF Covers, Shows
<1> HIDE DEF s, l, o
<1>5. ASSUME NEW t \in (o + (a - s))..(o + (a - s) + (b - a) - 1)
      PROVE  t \in o..(o + l - 1) /\ s + (t - o) \in pts..(pts + duration - 1)
  BY <1>1, <1>2 DEF Larger, Smaller
<1>6. ASSUME ~(a < b), NEW t \in o..(o + l - 1)
      PROVE  s + (t - o) \notin pts..(pts + duration - 1)
  BY <1>1, <1>2, <1>6 DEF Larger, Smaller
<1>7. Overlaps(e, pts, duration) <=> a < b
  BY <1>3 DEF Overlaps
<1> QED BY <1>3, <1>4, <1>5, <1>6, <1>7 DEF s, o

\* The loop stops at an edit or at the end of the list.
LEMMA FirstStop ==
  ASSUME NEW edits \in Seq(Edit), NEW stops \in SUBSET DOMAIN edits, stops # {}
  PROVE  (CHOOSE k \in stops : \A m \in stops : k <= m) \in stops
<1>1. stops \in SUBSET Nat
  OBVIOUS
<1>2. PICK k \in stops : \A m \in stops : k <= m
  BY <1>1, LeastNumber
<1> QED BY <1>2

\* A piece is projected only if its output time was checked not to overflow.
LEMMA ProjectedPiece ==
  ASSUME NEW e, NEW p, Projected(e, p).status = "OK"
  PROVE  /\ ~(e.output_start > I64_MAX - (p.start - e.source_start))
         /\ Projected(e, p).out = [pts |-> e.output_start + (p.start - e.source_start),
                                   duration |-> p.end - p.start]
BY DEF Projected, Fails, Ok

\* What tide_edit_project_one returns, in terms of the edit at which it stops.
LEMMA ProjectOne ==
  ASSUME NEW edits \in Seq(Edit), NEW pts \in I64, NEW duration \in I64
  PROVE  LET r == tide_edit_project_one(edits, pts, duration)
         IN  /\ r.status = "OK" =>
                  /\ duration >= 0
                  /\ \E i \in DOMAIN edits :
                       /\ ~Refused(edits[i], pts, duration)
                       /\ Overlaps(edits[i], pts, duration)
                       /\ r = Projected(edits[i], Piece(edits[i], pts, duration))
             /\ r.status = "PARTIAL" =>
                  /\ duration >= 0
                  /\ \A i \in DOMAIN edits : /\ ~Refused(edits[i], pts, duration)
                                              /\ ~Overlaps(edits[i], pts, duration)
<1> DEFINE stops == {i \in DOMAIN edits : \/ Refused(edits[i], pts, duration)
                                          \/ Overlaps(edits[i], pts, duration)}
           i == CHOOSE k \in stops : \A m \in stops : k <= m
           r == tide_edit_project_one(edits, pts, duration)
<1>1. stops # {} => i \in stops
  <2> HIDE DEF stops
  <2>1. stops \in SUBSET DOMAIN edits
    BY DEF stops
  <2> QED BY <2>1, FirstStop
<1>2. r = IF duration < 0 THEN Fails("INVALID_ARGUMENT")
          ELSE IF stops = {} THEN Fails("PARTIAL")
          ELSE IF Refused(edits[i], pts, duration) THEN Fails("TIMELINE")
          ELSE Projected(edits[i], Piece(edits[i], pts, duration))
  BY DEF tide_edit_project_one
<1> HIDE DEF i, r
<1>3. duration \in Int
  BY WidthAssumption DEF I64
<1>4. ASSUME r.status = "OK"
      PROVE  /\ duration >= 0 /\ stops # {} /\ ~Refused(edits[i], pts, duration)
             /\ r = Projected(edits[i], Piece(edits[i], pts, duration))
  BY <1>2, <1>3, <1>4 DEF Fails
<1>5. ASSUME r.status = "PARTIAL" PROVE duration >= 0 /\ stops = {}
  <2>1. CASE r = Projected(edits[i], Piece(edits[i], pts, duration))
    BY <1>5, <2>1 DEF Projected, Fails, Ok
  <2> QED BY <1>2, <1>3, <1>5, <2>1 DEF Fails
<1>6. ASSUME r.status = "OK" PROVE i \in DOMAIN edits /\ Overlaps(edits[i], pts, duration)
  BY <1>1, <1>4, <1>6
<1> QED BY <1>4, <1>5, <1>6 DEF r

------------------------------------------------------------------------------
(* The properties of every call *)

\* A state of a call holds its arguments and what the function returns for them.
AnsweredProject ==
  call.op = "project" =>
    /\ call.args \in [edits: Seq(Edit), pts: I64, duration: I64]
    /\ result = tide_edit_project_one(call.args.edits, call.args.pts, call.args.duration)

AnsweredConvert ==
  call.op = "convert" =>
    /\ call.args.value \in I64 /\ call.args.rounding \in Rounding
    /\ call.args.source \in Rational /\ call.args.destination \in Rational
    /\ result = tide_time_convert(call.args.value, call.args.source, call.args.destination,
                                  call.args.rounding)

AnsweredReduce ==
  call.op = "reduce" => call.args \in Rational /\ result = tide_rational_reduce(call.args)

Answered == AnsweredProject /\ AnsweredConvert /\ AnsweredReduce

\* Every state of the calls is one of those.
LEMMA CallsAnswered == Spec => []Answered
<1> DEFINE known == {"project", "convert", "reduce"}
<1>1. Init => Answered
  BY DEF Init, NoCall, Answered, AnsweredProject, AnsweredConvert, AnsweredReduce
<1>2. ASSUME Answered, [Next]_vars PROVE Answered'
  <2>1. CASE Project
    <3>1. call'.op = "project" /\ AnsweredProject'
      BY <2>1, ProjectionsAssumption DEF Project, AnsweredProject
    <3> QED BY <3>1 DEF Answered, AnsweredConvert, AnsweredReduce
  <2>2. CASE Convert
    <3>1. PICK c \in Conversions :
            /\ call' = [op |-> "convert", args |-> c]
            /\ result' = tide_time_convert(c.value, c.source, c.destination, c.rounding)
      BY <2>2 DEF Convert
    <3>2. /\ c.value \in I64 /\ c.rounding \in Rounding
          /\ c.source \in Rational /\ c.destination \in Rational
      BY ConversionsAssumption
    <3>3. call'.op = "convert" /\ call'.args = c
      BY <3>1
    <3>4. AnsweredConvert'
      BY <3>1, <3>2, <3>3 DEF AnsweredConvert
    <3> QED BY <3>3, <3>4 DEF Answered, AnsweredProject, AnsweredReduce
  <2>3. CASE Reduce
    <3>1. call'.op = "reduce" /\ AnsweredReduce'
      BY <2>3 DEF Reduce, AnsweredReduce
    <3> QED BY <3>1 DEF Answered, AnsweredProject, AnsweredConvert
  <2>4. CASE ReadVarint \/ CheckIndex \/ BuildIndex \/ Return
    <3>1. \/ call' = NoCall
          \/ \E args, op : op \notin known /\ call' = [op |-> op, args |-> args]
      <4>1. CASE ReadVarint
        BY <4>1, Zenon DEF ReadVarint
      <4>2. CASE CheckIndex
        BY <4>2, Zenon DEF CheckIndex
      <4>3. CASE BuildIndex
        <5>1. \E a \in Additions : call' = [op |-> "build", args |-> a]
          BY <4>3, Zenon DEF BuildIndex
        <5> QED BY <5>1, Zenon
      <4>4. CASE Return
        BY <4>4 DEF Return
      <4> QED BY <2>4, <4>1, <4>2, <4>3, <4>4
    <3>2. call'.op \notin known
      BY <3>1 DEF NoCall
    <3> QED BY <3>2 DEF Answered, AnsweredProject, AnsweredConvert, AnsweredReduce
  <2>5. CASE UNCHANGED vars
    BY <1>2, <2>5 DEF vars, Answered, AnsweredProject, AnsweredConvert, AnsweredReduce
  <2> QED BY <1>2, <2>1, <2>2, <2>3, <2>4, <2>5 DEF Next
<1> QED BY <1>1, <1>2, PTL DEF Spec

\* tide_time_convert fails for a time base that is not valid, and otherwise returns the
\* quotient of the time bases rounded once.
LEMMA ConversionExact ==
  ASSUME NEW value \in I64, NEW s \in Rational, NEW t \in Rational, NEW rounding \in Rounding
  PROVE  LET r == tide_time_convert(value, s, t, rounding)
             n == value * s[1] * t[2]
             d == s[2] * t[1]
             valid == tide_rational_is_valid(s) /\ tide_rational_is_valid(t)
         IN  IF r.status = "OK" THEN valid /\ IsRounded(r.out, n, d, rounding)
             ELSE valid => ~\E q \in I64 : IsRounded(q, n, d, rounding)
<1> DEFINE n == value * s[1] * t[2]
           d == s[2] * t[1]
<1>1. CASE ~(tide_rational_is_valid(s) /\ tide_rational_is_valid(t))
  BY <1>1 DEF tide_time_convert, Fails
<1>2. CASE tide_rational_is_valid(s) /\ tide_rational_is_valid(t)
  <2>1. PICK p : p = Ratio(s, t)
    OBVIOUS
  <2>2. IsRatio(p, s, t)
    BY <1>2, <2>1, RatioExact
  <2>3. PICK k \in Nat \ {0} : k * p[1] = s[1] * t[2] /\ k * p[2] = s[2] * t[1]
    BY <2>2 DEF IsRatio
  <2>4. value \in Int /\ p[1] \in Int /\ p[2] \in Nat \ {0} /\ s[1] \in Int /\ t[2] \in Int
    BY <2>2, RationalFields, WidthAssumption DEF IsRatio, I64
  <2>5. PICK m \in Int : m = value * p[1]
    BY <2>4
  <2>6. n = k * m /\ d = k * p[2]
    <3>1. value * s[1] * t[2] = value * (s[1] * t[2])
      BY <2>4
    <3>2. value * (k * p[1]) = k * (value * p[1])
      BY <2>4, Distributes
    <3> QED BY <2>3, <2>5, <3>1, <3>2
  <2>7. PICK r : r = tide_round_div_i128(m, p[2], rounding)
    OBVIOUS
  <2>8. tide_time_convert(value, s, t, rounding) = r
    BY <1>2, <2>1, <2>5, <2>7 DEF tide_time_convert
  <2>9. IF r.status = "OK" THEN IsRounded(r.out, m, p[2], rounding)
        ELSE ~\E q \in I64 : IsRounded(q, m, p[2], rounding)
    BY <2>4, <2>5, <2>7, RoundDivIsExact
  <2>10. \A q \in I64 : IsRounded(q, n, d, rounding) <=> IsRounded(q, m, p[2], rounding)
    <3>1. \A q \in I64 : q \in Int
      BY WidthAssumption DEF I64
    <3> QED BY <2>4, <2>5, <2>6, <3>1, RoundedScales
  <2>11. r.status = "OK" => r.out \in I64
    <3>1. \/ r = Ok(Rounded(m, p[2], rounding)) /\ Rounded(m, p[2], rounding) \in I64
          \/ r = Fails("TIMELINE") \/ r = Fails("INVALID_ARGUMENT")
      BY <2>7 DEF tide_round_div_i128
    <3> QED BY <3>1 DEF Ok, Fails
  <2> HIDE DEF n, d
  <2>12. IF r.status = "OK" THEN IsRounded(r.out, n, d, rounding)
         ELSE ~\E q \in I64 : IsRounded(q, n, d, rounding)
    BY <2>9, <2>10, <2>11
  <2> QED BY <1>2, <2>8, <2>12 DEF n, d
<1> QED BY <1>1, <1>2

\* tide_time_convert returns the exact quotient of the two time bases, rounded once, and
\* fails only where it must; tide_rational_reduce returns an equal time base that is valid.
THEOREM ConversionsAreExact == Spec => []ConvertExact
<1>1. Answered => ConvertExact
  <2> SUFFICES ASSUME Answered PROVE ConvertExact
    OBVIOUS
  <2>1. ASSUME call.op = "convert"
        PROVE  LET c == call.args
                   n == c.value * c.source[1] * c.destination[2]
                   d == c.source[2] * c.destination[1]
                   valid == \A r \in {c.source, c.destination} : tide_rational_reduce(r) = Ok(r)
               IN  IF result.status = "OK"
                   THEN valid /\ IsRounded(result.out, n, d, c.rounding)
                   ELSE valid => ~\E q \in I64 : IsRounded(q, n, d, c.rounding)
    <3>1. PICK value \in I64, s \in Rational, t \in Rational, rounding \in Rounding :
            /\ call.args.value = value /\ call.args.rounding = rounding
            /\ call.args.source = s /\ call.args.destination = t
            /\ result = tide_time_convert(value, s, t, rounding)
      BY <2>1 DEF Answered, AnsweredConvert
    <3>2. (\A r \in {s, t} : tide_rational_reduce(r) = Ok(r))
            <=> tide_rational_is_valid(s) /\ tide_rational_is_valid(t)
      BY ValidIsReduced
    <3>3. IF result.status = "OK"
          THEN /\ tide_rational_is_valid(s) /\ tide_rational_is_valid(t)
               /\ IsRounded(result.out, value * s[1] * t[2], s[2] * t[1], rounding)
          ELSE tide_rational_is_valid(s) /\ tide_rational_is_valid(t) =>
                 ~\E q \in I64 : IsRounded(q, value * s[1] * t[2], s[2] * t[1], rounding)
      BY <3>1, ConversionExact
    <3> QED BY <3>1, <3>2, <3>3
  <2>2. ASSUME call.op = "reduce", result.status = "OK"
        PROVE  /\ result.out[1] * call.args[2] = result.out[2] * call.args[1]
               /\ tide_rational_is_valid(result.out)
    BY <2>2, ReducedIsValid, SMTT(30) DEF Answered, AnsweredReduce
  <2> QED BY <2>1, <2>2 DEF ConvertExact
<1> QED BY <1>1, CallsAnswered, PTL

\* The sums and differences of tide_edit_project_one never leave int64_t, the output time
\* of the piece it returns included.
THEOREM ProjectionsInRange == Spec => []ProjectionInRange
<1>1. Answered => ProjectionInRange
  <2> SUFFICES ASSUME Answered, call.op = "project" PROVE ProjectionInRange
    BY DEF ProjectionInRange
  <2>1. PICK edits \in Seq(Edit), pts \in I64, duration \in I64 :
          /\ call.args.edits = edits /\ call.args.pts = pts /\ call.args.duration = duration
          /\ result = tide_edit_project_one(edits, pts, duration)
    BY DEF Answered, AnsweredProject
  <2> DEFINE fits(i) == LET e == edits[i]
                            p == Piece(e, pts, duration)
                        IN  /\ {e.source_start + e.output_duration, pts + duration}
                                 \subseteq I64
                            /\ p.start < p.end =>
                                 {p.start - e.source_start, p.end - p.start,
                                  I64_MAX - (p.start - e.source_start)} \subseteq I64
  <2>2. ASSUME NEW i \in DOMAIN edits, duration >= 0, ~Refused(edits[i], pts, duration)
        PROVE  fits(i)
    <3>1. edits[i] \in Edit
      BY <2>1
    <3> QED BY <2>1, <2>2, <3>1, EditInRange
  <2>3. ASSUME result.status = "OK"
        PROVE  result.out.pts \in I64 /\ result.out.duration \in I64
    <3>1. duration >= 0
      BY <2>1, <2>3, ProjectOne, SMTT(30)
    <3>2. PICK i \in DOMAIN edits :
            /\ ~Refused(edits[i], pts, duration) /\ Overlaps(edits[i], pts, duration)
            /\ result = Projected(edits[i], Piece(edits[i], pts, duration))
      BY <2>1, <2>3, ProjectOne
    <3>3. PICK o, a, l : /\ o = edits[i].output_start
                         /\ a = Piece(edits[i], pts, duration).start - edits[i].source_start
                         /\ l = Piece(edits[i], pts, duration).end
                                  - Piece(edits[i], pts, duration).start
      BY Zenon
    <3>4. ~(o > I64_MAX - a) /\ result.out = [pts |-> o + a, duration |-> l]
      BY <2>3, <3>2, <3>3, ProjectedPiece, Zenon
    <3>5. o \in I64 /\ a \in I64 /\ l \in I64 /\ I64_MAX \in Nat
      <4>1. edits[i] \in Edit
        BY <2>1
      <4>2. fits(i)
        BY <2>2, <3>1, <3>2
      <4> QED BY <3>2, <3>3, <4>1, <4>2, EditFields, SMTT(30) DEF Overlaps
    <3>6. a >= 0
      <4>1. edits[i].source_start \in Int /\ pts \in Int
        BY <2>1, EditFields
      <4> QED BY <3>3, <4>1 DEF Piece, Larger
    <3>7. o + a \in I64
      BY <3>4, <3>5, <3>6 DEF I64
    <3> QED BY <3>4, <3>5, <3>7, SMTT(30)
  <2> QED BY <2>1, <2>2, <2>3, SMTT(30) DEF ProjectionInRange
<1> QED BY <1>1, CallsAnswered, PTL

\* Neither a product that tide_time_convert forms nor a sum or difference that
\* tide_edit_project_one forms leaves its type.
THEOREM NothingOverflows == Spec => []NoOverflow
<1>1. Answered => ConversionInRange
  <2> SUFFICES ASSUME Answered, call.op = "convert",
                      tide_rational_is_valid(call.args.source),
                      tide_rational_is_valid(call.args.destination)
               PROVE  LET p == Ratio(call.args.source, call.args.destination)
                      IN  call.args.value * p[1] \in I128 /\ 2 * p[2] \in I128
    BY DEF ConversionInRange
  <2>1. /\ call.args.value \in I64
        /\ call.args.source \in Rational /\ call.args.destination \in Rational
    BY DEF Answered, AnsweredConvert
  <2>2. PICK p : p = Ratio(call.args.source, call.args.destination)
    OBVIOUS
  <2>3. IsRatio(p, call.args.source, call.args.destination)
    BY <2>1, <2>2, RatioExact
  <2> QED BY <2>1, <2>2, <2>3, ConvertedInRange
<1> QED BY <1>1, CallsAnswered, ProjectionsInRange, PTL DEF NoOverflow

\* With edits of rate 1/1, a projection shows the packet in one edit, and a dropped packet
\* is in none.
THEOREM PiecesInsideEdits == Spec => []PieceInsideEdit
<1>1. Answered => PieceInsideEdit
  <2> SUFFICES ASSUME Answered, call.op = "project" PROVE PieceInsideEdit
    BY DEF PieceInsideEdit
  <2> DEFINE edits == call.args.edits
             pts == call.args.pts
             duration == call.args.duration
             packet == pts..(pts + duration - 1)
             piece(i) == Piece(edits[i], pts, duration)
             out(i) == edits[i].output_start + (piece(i).start - edits[i].source_start)
  <2>1. /\ edits \in Seq(Edit) /\ pts \in I64 /\ duration \in I64
        /\ result = tide_edit_project_one(edits, pts, duration)
    BY DEF Answered, AnsweredProject
  <2>2. /\ result.status = "OK" =>
             /\ result.out.duration > 0
             /\ \E i \in DOMAIN edits :
                  \A t \in result.out.pts..(result.out.pts + result.out.duration - 1) :
                    t \in Covers(edits[i]) /\ Shows(edits[i], t) \in packet
        /\ result.status = "PARTIAL" =>
             \A i \in DOMAIN edits : \A t \in Covers(edits[i]) :
               Shows(edits[i], t) \notin packet
        => PieceInsideEdit
    BY DEF PieceInsideEdit
  <2> HIDE DEF edits, pts, duration
  <2>3. ASSUME result.status = "OK"
        PROVE  /\ result.out.duration > 0
               /\ \E i \in DOMAIN edits :
                    \A t \in result.out.pts..(result.out.pts + result.out.duration - 1) :
                      t \in Covers(edits[i]) /\ Shows(edits[i], t) \in packet
    <3>1. duration >= 0
      BY <2>1, <2>3, ProjectOne
    <3>2. PICK i \in DOMAIN edits :
            /\ ~Refused(edits[i], pts, duration) /\ Overlaps(edits[i], pts, duration)
            /\ result = Projected(edits[i], piece(i))
      BY <2>1, <2>3, ProjectOne
    <3>3. edits[i] \in Edit
      BY <2>1
    <3>4. \A t \in out(i)..(out(i) + (piece(i).end - piece(i).start) - 1) :
            t \in Covers(edits[i]) /\ Shows(edits[i], t) \in packet
      BY <2>1, <3>1, <3>2, <3>3, EditPiece
    <3>5. result.out.pts = out(i) /\ result.out.duration = piece(i).end - piece(i).start
      <4>1. PICK s, d : s = out(i) /\ d = piece(i).end - piece(i).start
        BY Zenon
      <4>2. result.out = [pts |-> s, duration |-> d]
        BY <2>3, <3>2, <4>1, ProjectedPiece, Zenon
      <4> HIDE DEF out, piece
      <4> QED BY <4>1, <4>2
    <3>6. piece(i).end - piece(i).start > 0
      <4>1. edits[i].source_start \in Int /\ edits[i].output_duration \in Int
            /\ pts \in Int /\ duration \in Int
        BY <2>1, <3>3, EditFields
      <4>2. piece(i).end \in Int /\ piece(i).start \in Int
        BY <4>1 DEF Piece, Larger, Smaller
      <4> QED BY <3>2, <4>2 DEF Overlaps
    <3> HIDE DEF out, piece, packet
    <3> QED BY <3>4, <3>5, <3>6
  <2>4. ASSUME result.status = "PARTIAL", NEW i \in DOMAIN edits, NEW t \in Covers(edits[i])
        PROVE  Shows(edits[i], t) \notin packet
    <3>1. duration >= 0 /\ ~Refused(edits[i], pts, duration)
          /\ ~Overlaps(edits[i], pts, duration)
      BY <2>1, <2>4, ProjectOne
    <3>2. edits[i] \in Edit
      BY <2>1
    <3> QED BY <2>1, <3>1, <3>2, EditPiece
  <2> HIDE DEF packet
  <2> QED BY <2>2, <2>3, <2>4
<1> QED BY <1>1, CallsAnswered, PTL

=============================================================================
