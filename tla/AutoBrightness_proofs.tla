------------------------ MODULE AutoBrightness_proofs -----------------------
(***************************************************************************)
(* Proofs about the parts of automatic brightness: that a brighter room    *)
(* gives a brighter screen and the user's wish holds (CalculationManager); *)
(* that the light that counts follows one that lasts, never sticks, and no *)
(* document brings the service down (LightLuxManager); and that no sensor  *)
(* runs without automatic brightness, nor another than that of the display *)
(* in use (AmbientSensors).                                                *)
(***************************************************************************)
EXTENDS AmbientSensors, LightLuxManager, CalculationManager, FiniteSetTheorems,
        SequenceTheorems, WellFoundedInduction, TLAPS

-----------------------------------------------------------------------------
(* Least and greatest numbers. *)

\* A set of natural numbers that is not empty has a least one.
LEMMA LeastOf ==
    ASSUME NEW S \in SUBSET Nat, S # {}
    PROVE  Min(S) \in S /\ \A y \in S : Min(S) <= y
  <1>1. PICK x \in S : \A y \in S : ~(<<y, x>> \in OpToRel(<, Nat))
    BY NatLessThanWellFounded, WFMin
  <1>2. ASSUME NEW y \in S PROVE x <= y
    <2>1. ~(y < x)
      BY <1>1 DEF OpToRel
    <2> QED
      BY <2>1
  <1>3. \E z \in S : \A y \in S : z =< y
    BY <1>2
  <1> QED
    BY <1>3 DEF Min

\* A bounded one that is not empty has a greatest one.
LEMMA GreatestOf ==
    ASSUME NEW N \in Nat, NEW S \in SUBSET (0 .. N), S # {}
    PROVE  Max(S) \in S /\ \A y \in S : Max(S) >= y
  <1> DEFINE Mirror == {N - y : y \in S}
  <1>1. Mirror \in SUBSET Nat /\ Mirror # {}
    <2>1. \A y \in S : N - y \in Nat
      OBVIOUS
    <2> QED
      BY <2>1
  <1>2. Min(Mirror) \in Mirror /\ \A y \in Mirror : Min(Mirror) <= y
    <2> HIDE DEF Mirror
    <2> QED
      BY <1>1, LeastOf
  <1>3. PICK x \in S : Min(Mirror) = N - x
    BY <1>2
  <1>4. ASSUME NEW y \in S PROVE x >= y
    <2>1. N - x <= N - y
      BY <1>2, <1>3
    <2> QED
      BY <2>1
  <1>5. \E z \in S : \A y \in S : z >= y
    BY <1>4
  <1> QED
    BY <1>5 DEF Max

LEMMA OfTwo ==
    ASSUME NEW a \in Int, NEW b \in Int
    PROVE  /\ Min({a, b}) = IF a <= b THEN a ELSE b
           /\ Max({a, b}) = IF a <= b THEN b ELSE a
  <1>1. \E x \in {a, b} : \A y \in {a, b} : x =< y
    OBVIOUS
  <1>2. \E x \in {a, b} : \A y \in {a, b} : x >= y
    OBVIOUS
  <1>3. Min({a, b}) \in {a, b} /\ \A y \in {a, b} : Min({a, b}) =< y
    BY <1>1 DEF Min
  <1>4. Max({a, b}) \in {a, b} /\ \A y \in {a, b} : Max({a, b}) >= y
    BY <1>2 DEF Max
  <1> QED
    BY <1>3, <1>4

\* A downward closed set of positions is an interval from the first one.
LEMMA DownClosed ==
    ASSUME NEW N \in Nat, NEW D \in SUBSET (1 .. N),
           \A k \in D : \A i \in 1 .. k : i \in D
    PROVE  Cardinality(D) \in 0 .. N /\ D = 1 .. Cardinality(D)
  <1>1. CASE D = {}
    BY <1>1, FS_EmptySet
  <1>2. CASE D # {}
    <2>1. D \in SUBSET (0 .. N)
      OBVIOUS
    <2>2. PICK m : m = Max(D)
      OBVIOUS
    <2>3. m \in D /\ \A y \in D : m >= y
      BY <1>2, <2>1, <2>2, GreatestOf
    <2>4. m \in 1 .. N
      BY <2>3
    <2>5. D = 1 .. m
      <3>1. ASSUME NEW i \in 1 .. m PROVE i \in D
        BY <2>3, <3>1
      <3>2. ASSUME NEW i \in D PROVE i \in 1 .. m
        BY <2>3, <2>4
      <3> QED
        BY <3>1, <3>2
    <2>6. Cardinality(1 .. m) = m
      BY <2>4, FS_Interval
    <2> QED
      BY <2>4, <2>5, <2>6
  <1> QED
    BY <1>1, <1>2

-----------------------------------------------------------------------------
(* The points of a line. *)

\* ParsePointXy gives points, whatever stands in the array.
LEMMA ParsedPoints ==
    ASSUME NEW object, NEW key,
           Member(object, key, Foreign) \in {Foreign} \union Seq(PointXy \union {Foreign})
    PROVE  ParsePointXy(object, key) \in Seq(PointXy)
  <1> DEFINE array == Member(object, key, Foreign)
             ends == {i \in DOMAIN array : array[i] = Foreign} \union {Len(array) + 1}
  <1>1. CASE array = Foreign
    BY <1>1 DEF ParsePointXy
  <1>2. CASE array # Foreign
    <2>1. array \in Seq(PointXy \union {Foreign})
      BY <1>2
    <2> HIDE DEF array
    <2>2. ends \in SUBSET Nat /\ ends # {}
      BY <2>1
    <2>3. Min(ends) \in ends /\ \A i \in ends : Min(ends) <= i
      <3> HIDE DEF ends
      <3> QED
        BY <2>2, LeastOf
    <2>4. PICK m : m = Min(ends)
      OBVIOUS
    <2>5. m \in 1 .. Len(array) + 1 /\ \A i \in ends : m <= i
      BY <2>1, <2>3, <2>4
    <2>6. ASSUME NEW i \in 1 .. m - 1 PROVE array[i] \in PointXy
      <3>1. i \in DOMAIN array /\ i \notin ends
        BY <2>1, <2>5
      <3> QED
        BY <2>1, <3>1
    <2>7. SubSeq(array, 1, m - 1) \in Seq(PointXy)
      BY <2>5, <2>6, SubSeqProperties
    <2>8. ParsePointXy(object, key) = SubSeq(array, 1, m - 1)
      BY <1>2, <2>4 DEF ParsePointXy, array
    <2> QED
      BY <2>7, <2>8
  <1> QED
    BY <1>1, <1>2

\* Passed counts the points up to the first beyond lux.
LEMMA PassedPrefix ==
    ASSUME NEW points \in Seq(PointXy), NEW lux \in Int
    PROVE  /\ Passed(points, lux) \in 0 .. Len(points)
           /\ \A k \in 1 .. Len(points) :
                  k <= Passed(points, lux) <=> \A i \in 1 .. k : points[i].x <= lux
  <1> DEFINE D == {k \in DOMAIN points : \A i \in 1 .. k : points[i].x <= lux}
  <1>1. D \in SUBSET (1 .. Len(points)) /\ Len(points) \in Nat
    OBVIOUS
  <1>2. \A k \in D : \A i \in 1 .. k : i \in D
    OBVIOUS
  <1>3. Cardinality(D) \in 0 .. Len(points) /\ D = 1 .. Cardinality(D)
    <2> HIDE DEF D
    <2> QED
      BY <1>1, <1>2, DownClosed
  <1>4. Passed(points, lux) = Cardinality(D)
    BY DEF Passed
  <1>5. PICK c : c = Cardinality(D)
    OBVIOUS
  <1>6. \A k \in 1 .. Len(points) : k \in D <=> \A i \in 1 .. k : points[i].x <= lux
    OBVIOUS
  <1> HIDE DEF D
  <1>7. c \in 0 .. Len(points) /\ \A k \in 1 .. Len(points) : k \in D <=> k <= c
    BY <1>1, <1>3, <1>5
  <1> QED
    BY <1>4, <1>5, <1>6, <1>7

\* Division rounds down, so that it keeps an order and what is a multiple.
LEMMA DivBounds ==
    ASSUME NEW n \in Int, NEW c \in Nat \ {0}
    PROVE  n \div c \in Int /\ c * (n \div c) <= n /\ n < c * (n \div c) + c
  BY Z3

LEMMA DivAtLeast ==
    ASSUME NEW n \in Int, NEW c \in Nat \ {0}, NEW a \in Int, a * c <= n
    PROVE  a <= n \div c
  <1>1. PICK q \in Int : q = n \div c /\ n < c * q + c
    BY DivBounds
  <1>2. a * c < (q + 1) * c
    BY <1>1
  <1>3. a < q + 1
    BY <1>2, Z3
  <1> QED
    BY <1>1, <1>3

LEMMA DivAtMost ==
    ASSUME NEW n \in Int, NEW c \in Nat \ {0}, NEW a \in Int, n <= a * c
    PROVE  n \div c <= a
  <1>1. PICK q \in Int : q = n \div c /\ c * q <= n
    BY DivBounds
  <1>2. q * c <= a * c
    BY <1>1
  <1>3. q <= a
    BY <1>2, Z3
  <1> QED
    BY <1>1, <1>3

LEMMA DivRises ==
    ASSUME NEW m \in Int, NEW n \in Int, NEW c \in Nat \ {0}, m <= n
    PROVE  m \div c <= n \div c
  <1>1. PICK q \in Int : q = m \div c /\ c * q <= m
    BY DivBounds
  <1>2. q * c <= n
    BY <1>1
  <1> QED
    BY <1>1, <1>2, DivAtLeast

\* Between two points a line rises from the one to the other.
LEMMA LineBetween ==
    ASSUME NEW p \in PointXy, NEW q \in PointXy, p.x < q.x, p.y <= q.y,
           NEW x \in Int, p.x <= x, x <= q.x
    PROVE  OnLine(p, q, x) \in Int /\ p.y <= OnLine(p, q, x) /\ OnLine(p, q, x) <= q.y
  <1>1. PICK a \in Nat, b \in Nat, c \in Nat \ {0} :
            /\ a = q.y - p.y /\ b = x - p.x /\ c = q.x - p.x /\ b <= c
    <2>1. q.y - p.y \in Nat /\ x - p.x \in Nat /\ q.x - p.x \in Nat \ {0} /\ x - p.x <= q.x - p.x
      BY DEF PointXy
    <2> QED
      BY <2>1
  <1>2. a * b \in Int /\ 0 * c <= a * b /\ a * b <= a * c
    BY <1>1, Z3
  <1>3. (a * b) \div c \in Int /\ 0 <= (a * b) \div c /\ (a * b) \div c <= a
    BY <1>2, DivBounds, DivAtLeast, DivAtMost
  <1>4. OnLine(p, q, x) = p.y + (a * b) \div c
    BY <1>1 DEF OnLine
  <1>5. PICK d \in Int : d = (a * b) \div c
    BY <1>3
  <1> QED
    BY <1>1, <1>3, <1>4, <1>5 DEF PointXy

LEMMA LineRises ==
    ASSUME NEW p \in PointXy, NEW q \in PointXy, p.x < q.x, p.y <= q.y,
           NEW x \in Int, NEW z \in Int, x <= z
    PROVE  OnLine(p, q, x) <= OnLine(p, q, z)
  <1>1. PICK a \in Nat, b \in Int, e \in Int, c \in Nat \ {0} :
            a = q.y - p.y /\ b = x - p.x /\ e = z - p.x /\ c = q.x - p.x /\ b <= e
    <2>1. /\ q.y - p.y \in Nat /\ x - p.x \in Int /\ z - p.x \in Int /\ q.x - p.x \in Nat \ {0}
          /\ x - p.x <= z - p.x
      BY DEF PointXy
    <2> QED
      BY <2>1
  <1>2. a * b \in Int /\ a * e \in Int /\ a * b <= a * e
    BY <1>1, Z3
  <1>3. PICK d \in Int, f \in Int : d = (a * b) \div c /\ f = (a * e) \div c /\ d <= f
    BY <1>2, DivRises, DivBounds
  <1>4. OnLine(p, q, x) = p.y + d /\ OnLine(p, q, z) = p.y + f
    BY <1>1, <1>3 DEF OnLine
  <1> QED
    BY <1>3, <1>4 DEF PointXy

-----------------------------------------------------------------------------
(* The curve. *)

LEMMA CurveIsParsed ==
    ASSUME NEW file \in CurveFiles
    PROVE  CalculationConfig(file) \in Seq(PointXy)
  <1>1. DefaultPoints \in Seq(PointXy)
    BY DEF DefaultPoints, PointXy
  <1>2. Document(file) => ParsePointXy(file, "defaultPoints") \in Seq(PointXy)
    BY CurveFilesAssumption, ParsedPoints
  <1> QED
    BY <1>1, <1>2 DEF CalculationConfig

\* Without points the level is the same in every light.
LEMMA FlatCurve ==
    ASSUME defaultPoints = << >>, NEW lux \in Int
    PROVE  GetCurrentBrightness(lux) = FallbackBrightness
  <1>1. << >> \in Seq(PointXy) /\ Len(<< >>) = 0
    BY EmptySeq
  <1>2. Passed(defaultPoints, lux) = 0
    <2>1. Passed(<< >>, lux) \in 0 .. Len(<< >>)
      BY <1>1, PassedPrefix
    <2> QED
      BY <1>1, <2>1
  <1> QED
    BY <1>2 DEF GetCurrentBrightness

\* Where the curve stands in a light: at a point, or at the last, or between two.
LEMMA CurvePlace ==
    ASSUME defaultPoints \in Seq(PointXy), defaultPoints # << >>, Plausible, NEW lux \in Nat
    PROVE  \E k \in 1 .. Len(defaultPoints) :
               /\ k = Passed(defaultPoints, lux)
               /\ defaultPoints[k].x <= lux
               /\ k = Len(defaultPoints) => GetCurrentBrightness(lux) = defaultPoints[k].y
               /\ k < Len(defaultPoints) =>
                      /\ lux < defaultPoints[k + 1].x
                      /\ GetCurrentBrightness(lux) =
                             OnLine(defaultPoints[k], defaultPoints[k + 1], lux)
  <1> DEFINE N == Len(defaultPoints)
             k == Passed(defaultPoints, lux)
  <1>1. N \in Nat \ {0} /\ DOMAIN defaultPoints = 1 .. N
    BY EmptySeq
  <1>2. \A i \in 1 .. N : defaultPoints[i] \in PointXy
    BY <1>1
  <1>3. /\ k \in 0 .. N
        /\ \A j \in 1 .. N : j <= k <=> \A i \in 1 .. j : defaultPoints[i].x <= lux
    <2>1. lux \in Int
      OBVIOUS
    <2> QED
      BY <2>1, PassedPrefix
  <1>4. defaultPoints[1].x = 0
    BY DEF Plausible
  <1>5. k >= 1
    <2>1. 1 <= k <=> \A i \in 1 .. 1 : defaultPoints[i].x <= lux
      BY <1>1, <1>3
    <2> QED
      BY <1>3, <1>4, <2>1
  <1>6. defaultPoints[k].x <= lux
    BY <1>1, <1>3, <1>5
  <1>7. ASSUME k < N PROVE lux < defaultPoints[k + 1].x
    <2>1. k + 1 \in 1 .. N /\ ~(k + 1 <= k)
      BY <1>3, <1>5, <1>7
    <2>2. PICK i \in 1 .. k + 1 : ~(defaultPoints[i].x <= lux)
      BY <1>3, <2>1
    <2>3. i = k + 1
      <3>1. ASSUME i <= k PROVE FALSE
        BY <1>1, <1>3, <1>5, <2>2, <3>1
      <3> QED
        BY <1>3, <2>2, <3>1
    <2> QED
      BY <1>2, <2>1, <2>2, <2>3 DEF PointXy
  <1>8. GetCurrentBrightness(lux) =
            IF k = N THEN defaultPoints[k].y
            ELSE OnLine(defaultPoints[k], defaultPoints[k + 1], lux)
    BY <1>5 DEF GetCurrentBrightness
  <1> QED
    <2>1. k \in 1 .. Len(defaultPoints)
      BY <1>1, <1>3, <1>5
    <2> WITNESS k \in 1 .. Len(defaultPoints)
    <2> HIDE DEF k
    <2> QED
      BY <1>6, <1>7, <1>8, <2>1 DEF k

\* Plausible is the shape that is needed of two neighbours.
LEMMA Neighbours ==
    ASSUME defaultPoints \in Seq(PointXy), Plausible,
           NEW i \in 1 .. Len(defaultPoints), NEW j \in 1 .. Len(defaultPoints), i < j
    PROVE  /\ defaultPoints[i] \in PointXy /\ defaultPoints[j] \in PointXy
           /\ defaultPoints[i].x < defaultPoints[j].x
           /\ defaultPoints[i].y <= defaultPoints[j].y
  <1>1. DOMAIN defaultPoints = 1 .. Len(defaultPoints)
    OBVIOUS
  <1> QED
    BY <1>1 DEF Plausible, Ascending

LEMMA CurveInRange ==
    ASSUME defaultPoints \in Seq(PointXy), defaultPoints # << >>, Plausible, NEW lux \in Nat
    PROVE  GetCurrentBrightness(lux) \in 1 .. MAX_DEFAULT_BRIGHTNESS
  <1> DEFINE N == Len(defaultPoints)
  <1>1. PICK k \in 1 .. N :
            /\ defaultPoints[k].x <= lux
            /\ k = N => GetCurrentBrightness(lux) = defaultPoints[k].y
            /\ k < N => /\ lux < defaultPoints[k + 1].x
                        /\ GetCurrentBrightness(lux) =
                               OnLine(defaultPoints[k], defaultPoints[k + 1], lux)
    BY CurvePlace
  <1>2. \A i \in 1 .. N : defaultPoints[i].y \in 1 .. MAX_DEFAULT_BRIGHTNESS
    BY DEF Plausible
  <1>3. CASE k = N
    BY <1>1, <1>2, <1>3
  <1>4. CASE k < N
    <2>1. k + 1 \in 1 .. N /\ k < k + 1 /\ N \in Nat
      BY <1>4
    <2>2. PICK p \in PointXy, q \in PointXy : p = defaultPoints[k] /\ q = defaultPoints[k + 1]
      BY <2>1, Neighbours
    <2>3. p.x < q.x /\ p.y <= q.y
      BY <2>1, <2>2, Neighbours
    <2>4. lux \in Int /\ p.x <= lux /\ lux <= q.x
      BY <1>1, <1>4, <2>2 DEF PointXy
    <2>5. /\ OnLine(p, q, lux) \in Int
          /\ p.y <= OnLine(p, q, lux) /\ OnLine(p, q, lux) <= q.y
      BY <2>3, <2>4, LineBetween
    <2>6. GetCurrentBrightness(lux) = OnLine(p, q, lux)
      BY <1>1, <1>4, <2>2
    <2> QED
      BY <1>2, <2>1, <2>2, <2>5, <2>6, CalculationAssumption
  <1> QED
    BY <1>3, <1>4

LEMMA CurveRises ==
    ASSUME defaultPoints \in Seq(PointXy), Plausible,
           NEW lux \in Nat, NEW brighter \in Nat, lux <= brighter
    PROVE  GetCurrentBrightness(lux) <= GetCurrentBrightness(brighter)
  <1> DEFINE N == Len(defaultPoints)
  <1>1. CASE defaultPoints = << >>
    BY <1>1, FlatCurve, CalculationAssumption
  <1>2. CASE defaultPoints # << >>
    <2>1. PICK k \in 1 .. N :
              /\ defaultPoints[k].x <= lux
              /\ k = N => GetCurrentBrightness(lux) = defaultPoints[k].y
              /\ k < N => /\ lux < defaultPoints[k + 1].x
                          /\ GetCurrentBrightness(lux) =
                                 OnLine(defaultPoints[k], defaultPoints[k + 1], lux)
      BY <1>2, CurvePlace
    <2>2. PICK m \in 1 .. N :
              /\ defaultPoints[m].x <= brighter
              /\ m = N => GetCurrentBrightness(brighter) = defaultPoints[m].y
              /\ m < N => /\ brighter < defaultPoints[m + 1].x
                          /\ GetCurrentBrightness(brighter) =
                                 OnLine(defaultPoints[m], defaultPoints[m + 1], brighter)
      BY <1>2, CurvePlace
    <2>3. N \in Nat /\ \A i \in 1 .. N : defaultPoints[i] \in PointXy
      OBVIOUS
    <2>4. k <= m
      <3>1. ASSUME m < k PROVE FALSE
        <4>1. m + 1 \in 1 .. N /\ m < N
          BY <2>3, <3>1
        <4>2. defaultPoints[m + 1].x <= defaultPoints[k].x
          <5>1. CASE m + 1 = k
            BY <2>3, <5>1 DEF PointXy
          <5>2. CASE m + 1 < k
            <6>1. defaultPoints[m + 1].x < defaultPoints[k].x
              BY <4>1, <5>2, Neighbours
            <6> QED
              BY <2>3, <4>1, <6>1 DEF PointXy
          <5> QED
            BY <2>3, <3>1, <4>1, <5>1, <5>2
        <4> QED
          BY <2>1, <2>2, <2>3, <4>1, <4>2 DEF PointXy
      <3> QED
        BY <3>1
    <2>5. CASE k = m /\ k < N
      <3>1. k + 1 \in 1 .. N /\ k < k + 1
        BY <2>3, <2>5
      <3> QED
        BY <2>1, <2>2, <2>3, <2>5, <3>1, Neighbours, LineRises
    <2>6. CASE k = m /\ k = N
      BY <2>1, <2>2, <2>3, <2>6 DEF PointXy
    <2>7. CASE k < m
      <3>1. k + 1 \in 1 .. N /\ k < k + 1 /\ k < N
        BY <2>3, <2>7
      <3>2. PICK p \in PointXy, q \in PointXy, r \in PointXy :
                p = defaultPoints[k] /\ q = defaultPoints[k + 1] /\ r = defaultPoints[m]
        BY <2>3, <3>1
      <3>3. p.x < q.x /\ p.y <= q.y
        BY <3>1, <3>2, Neighbours
      <3>4. GetCurrentBrightness(lux) \in Int /\ GetCurrentBrightness(lux) <= q.y
        <4>1. lux \in Int /\ p.x <= lux /\ lux <= q.x
          BY <2>1, <3>1, <3>2 DEF PointXy
        <4>2. OnLine(p, q, lux) \in Int /\ OnLine(p, q, lux) <= q.y
          BY <3>3, <4>1, LineBetween
        <4> QED
          BY <2>1, <3>1, <3>2, <4>2
      <3>5. q.y <= r.y
        <4>1. CASE k + 1 = m
          BY <3>2, <4>1 DEF PointXy
        <4>2. CASE k + 1 < m
          BY <3>1, <3>2, <4>2, Neighbours
        <4> QED
          BY <2>7, <3>1, <4>1, <4>2
      <3>6. r.y <= GetCurrentBrightness(brighter) /\ GetCurrentBrightness(brighter) \in Int
        <4>1. CASE m = N
          BY <2>2, <3>2, <4>1 DEF PointXy
        <4>2. CASE m < N
          <5>1. m + 1 \in 1 .. N /\ m < m + 1
            BY <2>3, <4>2
          <5>2. PICK s \in PointXy : s = defaultPoints[m + 1]
            BY <2>3, <5>1
          <5>3. r.x < s.x /\ r.y <= s.y
            BY <3>2, <5>1, <5>2, Neighbours
          <5>4. brighter \in Int /\ r.x <= brighter /\ brighter <= s.x
            BY <2>2, <3>2, <4>2, <5>2 DEF PointXy
          <5>5. OnLine(r, s, brighter) \in Int /\ r.y <= OnLine(r, s, brighter)
            BY <5>3, <5>4, LineBetween
          <5> QED
            BY <2>2, <3>2, <4>2, <5>2, <5>5
        <4> QED
          BY <2>3, <4>1, <4>2
      <3>7. q.y \in Int /\ r.y \in Int
        BY DEF PointXy
      <3> QED
        BY <3>4, <3>5, <3>6, <3>7
    <2> QED
      BY <2>3, <2>4, <2>5, <2>6, <2>7
  <1> QED
    BY <1>1, <1>2

-----------------------------------------------------------------------------
(* The curve, bent to the user's wish. *)

LEMMA InRangeKeepsOrder ==
    ASSUME NEW a \in Int, NEW b \in Int, a <= b
    PROVE  InRange(a) \in Int /\ InRange(b) \in Int /\ InRange(a) <= InRange(b)
  <1> DEFINE lo == MIN_DEFAULT_BRIGHTNESS
             hi == MAX_DEFAULT_BRIGHTNESS
  <1>1. lo \in Int /\ hi \in Int
    BY CalculationAssumption
  <1>2. ASSUME NEW c \in Int
        PROVE  InRange(c) = LET d == IF c <= hi THEN c ELSE hi IN IF lo <= d THEN d ELSE lo
    <2> DEFINE d == IF c <= hi THEN c ELSE hi
    <2>1. Min({c, hi}) = d /\ d \in Int
      BY <1>1, OfTwo
    <2>2. Max({lo, d}) = IF lo <= d THEN d ELSE lo
      <3> HIDE DEF d
      <3> QED
        BY <1>1, <2>1, OfTwo
    <2> QED
      BY <2>1, <2>2 DEF InRange
  <1> HIDE DEF lo, hi
  <1> QED
    BY <1>1, <1>2

\* The fading of a wish for less, in lights brighter than that of the wish: it lies between the wish
\* and the curve, and rises.
Fading(start, end, pos) ==
    (end * (MAX_DEFAULT_BRIGHTNESS - start) + (pos - start) * (MAX_DEFAULT_BRIGHTNESS - end))
        \div (MAX_DEFAULT_BRIGHTNESS - start)

LEMMA FadingBetween ==
    ASSUME NEW start \in Int, NEW end \in Int, NEW pos \in Int,
           start < end, end <= MAX_DEFAULT_BRIGHTNESS, pos < start
    PROVE  /\ Fading(start, end, pos) \in Int
           /\ pos <= Fading(start, end, pos) /\ Fading(start, end, pos) <= end
  <1>1. PICK m \in Int : m = MAX_DEFAULT_BRIGHTNESS /\ end <= m
    BY CalculationAssumption
  <1>2. m - start \in Nat \ {0}
    BY <1>1
  <1>3. PICK n \in Int : n = end * (m - start) + (pos - start) * (m - end)
    OBVIOUS
  <1>4. n - pos * (m - start) = (end - start) * (m - pos)
    BY <1>3, Z3
  <1>5. (end - start) * (m - pos) >= 0
    <2>1. end - start \in Nat /\ m - pos \in Nat
      BY <1>1
    <2> QED
      BY <2>1, Z3
  <1>6. (start - pos) * (m - end) >= 0
    <2>1. start - pos \in Nat /\ m - end \in Nat
      BY <1>1
    <2> QED
      BY <2>1, Z3
  <1>7. (pos - start) * (m - end) = - ((start - pos) * (m - end))
    BY Z3
  <1>8. pos * (m - start) <= n
    BY <1>4, <1>5
  <1>9. n <= end * (m - start)
    BY <1>3, <1>6, <1>7
  <1>10. n \div (m - start) \in Int /\ pos <= n \div (m - start) /\ n \div (m - start) <= end
    BY <1>2, <1>8, <1>9, DivBounds, DivAtLeast, DivAtMost
  <1> QED
    BY <1>1, <1>3, <1>10 DEF Fading

LEMMA FadingRises ==
    ASSUME NEW start \in Int, NEW end \in Int, NEW next \in Int, NEW pos \in Int,
           start < end, end <= next, next <= MAX_DEFAULT_BRIGHTNESS, pos < start
    PROVE  Fading(start, end, pos) <= Fading(start, next, pos)
  <1>1. PICK m \in Int : m = MAX_DEFAULT_BRIGHTNESS /\ next <= m
    BY CalculationAssumption
  <1>2. m - start \in Nat \ {0}
    BY <1>1
  <1>3. PICK n \in Int, o \in Int : /\ n = end * (m - start) + (pos - start) * (m - end)
                                    /\ o = next * (m - start) + (pos - start) * (m - next)
    OBVIOUS
  <1>4. o - n = (next - end) * (m - pos)
    BY <1>3, Z3
  <1>5. (next - end) * (m - pos) >= 0
    <2>1. next - end \in Nat /\ m - pos \in Nat
      BY <1>1
    <2> QED
      BY <2>1, Z3
  <1>6. n <= o
    BY <1>4, <1>5
  <1>7. n \div (m - start) <= o \div (m - start)
    BY <1>2, <1>6, DivRises
  <1> QED
    BY <1>1, <1>3, <1>7 DEF Fading

\* What the wish makes of a level of the curve.
LEMMA BentCases ==
    ASSUME NEW start \in Int, NEW end \in Int, NEW pos \in Int
    PROVE  BentLevel(start, end, pos) =
               IF start < end /\ pos > start THEN IF end <= pos THEN pos ELSE end
               ELSE IF start < end /\ pos < start THEN Fading(start, end, pos)
               ELSE IF start > end /\ pos < start THEN IF end <= pos THEN end ELSE pos
               ELSE end + (pos - start)
  <1>1. /\ Min({end, pos}) = IF end <= pos THEN end ELSE pos
        /\ Max({end, pos}) = IF end <= pos THEN pos ELSE end
    BY OfTwo
  <1>2. (pos - start > 0 <=> pos > start) /\ (pos - start < 0 <=> pos < start)
    OBVIOUS
  <1>3. CASE start < end /\ pos > start
    BY <1>1, <1>2, <1>3 DEF BentLevel
  <1>4. CASE start < end /\ pos < start
    BY <1>1, <1>2, <1>4 DEF BentLevel, Fading
  <1>5. CASE start > end /\ pos < start
    BY <1>1, <1>2, <1>5 DEF BentLevel
  <1>6. CASE ~(start < end /\ pos > start) /\ ~(start < end /\ pos < start)
             /\ ~(start > end /\ pos < start)
    BY <1>1, <1>2, <1>6 DEF BentLevel
  <1> QED
    BY <1>3, <1>4, <1>5, <1>6

\* Bending keeps the order of two levels, and at the level of the wish gives the wish.
LEMMA BentRises ==
    ASSUME NEW start \in Int, NEW end \in Int, NEW next \in Int, NEW pos \in Int,
           end <= next, start < next => next <= MAX_DEFAULT_BRIGHTNESS
    PROVE  /\ BentLevel(start, end, pos) \in Int /\ BentLevel(start, next, pos) \in Int
           /\ BentLevel(start, end, pos) <= BentLevel(start, next, pos)
  <1>0. MAX_DEFAULT_BRIGHTNESS \in Int
    BY CalculationAssumption
  <1>1. /\ start < end /\ pos < start =>
               /\ Fading(start, end, pos) \in Int
               /\ Fading(start, end, pos) <= Fading(start, next, pos)
        /\ start < next /\ pos < start =>
               Fading(start, next, pos) \in Int /\ pos <= Fading(start, next, pos)
    BY <1>0, FadingBetween, FadingRises
  <1>2. PICK f, g : f = Fading(start, end, pos) /\ g = Fading(start, next, pos)
    OBVIOUS
  <1>a. PICK u \in Int, v \in Int : /\ u = end + (pos - start) /\ v = next + (pos - start)
                                   /\ u <= v /\ (pos = start => u = end /\ v = next)
                                   /\ (end = start => u = pos) /\ (next = start => v = pos)
    <2>1. /\ end + (pos - start) \in Int /\ next + (pos - start) \in Int
          /\ end + (pos - start) <= next + (pos - start)
      OBVIOUS
    <2> QED
      BY <2>1
  <1>3. BentLevel(start, end, pos) =
               IF start < end /\ pos > start THEN IF end <= pos THEN pos ELSE end
               ELSE IF start < end /\ pos < start THEN f
               ELSE IF start > end /\ pos < start THEN IF end <= pos THEN end ELSE pos
               ELSE u
    BY <1>2, <1>a, BentCases
  <1>4. BentLevel(start, next, pos) =
               IF start < next /\ pos > start THEN IF next <= pos THEN pos ELSE next
               ELSE IF start < next /\ pos < start THEN g
               ELSE IF start > next /\ pos < start THEN IF next <= pos THEN next ELSE pos
               ELSE v
    BY <1>2, <1>a, BentCases
  <1>5. CASE pos > start
    <2>1. /\ BentLevel(start, end, pos) =
                 IF start < end THEN IF end <= pos THEN pos ELSE end ELSE u
          /\ BentLevel(start, next, pos) =
                 IF start < next THEN IF next <= pos THEN pos ELSE next ELSE v
      BY <1>3, <1>4, <1>5
    <2> QED
      BY <1>5, <1>a, <2>1
  <1>6. CASE pos = start
    <2>1. BentLevel(start, end, pos) = end /\ BentLevel(start, next, pos) = next
      <3>1. ~(pos > start) /\ ~(pos < start)
        BY <1>6
      <3> QED
        BY <1>3, <1>4, <1>6, <1>a, <3>1
    <2> QED
      BY <2>1
  <1>7. CASE pos < start
    <2>1. CASE start < end
      <3>1. start < next
        BY <2>1
      <3>2. BentLevel(start, end, pos) = f /\ BentLevel(start, next, pos) = g
        BY <1>3, <1>4, <1>7, <2>1, <3>1
      <3> QED
        BY <1>1, <1>2, <1>7, <2>1, <3>1, <3>2
    <2>2. CASE end <= start /\ start < next
      <3>1. BentLevel(start, end, pos) \in Int /\ BentLevel(start, end, pos) <= pos
        BY <1>3, <1>7, <1>a, <2>2
      <3>2. BentLevel(start, next, pos) = g
        BY <1>4, <1>7, <2>2
      <3> QED
        BY <1>1, <1>2, <1>7, <2>2, <3>1, <3>2
    <2>3. CASE next <= start
      <3>1. end <= start
        BY <2>3
      <3> QED
        <4>1. /\ BentLevel(start, end, pos) = IF start > end /\ end <= pos THEN end ELSE pos
              /\ BentLevel(start, next, pos) = IF start > next /\ next <= pos THEN next ELSE pos
          <5>1. /\ ~(start < end) /\ ~(start < next) /\ ~(pos > start)
                /\ ~(start > end) => end = start
                /\ ~(start > next) => next = start
            BY <1>7, <2>3, <3>1
          <5>2. BentLevel(start, end, pos) = IF start > end /\ end <= pos THEN end ELSE pos
            BY <1>3, <1>7, <1>a, <5>1
          <5>3. BentLevel(start, next, pos) = IF start > next /\ next <= pos THEN next ELSE pos
            BY <1>4, <1>7, <1>a, <5>1
          <5> QED
            BY <5>2, <5>3
        <4> QED
          BY <4>1, <2>3, <1>7
    <2> QED
      BY <2>1, <2>2, <2>3
  <1> QED
    BY <1>5, <1>6, <1>7

\* A wish for more never lowers a level, a wish for less never raises one.
LEMMA BentSide ==
    ASSUME NEW start \in Int, NEW end \in Int, NEW pos \in Int,
           start < end => end <= MAX_DEFAULT_BRIGHTNESS
    PROVE  /\ pos > start => end <= BentLevel(start, end, pos)
           /\ pos <= start => BentLevel(start, end, pos) <= end
           /\ end = start => BentLevel(start, end, pos) = pos
  <1>0. MAX_DEFAULT_BRIGHTNESS \in Int
    BY CalculationAssumption
  <1>1. start < end /\ pos < start =>
            Fading(start, end, pos) \in Int /\ Fading(start, end, pos) <= end
    BY <1>0, FadingBetween
  <1>2. PICK f : f = Fading(start, end, pos)
    OBVIOUS
  <1>3. BentLevel(start, end, pos) =
               IF start < end /\ pos > start THEN IF end <= pos THEN pos ELSE end
               ELSE IF start < end /\ pos < start THEN f
               ELSE IF start > end /\ pos < start THEN IF end <= pos THEN end ELSE pos
               ELSE end + (pos - start)
    BY <1>2, BentCases
  <1> QED
    BY <1>1, <1>2, <1>3

\* The offset is always made of a light of the room: mStartLuxDefaultBrightness is a level of the
\* curve, as are the levels it is compared with, and a wish that counts is that of the offset.
WishInv ==
    /\ defaultPoints \in Seq(PointXy)
    /\ mPosBrightness \in Nat
    /\ mPosBrightness # 0 =>
           \E lux \in Lights : mStartLuxDefaultBrightness = GetCurrentBrightness(lux)
    /\ mLastLuxDefaultBrightness # 0 =>
           \E lux \in Lights : mLastLuxDefaultBrightness = GetCurrentBrightness(lux)
    /\ wish # NoWish =>
           /\ wish.light \in Lights /\ wish.level = mPosBrightness /\ wish.level # 0
           /\ mStartLuxDefaultBrightness = GetCurrentBrightness(wish.light)
           /\ Plausible => mLastLuxDefaultBrightness > 0

LEMMA WishInvInit == CalculationInit => WishInv
  BY CurveIsParsed DEF CalculationInit, WishInv

LEMMA CurveIsLevel ==
    ASSUME defaultPoints \in Seq(PointXy), Plausible, NEW lux \in Nat
    PROVE  GetCurrentBrightness(lux) \in Nat
  <1>1. CASE defaultPoints = << >>
    BY <1>1, FlatCurve, CalculationAssumption
  <1>2. CASE defaultPoints # << >>
    BY <1>2, CurveInRange, CalculationAssumption
  <1> QED
    BY <1>1, <1>2

\* A curve that is dark in some light is dark in all, and then no wish counts.
LEMMA LightEverywhere ==
    ASSUME defaultPoints \in Seq(PointXy), Plausible, NEW lux \in Nat, NEW other \in Nat,
           GetCurrentBrightness(lux) > 0
    PROVE  GetCurrentBrightness(other) > 0
  <1>1. CASE defaultPoints = << >>
    BY <1>1, FlatCurve
  <1>2. CASE defaultPoints # << >>
    BY <1>2, CurveInRange, CalculationAssumption
  <1> QED
    BY <1>1, <1>2

LEMMA WishStep == WishInv /\ [CalculationNext]_calculationVars => WishInv'
  <1> SUFFICES ASSUME WishInv, [CalculationNext]_calculationVars PROVE WishInv'
    OBVIOUS
  <1> USE DEF WishInv
  <1>0. Lights \subseteq Nat /\ Wishes \subseteq Nat
    BY CalculationAssumption
  <1>1. UNCHANGED defaultPoints
    BY DEF CalculationNext, calculationVars, GetInterpolatedValue, UpdateBrightnessOffset,
       ResetDefaultBrightnessOffset
  <1>2. /\ \A lux : GetCurrentBrightness(lux)' = GetCurrentBrightness(lux)
        /\ Plausible' = Plausible
    BY <1>1, Zenon DEF GetCurrentBrightness, Plausible
  <1>3. CASE UNCHANGED calculationVars
    BY <1>1, <1>2, <1>3 DEF calculationVars, offset
  <1>4. ASSUME NEW lux \in Lights, GetInterpolatedValue(lux) PROVE WishInv'
    <2>1. mLastLuxDefaultBrightness' = GetCurrentBrightness(lux)
      BY <1>4 DEF GetInterpolatedValue
    <2>2. CASE Dropped
      BY <1>1, <1>2, <1>4, <2>1, <2>2 DEF GetInterpolatedValue, ForgetOffset
    <2>3. CASE ~Dropped
      <3>1. UNCHANGED <<mPosBrightness, mStartLuxDefaultBrightness, wish>>
        BY <1>4, <2>3 DEF GetInterpolatedValue, offset
      <3>2. ASSUME wish # NoWish, Plausible PROVE GetCurrentBrightness(lux) > 0
        <4>1. PICK other \in Lights : mLastLuxDefaultBrightness = GetCurrentBrightness(other)
          BY <3>2
        <4>2. GetCurrentBrightness(other) > 0
          BY <3>2, <4>1
        <4> QED
          BY <1>0, <3>2, <4>2, LightEverywhere
      <3> QED
        BY <1>1, <1>2, <2>1, <3>1, <3>2
    <2> QED
      BY <2>2, <2>3
  <1>5. CASE ResetDefaultBrightnessOffset
    BY <1>1, <1>2, <1>5 DEF ResetDefaultBrightnessOffset, ForgetOffset
  <1>6. ASSUME NEW pos \in Wishes \union {0}, NEW lux \in Lights, pos # 0,
               mStartLuxDefaultBrightness' = GetCurrentBrightness(lux), mPosBrightness' = pos,
               wish' = IF mLastLuxDefaultBrightness > 0 THEN [light |-> lux, level |-> pos]
                       ELSE NoWish,
               UNCHANGED mLastLuxDefaultBrightness
        PROVE  WishInv'
    <2>1. pos \in Nat
      BY <1>0
    <2>2. wish' # NoWish =>
              /\ wish'.light = lux /\ wish'.level = pos
              /\ mLastLuxDefaultBrightness' > 0
      BY <1>6
    <2> QED
      BY <1>1, <1>2, <1>6, <2>1, <2>2
  <1>7. ASSUME NEW pos \in Wishes \union {0}, NEW lux \in Lights, UpdateBrightnessOffset(pos, lux)
        PROVE  WishInv'
    BY <1>3, <1>5, <1>6, <1>7 DEF UpdateBrightnessOffset
  <1> QED
    BY <1>3, <1>4, <1>7 DEF CalculationNext

\* A level above another one of the curve is at most the greatest.
LEMMA CurveBelowMax ==
    ASSUME WishInv, Plausible, NEW from \in Nat, NEW lux \in Nat,
           GetCurrentBrightness(from) < GetCurrentBrightness(lux)
    PROVE  GetCurrentBrightness(lux) <= MAX_DEFAULT_BRIGHTNESS
  <1>1. CASE defaultPoints = << >>
    BY <1>1, FlatCurve, CalculationAssumption
  <1>2. CASE defaultPoints # << >>
    BY <1>2, CurveInRange, CalculationAssumption DEF WishInv
  <1> QED
    BY <1>1, <1>2

LEMMA WishOrder == WishInv => BrighterRoomBrighterScreen
  <1> SUFFICES ASSUME WishInv, Plausible, NEW lux \in Lights, NEW brighter \in Lights,
                      lux <= brighter
               PROVE  LevelIn(lux) <= LevelIn(brighter)
    BY DEF BrighterRoomBrighterScreen
  <1>0. Lights \subseteq Nat /\ defaultPoints \in Seq(PointXy)
    BY CalculationAssumption DEF WishInv
  <1>1. \A l \in Lights : GetCurrentBrightness(l) \in Nat
    BY <1>0, CurveIsLevel
  <1>2. GetCurrentBrightness(lux) <= GetCurrentBrightness(brighter)
    BY <1>0, CurveRises
  <1>3. CASE mPosBrightness = 0 \/ Dropped
    BY <1>2, <1>3 DEF LevelIn
  <1>4. CASE ~(mPosBrightness = 0 \/ Dropped)
    <2>1. PICK start \in Int : /\ start = mStartLuxDefaultBrightness
                               /\ \E from \in Lights : start = GetCurrentBrightness(from)
      BY <1>1, <1>4 DEF WishInv
    <2>2. PICK end \in Int, next \in Int :
              end = GetCurrentBrightness(lux) /\ next = GetCurrentBrightness(brighter)
      BY <1>1
    <2>3. start < next => next <= MAX_DEFAULT_BRIGHTNESS
      BY <1>0, <2>1, <2>2, CurveBelowMax
    <2>4. PICK pos \in Int : pos = mPosBrightness
      BY DEF WishInv
    <2>5. end <= next
      BY <1>2, <2>2
    <2>6. /\ BentLevel(start, end, pos) \in Int /\ BentLevel(start, next, pos) \in Int
          /\ BentLevel(start, end, pos) <= BentLevel(start, next, pos)
      BY <2>3, <2>5, BentRises
    <2>7. InRange(BentLevel(start, end, pos)) <= InRange(BentLevel(start, next, pos))
      BY <2>6, InRangeKeepsOrder
    <2> QED
      BY <1>4, <2>1, <2>2, <2>4, <2>7 DEF LevelIn, GetOffsetLevel
  <1> QED
    BY <1>3, <1>4

LEMMA WishHeld == WishInv => WishHolds
  <1> SUFFICES ASSUME WishInv, Plausible, wish # NoWish PROVE WishHolds
    BY DEF WishHolds
  <1>0. Lights \subseteq Nat /\ defaultPoints \in Seq(PointXy)
    BY CalculationAssumption DEF WishInv
  <1>1. \A l \in Lights : GetCurrentBrightness(l) \in Nat
    BY <1>0, CurveIsLevel
  <1>2. /\ wish.light \in Lights /\ wish.level = mPosBrightness /\ mPosBrightness \in Nat \ {0}
        /\ mStartLuxDefaultBrightness = GetCurrentBrightness(wish.light)
        /\ mLastLuxDefaultBrightness > 0
    BY DEF WishInv
  <1>3. ~Dropped
    <2>1. mLastLuxDefaultBrightness # 0
      BY <1>2
    <2>2. mLastLuxDefaultBrightness \in Nat
      BY <1>1, <2>1 DEF WishInv
    <2> QED
      BY <1>2, <2>2 DEF Dropped
  <1>4. PICK start \in Nat, pos \in Nat :
            /\ start = GetCurrentBrightness(wish.light) /\ start = mStartLuxDefaultBrightness
            /\ pos = wish.level /\ pos = mPosBrightness
    BY <1>1, <1>2
  <1>5. \A lux \in Lights :
            LevelIn(lux) = InRange(BentLevel(start, GetCurrentBrightness(lux), pos))
    BY <1>2, <1>3, <1>4 DEF LevelIn, GetOffsetLevel
  <1>6. ASSUME NEW lux \in Lights
        PROVE  LET end == GetCurrentBrightness(lux) IN
               /\ end \in Int /\ BentLevel(start, end, pos) \in Int
               /\ pos > start => end <= BentLevel(start, end, pos)
               /\ pos <= start => BentLevel(start, end, pos) <= end
               /\ end = start => BentLevel(start, end, pos) = pos
    <2>1. PICK end \in Nat : end = GetCurrentBrightness(lux)
      BY <1>1
    <2>2. start < end => end <= MAX_DEFAULT_BRIGHTNESS
      BY <1>0, <1>2, <1>4, <2>1, CurveBelowMax
    <2>3. BentLevel(start, end, pos) \in Int
      BY <2>2, BentRises
    <2> QED
      BY <2>1, <2>2, <2>3, BentSide
  <1>7. LevelIn(wish.light) = InRange(wish.level)
    BY <1>2, <1>4, <1>5, <1>6
  <1>8. ASSUME NEW lux \in Lights
        PROVE  LET curve == InRange(GetCurrentBrightness(lux))
               IN  IF wish.level > GetCurrentBrightness(wish.light) THEN LevelIn(lux) >= curve
                   ELSE LevelIn(lux) <= curve
    <2>1. PICK end \in Int, bent \in Int :
              /\ end = GetCurrentBrightness(lux) /\ bent = BentLevel(start, end, pos)
              /\ pos > start => end <= bent
              /\ pos <= start => bent <= end
      BY <1>6
    <2>2. CASE pos > start
      <3>1. InRange(end) \in Int /\ InRange(bent) \in Int /\ InRange(end) <= InRange(bent)
        BY <2>1, <2>2, InRangeKeepsOrder
      <3> QED
        BY <1>4, <1>5, <2>1, <2>2, <3>1
    <2>3. CASE pos <= start
      <3>1. InRange(bent) <= InRange(end)
        BY <2>1, <2>3, InRangeKeepsOrder
      <3> QED
        BY <1>4, <1>5, <2>1, <2>3, <3>1
    <2> QED
      BY <2>2, <2>3
  <1> QED
    BY <1>7, <1>8 DEF WishHolds

\* BrightnessCalculationManager: for every curve that rises, in any room and whatever the user
\* wished, a brighter room never gets a darker screen.
THEOREM BrighterIsBrighter == CalculationSpec => []BrighterRoomBrighterScreen
  BY WishInvInit, WishStep, WishOrder, PTL DEF CalculationSpec

\* For every such curve the level the user chose is the level in that light, whatever lights came
\* between, and it pulls the curve to its side everywhere.
THEOREM WishIsHeld == CalculationSpec => []WishHolds
  BY WishInvInit, WishStep, WishHeld, PTL DEF CalculationSpec

-----------------------------------------------------------------------------
(* Sums. *)

LEMMA OneLess ==
    ASSUME NEW D, IsFiniteSet(D), NEW s \in SUBSET D, s # {}
    PROVE  LET i == CHOOSE x \in s : TRUE IN
           /\ i \in s /\ s \ {i} \in SUBSET D
           /\ Cardinality(s) \in Nat /\ Cardinality(s \ {i}) = Cardinality(s) - 1
  <1>1. IsFiniteSet(s) /\ Cardinality(s) \in Nat
    BY FS_Subset, FS_CardinalityType
  <1>2. PICK i : i = CHOOSE x \in s : TRUE
    OBVIOUS
  <1>3. i \in s
    BY <1>2
  <1>4. Cardinality(s \ {i}) = Cardinality(s) - 1
    BY <1>1, <1>3, FS_RemoveElement
  <1> QED
    BY <1>1, <1>2, <1>3, <1>4

\* One step of the sum over a set of positions.
Add(values, s, rest) ==
    IF s = {} THEN 0 ELSE LET i == CHOOSE x \in s : TRUE IN values[i] + rest[s \ {i}]

\* The sum is defined for sets of any size, by induction on it.
LEMMA SumExists ==
    ASSUME NEW D, IsFiniteSet(D), NEW values \in [D -> Int]
    PROVE  \E sum \in [SUBSET D -> Int] : \A s \in SUBSET D : sum[s] = Add(values, s, sum)
  <1> DEFINE Upto(k) == {s \in SUBSET D : Cardinality(s) <= k}
             Defined(k) == \E sum \in [Upto(k) -> Int] :
                               \A s \in Upto(k) : sum[s] = Add(values, s, sum)
             Bad == {k \in Nat : ~Defined(k)}
  <1>1. ASSUME NEW s \in SUBSET D
        PROVE  /\ Cardinality(s) \in Nat /\ Cardinality(s) <= Cardinality(D)
               /\ Cardinality(s) = 0 <=> s = {}
    BY FS_Subset, FS_CardinalityType, FS_EmptySet
  <1>2. Defined(0)
    <2> DEFINE sum == [s \in Upto(0) |-> 0]
    <2>1. sum \in [Upto(0) -> Int]
      OBVIOUS
    <2>2. ASSUME NEW s \in Upto(0) PROVE sum[s] = Add(values, s, sum)
      BY <1>1 DEF Add
    <2> QED
      BY <2>1, <2>2
  <1>3. ASSUME NEW k \in Nat, Defined(k) PROVE Defined(k + 1)
    <2>1. PICK sum \in [Upto(k) -> Int] : \A s \in Upto(k) : sum[s] = Add(values, s, sum)
      BY <1>3
    <2> DEFINE more == [s \in Upto(k + 1) |-> Add(values, s, sum)]
    <2>2. ASSUME NEW s \in Upto(k + 1)
          PROVE  Add(values, s, sum) \in Int /\ Add(values, s, sum) = Add(values, s, more)
      <3>1. CASE s = {}
        BY <3>1 DEF Add
      <3>2. CASE s # {}
        <4>1. PICK i \in s : /\ i = CHOOSE x \in s : TRUE
                             /\ s \ {i} \in SUBSET D
                             /\ Cardinality(s) \in Nat
                             /\ Cardinality(s \ {i}) = Cardinality(s) - 1
          BY <3>2, OneLess
        <4>2. s \ {i} \in Upto(k) /\ s \ {i} \in Upto(k + 1)
          BY <4>1
        <4>3. more[s \ {i}] = sum[s \ {i}] /\ sum[s \ {i}] \in Int
          BY <2>1, <4>2
        <4>4. values[i] \in Int
          OBVIOUS
        <4> HIDE DEF more
        <4>5. /\ Add(values, s, sum) = values[i] + sum[s \ {i}]
              /\ Add(values, s, more) = values[i] + more[s \ {i}]
          BY <3>2, <4>1 DEF Add
        <4>6. PICK a \in Int, b \in Int : a = values[i] /\ b = sum[s \ {i}] /\ b = more[s \ {i}]
          BY <4>3, <4>4
        <4>7. Add(values, s, sum) = a + b /\ Add(values, s, more) = a + b
          BY <4>5, <4>6
        <4> QED
          BY <4>7
      <3> QED
        BY <3>1, <3>2
    <2>3. more \in [Upto(k + 1) -> Int] /\ \A s \in Upto(k + 1) : more[s] = Add(values, s, more)
      BY <2>2
    <2> QED
      BY <2>3
  <1>4. Bad = {}
    <2>1. SUFFICES ASSUME Bad # {} PROVE FALSE
      OBVIOUS
    <2>2. PICK k \in Nat : k \in Bad /\ \A m \in Bad : k <= m
      <3>1. Bad \in SUBSET Nat
        OBVIOUS
      <3> HIDE DEF Bad
      <3> QED
        BY <2>1, <3>1, LeastOf
    <2>3. k # 0
      BY <1>2, <2>2
    <2>4. k - 1 \in Nat /\ ~(k <= k - 1)
      BY <2>3
    <2>5. Defined(k - 1)
      <3> HIDE DEF Defined
      <3> QED
        BY <2>2, <2>4
    <2>6. Defined((k - 1) + 1)
      <3> HIDE DEF Defined
      <3> QED
        BY <1>3, <2>4, <2>5
    <2>7. (k - 1) + 1 = k
      OBVIOUS
    <2> HIDE DEF Defined
    <2> QED
      BY <2>2, <2>6, <2>7
  <1>5. PICK n \in Nat : n = Cardinality(D)
    BY FS_CardinalityType
  <1>6. Defined(n)
    <2> HIDE DEF Defined
    <2> QED
      BY <1>4
  <1>7. Upto(n) = SUBSET D
    BY <1>1, <1>5
  <1> QED
    BY <1>6, <1>7

\* FoldSeq with the lambda of CalcSmoothLux adds up the readings.
LEMMA SumIsInteger ==
    ASSUME NEW samples \in Seq([time : Int, lux : Int])
    PROVE  FoldSeq(LAMBDA sample, sum : sample.lux + sum, 0, samples) \in Int
  <1> DEFINE D == DOMAIN samples
             values == [i \in D |-> samples[i].lux]
             Step(g) == [s \in SUBSET D |->
                            IF s = {} THEN 0
                            ELSE LET i == CHOOSE x \in s : TRUE IN samples[i].lux + g[s \ {i}]]
             total == CHOOSE g : g = Step(g)
  <1>1. FoldSeq(LAMBDA sample, sum : sample.lux + sum, 0, samples) = total[D]
    BY DEF FoldSeq, FoldFunction, FoldFunctionOnSet, MapThenFoldSet
  <1>2. IsFiniteSet(D) /\ values \in [D -> Int]
    <2>1. D = 1 .. Len(samples) /\ Len(samples) \in Nat
      OBVIOUS
    <2>2. IsFiniteSet(D)
      BY <2>1, FS_Interval
    <2>3. ASSUME NEW i \in D PROVE samples[i].lux \in Int
      <3>1. samples[i] \in [time : Int, lux : Int]
        BY <2>1, ElementOfSeq
      <3> QED
        BY <3>1
    <2> QED
      BY <2>2, <2>3
  <1>3. PICK sum \in [SUBSET D -> Int] : \A s \in SUBSET D : sum[s] = Add(values, s, sum)
    <2> HIDE DEF D, values
    <2> QED
      BY <1>2, SumExists
  <1>4. ASSUME NEW g, NEW s \in SUBSET D
        PROVE  Add(values, s, g) = Step(g)[s]
    BY DEF Add
  <1>5. sum = Step(sum)
    BY <1>3, <1>4
  <1>6. total = Step(total)
    <2> HIDE DEF Step
    <2> QED
      BY <1>5
  <1>7. ASSUME NEW s \in SUBSET D, NEW i \in s, i = CHOOSE x \in s : TRUE, total[s \ {i}] \in Int
        PROVE  total[s] \in Int
    <2>1. total[s] = samples[i].lux + total[s \ {i}]
      <3> HIDE DEF total
      <3>1. s # {} /\ total[s] = Step(total)[s]
        BY <1>6
      <3> QED
        BY <1>7, <3>1
    <2> HIDE DEF total
    <2>2. samples[i].lux \in Int
      <3>1. i \in D /\ values[i] \in Int
        BY <1>2
      <3> QED
        BY <3>1
    <2>3. PICK a \in Int, b \in Int : a = samples[i].lux /\ b = total[s \ {i}]
      BY <1>7, <2>2
    <2> QED
      BY <2>1, <2>3
  <1>8. total[{}] = 0
    <2> HIDE DEF total
    <2>1. total[{}] = Step(total)[{}]
      BY <1>6
    <2> QED
      BY <2>1
  <1> HIDE DEF total, D
  <1> DEFINE Bad == {k \in Nat : \E s \in SUBSET D : Cardinality(s) = k /\ total[s] \notin Int}
  <1>9. Bad = {}
    <2>1. SUFFICES ASSUME Bad # {} PROVE FALSE
      OBVIOUS
    <2>2. PICK k \in Nat : k \in Bad /\ \A m \in Bad : k <= m
      <3>1. Bad \in SUBSET Nat
        OBVIOUS
      <3> HIDE DEF Bad
      <3> QED
        BY <2>1, <3>1, LeastOf
    <2>3. PICK s \in SUBSET D : Cardinality(s) = k /\ total[s] \notin Int
      BY <2>2
    <2>4. s # {}
      <3>1. SUFFICES ASSUME s = {} PROVE total[s] \in Int
        BY <2>3
      <3> QED
        BY <1>8, <3>1
    <2>5. PICK i \in s : /\ i = CHOOSE x \in s : TRUE
                         /\ s \ {i} \in SUBSET D /\ Cardinality(s \ {i}) = k - 1
      BY <1>2, <2>3, <2>4, OneLess
    <2>6. total[s \ {i}] \notin Int
      BY <1>7, <2>3, <2>5
    <2>7. k - 1 \in Nat
      BY <1>2, <2>5, FS_Subset, FS_CardinalityType
    <2>8. k - 1 \in Bad
      BY <2>5, <2>6, <2>7
    <2> QED
      BY <2>2, <2>8
  <1>10. total[D] \in Int
    <2>1. Cardinality(D) \in Nat
      BY <1>2, FS_CardinalityType
    <2> QED
      BY <1>9, <2>1
  <1> QED
    BY <1>1, <1>10

-----------------------------------------------------------------------------
(* The readings that are kept. *)

LEMMA ValidLuxInRange ==
    ASSUME NEW lux \in Int
    PROVE  GetValidLux(lux) \in 0 .. LIGHT_MAX_LUX
  <1>1. LIGHT_MAX_LUX \in Nat
    BY ManagerAssumption
  <1>2. PICK capped \in Int : capped = Min({lux, LIGHT_MAX_LUX}) /\ capped <= LIGHT_MAX_LUX
    BY <1>1, OfTwo
  <1>3. Max({0, capped}) = IF 0 <= capped THEN capped ELSE 0
    BY OfTwo
  <1> QED
    BY <1>1, <1>2, <1>3 DEF GetValidLux

\* Pruning takes a prefix off, the first reading that stays moves up to the horizon, and the
\* second is within it.
LEMMA PrunedShape ==
    ASSUME NEW L, NEW buffer \in Seq([time : Int, lux : L]), buffer # << >>, NEW horizon \in Int
    PROVE  /\ Pruned(buffer, horizon) \in Seq([time : Int, lux : L])
           /\ \E o \in 1 .. Len(buffer) :
                  /\ Len(Pruned(buffer, horizon)) = Len(buffer) - o + 1
                  /\ \A i \in 1 .. Len(buffer) - o + 1 :
                         /\ Pruned(buffer, horizon)[i].lux = buffer[i + o - 1].lux
                         /\ i > 1 => Pruned(buffer, horizon)[i] = buffer[i + o - 1]
                  /\ Pruned(buffer, horizon)[1].time =
                         IF buffer[o].time <= horizon THEN horizon ELSE buffer[o].time
                  /\ o > 1 => buffer[o].time <= horizon
                  /\ o < Len(buffer) => buffer[o + 1].time > horizon
  <1> DEFINE N == Len(buffer)
             old == {i \in DOMAIN buffer : \A j \in 2 .. i : buffer[j].time <= horizon}
  <1>1. N \in Nat \ {0} /\ DOMAIN buffer = 1 .. N
    BY EmptySeq
  <1>2. \A i \in 1 .. N : buffer[i] \in [time : Int, lux : L] /\ buffer[i].time \in Int
    <2>1. \A i \in 1 .. N : buffer[i] \in [time : Int, lux : L]
      BY ElementOfSeq
    <2>2. \A sample \in [time : Int, lux : L] : sample.time \in Int
      OBVIOUS
    <2> QED
      BY <2>1, <2>2
  <1>3. old \subseteq 1 .. N /\ 1 \in old
    BY <1>1
  <1>4. Max(old) \in old /\ \A i \in old : Max(old) >= i
    <2>1. old \in SUBSET (0 .. N) /\ old # {}
      BY <1>3
    <2> HIDE DEF old
    <2> QED
      BY <1>1, <2>1, GreatestOf
  <1>5. PICK o \in 1 .. N : o = Max(old)
    BY <1>3, <1>4
  <1>6. o > 1 => buffer[o].time <= horizon
    BY <1>4, <1>5
  <1>7. ASSUME o < N PROVE buffer[o + 1].time > horizon
    <2>1. o + 1 \in 1 .. N /\ ~(o >= o + 1)
      BY <1>1, <1>7
    <2>2. o + 1 \notin old
      <3> HIDE DEF old
      <3> QED
        BY <1>4, <1>5, <2>1
    <2>3. \A j \in 2 .. o : buffer[j].time <= horizon
      BY <1>4, <1>5
    <2>4. PICK j \in 2 .. o + 1 : ~(buffer[j].time <= horizon)
      BY <1>1, <2>1, <2>2
    <2>5. j = o + 1
      BY <2>3, <2>4
    <2> QED
      BY <1>2, <2>1, <2>4, <2>5
  <1> DEFINE kept == SubSeq(buffer, o, N)
  <1>8. /\ kept \in Seq([time : Int, lux : L]) /\ Len(kept) = N - o + 1
        /\ \A i \in 1 .. N - o + 1 : kept[i] = buffer[i + o - 1]
    <2>1. \A i \in o .. N : buffer[i] \in [time : Int, lux : L]
      BY <1>2
    <2>2. /\ kept \in Seq([time : Int, lux : L])
          /\ Len(kept) = IF o <= N THEN N - o + 1 ELSE 0
          /\ \A i \in 1 .. N - o + 1 : kept[i] = buffer[o + i - 1]
      BY <1>1, <2>1, SubSeqProperties
    <2>3. \A i \in 1 .. N - o + 1 : o + i - 1 = i + o - 1
      BY <1>1
    <2> QED
      BY <1>1, <2>2, <2>3
  <1>9. Pruned(buffer, horizon) = [kept EXCEPT ![1].time = Max({@, horizon})]
    BY <1>5 DEF Pruned
  <1>10. 1 \in 1 .. N - o + 1 /\ kept[1] = buffer[o] /\ buffer[o].time \in Int
    <2>1. 1 \in 1 .. N - o + 1 /\ 1 + o - 1 = o
      BY <1>1
    <2> QED
      BY <1>2, <1>8, <2>1
  <1>11. PICK t \in Int : /\ t = Max({buffer[o].time, horizon})
                          /\ t = IF buffer[o].time <= horizon THEN horizon ELSE buffer[o].time
    BY <1>10, OfTwo
  <1> HIDE DEF kept
  <1>12. Pruned(buffer, horizon) = [kept EXCEPT ![1] = [kept[1] EXCEPT !.time = t]]
    BY <1>9, <1>10, <1>11
  <1>13. PICK first \in [time : Int, lux : L] :
             first = [kept[1] EXCEPT !.time = t] /\ first.time = t /\ first.lux = buffer[o].lux
    <2>1. PICK sample \in [time : Int, lux : L] : sample = kept[1] /\ sample = buffer[o]
      BY <1>2, <1>10
    <2>2. /\ [sample EXCEPT !.time = t] \in [time : Int, lux : L]
          /\ [sample EXCEPT !.time = t].time = t
          /\ [sample EXCEPT !.time = t].lux = sample.lux
      OBVIOUS
    <2> QED
      BY <2>1, <2>2
  <1>14. /\ Pruned(buffer, horizon) \in Seq([time : Int, lux : L])
         /\ Len(Pruned(buffer, horizon)) = N - o + 1
         /\ \A i \in 1 .. N - o + 1 :
                Pruned(buffer, horizon)[i] = IF i = 1 THEN first ELSE buffer[i + o - 1]
    <2>1. Pruned(buffer, horizon) = [kept EXCEPT ![1] = first]
      BY <1>12, <1>13
    <2>2. 1 \in 1 .. Len(kept)
      BY <1>8, <1>10
    <2>3. /\ [kept EXCEPT ![1] = first] \in Seq([time : Int, lux : L])
          /\ Len([kept EXCEPT ![1] = first]) = Len(kept)
          /\ \A j \in 1 .. Len(kept) :
                 [kept EXCEPT ![1] = first][j] = IF j = 1 THEN first ELSE kept[j]
      <3>1. PICK Samples : Samples = [time : Int, lux : L]
        OBVIOUS
      <3>2. kept \in Seq(Samples) /\ first \in Samples
        BY <1>8, <3>1
      <3>3. /\ [kept EXCEPT ![1] = first] \in Seq(Samples)
            /\ Len([kept EXCEPT ![1] = first]) = Len(kept)
            /\ \A j \in 1 .. Len(kept) :
                   [kept EXCEPT ![1] = first][j] = IF j = 1 THEN first ELSE kept[j]
        BY <2>2, <3>2, ExceptSeq
      <3> QED
        BY <3>1, <3>3
    <2> QED
      BY <1>8, <2>1, <2>3
  <1>15. \A i \in 1 .. N - o + 1 :
             /\ Pruned(buffer, horizon)[i].lux = buffer[i + o - 1].lux
             /\ i > 1 => Pruned(buffer, horizon)[i] = buffer[i + o - 1]
    <2>1. 1 + o - 1 = o
      OBVIOUS
    <2>2. ASSUME NEW i \in 1 .. N - o + 1
          PROVE  /\ Pruned(buffer, horizon)[i].lux = buffer[i + o - 1].lux
                 /\ i > 1 => Pruned(buffer, horizon)[i] = buffer[i + o - 1]
      <3>1. CASE i = 1
        <4>1. i + o - 1 = o /\ ~(i > 1)
          BY <2>1, <3>1
        <4>2. Pruned(buffer, horizon)[i] = first
          BY <1>14, <3>1
        <4> QED
          BY <1>13, <4>1, <4>2
      <3>2. CASE i # 1
        BY <1>14, <3>2
      <3> QED
        BY <3>1, <3>2
    <2> QED
      BY <2>2
  <1>16. Pruned(buffer, horizon)[1].time =
             IF buffer[o].time <= horizon THEN horizon ELSE buffer[o].time
    BY <1>10, <1>11, <1>13, <1>14
  <1> QED
    BY <1>6, <1>7, <1>14, <1>15, <1>16

\* A reading is added at the end; the readings that stay keep their light, and their time but
\* for the first, which may move up to the horizon.
Moved(buffer, more, horizon, o) ==
    /\ Len(more) = Len(buffer) - o + 2
    /\ \A i \in 1 .. Len(buffer) - o + 1 :
           /\ more[i].lux = buffer[i + o - 1].lux
           /\ i > 1 => more[i].time = buffer[i + o - 1].time
    /\ more[1].time = IF buffer[o].time <= horizon THEN horizon ELSE buffer[o].time
    /\ o > 1 => buffer[o].time <= horizon
    /\ o < Len(buffer) => buffer[o + 1].time > horizon

LEMMA UpdatedShape ==
    ASSUME NEW L, NEW buffer \in Seq([time : Int, lux : L]), NEW timestamp \in Int, NEW lux \in L
    PROVE  LET more == UpdateLuxBuffer(buffer, timestamp, lux) IN
           /\ more \in Seq([time : Int, lux : L]) /\ more # << >>
           /\ more[Len(more)] = [time |-> timestamp, lux |-> lux]
           /\ buffer = << >> => Len(more) = 1
           /\ buffer # << >> => \E o \in 1 .. Len(buffer) :
                  Moved(buffer, more, timestamp - LIGHT_LUX_BUFFER_RANGE, o)
  <1>1. PICK horizon \in Int : horizon = timestamp - LIGHT_LUX_BUFFER_RANGE
    BY ManagerAssumption
  <1>2. PICK sample \in [time : Int, lux : L] : sample = [time |-> timestamp, lux |-> lux]
    OBVIOUS
  <1>3. PICK more : more = UpdateLuxBuffer(buffer, timestamp, lux)
    OBVIOUS
  <1>4. more = Append(Pruned(buffer, horizon), sample)
    BY <1>1, <1>2, <1>3 DEF UpdateLuxBuffer
  <1>5. CASE buffer = << >>
    <2>1. Pruned(buffer, horizon) = << >> /\ << >> \in Seq([time : Int, lux : L]) /\ Len(<< >>) = 0
      BY <1>5, EmptySeq DEF Pruned
    <2>2. more \in Seq([time : Int, lux : L]) /\ more # << >> /\ Len(more) = 1 /\ more[1] = sample
      BY <1>4, <2>1, AppendProperties
    <2> QED
      BY <1>2, <1>3, <1>5, <2>2
  <1>6. CASE buffer # << >>
    <2>0. Len(buffer) \in Nat
      OBVIOUS
    <2>1. PICK kept \in Seq([time : Int, lux : L]) : kept = Pruned(buffer, horizon)
      BY <1>6, PrunedShape
    <2>2. PICK o \in 1 .. Len(buffer) :
              /\ Len(kept) = Len(buffer) - o + 1
              /\ \A i \in 1 .. Len(buffer) - o + 1 :
                     /\ kept[i].lux = buffer[i + o - 1].lux
                     /\ i > 1 => kept[i] = buffer[i + o - 1]
              /\ kept[1].time = IF buffer[o].time <= horizon THEN horizon ELSE buffer[o].time
              /\ o > 1 => buffer[o].time <= horizon
              /\ o < Len(buffer) => buffer[o + 1].time > horizon
      BY <1>6, <2>1, PrunedShape
    <2>3. /\ more \in Seq([time : Int, lux : L]) /\ more # << >>
          /\ Len(more) = Len(kept) + 1
          /\ \A i \in 1 .. Len(kept) : more[i] = kept[i]
          /\ more[Len(kept) + 1] = sample
      BY <1>4, <2>1, AppendProperties
    <2>4. Len(more) = Len(buffer) - o + 2
      BY <2>0, <2>2, <2>3
    <2>5. 1 \in 1 .. Len(kept) /\ more[1].time = kept[1].time
      <3>1. 1 \in 1 .. Len(kept)
        BY <2>0, <2>2
      <3> QED
        BY <2>3, <3>1
    <2>6. Moved(buffer, more, horizon, o)
      BY <2>2, <2>3, <2>4, <2>5 DEF Moved
    <2>7. more[Len(more)] = sample
      BY <2>3
    <2> QED
      BY <1>1, <1>2, <1>3, <1>6, <2>3, <2>6, <2>7
  <1> QED
    BY <1>5, <1>6

-----------------------------------------------------------------------------
(* The light that counts. *)

Raw == [time : Int, lux : 0 .. LIGHT_MAX_LUX]
Smoothed == [time : Int, lux : Int]

ReadingsInv ==
    /\ thresholdFile \in ThresholdFiles /\ modeArray = LuxThresholdConfig(thresholdFile)
    /\ mLuxBuffer \in Seq(Raw) /\ mLuxBufferFilter \in Seq(Smoothed)
    /\ mLuxBuffer = << >> <=> mLuxBufferFilter = << >>
    /\ mFilteredLux \in Int /\ readAt \in Nat
    /\ since \in [Directions -> Int] /\ \A direction \in Directions : since[direction] <= readAt

\* From a position on, all smoothed readings are beyond the margin.
AllBeyond(first, direction) ==
    \A j \in first .. Len(mLuxBufferFilter) : Beyond(mLuxBufferFilter[j].lux, direction)

\* A light that has been beyond the margin since some time is still to be seen: the readings beyond
\* the margin at the end of the window begin by then, or reach back to the edge of the window.
StickInv ==
    /\ ReadingsInv
    /\ \A i, j \in DOMAIN mLuxBufferFilter :
           i <= j => mLuxBufferFilter[i].time <= mLuxBufferFilter[j].time
    /\ \A i \in DOMAIN mLuxBufferFilter : mLuxBufferFilter[i].time <= readAt
    /\ \A direction \in Directions :
           SceneKnown /\ since[direction] # Never /\ ~updated =>
               \E first \in DOMAIN mLuxBufferFilter :
                   /\ AllBeyond(first, direction)
                   /\ \/ mLuxBufferFilter[first].time <= since[direction]
                      \/ mLuxBufferFilter[first].time <= readAt - LIGHT_LUX_BUFFER_RANGE
    /\ NeverSticks

\* And no reading of before is among them: the one that moved the light, or broke the run, is not
\* beyond the margin, and pruning only dates a reading later.
SustainInv ==
    /\ ReadingsInv
    /\ deltas \in [Directions -> Nat \ {0}]
    /\ SceneKnown =>
           \A direction \in Directions, first \in DOMAIN mLuxBufferFilter :
               AllBeyond(first, direction) =>
                   /\ ~updated /\ since[direction] # Never
                   /\ since[direction] <= mLuxBufferFilter[first].time

LEMMA SmoothIsInteger ==
    ASSUME NEW buffer \in Seq(Raw), buffer # << >>
    PROVE  CalcSmoothLux(buffer) \in Int
  <1> DEFINE N == Len(buffer)
             B == LIGHT_LUX_BUFFER_MIN
             last == SubSeq(buffer, N - B + 1, N)
             levels == {last[i].lux : i \in DOMAIN last}
  <1>1. N \in Nat \ {0} /\ B \in Nat /\ B > 2 /\ LIGHT_MAX_LUX \in Nat
    BY EmptySeq, ManagerAssumption
  <1>2. \A i \in 1 .. N : buffer[i] \in Raw /\ buffer[i].lux \in Int
    <2>1. \A i \in 1 .. N : buffer[i] \in Raw
      BY ElementOfSeq
    <2>2. \A raw \in Raw : raw.lux \in Int
      BY <1>1 DEF Raw
    <2> QED
      BY <2>1, <2>2
  <1>3. CASE N < B
    <2>1. CalcSmoothLux(buffer) = buffer[N].lux
      BY <1>3 DEF CalcSmoothLux
    <2>2. N \in 1 .. N
      BY <1>1
    <2> QED
      BY <1>2, <2>1, <2>2
  <1>4. CASE ~(N < B)
    <2>1. /\ last \in Seq(Raw) /\ Len(last) = B
      <3>1. \A i \in N - B + 1 .. N : buffer[i] \in Raw
        BY <1>1, <1>2, <1>4
      <3>2. /\ last \in Seq(Raw)
            /\ Len(last) = IF N - B + 1 <= N THEN N - (N - B + 1) + 1 ELSE 0
        BY <1>1, <3>1, SubSeqProperties
      <3>3. N - B + 1 <= N /\ N - (N - B + 1) + 1 = B
        BY <1>1
      <3> QED
        BY <3>2, <3>3
    <2> HIDE DEF last
    <2>2. ASSUME NEW i \in DOMAIN last PROVE last[i].lux \in 0 .. LIGHT_MAX_LUX
      <3>1. last[i] \in Raw
        BY <2>1
      <3> QED
        BY <3>1 DEF Raw
    <2>3. levels \in SUBSET (0 .. LIGHT_MAX_LUX) /\ levels # {}
      <3>1. 1 \in DOMAIN last
        BY <1>1, <2>1
      <3> QED
        BY <2>2, <3>1
    <2> HIDE DEF levels
    <2>4. Min(levels) \in Int /\ Max(levels) \in Int
      <3>1. levels \in SUBSET Nat
        BY <1>1, <2>3
      <3>2. Min(levels) \in levels
        BY <2>3, <3>1, LeastOf
      <3>3. Max(levels) \in levels
        BY <1>1, <2>3, GreatestOf
      <3>4. \A level \in levels : level \in Int
        BY <3>1
      <3> QED
        BY <3>2, <3>3, <3>4
    <2>5. last \in Seq([time : Int, lux : Int])
      <3>1. Raw \subseteq [time : Int, lux : Int]
        BY <1>1 DEF Raw
      <3> QED
        BY <2>1, <3>1, SeqMonotonic
    <2>6. PICK total \in Int : total = FoldSeq(LAMBDA sample, sum : sample.lux + sum, 0, last)
      BY <2>5, SumIsInteger
    <2>7. total - Min(levels) - Max(levels) \in Int /\ B - 2 \in Nat \ {0}
      BY <1>1, <2>4
    <2>8. (total - Min(levels) - Max(levels)) \div (B - 2) \in Int
      BY <2>7, DivBounds
    <2>9. CalcSmoothLux(buffer) = (total - Min(levels) - Max(levels)) \div (B - 2)
      BY <1>4, <2>6 DEF CalcSmoothLux, last, levels
    <2> QED
      BY <2>8, <2>9
  <1> QED
    BY <1>3, <1>4

\* SetLux keeps the two buffers in step: one smoothed reading for each.
LEMMA ReadingAdds ==
    ASSUME ReadingsInv, NEW lux \in RoomLuxes, NEW timestamp \in Int,
           IsNeedUpdateBrightness(lux, timestamp)
    PROVE  /\ mLuxBuffer' \in Seq(Raw) /\ mLuxBuffer' # << >>
           /\ mLuxBufferFilter' \in Seq(Smoothed) /\ mLuxBufferFilter' # << >>
           /\ CalcSmoothLux(mLuxBuffer') \in Int
           /\ mLuxBufferFilter'[Len(mLuxBufferFilter')] =
                  [time |-> timestamp, lux |-> CalcSmoothLux(mLuxBuffer')]
           /\ mIsFirstLux' <=> mLuxBufferFilter = << >>
           /\ Len(mLuxBuffer') = 1 <=> mLuxBufferFilter = << >>
           /\ mLuxBufferFilter # << >> => \E o \in 1 .. Len(mLuxBufferFilter) :
                  Moved(mLuxBufferFilter, mLuxBufferFilter', timestamp - LIGHT_LUX_BUFFER_RANGE, o)
           /\ mLuxBufferFilter = << >> => Len(mLuxBufferFilter') = 1
  <1>1. GetValidLux(lux) \in 0 .. LIGHT_MAX_LUX
    BY ValidLuxInRange, ManagerAssumption
  <1>2. mLuxBuffer' = UpdateLuxBuffer(mLuxBuffer, timestamp, GetValidLux(lux))
    BY DEF IsNeedUpdateBrightness
  <1>3. /\ mLuxBuffer' \in Seq(Raw) /\ mLuxBuffer' # << >>
        /\ mLuxBuffer = << >> => Len(mLuxBuffer') = 1
        /\ mLuxBuffer # << >> => \E o \in 1 .. Len(mLuxBuffer) :
               Moved(mLuxBuffer, mLuxBuffer', timestamp - LIGHT_LUX_BUFFER_RANGE, o)
    <2> DEFINE L == 0 .. LIGHT_MAX_LUX
    <2>0. Raw = [time : Int, lux : L] /\ GetValidLux(lux) \in L
      BY <1>1 DEF Raw
    <2> HIDE DEF L
    <2>1. mLuxBuffer \in Seq([time : Int, lux : L])
      BY <2>0 DEF ReadingsInv
    <2>2. PICK valid \in L : valid = GetValidLux(lux)
      BY <2>0
    <2>3. LET more == UpdateLuxBuffer(mLuxBuffer, timestamp, valid) IN
          /\ more \in Seq([time : Int, lux : L]) /\ more # << >>
          /\ more[Len(more)] = [time |-> timestamp, lux |-> valid]
          /\ mLuxBuffer = << >> => Len(more) = 1
          /\ mLuxBuffer # << >> => \E o \in 1 .. Len(mLuxBuffer) :
                 Moved(mLuxBuffer, more, timestamp - LIGHT_LUX_BUFFER_RANGE, o)
      BY <2>1, UpdatedShape
    <2> QED
      BY <1>2, <2>0, <2>2, <2>3
  <1>4. Len(mLuxBuffer') = 1 <=> mLuxBuffer = << >>
    <2>1. ASSUME mLuxBuffer # << >> PROVE Len(mLuxBuffer') # 1
      <3>1. PICK o \in 1 .. Len(mLuxBuffer) : Len(mLuxBuffer') = Len(mLuxBuffer) - o + 2
        BY <1>3, <2>1 DEF Moved
      <3>2. Len(mLuxBuffer) \in Nat
        BY DEF ReadingsInv
      <3> QED
        BY <3>1, <3>2
    <2> QED
      BY <1>3, <2>1
  <1>5. PICK smooth \in Int : smooth = CalcSmoothLux(mLuxBuffer')
    BY <1>3, SmoothIsInteger
  <1>6. mLuxBufferFilter' = UpdateLuxBuffer(mLuxBufferFilter, timestamp, smooth)
    BY <1>5 DEF IsNeedUpdateBrightness
  <1>7. /\ mLuxBufferFilter' \in Seq(Smoothed) /\ mLuxBufferFilter' # << >>
        /\ mLuxBufferFilter'[Len(mLuxBufferFilter')] = [time |-> timestamp, lux |-> smooth]
        /\ mLuxBufferFilter = << >> => Len(mLuxBufferFilter') = 1
        /\ mLuxBufferFilter # << >> => \E o \in 1 .. Len(mLuxBufferFilter) :
               Moved(mLuxBufferFilter, mLuxBufferFilter', timestamp - LIGHT_LUX_BUFFER_RANGE, o)
    <2>1. mLuxBufferFilter \in Seq([time : Int, lux : Int])
      BY DEF ReadingsInv, Smoothed
    <2>2. LET more == UpdateLuxBuffer(mLuxBufferFilter, timestamp, smooth) IN
          /\ more \in Seq([time : Int, lux : Int]) /\ more # << >>
          /\ more[Len(more)] = [time |-> timestamp, lux |-> smooth]
          /\ mLuxBufferFilter = << >> => Len(more) = 1
          /\ mLuxBufferFilter # << >> => \E o \in 1 .. Len(mLuxBufferFilter) :
                 Moved(mLuxBufferFilter, more, timestamp - LIGHT_LUX_BUFFER_RANGE, o)
      BY <2>1, UpdatedShape
    <2> QED
      BY <1>6, <2>2 DEF Smoothed
  <1>8. mIsFirstLux' <=> Len(mLuxBuffer') = 1
    BY Zenon DEF IsNeedUpdateBrightness
  <1> QED
    BY <1>3, <1>4, <1>5, <1>7, <1>8 DEF ReadingsInv

LEMMA ReadingsInvInit == ManagerInit => ReadingsInv
  <1> SUFFICES ASSUME ManagerInit PROVE ReadingsInv
    OBVIOUS
  <1>1. << >> \in Seq(Raw) /\ << >> \in Seq(Smoothed)
    BY EmptySeq
  <1> QED
    BY <1>1 DEF ManagerInit, ReadingsInv, Never

LEMMA ReadingsStep == ReadingsInv /\ [ManagerNext]_managerVars => ReadingsInv'
  <1> SUFFICES ASSUME ReadingsInv, [ManagerNext]_managerVars PROVE ReadingsInv'
    OBVIOUS
  <1>1. CASE UNCHANGED managerVars
    BY <1>1 DEF managerVars, buffers, ReadingsInv
  <1>2. CASE ClearLuxData
    <2>1. << >> \in Seq(Raw) /\ << >> \in Seq(Smoothed)
      BY EmptySeq
    <2> QED
      BY <1>2, <2>1 DEF ClearLuxData, ReadingsInv, Never
  <1>3. ASSUME NEW lux \in RoomLuxes, NEW gap \in ReadingGaps,
               IsNeedUpdateBrightness(lux, readAt + gap)
        PROVE  ReadingsInv'
    <2>1. readAt + gap \in Nat /\ readAt <= readAt + gap
      BY ManagerAssumption DEF ReadingsInv
    <2>2. PICK timestamp \in Nat : timestamp = readAt + gap /\ readAt <= timestamp
      BY <2>1
    <2>3. timestamp \in Int
      OBVIOUS
    <2>4. IsNeedUpdateBrightness(lux, timestamp)
      BY <1>3, <2>2
    <2>5. /\ mLuxBuffer' \in Seq(Raw) /\ mLuxBuffer' # << >>
          /\ mLuxBufferFilter' \in Seq(Smoothed) /\ mLuxBufferFilter' # << >>
          /\ CalcSmoothLux(mLuxBuffer') \in Int
      BY <2>3, <2>4, ReadingAdds
    <2>6. readAt' = timestamp /\ UNCHANGED <<thresholdFile, modeArray>>
      BY <2>4 DEF IsNeedUpdateBrightness
    <2>7. mFilteredLux' \in Int
      BY <2>4, <2>5 DEF IsNeedUpdateBrightness, UpdateParam, ReadingsInv
    <2>8. ASSUME NEW direction \in Directions
          PROVE  since'[direction] \in {Never, timestamp, since[direction]}
      BY <2>4 DEF IsNeedUpdateBrightness
    <2>9. since' \in [Directions -> Int]
      <3>1. since' = [direction \in Directions |-> since'[direction]]
        BY <2>4 DEF IsNeedUpdateBrightness
      <3>2. \A direction \in Directions : since'[direction] \in Int
        BY <2>3, <2>8 DEF ReadingsInv, Never
      <3> QED
        BY <3>1, <3>2
    <2>10. \A direction \in Directions : since'[direction] <= timestamp
      BY <2>2, <2>8 DEF ReadingsInv, Never
    <2> QED
      BY <2>5, <2>6, <2>7, <2>9, <2>10 DEF ReadingsInv
  <1> QED
    BY <1>1, <1>2, <1>3 DEF ManagerNext

-----------------------------------------------------------------------------
(* Readings beyond the margin, from one window to the next. *)

LEMMA SmoothedFields ==
    ASSUME NEW buffer \in Seq(Smoothed)
    PROVE  /\ Len(buffer) \in Nat /\ DOMAIN buffer = 1 .. Len(buffer)
           /\ \A i \in 1 .. Len(buffer) : buffer[i].time \in Int /\ buffer[i].lux \in Int
  <1>1. \A i \in 1 .. Len(buffer) : buffer[i] \in Smoothed
    BY ElementOfSeq
  <1>2. \A sample \in Smoothed : sample.time \in Int /\ sample.lux \in Int
    BY DEF Smoothed
  <1> QED
    BY <1>1, <1>2

\* The times stay in order.
LEMMA MovedOrder ==
    ASSUME NEW buffer \in Seq(Smoothed), NEW more \in Seq(Smoothed),
           NEW horizon \in Int, NEW timestamp \in Int, horizon <= timestamp,
           NEW o \in 1 .. Len(buffer), Moved(buffer, more, horizon, o),
           more[Len(more)].time = timestamp,
           \A i \in 1 .. Len(buffer) : buffer[i].time <= timestamp,
           \A i, j \in 1 .. Len(buffer) : i <= j => buffer[i].time <= buffer[j].time
    PROVE  /\ \A i \in 1 .. Len(more) : more[i].time <= timestamp
           /\ \A i, j \in 1 .. Len(more) : i <= j => more[i].time <= more[j].time
  <1>1. /\ Len(buffer) \in Nat /\ Len(more) \in Nat
        /\ \A i \in 1 .. Len(buffer) : buffer[i].time \in Int
        /\ \A i \in 1 .. Len(more) : more[i].time \in Int
    BY SmoothedFields
  <1>2. Len(more) = Len(buffer) - o + 2
    BY DEF Moved
  <1>3. /\ more[1].time = IF buffer[o].time <= horizon THEN horizon ELSE buffer[o].time
        /\ buffer[o].time \in Int
    BY <1>1 DEF Moved
  <1>4. ASSUME NEW i \in 1 .. Len(more), i # 1, i # Len(more)
        PROVE  /\ i + o - 1 \in 1 .. Len(buffer) /\ o < i + o - 1 /\ o + 1 \in 1 .. Len(buffer)
               /\ more[i].time = buffer[i + o - 1].time
    <2>1. i \in 1 .. Len(buffer) - o + 1 /\ i > 1
      BY <1>1, <1>2, <1>4
    <2> QED
      BY <1>1, <2>1 DEF Moved
  <1>5. ASSUME NEW i \in 1 .. Len(more) PROVE more[i].time <= timestamp
    <2>1. CASE i = Len(more)
      BY <2>1
    <2>2. CASE i = 1
      BY <1>3, <2>2
    <2>3. CASE i # 1 /\ i # Len(more)
      BY <1>4, <2>3
    <2> QED
      BY <2>1, <2>2, <2>3
  <1>6. ASSUME NEW i \in 1 .. Len(more), NEW j \in 1 .. Len(more), i <= j
        PROVE  more[i].time <= more[j].time
    <2>1. CASE j = Len(more)
      BY <1>5, <2>1
    <2>2. CASE i = j
      BY <1>1, <2>2
    <2>3. CASE j # Len(more) /\ i # j
      <3>1. j # 1 /\ i # Len(more)
        BY <1>1, <1>6, <2>3
      <3>2. /\ j + o - 1 \in 1 .. Len(buffer) /\ o < j + o - 1 /\ o + 1 \in 1 .. Len(buffer)
            /\ more[j].time = buffer[j + o - 1].time
        BY <1>4, <2>3, <3>1
      <3>3. CASE i = 1
        <4>1. buffer[o + 1].time > horizon /\ buffer[o + 1].time <= buffer[j + o - 1].time
          <5>1. o < Len(buffer) /\ o + 1 <= j + o - 1
            BY <1>1, <3>2
          <5> QED
            BY <3>2, <5>1 DEF Moved
        <4>2. buffer[o].time <= buffer[j + o - 1].time
          BY <3>2
        <4>3. PICK later \in Int : later = buffer[j + o - 1].time
          BY <1>1, <3>2
        <4>4. PICK early \in Int, next \in Int :
                  /\ early = buffer[o].time /\ next = buffer[o + 1].time
                  /\ next > horizon /\ next <= later /\ early <= later
          BY <1>1, <3>2, <4>1, <4>2, <4>3
        <4>5. more[1].time = IF early <= horizon THEN horizon ELSE early
          BY <1>3, <4>4
        <4>6. more[1].time <= later
          BY <4>4, <4>5
        <4> QED
          BY <3>2, <3>3, <4>3, <4>6
      <3>4. CASE i # 1
        <4>1. i + o - 1 \in 1 .. Len(buffer) /\ more[i].time = buffer[i + o - 1].time
          BY <1>4, <3>1, <3>4
        <4>2. i + o - 1 <= j + o - 1
          BY <1>6
        <4> QED
          BY <3>2, <4>1, <4>2
      <3> QED
        BY <3>3, <3>4
    <2> QED
      BY <2>1, <2>2, <2>3
  <1> QED
    BY <1>5, <1>6

\* Readings that are all beyond the margin stay to be seen, or reach to the horizon.
LEMMA RunStays ==
    ASSUME NEW buffer \in Seq(Smoothed), NEW more \in Seq(Smoothed), NEW horizon \in Int,
           NEW o \in 1 .. Len(buffer), Moved(buffer, more, horizon, o),
           NEW direction, Beyond(more[Len(more)].lux, direction),
           NEW first \in 1 .. Len(buffer),
           \A j \in first .. Len(buffer) : Beyond(buffer[j].lux, direction)
    PROVE  \E next \in 1 .. Len(more) :
               /\ \A j \in next .. Len(more) : Beyond(more[j].lux, direction)
               /\ more[next].time <= buffer[first].time \/ more[next].time <= horizon
  <1>1. /\ Len(buffer) \in Nat /\ Len(more) \in Nat
        /\ \A i \in 1 .. Len(buffer) : buffer[i].time \in Int
    BY SmoothedFields
  <1>2. /\ Len(more) = Len(buffer) - o + 2
        /\ \A i \in 1 .. Len(buffer) - o + 1 :
               /\ more[i].lux = buffer[i + o - 1].lux
               /\ i > 1 => more[i].time = buffer[i + o - 1].time
        /\ more[1].time = IF buffer[o].time <= horizon THEN horizon ELSE buffer[o].time
        /\ o > 1 => buffer[o].time <= horizon
    BY DEF Moved
  <1>3. PICK next \in Nat : next = IF first >= o THEN first - o + 1 ELSE 1
    OBVIOUS
  <1>4. next \in 1 .. Len(more) - 1
    BY <1>1, <1>2, <1>3
  <1>5. ASSUME NEW j \in next .. Len(more) PROVE Beyond(more[j].lux, direction)
    <2>1. CASE j = Len(more)
      BY <2>1
    <2>2. CASE j # Len(more)
      <3>1. j \in Nat /\ j >= 1 /\ j <= Len(buffer) - o + 1
        <4>1. j \in Int /\ next <= j /\ j <= Len(more) /\ next \in Nat /\ next >= 1
          BY <1>1, <1>4
        <4>2. PICK n \in Nat, m \in Nat : n = Len(buffer) /\ m = Len(more) /\ m = n - o + 2
          BY <1>1, <1>2
        <4>3. j <= m /\ j # m
          BY <2>2, <4>1, <4>2
        <4>4. j \in Nat /\ j <= m - 1
          BY <4>1, <4>2, <4>3
        <4> QED
          BY <4>1, <4>2, <4>4
      <3>2. j >= next
        BY <1>1, <1>4
      <3>3. j + o - 1 \in first .. Len(buffer)
        <4>1. CASE first >= o
          BY <1>1, <1>3, <3>1, <3>2, <4>1
        <4>2. CASE ~(first >= o)
          BY <1>1, <3>1, <4>2
        <4> QED
          BY <4>1, <4>2
      <3> QED
        BY <1>2, <3>1, <3>3
    <2> QED
      BY <2>1, <2>2
  <1>6. more[next].time <= buffer[first].time \/ more[next].time <= horizon
    <2>1. CASE first > o
      <3>1. next > 1 /\ next + o - 1 = first /\ next \in 1 .. Len(buffer) - o + 1
        BY <1>1, <1>2, <1>3, <1>4, <2>1
      <3>2. more[next].time = buffer[first].time
        BY <1>2, <3>1
      <3> QED
        BY <1>1, <3>2
    <2>2. CASE first = o
      BY <1>1, <1>2, <1>3, <2>2
    <2>3. CASE first < o
      BY <1>1, <1>2, <1>3, <2>3
    <2> QED
      BY <2>1, <2>2, <2>3
  <1> QED
    BY <1>4, <1>5, <1>6

\* Such readings in the new window were there before, and not later, but for the last.
LEMMA RunWasThere ==
    ASSUME NEW buffer \in Seq(Smoothed), NEW more \in Seq(Smoothed), NEW horizon \in Int,
           NEW o \in 1 .. Len(buffer), Moved(buffer, more, horizon, o),
           NEW direction, NEW next \in 1 .. Len(more), next # Len(more),
           \A j \in next .. Len(more) : Beyond(more[j].lux, direction)
    PROVE  \E first \in 1 .. Len(buffer) :
               /\ \A j \in first .. Len(buffer) : Beyond(buffer[j].lux, direction)
               /\ buffer[first].time <= more[next].time
  <1>1. /\ Len(buffer) \in Nat /\ Len(more) \in Nat
        /\ \A i \in 1 .. Len(buffer) : buffer[i].time \in Int
    BY SmoothedFields
  <1>2. /\ Len(more) = Len(buffer) - o + 2
        /\ \A i \in 1 .. Len(buffer) - o + 1 :
               /\ more[i].lux = buffer[i + o - 1].lux
               /\ i > 1 => more[i].time = buffer[i + o - 1].time
        /\ more[1].time = IF buffer[o].time <= horizon THEN horizon ELSE buffer[o].time
    BY DEF Moved
  <1>3. PICK first \in 1 .. Len(buffer) : first = next + o - 1 /\ next \in 1 .. Len(buffer) - o + 1
    <2>1. next + o - 1 \in 1 .. Len(buffer) /\ next \in 1 .. Len(buffer) - o + 1
      BY <1>1, <1>2
    <2> QED
      BY <2>1
  <1>4. ASSUME NEW j \in first .. Len(buffer) PROVE Beyond(buffer[j].lux, direction)
    <2>1. PICK i \in 1 .. Len(buffer) - o + 1 : j = i + o - 1 /\ i \in next .. Len(more)
      <3>1. /\ j - o + 1 \in 1 .. Len(buffer) - o + 1 /\ j = (j - o + 1) + o - 1
            /\ j - o + 1 \in next .. Len(more)
        BY <1>1, <1>2, <1>3
      <3> QED
        BY <3>1
    <2> QED
      BY <1>2, <2>1
  <1>5. buffer[first].time <= more[next].time
    <2>1. CASE next = 1
      <3>1. first = o
        BY <1>3, <2>1
      <3> QED
        BY <1>1, <1>2, <2>1, <3>1
    <2>2. CASE next > 1
      <3>1. more[next].time = buffer[first].time
        BY <1>2, <1>3, <2>2
      <3> QED
        BY <1>1, <3>1
    <2> QED
      BY <1>3, <2>1, <2>2
  <1> QED
    BY <1>4, <1>5

-----------------------------------------------------------------------------
(* The light that counts neither sticks nor jumps. *)

\* The debounce times of a product are within the window that is kept: a longer one could never be
\* seen to be over.
WithinWindow ==
    \A file \in ThresholdFiles :
        LET modes == LuxThresholdConfig(file) IN
        "DefaultMode" \in DOMAIN modes =>
            /\ modes["DefaultMode"].brightenDebounceTime <= LIGHT_LUX_BUFFER_RANGE
            /\ modes["DefaultMode"].darkenDebounceTime <= LIGHT_LUX_BUFFER_RANGE

LEMMA ModeData ==
    ASSUME ReadingsInv, SceneKnown
    PROVE  /\ GetCurrentModeData \in [brightenDebounceTime : Int, darkenDebounceTime : Int,
                                      brightenPoints : Seq(PointXy), darkenPoints : Seq(PointXy)]
           /\ \A direction \in Directions : ResponseTime(direction) \in Int
  <1>1. GetCurrentModeData \in [brightenDebounceTime : Int, darkenDebounceTime : Int,
                                brightenPoints : Seq(PointXy), darkenPoints : Seq(PointXy)]
    BY ThresholdFilesAssumption DEF ReadingsInv, SceneKnown, GetCurrentModeData
  <1>2. /\ GetCurrentModeData.brightenDebounceTime \in Int
        /\ GetCurrentModeData.darkenDebounceTime \in Int
    BY <1>1
  <1> QED
    BY <1>1, <1>2 DEF ResponseTime

LEMMA ResponseWithin ==
    ASSUME WithinWindow, ReadingsInv, SceneKnown, NEW direction \in Directions
    PROVE  ResponseTime(direction) <= LIGHT_LUX_BUFFER_RANGE
  <1>1. /\ GetCurrentModeData.brightenDebounceTime <= LIGHT_LUX_BUFFER_RANGE
        /\ GetCurrentModeData.darkenDebounceTime <= LIGHT_LUX_BUFFER_RANGE
    BY DEF WithinWindow, ReadingsInv, SceneKnown, GetCurrentModeData
  <1>2. LIGHT_LUX_BUFFER_RANGE \in Nat
    BY ManagerAssumption
  <1> QED
    BY <1>1, <1>2 DEF ResponseTime

\* NextTime counts from the first of the readings at the end that are all beyond the margin.
LEMMA RunBegins ==
    ASSUME NEW buffer \in Seq(Smoothed), NEW timestamp, NEW direction,
           NEW first \in 1 .. Len(buffer),
           \A j \in first .. Len(buffer) : Beyond(buffer[j].lux, direction)
    PROVE  \E begin \in 1 .. first :
               /\ \A j \in begin .. Len(buffer) : Beyond(buffer[j].lux, direction)
               /\ NextTime(buffer, timestamp, direction) =
                      buffer[begin].time + (IF Len(buffer) = 1 THEN 0 ELSE ResponseTime(direction))
  <1> DEFINE run == {i \in DOMAIN buffer :
                        \A j \in i .. Len(buffer) : Beyond(buffer[j].lux, direction)}
  <1>1. DOMAIN buffer = 1 .. Len(buffer) /\ Len(buffer) \in Nat
    OBVIOUS
  <1>2. first \in run /\ run \in SUBSET Nat /\ run \in SUBSET (1 .. Len(buffer))
    BY <1>1
  <1>3. Min(run) \in run /\ \A i \in run : Min(run) <= i
    <2> HIDE DEF run
    <2> QED
      BY <1>2, LeastOf
  <1>4. PICK begin \in run : begin = Min(run) /\ begin <= first
    BY <1>2, <1>3
  <1>5. NextTime(buffer, timestamp, direction) =
            buffer[begin].time + (IF Len(buffer) = 1 THEN 0 ELSE ResponseTime(direction))
    BY <1>2, <1>4 DEF NextTime
  <1>6. begin \in 1 .. first
    BY <1>2, <1>4
  <1> QED
    BY <1>1, <1>4, <1>5, <1>6

LEMMA StickInit == ManagerInit => StickInv
  <1> SUFFICES ASSUME ManagerInit PROVE StickInv
    OBVIOUS
  <1>1. ReadingsInv
    BY ReadingsInvInit
  <1>2. DOMAIN mLuxBufferFilter = {}
    BY DEF ManagerInit
  <1>3. \A direction \in Directions : since[direction] = Never
    BY DEF ManagerInit
  <1> QED
    BY <1>1, <1>2, <1>3 DEF StickInv, NeverSticks

LEMMA StickStep == WithinWindow /\ StickInv /\ [ManagerNext]_managerVars => StickInv'
  <1> SUFFICES ASSUME WithinWindow, StickInv, [ManagerNext]_managerVars PROVE StickInv'
    OBVIOUS
  <1>0. ReadingsInv /\ ReadingsInv'
    BY ReadingsStep DEF StickInv
  <1>1. CASE UNCHANGED managerVars
    BY <1>0, <1>1
       DEF managerVars, buffers, StickInv, NeverSticks, AllBeyond, Beyond, SceneKnown,
           ResponseTime, GetCurrentModeData
  <1>2. CASE ClearLuxData
    <2>1. DOMAIN mLuxBufferFilter' = {}
      BY <1>2 DEF ClearLuxData
    <2>2. \A direction \in Directions : since'[direction] = Never
      BY <1>2 DEF ClearLuxData
    <2> QED
      BY <1>0, <2>1, <2>2 DEF StickInv, NeverSticks
  <1>3. ASSUME NEW lux \in RoomLuxes, NEW gap \in ReadingGaps,
               IsNeedUpdateBrightness(lux, readAt + gap)
        PROVE  StickInv'
    <2>1. PICK timestamp \in Int : timestamp = readAt + gap /\ readAt <= timestamp
      <3>1. readAt + gap \in Int /\ readAt <= readAt + gap
        BY <1>0, ManagerAssumption DEF ReadingsInv
      <3> QED
        BY <3>1
    <2>2. IsNeedUpdateBrightness(lux, timestamp)
      BY <1>3, <2>1
    <2>3. PICK window \in Nat, horizon \in Int :
              /\ window = LIGHT_LUX_BUFFER_RANGE /\ horizon = timestamp - window
              /\ horizon <= timestamp
      <3>1. timestamp - LIGHT_LUX_BUFFER_RANGE \in Int /\ LIGHT_LUX_BUFFER_RANGE \in Nat
            /\ timestamp - LIGHT_LUX_BUFFER_RANGE <= timestamp
        BY ManagerAssumption
      <3> QED
        BY <3>1
    <2>4. PICK buffer \in Seq(Smoothed) : buffer = mLuxBufferFilter
      BY <1>0 DEF ReadingsInv
    <2>5. PICK more \in Seq(Smoothed), smooth \in Int :
              /\ more = mLuxBufferFilter' /\ more # << >>
              /\ smooth = CalcSmoothLux(mLuxBuffer')
              /\ more[Len(more)] = [time |-> timestamp, lux |-> smooth]
              /\ mIsFirstLux' <=> buffer = << >>
              /\ buffer # << >> => \E o \in 1 .. Len(buffer) : Moved(buffer, more, horizon, o)
              /\ buffer = << >> => Len(more) = 1
      BY <1>0, <2>2, <2>3, <2>4, ReadingAdds
    <2>6. /\ Len(more) \in Nat \ {0} /\ DOMAIN more = 1 .. Len(more)
          /\ \A i \in 1 .. Len(more) : more[i].time \in Int
          /\ Len(buffer) \in Nat /\ DOMAIN buffer = 1 .. Len(buffer)
          /\ \A i \in 1 .. Len(buffer) : buffer[i].time \in Int
      BY <2>5, SmoothedFields, EmptySeq
    <2>7. more[Len(more)].time = timestamp /\ more[Len(more)].lux = smooth
      BY <2>5
    <2>8. readAt' = timestamp /\ UNCHANGED <<thresholdFile, modeArray>>
      BY <2>2 DEF IsNeedUpdateBrightness
    <2>9. /\ \A i \in 1 .. Len(more) : more[i].time <= timestamp
          /\ \A i, j \in 1 .. Len(more) : i <= j => more[i].time <= more[j].time
      <3>1. CASE buffer = << >>
        BY <2>5, <2>6, <2>7, <3>1
      <3>2. CASE buffer # << >>
        <4>1. PICK o \in 1 .. Len(buffer) : Moved(buffer, more, horizon, o)
          BY <2>5, <3>2
        <4>2. \A i, j \in 1 .. Len(buffer) : i <= j => buffer[i].time <= buffer[j].time
          BY <2>4, <2>6 DEF StickInv
        <4>3. \A i \in 1 .. Len(buffer) : buffer[i].time <= timestamp
          <5>1. \A i \in 1 .. Len(buffer) : buffer[i].time <= readAt
            BY <2>4, <2>6 DEF StickInv
          <5> QED
            BY <1>0, <2>1, <2>6, <5>1 DEF ReadingsInv
        <4> QED
          BY <2>3, <2>7, <4>1, <4>2, <4>3, MovedOrder
      <3> QED
        BY <3>1, <3>2
    <2>10. ASSUME NEW direction \in Directions, SceneKnown, since'[direction] # Never, ~updated'
           PROVE  /\ \E first \in 1 .. Len(more) :
                         /\ \A j \in first .. Len(more) : Beyond(more[j].lux, direction)
                         /\ more[first].time <= since'[direction] \/ more[first].time <= horizon
                  /\ timestamp - since'[direction] < ResponseTime(direction)
      <3>1. ~mIsFirstLux' /\ Beyond(smooth, direction)
        BY <2>2, <2>5, <2>10 DEF IsNeedUpdateBrightness
      <3>2. buffer # << >>
        BY <2>5, <3>1
      <3>3. PICK o \in 1 .. Len(buffer) : Moved(buffer, more, horizon, o)
        BY <2>5, <3>2
      <3>4. since'[direction] \in Int
        BY <1>0 DEF ReadingsInv
      <3>5. PICK first \in 1 .. Len(more) :
                /\ \A j \in first .. Len(more) : Beyond(more[j].lux, direction)
                /\ more[first].time <= since'[direction] \/ more[first].time <= horizon
        <4>1. CASE updated \/ since[direction] = Never
          <5>1. since'[direction] = timestamp
            BY <2>2, <2>5, <3>1, <4>1 DEF IsNeedUpdateBrightness
          <5>2. Len(more) \in 1 .. Len(more)
            BY <2>6
          <5>3. \A j \in Len(more) .. Len(more) : Beyond(more[j].lux, direction)
            BY <2>6, <2>7, <3>1
          <5>4. more[Len(more)].time <= since'[direction]
            BY <2>7, <5>1
          <5> QED
            BY <5>2, <5>3, <5>4
        <4>2. CASE ~(updated \/ since[direction] = Never)
          <5>1. since'[direction] = since[direction]
            BY <2>2, <2>5, <3>1, <4>2 DEF IsNeedUpdateBrightness
          <5>2. PICK before \in 1 .. Len(buffer) :
                    /\ \A j \in before .. Len(buffer) : Beyond(buffer[j].lux, direction)
                    /\ \/ buffer[before].time <= since[direction]
                       \/ buffer[before].time <= readAt - window
            BY <2>3, <2>4, <2>6, <2>10, <4>2 DEF StickInv, AllBeyond
          <5>3. PICK next \in 1 .. Len(more) :
                    /\ \A j \in next .. Len(more) : Beyond(more[j].lux, direction)
                    /\ more[next].time <= buffer[before].time \/ more[next].time <= horizon
            <6>1. Beyond(more[Len(more)].lux, direction)
              BY <2>7, <3>1
            <6> QED
              BY <3>3, <5>2, <6>1, RunStays
          <5>4. readAt - window <= horizon /\ readAt - window \in Int
            BY <1>0, <2>1, <2>3 DEF ReadingsInv
          <5>5. more[next].time <= since'[direction] \/ more[next].time <= horizon
            BY <2>3, <2>6, <3>4, <5>1, <5>2, <5>3, <5>4
          <5> QED
            BY <5>3, <5>5
        <4> QED
          BY <4>1, <4>2
      <3>6. PICK begin \in 1 .. first :
                NextTime(more, timestamp, direction) =
                    more[begin].time + (IF Len(more) = 1 THEN 0 ELSE ResponseTime(direction))
        <4>1. \A j \in first .. Len(more) : Beyond(more[j].lux, direction)
          BY <3>5
        <4>2. \E begin \in 1 .. first :
                  /\ \A j \in begin .. Len(more) : Beyond(more[j].lux, direction)
                  /\ NextTime(more, timestamp, direction) =
                         more[begin].time + (IF Len(more) = 1 THEN 0 ELSE ResponseTime(direction))
          BY <4>1, RunBegins, Zenon
        <4> QED
          BY <4>2, Zenon
      <3>7. ~(NextTime(more, timestamp, direction) <= timestamp)
        BY <2>2, <2>5, <2>10, Zenon DEF IsNeedUpdateBrightness, Counts
      <3>8. /\ begin \in 1 .. Len(more) /\ more[begin].time \in Int
            /\ more[begin].time <= more[first].time /\ more[begin].time <= timestamp
        <4>1. begin \in 1 .. Len(more) /\ begin <= first
          BY <2>6
        <4> QED
          BY <2>6, <2>9, <4>1
      <3>9. PICK response \in Int : response = ResponseTime(direction) /\ response <= window
        BY <1>0, <2>3, <2>10, ModeData, ResponseWithin
      <3>10. more[begin].time + response > timestamp
        BY <3>6, <3>7, <3>8, <3>9
      <3>11. timestamp - since'[direction] < response
        <4>1. more[begin].time <= since'[direction] \/ more[begin].time <= horizon
          BY <2>3, <2>6, <3>4, <3>5, <3>8
        <4> QED
          BY <2>3, <3>4, <3>8, <3>9, <3>10, <4>1
      <3> QED
        BY <3>5, <3>9, <3>11
    <2>11. SceneKnown' = SceneKnown
           /\ \A direction : ResponseTime(direction)' = ResponseTime(direction)
      BY <2>8 DEF SceneKnown, ResponseTime, GetCurrentModeData
    <2>12. ASSUME NEW direction \in Directions, SceneKnown, ~updated', NEW l
           PROVE  Beyond(l, direction)' = Beyond(l, direction)
      <3>1. UNCHANGED <<mFilteredLux, deltas>>
        BY <2>2, <2>12 DEF IsNeedUpdateBrightness
      <3> QED
        BY <3>1, Zenon DEF Beyond
    <2>13. NeverSticks'
      BY <2>8, <2>10, <2>11 DEF NeverSticks
    <2>14. ASSUME NEW direction \in Directions, SceneKnown, since'[direction] # Never, ~updated'
           PROVE  \E first \in DOMAIN mLuxBufferFilter' :
                      /\ AllBeyond(first, direction)'
                      /\ \/ mLuxBufferFilter'[first].time <= since'[direction]
                         \/ mLuxBufferFilter'[first].time <= readAt' - LIGHT_LUX_BUFFER_RANGE
      <3>1. PICK first \in 1 .. Len(more) :
                /\ \A j \in first .. Len(more) : Beyond(more[j].lux, direction)
                /\ more[first].time <= since'[direction] \/ more[first].time <= horizon
        BY <2>10, <2>14
      <3>2. AllBeyond(first, direction)'
        BY <2>5, <2>12, <2>14, <3>1 DEF AllBeyond
      <3> QED
        BY <2>3, <2>5, <2>6, <2>8, <3>1, <3>2
    <2> QED
      BY <1>0, <2>5, <2>6, <2>8, <2>9, <2>11, <2>13, <2>14 DEF StickInv
  <1> QED
    BY <1>1, <1>2, <1>3 DEF ManagerNext

\* LightLuxManager: with debounce times within the window, a light that has been beyond the margin
\* for as long is never left behind by a reading.
THEOREM LightNeverSticks == WithinWindow /\ ManagerSpec => []NeverSticks
  <1> SUFFICES ASSUME WithinWindow PROVE ManagerSpec => []NeverSticks
    OBVIOUS
  <1>1. StickInv => NeverSticks
    BY DEF StickInv
  <1>2. StickInv /\ [ManagerNext]_managerVars => StickInv'
    BY StickStep
  <1> QED
    BY <1>1, <1>2, StickInit, PTL DEF ManagerSpec

-----------------------------------------------------------------------------
(* The documents. *)

\* The parser keeps the mode in use of the documents that have it, and of no other.
LEMMA ParsedMode ==
    ASSUME NEW file
    PROVE  "DefaultMode" \in DOMAIN LuxThresholdConfig(file) <=> HasDefaultMode(file)
  <1> DEFINE array == Member(file, "thresholdMode", Foreign)
             names == {array[i].modeName : i \in {k \in DOMAIN array :
                                                      "modeName" \in DOMAIN array[k]}}
  <1>1. CASE file = Unparsable
    BY <1>1 DEF LuxThresholdConfig, HasDefaultMode
  <1>2. CASE file # Unparsable /\ ~(Document(file) /\ array # Foreign)
    <2>1. LuxThresholdConfig(file) = << >>
      BY <1>2 DEF LuxThresholdConfig
    <2>2. DOMAIN << >> = {}
      OBVIOUS
    <2>3. "DefaultMode" \notin DOMAIN LuxThresholdConfig(file)
      BY <2>1, <2>2
    <2>4. ~HasDefaultMode(file)
      BY <1>2 DEF HasDefaultMode
    <2> QED
      BY <2>3, <2>4
  <1>3. CASE file # Unparsable /\ Document(file) /\ array # Foreign
    <2>1. DOMAIN LuxThresholdConfig(file) = names
      BY <1>3 DEF LuxThresholdConfig
    <2>2. \A i \in DOMAIN array :
              Member(array[i], "modeName", "") = "DefaultMode"
                  <=> "modeName" \in DOMAIN array[i] /\ array[i].modeName = "DefaultMode"
      BY DEF Member
    <2> QED
      BY <1>3, <2>1, <2>2 DEF HasDefaultMode
  <1> QED
    BY <1>1, <1>2, <1>3

ConfigInv ==
    /\ modeArray = LuxThresholdConfig(thresholdFile)
    /\ thrown <=> mLuxBuffer # << >> /\ ~SceneKnown

LEMMA ConfigStep == ConfigInv /\ [ManagerNext]_managerVars => ConfigInv'
  <1> SUFFICES ASSUME ConfigInv, [ManagerNext]_managerVars PROVE ConfigInv'
    OBVIOUS
  <1>1. ASSUME NEW lux \in RoomLuxes, NEW timestamp, IsNeedUpdateBrightness(lux, timestamp)
        PROVE  ConfigInv'
    <2>1. mLuxBuffer' # << >>
      BY <1>1 DEF IsNeedUpdateBrightness, UpdateLuxBuffer
    <2>2. /\ UNCHANGED <<thresholdFile, modeArray>> /\ ~thrown
          /\ thrown' <=> ~SceneKnown
      BY <1>1, Zenon DEF IsNeedUpdateBrightness
    <2> QED
      BY <2>1, <2>2 DEF ConfigInv, SceneKnown
  <1>2. CASE ClearLuxData
    BY <1>2 DEF ClearLuxData, ConfigInv, SceneKnown
  <1>3. CASE UNCHANGED managerVars
    BY <1>3 DEF managerVars, buffers, ConfigInv, SceneKnown
  <1> QED
    BY <1>1, <1>2, <1>3 DEF ManagerNext

\* LightLuxManager: whatever the document is, the first reading throws when it is JSON that gives
\* no DefaultMode, and no reading throws when it is no JSON or gives one.
THEOREM ReadingsThrowWithoutMode == ManagerSpec => []ThrowsWithoutMode
  <1>1. ManagerInit => ConfigInv
    BY DEF ManagerInit, ConfigInv
  <1>2. ConfigInv => ThrowsWithoutMode
    BY ParsedMode DEF ConfigInv, SceneKnown, ThrowsWithoutMode
  <1> QED
    BY <1>1, <1>2, ConfigStep, PTL DEF ManagerSpec

-----------------------------------------------------------------------------
(* And the light moves only for one that lasts. *)

\* The last margin of a line, for the brightest rooms, is positive in a product's document;
\* CalcDelta makes the others at least 1.  With a margin of zero every reading counts.
Margined ==
    \A file \in ThresholdFiles :
        LET modes == LuxThresholdConfig(file) IN
        "DefaultMode" \in DOMAIN modes =>
            \A points \in {modes["DefaultMode"].brightenPoints, modes["DefaultMode"].darkenPoints} :
                points # << >> => points[Len(points)].y >= 1

LEMMA DeltaIsMargin ==
    ASSUME NEW points \in Seq(PointXy), points # << >> => points[Len(points)].y >= 1,
           NEW lux \in Int
    PROVE  /\ CalcDelta(points, lux) \in Int
           /\ CalcDelta(points, lux) >= 0 => CalcDelta(points, lux) \in Nat \ {0}
  <1> DEFINE N == Len(points)
             k == Passed(points, lux)
  <1>1. N \in Nat /\ DOMAIN points = 1 .. N /\ \A i \in 1 .. N : points[i] \in PointXy
    BY ElementOfSeq
  <1>2. /\ k \in 0 .. N
        /\ \A j \in 1 .. N : j <= k <=> \A i \in 1 .. j : points[i].x <= lux
    BY PassedPrefix
  <1>3. CASE points = << >>
    BY <1>3 DEF CalcDelta, INVALID_VALUE
  <1>4. CASE points # << >> /\ k = N
    <2>1. N \in 1 .. N
      BY <1>1, <1>4, EmptySeq
    <2>2. points[N].y \in Int /\ points[N].y >= 1
      BY <1>1, <1>4, <2>1 DEF PointXy
    <2>3. CalcDelta(points, lux) = points[N].y
      BY <1>4 DEF CalcDelta
    <2> QED
      BY <2>2, <2>3
  <1>5. CASE points # << >> /\ k # N /\ k = 0
    <2>1. CalcDelta(points, lux) = 1
      BY <1>5 DEF CalcDelta
    <2> QED
      BY <2>1
  <1>6. CASE points # << >> /\ k # N /\ k # 0
    <2>1. k \in 1 .. N /\ k + 1 \in 1 .. N /\ ~(k + 1 <= k)
      BY <1>1, <1>2, <1>6
    <2>2. PICK p \in PointXy, q \in PointXy : p = points[k] /\ q = points[k + 1]
      BY <1>1, <2>1
    <2>3. \A i \in 1 .. k : points[i].x <= lux
      BY <1>2, <2>1
    <2>4. PICK i \in 1 .. k + 1 : ~(points[i].x <= lux)
      BY <1>2, <2>1
    <2>5. i = k + 1
      BY <2>1, <2>3, <2>4
    <2>6. p.x <= lux /\ lux < q.x
      BY <2>1, <2>2, <2>3, <2>4, <2>5 DEF PointXy
    <2>7. q.x - p.x \in Nat \ {0} /\ (q.y - p.y) * (lux - p.x) \in Int /\ p.y \in Int
      BY <2>6 DEF PointXy
    <2>8. ((q.y - p.y) * (lux - p.x)) \div (q.x - p.x) \in Int
      BY <2>7, DivBounds
    <2>9. PICK level \in Int : level = OnLine(p, q, lux)
      BY <2>7, <2>8 DEF OnLine
    <2>10. PICK one \in Int : one = 1
      OBVIOUS
    <2>11. Max({one, level}) = IF one <= level THEN level ELSE one
      BY OfTwo
    <2>12. CalcDelta(points, lux) = Max({one, level})
      BY <1>6, <2>2, <2>9, <2>10 DEF CalcDelta
    <2> QED
      BY <2>10, <2>11, <2>12
  <1> QED
    BY <1>3, <1>4, <1>5, <1>6

\* When the light moves, the new margins are margins.
LEMMA ParamIsMargin ==
    ASSUME Margined, ReadingsInv, SceneKnown, deltas \in [Directions -> Nat \ {0}],
           NEW lux \in Int, UpdateParam(lux)
    PROVE  mFilteredLux' = lux /\ deltas' \in [Directions -> Nat \ {0}]
  <1> DEFINE Points(direction) == IF direction = "brighter" THEN GetCurrentModeData.brightenPoints
                                  ELSE GetCurrentModeData.darkenPoints
  <1>1. ASSUME NEW direction \in Directions
        PROVE  CalcDelta(Points(direction), lux) >= 0 =>
                   CalcDelta(Points(direction), lux) \in Nat \ {0}
    <2>1. /\ GetCurrentModeData.brightenPoints \in Seq(PointXy)
          /\ GetCurrentModeData.darkenPoints \in Seq(PointXy)
      BY ModeData
    <2>2. \A points \in {GetCurrentModeData.brightenPoints, GetCurrentModeData.darkenPoints} :
              points # << >> => points[Len(points)].y >= 1
      BY DEF Margined, ReadingsInv, SceneKnown, GetCurrentModeData
    <2>3. PICK points \in Seq(PointXy) :
              /\ points = Points(direction)
              /\ points # << >> => points[Len(points)].y >= 1
      BY <2>1, <2>2
    <2>4. points # << >> => points[Len(points)].y >= 1
      BY <2>3
    <2> HIDE DEF Points
    <2>5. /\ CalcDelta(points, lux) \in Int
          /\ CalcDelta(points, lux) >= 0 => CalcDelta(points, lux) \in Nat \ {0}
      BY <2>4, DeltaIsMargin, Zenon
    <2> QED
      BY <2>3, <2>5, Zenon
  <1>2. deltas' = [direction \in Directions |->
            IF CalcDelta(Points(direction), lux) >= 0 THEN CalcDelta(Points(direction), lux)
            ELSE deltas[direction]]
    BY DEF UpdateParam
  <1> HIDE DEF Points
  <1> QED
    BY <1>1, <1>2 DEF UpdateParam

LEMMA SustainInit == ManagerInit => SustainInv
  <1> SUFFICES ASSUME ManagerInit PROVE SustainInv
    OBVIOUS
  <1>1. DOMAIN mLuxBufferFilter = {}
    BY DEF ManagerInit
  <1> QED
    BY <1>1, ReadingsInvInit, DeltasAssumption DEF ManagerInit, SustainInv

\* What a reading does: before the margins move, the readings beyond them at the end of the window
\* are those since since', and afterwards, if they move, the last one is not beyond them.
LEMMA SustainReading ==
    ASSUME Margined, SustainInv, NEW lux \in RoomLuxes, NEW timestamp \in Nat, readAt <= timestamp,
           IsNeedUpdateBrightness(lux, timestamp), SceneKnown
    PROVE  /\ mLuxBufferFilter' \in Seq(Smoothed)
           /\ ~mIsFirstLux' =>
                  \A direction \in Directions, next \in 1 .. Len(mLuxBufferFilter') :
                      (\A j \in next .. Len(mLuxBufferFilter') :
                           Beyond(mLuxBufferFilter'[j].lux, direction)) =>
                          /\ since'[direction] # Never
                          /\ since'[direction] <= mLuxBufferFilter'[next].time
           /\ ~updated' => ~mIsFirstLux'
           /\ updated' => \A direction \in Directions :
                  ~Beyond(mLuxBufferFilter[Len(mLuxBufferFilter)].lux, direction)'
           /\ deltas' \in [Directions -> Nat \ {0}]
  <1>0. ReadingsInv /\ deltas \in [Directions -> Nat \ {0}]
    BY DEF SustainInv
  <1>1. PICK horizon \in Int : horizon = timestamp - LIGHT_LUX_BUFFER_RANGE
    BY ManagerAssumption
  <1>2. PICK buffer \in Seq(Smoothed) : buffer = mLuxBufferFilter
    BY <1>0 DEF ReadingsInv
  <1>3. PICK more \in Seq(Smoothed), smooth \in Int :
            /\ more = mLuxBufferFilter' /\ more # << >>
            /\ smooth = CalcSmoothLux(mLuxBuffer')
            /\ more[Len(more)] = [time |-> timestamp, lux |-> smooth]
            /\ mIsFirstLux' <=> buffer = << >>
            /\ Len(mLuxBuffer') = 1 <=> buffer = << >>
            /\ buffer # << >> => \E o \in 1 .. Len(buffer) : Moved(buffer, more, horizon, o)
    <2>0. timestamp \in Int
      OBVIOUS
    <2>1. /\ mLuxBufferFilter' \in Seq(Smoothed) /\ mLuxBufferFilter' # << >>
          /\ CalcSmoothLux(mLuxBuffer') \in Int
          /\ mLuxBufferFilter'[Len(mLuxBufferFilter')] =
                 [time |-> timestamp, lux |-> CalcSmoothLux(mLuxBuffer')]
          /\ mIsFirstLux' <=> mLuxBufferFilter = << >>
          /\ Len(mLuxBuffer') = 1 <=> mLuxBufferFilter = << >>
          /\ mLuxBufferFilter # << >> => \E o \in 1 .. Len(mLuxBufferFilter) :
                 Moved(mLuxBufferFilter, mLuxBufferFilter', timestamp - LIGHT_LUX_BUFFER_RANGE, o)
      BY <1>0, <2>0, ReadingAdds
    <2> QED
      BY <1>1, <1>2, <2>1
  <1>4. /\ Len(more) \in Nat \ {0} /\ \A i \in 1 .. Len(more) : more[i].time \in Int
        /\ Len(buffer) \in Nat /\ DOMAIN buffer = 1 .. Len(buffer)
        /\ \A i \in 1 .. Len(buffer) : buffer[i].time \in Int
    BY <1>3, SmoothedFields, EmptySeq
  <1>5. more[Len(more)].time = timestamp /\ more[Len(more)].lux = smooth
    BY <1>3
  <1>6. ASSUME ~mIsFirstLux', NEW direction \in Directions, NEW next \in 1 .. Len(more),
               \A j \in next .. Len(more) : Beyond(more[j].lux, direction)
        PROVE  since'[direction] # Never /\ since'[direction] <= more[next].time
    <2>1. Beyond(smooth, direction)
      BY <1>4, <1>5, <1>6
    <2>2. since'[direction] = IF updated \/ since[direction] = Never THEN timestamp
                              ELSE since[direction]
      BY <1>3, <1>6, <2>1 DEF IsNeedUpdateBrightness
    <2>3. since[direction] \in Int /\ since[direction] <= timestamp /\ timestamp # Never
      <3>1. since[direction] <= readAt /\ readAt \in Nat /\ since[direction] \in Int
        BY <1>0 DEF ReadingsInv
      <3> QED
        BY <3>1 DEF Never
    <2>4. CASE next = Len(more)
      BY <1>5, <2>2, <2>3, <2>4
    <2>5. CASE next # Len(more)
      <3>1. PICK o \in 1 .. Len(buffer) : Moved(buffer, more, horizon, o)
        BY <1>3, <1>6
      <3>2. PICK first \in 1 .. Len(buffer) :
                /\ \A j \in first .. Len(buffer) : Beyond(buffer[j].lux, direction)
                /\ buffer[first].time <= more[next].time
        BY <1>6, <2>5, <3>1, RunWasThere
      <3>3. /\ ~updated /\ since[direction] # Never
            /\ since[direction] <= buffer[first].time
        BY <1>2, <1>4, <3>2 DEF SustainInv, AllBeyond
      <3> QED
        BY <1>4, <2>2, <2>3, <3>2, <3>3
    <2> QED
      BY <2>4, <2>5
  <1>7. updated' <=> Counts(mLuxBufferFilter', timestamp)
    BY Zenon DEF IsNeedUpdateBrightness
  <1>8. ~updated' => ~mIsFirstLux'
    BY <1>3, <1>7 DEF Counts
  <1>9. ASSUME updated'
        PROVE  /\ mFilteredLux' = smooth /\ deltas' \in [Directions -> Nat \ {0}]
    <2>1. UpdateParam(smooth)
      BY <1>3, <1>9 DEF IsNeedUpdateBrightness
    <2> QED
      BY <1>0, <2>1, ParamIsMargin
  <1>10. ASSUME updated', NEW direction \in Directions
         PROVE  ~Beyond(mLuxBufferFilter[Len(mLuxBufferFilter)].lux, direction)'
    <2>1. PICK margin \in Nat \ {0} : margin = deltas'[direction]
      BY <1>9, <1>10
    <2>2. mFilteredLux' = smooth
      BY <1>9, <1>10
    <2>3. mLuxBufferFilter'[Len(mLuxBufferFilter')].lux = smooth
      BY <1>3, <1>5
    <2>4. Beyond(mLuxBufferFilter[Len(mLuxBufferFilter)].lux, direction)' <=>
              smooth - smooth >= margin
      BY <2>1, <2>2, <2>3 DEF Beyond
    <2> QED
      BY <2>1, <2>4
  <1>11. deltas' \in [Directions -> Nat \ {0}]
    <2>1. CASE updated'
      BY <1>9, <2>1
    <2>2. CASE ~updated'
      BY <1>0, <2>2 DEF IsNeedUpdateBrightness
    <2> QED
      BY <2>1, <2>2
  <1>12. ~mIsFirstLux' =>
            \A direction \in Directions, next \in 1 .. Len(mLuxBufferFilter') :
                (\A j \in next .. Len(mLuxBufferFilter') :
                     Beyond(mLuxBufferFilter'[j].lux, direction)) =>
                    /\ since'[direction] # Never
                    /\ since'[direction] <= mLuxBufferFilter'[next].time
    <2>1. \A direction \in Directions, next \in 1 .. Len(more) :
              (\A j \in next .. Len(more) : Beyond(more[j].lux, direction)) =>
                  (~mIsFirstLux' => since'[direction] # Never
                                    /\ since'[direction] <= more[next].time)
      BY <1>6
    <2>2. more = mLuxBufferFilter'
      BY <1>3
    <2> HIDE DEF Beyond
    <2> QED
      BY <2>1, <2>2, Zenon
  <1>13. updated' => \A direction \in Directions :
            ~Beyond(mLuxBufferFilter[Len(mLuxBufferFilter)].lux, direction)'
    BY <1>10
  <1>14. mLuxBufferFilter' \in Seq(Smoothed)
    BY <1>3
  <1> QED
    BY <1>8, <1>11, <1>12, <1>13, <1>14, Zenon

LEMMA SustainStep == Margined /\ SustainInv /\ [ManagerNext]_managerVars => SustainInv'
  <1> SUFFICES ASSUME Margined, SustainInv, [ManagerNext]_managerVars PROVE SustainInv'
    OBVIOUS
  <1>0. ReadingsInv /\ ReadingsInv' /\ deltas \in [Directions -> Nat \ {0}]
    BY ReadingsStep DEF SustainInv
  <1>1. CASE UNCHANGED managerVars
    BY <1>0, <1>1 DEF SustainInv, managerVars, buffers, AllBeyond, Beyond, SceneKnown
  <1>2. CASE ClearLuxData
    <2>1. DOMAIN mLuxBufferFilter' = {} /\ deltas' = deltas
      BY <1>2 DEF ClearLuxData
    <2> QED
      BY <1>0, <2>1 DEF SustainInv
  <1>3. ASSUME NEW lux \in RoomLuxes, NEW gap \in ReadingGaps,
               IsNeedUpdateBrightness(lux, readAt + gap)
        PROVE  SustainInv'
    <2>1. PICK timestamp \in Nat : timestamp = readAt + gap /\ readAt <= timestamp
      <3>1. readAt + gap \in Nat /\ readAt <= readAt + gap
        BY <1>0, ManagerAssumption DEF ReadingsInv
      <3> QED
        BY <3>1
    <2>2. IsNeedUpdateBrightness(lux, timestamp)
      BY <1>3, <2>1
    <2>3. SceneKnown' <=> SceneKnown
      BY <2>2 DEF IsNeedUpdateBrightness, SceneKnown
    <2>4. CASE ~SceneKnown
      <3>1. deltas' = deltas
        BY <2>2, <2>4 DEF IsNeedUpdateBrightness
      <3> QED
        BY <1>0, <2>3, <2>4, <3>1 DEF SustainInv
    <2>5. CASE SceneKnown
      <3>1. /\ mLuxBufferFilter' \in Seq(Smoothed)
            /\ ~mIsFirstLux' =>
                   \A direction \in Directions, next \in 1 .. Len(mLuxBufferFilter') :
                       (\A j \in next .. Len(mLuxBufferFilter') :
                            Beyond(mLuxBufferFilter'[j].lux, direction)) =>
                           /\ since'[direction] # Never
                           /\ since'[direction] <= mLuxBufferFilter'[next].time
            /\ ~updated' => ~mIsFirstLux'
            /\ updated' => \A direction \in Directions :
                   ~Beyond(mLuxBufferFilter[Len(mLuxBufferFilter)].lux, direction)'
            /\ deltas' \in [Directions -> Nat \ {0}]
        BY <2>1, <2>2, <2>5, SustainReading
      <3>2. /\ Len(mLuxBufferFilter') \in Nat
            /\ DOMAIN mLuxBufferFilter' = 1 .. Len(mLuxBufferFilter')
        BY <3>1, SmoothedFields
      <3>3. ASSUME NEW direction \in Directions, NEW first \in DOMAIN mLuxBufferFilter',
                   AllBeyond(first, direction)'
            PROVE  /\ ~updated' /\ since'[direction] # Never
                   /\ since'[direction] <= mLuxBufferFilter'[first].time
        <4>1. Len(mLuxBufferFilter') \in first .. Len(mLuxBufferFilter')
          BY <3>2
        <4>2. Beyond(mLuxBufferFilter[Len(mLuxBufferFilter)].lux, direction)'
          BY <3>3, <4>1 DEF AllBeyond
        <4>3. ~updated' /\ ~mIsFirstLux'
          BY <3>1, <4>2
        <4>4. UNCHANGED <<mFilteredLux, deltas>>
          BY <2>2, <2>5, <4>3 DEF IsNeedUpdateBrightness
        <4>5. \A j \in first .. Len(mLuxBufferFilter') :
                  Beyond(mLuxBufferFilter'[j].lux, direction)
          BY <3>3, <4>4 DEF AllBeyond, Beyond
        <4> QED
          BY <3>1, <3>2, <4>3, <4>5
      <3> QED
        BY <1>0, <3>1, <3>3 DEF SustainInv
    <2> QED
      BY <2>4, <2>5
  <1> QED
    BY <1>1, <1>2, <1>3 DEF ManagerNext

\* A reading that moves the light comes after the debounce time of a run that since has seen.
LEMMA SustainMoves ==
    ASSUME Margined, SustainInv, NEW lux \in RoomLuxes, NEW timestamp \in Nat, readAt <= timestamp,
           IsNeedUpdateBrightness(lux, timestamp), updated', ~mIsFirstLux',
           \A direction \in Directions : Debounced(direction)
    PROVE  \E direction \in Directions :
               since'[direction] # Never /\ timestamp - since'[direction] >= ResponseTime(direction)
  <1>0. ReadingsInv
    BY DEF SustainInv
  <1>1. SceneKnown /\ \A direction \in Directions : ResponseTime(direction) > 0
    BY DEF Debounced, Directions
  <1>2. /\ mLuxBufferFilter' \in Seq(Smoothed)
        /\ ~mIsFirstLux' =>
               \A direction \in Directions, next \in 1 .. Len(mLuxBufferFilter') :
                   (\A j \in next .. Len(mLuxBufferFilter') :
                        Beyond(mLuxBufferFilter'[j].lux, direction)) =>
                       /\ since'[direction] # Never
                       /\ since'[direction] <= mLuxBufferFilter'[next].time
    BY <1>1, SustainReading
  <1>3. /\ mIsFirstLux' <=> mLuxBufferFilter = << >>
        /\ Len(mLuxBuffer') = 1 <=> mLuxBufferFilter = << >>
        /\ mLuxBufferFilter # << >> => \E o \in 1 .. Len(mLuxBufferFilter) :
               Moved(mLuxBufferFilter, mLuxBufferFilter', timestamp - LIGHT_LUX_BUFFER_RANGE, o)
    <2>1. timestamp \in Int
      OBVIOUS
    <2> QED
      BY <1>0, <2>1, ReadingAdds
  <1>4. PICK more \in Seq(Smoothed) : more = mLuxBufferFilter'
    BY <1>2
  <1>5. Len(more) \in Nat /\ Len(more) # 1
    <2>1. mLuxBufferFilter \in Seq(Smoothed)
      BY <1>0 DEF ReadingsInv
    <2>2. Len(mLuxBufferFilter) \in Nat
      BY <2>1
    <2>3. PICK o \in 1 .. Len(mLuxBufferFilter) : Len(more) = Len(mLuxBufferFilter) - o + 2
      BY <1>3, <1>4 DEF Moved
    <2> QED
      BY <2>2, <2>3
  <1>6. Counts(mLuxBufferFilter', timestamp)
    BY <1>1, Zenon DEF IsNeedUpdateBrightness
  <1>7. PICK direction \in Directions : NextTime(more, timestamp, direction) <= timestamp
    BY <1>3, <1>4, <1>6 DEF Counts
  <1>8. PICK response \in Int : response = ResponseTime(direction) /\ response > 0
    BY <1>0, <1>1, ModeData
  <1>9. DOMAIN more = 1 .. Len(more) /\ \A i \in 1 .. Len(more) : more[i].time \in Int
    BY SmoothedFields
  <1>10. PICK first \in 1 .. Len(more) :
             \A j \in first .. Len(more) : Beyond(more[j].lux, direction)
    <2> DEFINE run == {i \in DOMAIN more :
                          \A j \in i .. Len(more) : Beyond(more[j].lux, direction)}
    <2>1. SUFFICES ASSUME run = {} PROVE FALSE
      BY <1>9
    <2>2. NextTime(more, timestamp, direction) =
              (IF run = {} THEN timestamp ELSE more[Min(run)].time)
              + (IF Len(more) = 1 THEN 0 ELSE ResponseTime(direction))
      BY Zenon DEF NextTime
    <2> HIDE DEF run
    <2>3. (IF run = {} THEN timestamp ELSE more[Min(run)].time) = timestamp
      BY <2>1, Zenon
    <2>4. (IF Len(more) = 1 THEN 0 ELSE ResponseTime(direction)) = response
      BY <1>5, <1>8, Zenon
    <2>5. NextTime(more, timestamp, direction) = timestamp + response
      BY <2>2, <2>3, <2>4, Zenon
    <2> QED
      BY <1>7, <1>8, <2>5
  <1>11. \E begin \in 1 .. first :
             /\ \A j \in begin .. Len(more) : Beyond(more[j].lux, direction)
             /\ NextTime(more, timestamp, direction) =
                    more[begin].time + (IF Len(more) = 1 THEN 0 ELSE ResponseTime(direction))
    BY <1>10, RunBegins, Zenon
  <1>12. PICK begin \in 1 .. first :
             /\ \A j \in begin .. Len(more) : Beyond(more[j].lux, direction)
             /\ NextTime(more, timestamp, direction) =
                    more[begin].time + (IF Len(more) = 1 THEN 0 ELSE ResponseTime(direction))
    BY <1>11, Zenon
  <1>13. begin \in 1 .. Len(more) /\ more[begin].time \in Int
    BY <1>5, <1>9
  <1>14. since'[direction] # Never /\ since'[direction] <= more[begin].time
    BY <1>2, <1>4, <1>12, <1>13
  <1>15. more[begin].time + response <= timestamp
    BY <1>5, <1>7, <1>8, <1>12
  <1>16. since'[direction] \in Int
    BY <1>0 DEF ReadingsInv, IsNeedUpdateBrightness, Never
  <1> QED
    BY <1>8, <1>13, <1>14, <1>15, <1>16

\* LightLuxManager: with lines that end in a margin, the light that counts moves only when every
\* reading has been beyond the margin for the debounce time, whatever was pruned and smoothed.
THEOREM LightIsSustained == Margined /\ ManagerSpec => FollowsSustainedLight
  <1> SUFFICES ASSUME Margined PROVE ManagerSpec => FollowsSustainedLight
    OBVIOUS
  <1> DEFINE Moves == updated' /\ readAt' # readAt /\ ~mIsFirstLux'
                          /\ (\A d \in Directions : Debounced(d)) =>
                      \E d \in Directions :
                          /\ since'[d] # Never
                          /\ readAt' - since'[d] >= ResponseTime(d)
  <1>1. SustainInv /\ [ManagerNext]_managerVars => [Moves]_managerVars
    <2> SUFFICES ASSUME SustainInv, ManagerNext, updated', readAt' # readAt, ~mIsFirstLux',
                        \A d \in Directions : Debounced(d)
                 PROVE  \E d \in Directions :
                            since'[d] # Never /\ readAt' - since'[d] >= ResponseTime(d)
      OBVIOUS
    <2>1. CASE ClearLuxData
      BY <2>1 DEF ClearLuxData
    <2>2. ASSUME NEW lux \in RoomLuxes, NEW gap \in ReadingGaps,
                 IsNeedUpdateBrightness(lux, readAt + gap)
          PROVE  \E d \in Directions :
                     since'[d] # Never /\ readAt' - since'[d] >= ResponseTime(d)
      <3>1. PICK timestamp \in Nat : timestamp = readAt + gap /\ readAt <= timestamp
        <4>1. readAt + gap \in Nat /\ readAt <= readAt + gap
          BY ManagerAssumption DEF SustainInv, ReadingsInv
        <4> QED
          BY <4>1
      <3>2. IsNeedUpdateBrightness(lux, timestamp)
        BY <2>2, <3>1
      <3>3. readAt' = timestamp
        BY <3>2 DEF IsNeedUpdateBrightness
      <3> QED
        BY <3>1, <3>2, <3>3, SustainMoves
    <2> QED
      BY <2>1, <2>2 DEF ManagerNext
  <1>2. SustainInv /\ [ManagerNext]_managerVars => SustainInv'
    BY SustainStep
  <1> QED
    BY <1>1, <1>2, SustainInit, PTL DEF ManagerSpec, FollowsSustainedLight

-----------------------------------------------------------------------------
(* No sensor runs without automatic brightness. *)

\* NoSensorWithoutAuto alone is not inductive: DeactivateAllAmbientSensor switches both sensors off
\* on a foldable device and the first one on any other, so that others must not run at all.
SensorInv ==
    /\ isFoldable \in BOOLEAN /\ autoEnabled \in BOOLEAN
    /\ enabled \subseteq Sensors
    /\ ~isFoldable => SENSOR_TYPE_ID_AMBIENT_LIGHT1 \notin enabled
    /\ NoSensorWithoutAuto

LEMMA SensorInvInit == SensorInit => SensorInv
  BY DEF SensorInit, SensorInv, NoSensorWithoutAuto

\* What is switched on is a sensor there is, and only while automatic brightness is on.
LEMMA ActivateKeeps ==
    ASSUME SensorInv, NEW set, Activate(set), UNCHANGED isFoldable, autoEnabled' \in BOOLEAN,
           autoEnabled => autoEnabled',
           ~isFoldable => SENSOR_TYPE_ID_AMBIENT_LIGHT1 \notin set
    PROVE  SensorInv'
  BY DEF SensorInv, Activate, NoSensorWithoutAuto

LEMMA ActivateValidKeeps ==
    ASSUME SensorInv, ActivateValidAmbientSensor, UNCHANGED isFoldable, autoEnabled' \in BOOLEAN,
           autoEnabled => autoEnabled'
    PROVE  SensorInv'
  <1> DEFINE set == {IF isFoldable THEN ModeSensor(displayMode) ELSE SENSOR_TYPE_ID_AMBIENT_LIGHT}
  <1>1. ~isFoldable => SENSOR_TYPE_ID_AMBIENT_LIGHT1 \notin set
    BY SensorAssumption
  <1>2. Activate(set)
    BY DEF ActivateValidAmbientSensor
  <1> HIDE DEF set
  <1> QED
    BY <1>1, <1>2, ActivateKeeps

\* DeactivateAllAmbientSensor leaves nothing on, if it is called while mIsAutoBrightnessEnabled.
LEMMA DeactivateAllClears ==
    ASSUME SensorInv, DeactivateAllAmbientSensor
    PROVE  enabled' = {}
  BY DEF SensorInv, DeactivateAllAmbientSensor, Deactivate, NoSensorWithoutAuto, Sensors

LEMMA SensorStep == SensorInv /\ [SensorNext]_sensorVars => SensorInv'
  <1> SUFFICES ASSUME SensorInv, [SensorNext]_sensorVars PROVE SensorInv'
    OBVIOUS
  <1>1. CASE UNCHANGED <<isFoldable, autoEnabled, enabled>>
    BY <1>1 DEF SensorInv, NoSensorWithoutAuto
  <1>2. ASSUME NEW on \in BOOLEAN, SetDisplayState(on)
        PROVE  SensorInv'
    <2>1. UNCHANGED <<isFoldable, autoEnabled>>
      BY <1>2 DEF SetDisplayState, device
    <2>2. CASE UNCHANGED enabled
      BY <1>1, <2>1, <2>2
    <2>3. CASE ActivateValidAmbientSensor
      BY <2>1, <2>3, ActivateValidKeeps DEF SensorInv
    <2>4. CASE DeactivateAllAmbientSensor
      BY <2>1, <2>4, DeactivateAllClears DEF SensorInv, NoSensorWithoutAuto
    <2> QED
      BY <1>2, <2>2, <2>3, <2>4 DEF SetDisplayState
  <1>3. ASSUME NEW enable \in BOOLEAN, AutoAdjustBrightness(enable)
        PROVE  SensorInv'
    <2>1. UNCHANGED isFoldable
      BY <1>3 DEF AutoAdjustBrightness, device
    <2>2. CASE UNCHANGED <<autoEnabled, enabled>>
      BY <1>1, <2>1, <2>2
    <2>3. CASE autoEnabled' = enable /\ enable # autoEnabled /\ enable
               /\ ActivateValidAmbientSensor
      BY <2>1, <2>3, ActivateValidKeeps DEF SensorInv
    <2>4. CASE autoEnabled' = enable /\ DeactivateAllAmbientSensor
      BY <2>1, <2>4, DeactivateAllClears DEF SensorInv, NoSensorWithoutAuto
    <2> QED
      BY <1>3, <2>2, <2>3, <2>4 DEF AutoAdjustBrightness
  <1>4. ASSUME NEW status \in Postures, OnFoldStatusChanged(status)
        PROVE  SensorInv'
    <2>1. isFoldable /\ UNCHANGED <<isFoldable, autoEnabled>> /\ SwitchSensor(status)
      BY <1>4 DEF OnFoldStatusChanged, device
    <2>2. CASE UNCHANGED enabled
      BY <1>1, <2>1, <2>2
    <2>3. CASE Deactivate({mCurrentSensorId}, autoEnabled)
      BY <2>1, <2>3 DEF Deactivate, SensorInv, NoSensorWithoutAuto
    <2>4. CASE Activate({GetSensorId(foldStatusMap, status)})
      BY <2>1, <2>4, ActivateKeeps DEF SensorInv
    <2> QED
      BY <2>1, <2>2, <2>3, <2>4 DEF SwitchSensor
  <1>5. CASE OnFoldStatusUnknown
    BY <1>1, <1>5 DEF OnFoldStatusUnknown, device
  <1> QED
    BY <1>1, <1>2, <1>3, <1>4, <1>5 DEF SensorNext, sensorVars, device, ProcessLightLux,
       SettingChanges

\* BrightnessService: the screen, the switch and the posture may change in any order, also in the
\* loose situations, and once automatic brightness is off no light sensor is left running.
THEOREM SensorsStopWithAuto == SensorSpec => []NoSensorWithoutAuto
  <1>1. SensorInv => NoSensorWithoutAuto
    BY DEF SensorInv
  <1> QED
    BY <1>1, SensorInvInit, SensorStep, PTL DEF SensorSpec

-----------------------------------------------------------------------------
(* The sensor that runs is the one of the display in use. *)

\* The documents of a product agree: the display that the fold status names has the sensor that its
\* display mode names.
Matched ==
    \A file \in ScreenFiles :
        /\ GetSensorId(FoldStatuses(file), EXPAND) = GetSensorId(DisplayModes(file), FULL)
        /\ GetSensorId(FoldStatuses(file), FOLDED) = GetSensorId(DisplayModes(file), MAIN)

CurrentSensor ==
    IF isFoldable THEN ModeSensor(displayMode) ELSE SENSOR_TYPE_ID_AMBIENT_LIGHT

\* Posture, display mode and mCurrentSensorId are three views of the same display, once the device
\* has been folded or unfolded; while it is half folded the last of them tells what to switch off.
PostureInv ==
    /\ SensorInv
    /\ lit \in BOOLEAN
    /\ autoEnabled => isSupported
    /\ GetSensorId(foldStatusMap, EXPAND) = ModeSensor(FULL)
    /\ GetSensorId(foldStatusMap, FOLDED) = ModeSensor(MAIN)
    /\ loose = {} =>
           /\ mLastFoldStatus \in Postures \union {0}
           /\ mLastFoldStatus = 0 => displayMode = MAIN
           /\ mLastFoldStatus = EXPAND => displayMode = FULL
           /\ mLastFoldStatus = FOLDED => displayMode = MAIN
           /\ mLastFoldStatus \in {EXPAND, FOLDED} => mCurrentSensorId = ModeSensor(displayMode)
    /\ SensorFollowsPosture

LEMMA PostureInvInit == Matched /\ SensorInit => PostureInv
  <1> SUFFICES ASSUME Matched, SensorInit PROVE PostureInv
    OBVIOUS
  <1>1. /\ GetSensorId(foldStatusMap, EXPAND) = ModeSensor(FULL)
        /\ GetSensorId(foldStatusMap, FOLDED) = ModeSensor(MAIN)
    BY DEF Matched, SensorInit, ModeSensor
  <1>2. loose = {} => displayMode = MAIN
    BY DEF SensorInit
  <1>3. SensorFollowsPosture
    BY DEF SensorInit, SensorFollowsPosture
  <1> QED
    BY <1>1, <1>2, <1>3, SensorInvInit, SensorAssumption
       DEF SensorInit, PostureInv, Postures

Runs(l, a) == l /\ a /\ ~(isFoldable /\ mLastFoldStatus = HALF_FOLD)

\* At any time the sensor in use is on or none is: that is all the decisions of BrightnessService
\* have to go by.
LEMMA OneOrNone ==
    ASSUME PostureInv, loose = {}
    PROVE  /\ enabled = IF Runs(lit, autoEnabled) THEN Sensors \intersect {CurrentSensor} ELSE {}
           /\ sources \subseteq enabled
           /\ IsCurrentSensorEnable <=> enabled # {}
  <1>1. /\ enabled = IF Runs(lit, autoEnabled) THEN Sensors \intersect {CurrentSensor} ELSE {}
        /\ sources \subseteq enabled
    BY DEF PostureInv, SensorFollowsPosture, Runs, CurrentSensor
  <1> QED
    BY <1>1 DEF IsCurrentSensorEnable, CurrentSensor

\* Switching off leaves nothing running and nothing to read.
LEMMA AllStop ==
    ASSUME PostureInv, loose = {}, DeactivateAllAmbientSensor
    PROVE  enabled' = {} /\ sources' = {}
  <1>1. enabled' = {}
    BY DeactivateAllClears DEF PostureInv
  <1>2. sources' \subseteq enabled'
    BY OneOrNone DEF DeactivateAllAmbientSensor, Deactivate
  <1> QED
    BY <1>1, <1>2

\* Switching on adds the sensor in use.
LEMMA OneStarts ==
    ASSUME PostureInv, loose = {}, ActivateValidAmbientSensor, autoEnabled'
    PROVE  enabled' = Sensors \intersect {CurrentSensor} /\ sources' \subseteq enabled'
  BY OneOrNone DEF ActivateValidAmbientSensor, Activate, CurrentSensor

LEMMA FollowsAgain ==
    ASSUME UNCHANGED <<isFoldable, displayModeMap, displayMode, mLastFoldStatus>>,
           enabled' = IF Runs(lit', autoEnabled') THEN Sensors \intersect {CurrentSensor} ELSE {},
           sources' \subseteq enabled'
    PROVE  SensorFollowsPosture'
  BY DEF SensorFollowsPosture, Runs, CurrentSensor, ModeSensor

LEMMA PostureStep == PostureInv /\ [SensorNext]_sensorVars => PostureInv'
  <1> SUFFICES ASSUME PostureInv, [SensorNext]_sensorVars PROVE PostureInv'
    OBVIOUS
  <1> USE DEF device, fold
  <1>1. UNCHANGED device
    BY DEF SensorNext, sensorVars, SetDisplayState, AutoAdjustBrightness, OnFoldStatusChanged,
       OnFoldStatusUnknown, ProcessLightLux, SettingChanges
  <1>2. SensorInv'
    BY SensorStep DEF PostureInv
  <1>3. /\ GetSensorId(foldStatusMap', EXPAND) = ModeSensor(FULL)'
        /\ GetSensorId(foldStatusMap', FOLDED) = ModeSensor(MAIN)'
    BY <1>1 DEF PostureInv, ModeSensor
  <1>a. ASSUME UNCHANGED fold, lit' \in BOOLEAN, autoEnabled' => isSupported,
               loose = {} => SensorFollowsPosture'
        PROVE  PostureInv'
    <2>1. loose' # {} => SensorFollowsPosture'
      BY DEF SensorFollowsPosture
    <2> QED
      BY <1>1, <1>2, <1>3, <1>a, <2>1 DEF PostureInv, ModeSensor
  <1>4. ASSUME NEW on \in BOOLEAN, SetDisplayState(on) PROVE PostureInv'
    <2>1. UNCHANGED <<fold, autoEnabled>> /\ lit' = on
      BY <1>4 DEF SetDisplayState
    <2>2. ASSUME loose = {} PROVE SensorFollowsPosture'
      <3>1. /\ enabled = IF Runs(lit, autoEnabled) THEN Sensors \intersect {CurrentSensor} ELSE {}
            /\ sources \subseteq enabled
            /\ IsCurrentSensorEnable <=> enabled # {}
        BY <2>2, OneOrNone
      <3>2. on /\ isFoldable => mLastFoldStatus # HALF_FOLD
        BY <1>4, <2>2 DEF SetDisplayState, Tight
      <3>3. CASE on /\ autoEnabled
        <4>1. Runs(lit', autoEnabled')
          BY <2>1, <3>2, <3>3 DEF Runs
        <4>2. isSupported
          BY <3>3 DEF PostureInv
        <4>3. CASE IsCurrentSensorEnable
          <5>1. UNCHANGED <<enabled, sources>>
            BY <1>4, <3>3, <4>2, <4>3 DEF SetDisplayState
          <5>2. enabled = Sensors \intersect {CurrentSensor}
            BY <3>1, <4>3
          <5> QED
            BY <1>1, <2>1, <3>1, <4>1, <5>1, <5>2, FollowsAgain
        <4>4. CASE ~IsCurrentSensorEnable
          <5>1. ActivateValidAmbientSensor
            BY <1>4, <3>3, <4>2, <4>4 DEF SetDisplayState
          <5>2. enabled' = Sensors \intersect {CurrentSensor} /\ sources' \subseteq enabled'
            BY <2>1, <2>2, <3>3, <5>1, OneStarts
          <5> QED
            BY <1>1, <2>1, <4>1, <5>2, FollowsAgain
        <4> QED
          BY <4>3, <4>4
      <3>4. CASE ~(on /\ autoEnabled)
        <4>1. ~Runs(lit', autoEnabled')
          BY <2>1, <3>4 DEF Runs
        <4>2. CASE isSupported /\ IsCurrentSensorEnable
          <5>1. DeactivateAllAmbientSensor
            BY <1>4, <3>4, <4>2 DEF SetDisplayState
          <5>2. enabled' = {} /\ sources' = {}
            BY <2>2, <5>1, AllStop
          <5> QED
            BY <1>1, <2>1, <4>1, <5>2, FollowsAgain
        <4>3. CASE ~(isSupported /\ IsCurrentSensorEnable)
          <5>1. UNCHANGED <<enabled, sources>>
            BY <1>4, <3>4, <4>3 DEF SetDisplayState
          <5>2. enabled = {}
            <6>1. ~isSupported => ~autoEnabled
              BY DEF PostureInv
            <6> QED
              BY <3>1, <4>3, <6>1 DEF Runs
          <5> QED
            BY <1>1, <2>1, <3>1, <4>1, <5>1, <5>2, FollowsAgain
        <4> QED
          BY <4>2, <4>3
      <3> QED
        BY <3>3, <3>4
    <2>3. autoEnabled' => isSupported
      BY <2>1 DEF PostureInv
    <2> QED
      BY <1>a, <2>1, <2>2, <2>3
  <1>5. ASSUME NEW enable \in BOOLEAN, AutoAdjustBrightness(enable) PROVE PostureInv'
    <2>1. UNCHANGED <<fold, lit>>
      BY <1>5 DEF AutoAdjustBrightness
    <2>2. \/ ~isSupported /\ UNCHANGED <<autoEnabled, enabled, sources>>
          \/ /\ isSupported /\ autoEnabled' = enable
             /\ IF enable = autoEnabled THEN UNCHANGED <<enabled, sources>>
                ELSE IF enable THEN ActivateValidAmbientSensor ELSE DeactivateAllAmbientSensor
      BY <1>5 DEF AutoAdjustBrightness
    <2>3. autoEnabled' => isSupported
      BY <2>2 DEF PostureInv
    <2>4. ASSUME loose = {} PROVE SensorFollowsPosture'
      <3>1. /\ enabled = IF Runs(lit, autoEnabled) THEN Sensors \intersect {CurrentSensor} ELSE {}
            /\ sources \subseteq enabled
        BY <2>4, OneOrNone
      <3>2. CASE UNCHANGED <<autoEnabled, enabled, sources>>
        BY <1>1, <2>1, <3>1, <3>2, FollowsAgain
      <3>3. CASE isSupported /\ autoEnabled' = enable /\ enable /\ ActivateValidAmbientSensor
        <4>1. lit /\ (isFoldable => mLastFoldStatus # HALF_FOLD)
          BY <1>5, <2>4, <3>3 DEF AutoAdjustBrightness, Tight
        <4>2. Runs(lit', autoEnabled')
          BY <2>1, <3>3, <4>1 DEF Runs
        <4>3. enabled' = Sensors \intersect {CurrentSensor} /\ sources' \subseteq enabled'
          BY <2>4, <3>3, OneStarts
        <4> QED
          BY <1>1, <2>1, <4>2, <4>3, FollowsAgain
      <3>4. CASE isSupported /\ autoEnabled' = enable /\ ~enable /\ DeactivateAllAmbientSensor
        <4>1. ~Runs(lit', autoEnabled')
          BY <3>4 DEF Runs
        <4>2. enabled' = {} /\ sources' = {}
          BY <2>4, <3>4, AllStop
        <4> QED
          BY <1>1, <2>1, <4>1, <4>2, FollowsAgain
      <3> QED
        BY <2>2, <3>2, <3>3, <3>4
    <2>5. lit' \in BOOLEAN
      BY <2>1 DEF PostureInv
    <2> QED
      BY <1>a, <2>1, <2>3, <2>4, <2>5
  <1>6. ASSUME NEW status \in Postures, OnFoldStatusChanged(status) PROVE PostureInv'
    <2>1. /\ isFoldable /\ status # mLastFoldStatus /\ mLastFoldStatus' = status
          /\ UNCHANGED <<autoEnabled, autoSetting, lit>> /\ SwitchSensor(status)
      BY <1>6 DEF OnFoldStatusChanged
    <2>2. ASSUME loose = {}
          PROVE  /\ ~Leap(status) /\ autoSetting = autoEnabled
                 /\ mLastFoldStatus = 0 => status = FOLDED
                 /\ displayMode' = ModeOf(status)
      BY <1>6, <2>2 DEF OnFoldStatusChanged, Tight
    <2> DEFINE sensorId == GetSensorId(foldStatusMap, status)
    <2>3. ASSUME loose = {}, status # HALF_FOLD
          PROVE  /\ displayMode' = IF status = EXPAND THEN FULL ELSE MAIN
                 /\ mCurrentSensorId' = sensorId /\ sensorId = ModeSensor(displayMode')
      <3>1. displayMode' = IF status = EXPAND THEN FULL ELSE MAIN
        BY <2>2, <2>3, SensorAssumption DEF ModeOf, Postures
      <3>2. mCurrentSensorId' = sensorId
        BY <2>1, <2>3 DEF SwitchSensor
      <3>3. sensorId = ModeSensor(displayMode')
        BY <2>3, <3>1 DEF PostureInv, Postures
      <3> QED
        BY <3>1, <3>2, <3>3
    <2> HIDE DEF sensorId
    <2>4. ASSUME loose = {} PROVE SensorFollowsPosture'
      <3>1. /\ enabled = IF Runs(lit, autoEnabled) THEN Sensors \intersect {CurrentSensor} ELSE {}
            /\ sources \subseteq enabled
        BY <2>4, OneOrNone
      <3>2. isSupported /\ autoSetting /\ lit <=> lit /\ autoEnabled
        BY <2>2, <2>4 DEF PostureInv
      <3>3. CASE status = HALF_FOLD
        <4>1. enabled' = {} /\ sources' \subseteq enabled'
          <5>1. CASE lit /\ autoEnabled
            <6>1. Deactivate({mCurrentSensorId}, autoEnabled)
              BY <2>1, <3>2, <3>3, <5>1 DEF SwitchSensor
            <6>2. mLastFoldStatus \in {EXPAND, FOLDED}
              BY <2>1, <2>2, <2>4, <3>3, SensorAssumption DEF PostureInv, Postures
            <6>3. mCurrentSensorId = ModeSensor(displayMode)
              BY <2>4, <6>2 DEF PostureInv
            <6>4. enabled \subseteq {mCurrentSensorId}
              BY <2>1, <3>1, <6>3 DEF CurrentSensor
            <6> QED
              BY <3>1, <5>1, <6>1, <6>4 DEF Deactivate
          <5>2. CASE ~(lit /\ autoEnabled)
            BY <2>1, <3>1, <3>2, <3>3, <5>2 DEF SwitchSensor, Runs
          <5> QED
            BY <5>1, <5>2
        <4> QED
          BY <1>1, <2>1, <3>3, <4>1 DEF SensorFollowsPosture
      <3>4. CASE status # HALF_FOLD
        <4>1. enabled \subseteq {sensorId}
          <5>1. mLastFoldStatus \in {0, HALF_FOLD}
            BY <2>1, <2>2, <2>4, <3>4, SensorAssumption DEF PostureInv, Postures, Leap
          <5>2. CASE mLastFoldStatus = HALF_FOLD
            BY <2>1, <3>1, <5>2 DEF Runs
          <5>3. CASE mLastFoldStatus = 0
            <6>1. displayMode = MAIN /\ status = FOLDED
              BY <2>2, <2>4, <5>3 DEF PostureInv
            <6>2. CurrentSensor = sensorId
              BY <2>1, <6>1 DEF CurrentSensor, PostureInv, sensorId
            <6> QED
              BY <3>1, <6>2
          <5> QED
            BY <5>1, <5>2, <5>3
        <4>2. CASE lit /\ autoEnabled
          <5>1. Activate({sensorId})
            BY <2>1, <3>2, <3>4, <4>2 DEF SwitchSensor, sensorId
          <5>2. enabled' = enabled \union ({sensorId} \intersect Sensors) /\ UNCHANGED sources
            BY <2>1, <4>2, <5>1 DEF Activate
          <5>3. enabled' = Sensors \intersect {sensorId}
            BY <4>1, <5>2 DEF PostureInv, SensorInv
          <5>4. sources' \subseteq enabled'
            BY <3>1, <5>2
          <5>5. sensorId = ModeSensor(displayMode)'
            BY <1>1, <2>3, <2>4, <3>4 DEF ModeSensor
          <5> QED
            BY <1>1, <2>1, <3>4, <4>2, <5>3, <5>4, <5>5 DEF SensorFollowsPosture
        <4>3. CASE ~(lit /\ autoEnabled)
          <5>1. UNCHANGED <<enabled, sources>>
            BY <2>1, <3>2, <3>4, <4>3 DEF SwitchSensor
          <5>2. enabled = {}
            BY <3>1, <4>3 DEF Runs
          <5> QED
            BY <2>1, <3>1, <4>3, <5>1, <5>2 DEF SensorFollowsPosture
        <4> QED
          BY <4>2, <4>3
      <3> QED
        BY <3>3, <3>4
    <2>5. loose # {} => SensorFollowsPosture'
      BY <1>1 DEF SensorFollowsPosture
    <2>6. loose' = {} =>
              /\ mLastFoldStatus' \in Postures \union {0}
              /\ mLastFoldStatus' = 0 => displayMode' = MAIN
              /\ mLastFoldStatus' = EXPAND => displayMode' = FULL
              /\ mLastFoldStatus' = FOLDED => displayMode' = MAIN
              /\ mLastFoldStatus' \in {EXPAND, FOLDED} =>
                     mCurrentSensorId' = ModeSensor(displayMode)'
      BY <1>1, <2>1, <2>3, SensorAssumption DEF Postures, ModeSensor
    <2>7. lit' \in BOOLEAN /\ (autoEnabled' => isSupported')
      BY <1>1, <2>1 DEF PostureInv
    <2> QED
      BY <1>2, <1>3, <2>4, <2>5, <2>6, <2>7 DEF PostureInv
  <1>7. ASSUME NEW sensorId \in Sensors, ProcessLightLux(sensorId) PROVE PostureInv'
    BY <1>a, <1>7 DEF ProcessLightLux, PostureInv, SensorFollowsPosture, ModeSensor
  <1>8. CASE UNCHANGED <<fold, autoEnabled, lit, enabled, sources>>
    BY <1>1, <1>a, <1>8 DEF PostureInv, SensorFollowsPosture, ModeSensor
  <1>9. CASE OnFoldStatusUnknown
    <2>1. loose # {} /\ UNCHANGED <<displayMode, mCurrentSensorId, autoEnabled, lit, enabled>>
      BY <1>9 DEF OnFoldStatusUnknown, Tight
    <2> QED
      BY <1>1, <1>2, <1>3, <2>1 DEF PostureInv, SensorFollowsPosture, ModeSensor
  <1> QED
    BY <1>4, <1>5, <1>6, <1>7, <1>8, <1>9 DEF SensorNext, sensorVars, SettingChanges

\* BrightnessService: as long as the situations it does not handle do not come about, the sensor of
\* the display in use runs while it is needed, and no other, and the readings are its own.
THEOREM SensorFollows == Matched /\ SensorSpec => []SensorFollowsPosture
  <1> SUFFICES ASSUME Matched PROVE SensorSpec => []SensorFollowsPosture
    OBVIOUS
  <1>1. PostureInv => SensorFollowsPosture
    BY DEF PostureInv
  <1>2. SensorInit => PostureInv
    BY PostureInvInit
  <1> QED
    BY <1>1, <1>2, PostureStep, PTL DEF SensorSpec
=============================================================================
