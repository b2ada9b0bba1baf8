--------------------------- MODULE PartPlanProofs ---------------------------
(* planParts is right for every size, part size and number of parts.       *)
EXTENDS PartPlan, TLAPS

(* Division with a remainder, as Go and the provers agree on it for        *)
(* numbers that are not negative.                                          *)
LEMMA Euclid ==
    ASSUME NEW a \in Nat, NEW b \in Nat \ {0}
    PROVE  /\ a \div b \in Nat
           /\ (a % b) \in 0 .. (b - 1)
           /\ a = b * (a \div b) + (a % b)
  OBVIOUS

(* A product cannot shrink when a factor grows.                            *)
LEMMA ProductGrows ==
    ASSUME NEW a \in Nat, NEW b \in Nat, NEW c \in Nat, a <= b
    PROVE  a * c <= b * c
  OBVIOUS

(* Of two products by one number, the smaller has the smaller factor.      *)
LEMMA ProductReflects ==
    ASSUME NEW a \in Nat, NEW b \in Nat, NEW c \in Nat \ {0}, a * c < b * c
    PROVE  a < b
  OBVIOUS

(* The size of a part is at least the minimum, and MaxParts parts of it    *)
(* hold the file.                                                          *)
LEMMA PartSizeSuffices ==
    ASSUME NEW size \in Nat \ {0}
    PROVE  /\ PartSize(size) \in Nat \ {0}
           /\ PartSize(size) >= MinPart
           /\ size <= MaxParts * PartSize(size)
  <1> DEFINE m == size \div MinPart
             p == size \div MaxParts
  <1>1. /\ m \in Nat /\ (size % MinPart) \in 0 .. (MinPart - 1)
        /\ size = MinPart * m + (size % MinPart)
    BY Euclid, PartAssumption
  <1>2. /\ p \in Nat /\ (size % MaxParts) \in 0 .. (MaxParts - 1)
        /\ size = MaxParts * p + (size % MaxParts)
    BY Euclid, PartAssumption
  <1> HIDE DEF m, p
  <1>3. CASE m + 1 > MaxParts
    <2>1. PartSize(size) = p + 1  BY <1>3 DEF PartSize, m, p
    <2>2. MaxParts * (p + 1) = MaxParts * p + MaxParts
      BY <1>2, PartAssumption
    <2>3. size < MaxParts * (p + 1)
      BY <1>2, <2>2, PartAssumption
    <2>4. MaxParts * MinPart <= m * MinPart
      BY <1>1, <1>3, ProductGrows, PartAssumption
    <2>5. MinPart * m <= size  BY <1>1, PartAssumption
    <2>6. MinPart * MaxParts < (p + 1) * MaxParts
      BY <1>1, <1>2, <2>3, <2>4, <2>5, PartAssumption
    <2>7. MinPart < p + 1
      BY <1>2, <2>6, ProductReflects, PartAssumption
    <2> QED  BY <1>2, <2>1, <2>3, <2>7, PartAssumption
  <1>4. CASE ~(m + 1 > MaxParts)
    <2>1. PartSize(size) = MinPart  BY <1>4 DEF PartSize, m
    <2>2. MinPart * (m + 1) = MinPart * m + MinPart  BY <1>1, PartAssumption
    <2>3. (m + 1) * MinPart <= MaxParts * MinPart
      BY <1>1, <1>4, ProductGrows, PartAssumption
    <2>4. size <= MaxParts * MinPart
      BY <1>1, <2>2, <2>3, PartAssumption
    <2> QED  BY <2>1, <2>4, PartAssumption
  <1> QED  BY <1>3, <1>4

(* planParts rounds the number of parts up, for every declared size.       *)
LEMMA CoversEverySize ==
    ASSUME NEW size \in Nat \ {0}
    PROVE  Covers(size)
  <1> DEFINE s == PartSize(size)
             q == size \div s
             r == size % s
             n == TotalPartsOf(size)
  <1>1. s \in Nat \ {0} /\ s >= MinPart /\ size <= MaxParts * s
    BY PartSizeSuffices
  <1> HIDE DEF s
  <1>2. q \in Nat /\ r \in 0 .. (s - 1) /\ size = s * q + r
    BY <1>1, Euclid
  <1>3. n = LET parts == IF r = 0 THEN q ELSE q + 1
            IN  IF parts = 0 THEN 1 ELSE parts
    BY DEF TotalPartsOf, s
  <1> HIDE DEF q, r, n
  <1>4. q = 0 => s * q = 0  BY <1>1
  <1>5. /\ n \in Nat \ {0}
        /\ r = 0 => n = q
        /\ r # 0 => n = q + 1
    BY <1>2, <1>3, <1>4
  <1>6. (n - 1) * s < size /\ size <= n * s
    <2>1. CASE r = 0
      <3>1. (q - 1) * s = s * q - s  BY <1>1, <1>2
      <3> QED  BY <1>1, <1>2, <1>5, <2>1, <3>1
    <2>2. CASE r # 0
      <3>1. (q + 1) * s = s * q + s  BY <1>1, <1>2
      <3> QED  BY <1>1, <1>2, <1>5, <2>2, <3>1
    <2> QED  BY <2>1, <2>2
  <1>7. n - 1 < MaxParts
    <2>1. (n - 1) * s < MaxParts * s  BY <1>1, <1>2, <1>5, <1>6, PartAssumption
    <2> QED  BY <1>1, <1>5, <2>1, ProductReflects, PartAssumption
  <1> QED  BY <1>1, <1>5, <1>6, <1>7, PartAssumption DEF Covers, n, s

(* The plan of every accepted size covers the file with 1 .. MaxParts      *)
(* parts (planParts).                                                      *)
THEOREM PlansCover == PlanCovers
  BY CoversEverySize, PartAssumption DEF PlanCovers
=============================================================================
