----------------------- MODULE WithheldEvidenceProofs -----------------------
(* Proofs about MarketAssessment, from the facts of MarketAssessmentProofs:   *)
(* what a score loses without a group of its evidence, and that a market ranks*)
(* no higher for it.                                                          *)
EXTENDS MarketAssessmentProofs

---------------------------------------------------------------------------
(* Withheld evidence: how far other weights move a mean                       *)

\* Weights that grow one to four times: a part Y of S becomes X of B.  The share
\* of the part falls by a third of V at most, (B - S) * (4 * S - B) being
\* B * S - (B - 2 * S) ^ 2
LEMMA Shift ==
  ASSUME NEW Y \in Int, NEW X \in Int, NEW S \in Int, NEW B \in Int, NEW V \in Nat,
         Y <= X, 4 * Y - X <= V * (4 * S - B), S <= B, B <= 4 * S
  PROVE  3 * (Y * B) - 3 * (X * S) <= V * (B * S)
<1> DEFINE p == 4 * S - B
           q == B - S
           Q == V * p
           z == B - 2 * S
<1>1. p \in Nat /\ q \in Nat /\ Q \in Int /\ z \in Int
  OBVIOUS
<1>2. p * Y <= p * X
  <2> HIDE DEF p
  <2>1. CASE p = 0
    BY <2>1
  <2>2. CASE p > 0
    BY <1>1, <2>2, TimesMore
  <2> QED BY <1>1, <2>1, <2>2
<1>3. q * (4 * Y - Q) <= q * X
  <2> DEFINE u == 4 * Y - Q
  <2>1. u \in Int /\ u <= X
    BY <1>1
  <2> HIDE DEF q, u
  <2>2. q * u <= q * X
    <3>1. CASE q = 0
      BY <2>1, <3>1
    <3>2. CASE q > 0
      BY <1>1, <2>1, <3>2, TimesMore
    <3> QED BY <1>1, <3>1, <3>2
  <2> QED BY <2>2 DEF u
<1>4. p * X + q * X = 3 * (X * S)
  <2>1. (p + q) * X = p * X + q * X
    <3> HIDE DEF p, q
    <3> QED BY <1>1
  <2>2. p + q = 3 * S
    OBVIOUS
  <2>3. (3 * S) * X = 3 * (X * S)
    OBVIOUS
  <2> QED BY <2>1, <2>2, <2>3
<1>5. p * Y + q * (4 * Y - Q) = 3 * (Y * B) - q * Q
  <2>1. q * (4 * Y - Q) = 4 * (q * Y) - q * Q
    <3> HIDE DEF q, Q
    <3> QED BY <1>1
  <2>2. (p + 4 * q) * Y = p * Y + 4 * (q * Y)
    <3> HIDE DEF p, q
    <3> QED BY <1>1
  <2>3. p + 4 * q = 3 * B
    OBVIOUS
  <2>4. (3 * B) * Y = 3 * (Y * B)
    OBVIOUS
  <2> DEFINE a == p * Y
             b == q * Y
             c == q * Q
  <2>5. a \in Int /\ b \in Int /\ c \in Int /\ Y * B \in Int
    <3> HIDE DEF p, q, Q
    <3> QED BY <1>1
  <2>6. a + 4 * b = 3 * (Y * B)
    BY <2>2, <2>3, <2>4
  <2> HIDE DEF a, b, c, Q, p, q
  <2> QED BY <2>1, <2>5, <2>6 DEF a, b, c
<1>6. q * Q = V * (q * p)
  <2> HIDE DEF p, q
  <2> QED BY <1>1
<1>7. q * p = B * S - z * z
  OBVIOUS
<1>8. z * z \in Nat
  <2> HIDE DEF z
  <2> QED BY <1>1
<1>9. V * (q * p) <= V * (B * S)
  <2> DEFINE g == q * p
             h == B * S
  <2>1. g \in Int /\ h \in Int /\ g <= h
    <3> DEFINE y == z * z
    <3>1. g = h - y /\ y \in Nat /\ h \in Int
      BY <1>7, <1>8
    <3> HIDE DEF g, h, y
    <3> QED BY <3>1
  <2> HIDE DEF g, h
  <2>2. V * g <= V * h
    <3>1. CASE V = 0
      BY <2>1, <3>1
    <3>2. CASE V > 0
      BY <2>1, <3>2, TimesMore
    <3> QED BY <3>1, <3>2
  <2> QED BY <2>2 DEF g, h
<1> DEFINE pY == p * Y
           pX == p * X
           qX == q * X
           qu == q * (4 * Y - Q)
           qQ == q * Q
           YB == Y * B
           XS == X * S
           m == V * (q * p)
           n == V * (B * S)
<1>10. /\ pY \in Int /\ pX \in Int /\ qX \in Int /\ qu \in Int /\ qQ \in Int
       /\ YB \in Int /\ XS \in Int /\ m \in Int /\ n \in Int
  <2> HIDE DEF p, q, Q
  <2> QED BY <1>1
<1>11. /\ pY <= pX /\ qu <= qX /\ pX + qX = 3 * XS /\ pY + qu = 3 * YB - qQ
       /\ qQ = m /\ m <= n
  BY <1>2, <1>3, <1>4, <1>5, <1>6, <1>9
<1> HIDE DEF pY, pX, qX, qu, qQ, YB, XS, m, n
<1>12. 3 * YB - 3 * XS <= n
  BY <1>10, <1>11
<1> QED BY <1>12 DEF YB, XS, n

\* Quotients that differ by V thirds at most, rounded
LEMMA RoundShift ==
  ASSUME NEW P \in Int, NEW Q \in Int, NEW S \in Int, NEW B \in Int, NEW V \in Nat,
         S > 0, B > 0, 3 * (P * B) - 3 * (Q * S) <= V * (B * S)
  PROVE  /\ Round(P, S) \in Int /\ Round(Q, B) \in Int
         /\ 3 * Round(P, S) <= 3 * Round(Q, B) + V + 3
<1> DEFINE r == Round(P, S)
           t == Round(Q, B)
           k == B * S
<1>1. r \in Int /\ 2 * (S * r) <= 2 * P + S
  BY RoundSpan
<1>2. t \in Int /\ 2 * Q + B < 2 * (B * t) + 2 * B
  BY RoundSpan
<1> HIDE DEF r, t
<1>3. k \in Int /\ k > 0
  <2>1. B * S >= B * 1
    BY TimesMore
  <2> QED BY <2>1
<1>4. 2 * (k * r) <= 2 * (P * B) + k
  <2> DEFINE a == 2 * (S * r)
             b == 2 * P + S
  <2>1. a \in Int /\ b \in Int /\ b >= a
    BY <1>1
  <2> HIDE DEF a, b
  <2>2. B * b >= B * a
    BY <2>1, TimesMore
  <2>3. B * a = 2 * (k * r)
    BY <1>1 DEF a
  <2>4. B * b = 2 * (P * B) + k
    BY DEF b
  <2> QED BY <2>2, <2>3, <2>4
<1>5. 2 * (Q * S) <= 2 * (k * t) + k
  <2> DEFINE a == 2 * Q
             b == 2 * (B * t) + B
  <2>1. a \in Int /\ b \in Int /\ b >= a
    <3> DEFINE c == B * t
    <3>1. c \in Int
      BY <1>2
    <3> HIDE DEF c
    <3> QED BY <1>2, <3>1 DEF c
  <2> HIDE DEF a, b
  <2>2. S * b >= S * a
    BY <2>1, TimesMore
  <2>3. S * a = 2 * (Q * S)
    BY DEF a
  <2>4. S * b = 2 * (k * t) + k
    BY <1>2 DEF b
  <2> QED BY <2>2, <2>3, <2>4
<1>6. 6 * (k * r) <= 6 * (k * t) + 2 * (V * k) + 6 * k
  <2> DEFINE kr == k * r
             kt == k * t
             PB == P * B
             QS == Q * S
             Vk == V * k
  <2>1. kr \in Int /\ kt \in Int /\ PB \in Int /\ QS \in Int /\ Vk \in Int
    <3> HIDE DEF k
    <3> QED BY <1>1, <1>2, <1>3
  <2>2. 3 * PB - 3 * QS <= Vk /\ 2 * kr <= 2 * PB + k /\ 2 * QS <= 2 * kt + k
    BY <1>4, <1>5
  <2> HIDE DEF kr, kt, PB, QS, Vk, k
  <2>3. 6 * kr <= 6 * kt + 2 * Vk + 6 * k
    BY <1>3, <2>1, <2>2
  <2> QED BY <2>3 DEF kr, kt, Vk
<1> HIDE DEF k
<1>7. SUFFICES ASSUME 3 * r > 3 * t + V + 3 PROVE FALSE
  BY <1>1, <1>2 DEF r, t
<1> DEFINE g == 3 * r
           h == 3 * t + V + 4
<1>8. g \in Int /\ h \in Int /\ g >= h
  BY <1>1, <1>2, <1>7
<1> HIDE DEF g, h
<1>9. k * g >= k * h
  BY <1>3, <1>8, TimesMore
<1>10. k * g = 3 * (k * r)
  BY <1>1, <1>3 DEF g
<1>11. k * h = 3 * (k * t) + V * k + 4 * k
  BY <1>2, <1>3 DEF h
<1> DEFINE kr == k * r
           kt == k * t
           Vk == V * k
<1>12. /\ kr \in Int /\ kt \in Int /\ Vk \in Int
       /\ 6 * kr <= 6 * kt + 2 * Vk + 6 * k /\ 3 * kr >= 3 * kt + Vk + 4 * k
  BY <1>1, <1>2, <1>3, <1>6, <1>9, <1>10, <1>11
<1> HIDE DEF kr, kt, Vk
<1> QED BY <1>3, <1>12

\* A comparison that holds for every member holds for the sums
Compared(D, a, f, b, g, c, h, d, k) ==
    \A i \in D : /\ f[i] \in Int /\ g[i] \in Int /\ h[i] \in Int /\ k[i] \in Int
                 /\ a * f[i] + b * g[i] <= c * h[i] + d * k[i]

LEMMA SumCompared ==
  ASSUME NEW D, IsFiniteSet(D), NEW a \in Int, NEW b \in Int, NEW c \in Int, NEW d \in Int,
         NEW f, NEW g, NEW h, NEW k, Compared(D, a, f, b, g, c, h, d, k)
  PROVE  /\ SumFunctionOnSet(f, D) \in Int /\ SumFunctionOnSet(g, D) \in Int
         /\ SumFunctionOnSet(h, D) \in Int /\ SumFunctionOnSet(k, D) \in Int
         /\ a * SumFunctionOnSet(f, D) + b * SumFunctionOnSet(g, D)
              <= c * SumFunctionOnSet(h, D) + d * SumFunctionOnSet(k, D)
<1> DEFINE af == [i \in D |-> a * f[i]]
           bg == [i \in D |-> b * g[i]]
           ch == [i \in D |-> c * h[i]]
           dk == [i \in D |-> d * k[i]]
           l == [i \in D |-> af[i] + bg[i]]
           r == [i \in D |-> ch[i] + dk[i]]
<1>1. \A i \in D : /\ af[i] = a * f[i] /\ bg[i] = b * g[i] /\ ch[i] = c * h[i] /\ dk[i] = d * k[i]
                   /\ l[i] = af[i] + bg[i] /\ r[i] = ch[i] + dk[i]
  OBVIOUS
<1> HIDE DEF af, bg, ch, dk, l, r
<1>2. \A i \in D : f[i] \in Int /\ g[i] \in Int /\ h[i] \in Int /\ k[i] \in Int
  BY DEF Compared
<1>3. \A i \in D : /\ af[i] \in Int /\ bg[i] \in Int /\ ch[i] \in Int /\ dk[i] \in Int
                   /\ l[i] \in Int /\ r[i] \in Int
  BY <1>1, <1>2
<1>4. \A i \in D : l[i] <= r[i]
  BY <1>1 DEF Compared
<1>5. SumFunctionOnSet(l, D) <= SumFunctionOnSet(r, D)
  BY ONLY IsFiniteSet(D), <1>3, <1>4, SumMono
<1>6. SumFunctionOnSet(l, D) = SumFunctionOnSet(af, D) + SumFunctionOnSet(bg, D)
  BY ONLY IsFiniteSet(D), <1>1, <1>3, SumPlus
<1>7. SumFunctionOnSet(r, D) = SumFunctionOnSet(ch, D) + SumFunctionOnSet(dk, D)
  BY ONLY IsFiniteSet(D), <1>1, <1>3, SumPlus
<1>8. /\ SumFunctionOnSet(af, D) = a * SumFunctionOnSet(f, D)
      /\ SumFunctionOnSet(bg, D) = b * SumFunctionOnSet(g, D)
  BY ONLY IsFiniteSet(D), a \in Int, b \in Int, <1>1, <1>2, SumTimes
<1>9. /\ SumFunctionOnSet(ch, D) = c * SumFunctionOnSet(h, D)
      /\ SumFunctionOnSet(dk, D) = d * SumFunctionOnSet(k, D)
  BY ONLY IsFiniteSet(D), c \in Int, d \in Int, <1>1, <1>2, SumTimes
<1>10. /\ SumFunctionOnSet(f, D) \in Int /\ SumFunctionOnSet(g, D) \in Int
       /\ SumFunctionOnSet(h, D) \in Int /\ SumFunctionOnSet(k, D) \in Int
  BY ONLY IsFiniteSet(D), <1>2, SumStep
<1> QED BY ONLY <1>5, <1>6, <1>7, <1>8, <1>9, <1>10

\* Weights w and b, one to four times as large, and the values y and x they give
\* something that is worth V at most
Moved(w, b, y, x, V) ==
    /\ w \in Int /\ b \in Int /\ y \in Int /\ x \in Int
    /\ w <= b /\ b <= 4 * w /\ y <= x /\ x <= 4 * y
    /\ 4 * y + V * b <= x + (4 * V) * w
    /\ x + V * w <= y + V * b

LEMMA MovedOf ==
  ASSUME NEW w \in Int, NEW b \in Int, NEW e \in Nat, NEW V \in Nat, NEW y, NEW x,
         w >= 0, w <= b, b <= 4 * w, e <= V, y = e * w, x = e * b
  PROVE  Moved(w, b, y, x, V)
<1> DEFINE p == b - w
           q == 4 * w - b
           r == V - e
<1>1. p \in Nat /\ q \in Nat /\ r \in Nat
  OBVIOUS
<1>2. y \in Int /\ x \in Int
  OBVIOUS
<1>3. e * p \in Nat /\ e * q \in Nat /\ r * p \in Nat /\ r * q \in Nat
  <2> HIDE DEF p, q, r
  <2> QED BY <1>1
<1>4. e * p = x - y /\ e * q = 4 * y - x
  OBVIOUS
<1>5. r * p = V * b - V * w - (x - y)
  OBVIOUS
<1>6. r * q = (4 * V) * w - V * b - (4 * y - x)
  OBVIOUS
<1> DEFINE ep == e * p
           eq == e * q
           rp == r * p
           rq == r * q
           Vb == V * b
           Vw == V * w
           Uw == (4 * V) * w
<1>7. /\ ep \in Nat /\ eq \in Nat /\ rp \in Nat /\ rq \in Nat
      /\ Vb \in Int /\ Vw \in Int /\ Uw \in Int
      /\ ep = x - y /\ eq = 4 * y - x /\ rp = Vb - Vw - (x - y) /\ rq = Uw - Vb - (4 * y - x)
  <2>1. Vb \in Int /\ Vw \in Int /\ Uw \in Int
    OBVIOUS
  <2> QED BY <1>3, <1>4, <1>5, <1>6, <2>1
<1> HIDE DEF p, q, r, ep, eq, rp, rq, Vb, Vw, Uw
<1>8. y <= x /\ x <= 4 * y /\ 4 * y + Vb <= x + Uw /\ x + Vw <= y + Vb
  BY <1>2, <1>7
<1> QED BY <1>2, <1>8 DEF Moved, Vb, Vw, Uw

\* and of the sums themselves
LEMMA MovedSum ==
  ASSUME NEW D, IsFiniteSet(D), NEW w, NEW b, NEW y, NEW x, NEW V \in Nat,
         \A i \in D : Moved(w[i], b[i], y[i], x[i], V)
  PROVE  Moved(SumFunctionOnSet(w, D), SumFunctionOnSet(b, D),
               SumFunctionOnSet(y, D), SumFunctionOnSet(x, D), V)
<1> DEFINE U == 4 * V
<1>0. 0 \in Int /\ 1 \in Int /\ 4 \in Int /\ V \in Int /\ U \in Int
  OBVIOUS
<1>1. \A i \in D : w[i] \in Int /\ b[i] \in Int /\ y[i] \in Int /\ x[i] \in Int
  BY DEF Moved
<1>a. \A i \in D : /\ w[i] <= b[i] /\ b[i] <= 4 * w[i] /\ y[i] <= x[i] /\ x[i] <= 4 * y[i]
                   /\ 4 * y[i] + V * b[i] <= x[i] + U * w[i]
                   /\ x[i] + V * w[i] <= y[i] + V * b[i]
  BY DEF Moved
<1> HIDE DEF U
<1> DEFINE sw == SumFunctionOnSet(w, D)
           sb == SumFunctionOnSet(b, D)
           sy == SumFunctionOnSet(y, D)
           sx == SumFunctionOnSet(x, D)
<1>2. Compared(D, 1, w, 0, w, 1, b, 0, w)
  BY <1>0, <1>1, <1>a DEF Compared
<1>3. Compared(D, 1, b, 0, w, 4, w, 0, w)
  BY <1>0, <1>1, <1>a DEF Compared
<1>4. Compared(D, 1, y, 0, w, 1, x, 0, w)
  BY <1>0, <1>1, <1>a DEF Compared
<1>5. Compared(D, 1, x, 0, w, 4, y, 0, w)
  BY <1>0, <1>1, <1>a DEF Compared
<1>6. Compared(D, 4, y, V, b, 1, x, U, w)
  BY <1>0, <1>1, <1>a DEF Compared
<1>7. Compared(D, 1, x, V, w, 1, y, V, b)
  BY <1>0, <1>1, <1>a DEF Compared
<1>8. /\ 1 * sw + 0 * sw <= 1 * sb + 0 * sw /\ 1 * sb + 0 * sw <= 4 * sw + 0 * sw
      /\ sw \in Int /\ sb \in Int
  BY ONLY IsFiniteSet(D), <1>0, <1>2, <1>3, SumCompared
<1>9. /\ 1 * sy + 0 * sw <= 1 * sx + 0 * sw /\ 1 * sx + 0 * sw <= 4 * sy + 0 * sw
      /\ sy \in Int /\ sx \in Int
  BY ONLY IsFiniteSet(D), <1>0, <1>4, <1>5, SumCompared
<1>10. 4 * sy + V * sb <= 1 * sx + U * sw
  BY ONLY IsFiniteSet(D), <1>0, <1>6, SumCompared
<1>11. 1 * sx + V * sw <= 1 * sy + V * sb
  BY ONLY IsFiniteSet(D), <1>0, <1>7, SumCompared
<1> HIDE DEF sw, sb, sy, sx
<1>12. sw <= sb /\ sb <= 4 * sw /\ sy <= sx /\ sx <= 4 * sy
  BY ONLY <1>8, <1>9
<1>13. 4 * sy + V * sb <= sx + U * sw /\ sx + V * sw <= sy + V * sb
  BY ONLY <1>8, <1>9, <1>10, <1>11
<1> QED BY <1>8, <1>9, <1>12, <1>13 DEF Moved, U, sw, sb, sy, sx

\* so a mean moves by a third of V at most, either way
LEMMA MeanMoved ==
  ASSUME NEW S, NEW B, NEW Y, NEW X, NEW V \in Nat, Moved(S, B, Y, X, V), S > 0
  PROVE  /\ 3 * (Y * B) - 3 * (X * S) <= V * (B * S)
         /\ 3 * (X * S) - 3 * (Y * B) <= V * (B * S)
<1>1. /\ S \in Int /\ B \in Int /\ Y \in Int /\ X \in Int /\ S <= B /\ B <= 4 * S
      /\ Y <= X /\ X <= 4 * Y
  BY DEF Moved
<1> DEFINE VS == V * S
           VB == V * B
           y == VS - Y
           x == VB - X
<1>2. /\ VS \in Int /\ VB \in Int /\ (4 * V) * S = 4 * VS /\ V * (4 * S - B) = 4 * VS - VB
  BY <1>1
<1>3. 4 * Y + VB <= X + 4 * VS /\ X + VS <= Y + VB
  BY <1>2 DEF Moved
<1> HIDE DEF VS, VB
<1>4. 4 * Y - X <= V * (4 * S - B)
  BY <1>1, <1>2, <1>3
<1>5. 3 * (Y * B) - 3 * (X * S) <= V * (B * S)
  BY ONLY <1>1, <1>4, V \in Nat, Shift
<1>6. y \in Int /\ x \in Int /\ y <= x /\ 4 * y - x <= V * (4 * S - B)
  BY <1>1, <1>2, <1>3
<1> HIDE DEF x, y
<1>7. 3 * (y * B) - 3 * (x * S) <= V * (B * S)
  BY ONLY <1>1, <1>6, V \in Nat, Shift
<1>8. y * B = V * (B * S) - Y * B
  BY <1>1 DEF y, VS
<1>9. x * S = V * (B * S) - X * S
  BY <1>1 DEF x, VB
<1> DEFINE yB == y * B
           xS == x * S
           YB == Y * B
           XS == X * S
           n == V * (B * S)
<1>10. /\ YB \in Int /\ XS \in Int /\ n \in Int /\ yB = n - YB /\ xS = n - XS
       /\ 3 * yB - 3 * xS <= n
  BY <1>1, <1>7, <1>8, <1>9
<1> HIDE DEF yB, xS, YB, XS, n
<1>11. 3 * XS - 3 * YB <= n
  BY <1>10
<1> QED BY <1>5, <1>11 DEF XS, YB, n

LEMMA RoundTop ==
  ASSUME NEW n \in Int, NEW d \in Int, d > 0, NEW k \in Int, n <= k * d
  PROVE  Round(n, d) \in Int /\ Round(n, d) <= k
<1> DEFINE q == Round(n, d)
<1>1. q \in Int /\ 2 * (d * q) <= 2 * n + d
  BY RoundSpan
<1> HIDE DEF q
<1>2. SUFFICES ASSUME q >= k + 1 PROVE FALSE
  BY <1>1 DEF q
<1>3. d * q >= d * (k + 1)
  BY <1>1, <1>2, TimesMore
<1>4. d * (k + 1) = k * d + d
  OBVIOUS
<1> DEFINE x == d * q
           y == k * d
<1>5. x \in Int /\ y \in Int /\ x >= y + d /\ n <= y /\ 2 * x <= 2 * n + d
  BY <1>1, <1>3, <1>4
<1> HIDE DEF x, y
<1> QED BY <1>5

\* No metric of a query that is compared exceeds the largest
LEMMA LargestMost ==
  ASSUME NEW ms \in Seq(Metric), NEW queries, IsFiniteSet(queries), NEW query \in queries,
         NEW field \in {"volume", "cpc"}, MetricOf(query, ms) # None,
         MetricOf(query, ms)[field] # None
  PROVE  MetricOf(query, ms)[field] <= Largest(queries, ms, field)
<1> DEFINE Q == {r \in queries : MetricOf(r, ms) # None}
           f == [q \in Q |-> OrZero(MetricOf(q, ms)[field])]
           S == {f[q] : q \in Q}
<1>1. Largest(queries, ms, field) = Max({0} \cup S)
  BY DEF Largest
<1>2. IsFiniteSet(Q) /\ query \in Q
  <2>1. Q \in SUBSET queries /\ query \in Q
    OBVIOUS
  <2> HIDE DEF Q
  <2> QED BY <2>1, FS_Subset
<1>3. \A q \in Q : f[q] \in Int
  <2>1. ASSUME NEW q \in Q PROVE f[q] \in Int
    <3>1. MetricOf(q, ms) \in Metric
      BY MetricOfMetric
    <3>2. MetricOf(q, ms)[field] \in Int \cup {None}
      BY <3>1 DEF Metric
    <3> QED BY <3>2 DEF OrZero
  <2> QED BY <2>1
<1>4. f[query] = MetricOf(query, ms)[field]
  BY <1>2 DEF OrZero
<1> HIDE DEF f, Q
<1>5. S \in SUBSET Int /\ IsFiniteSet(S) /\ f[query] \in S
  BY <1>2, <1>3, ImageFinite
<1> HIDE DEF S
<1> DEFINE T == {0} \cup S
<1>6. T \in SUBSET Int /\ IsFiniteSet(T) /\ T # {} /\ f[query] \in T
  <2>1. IsFiniteSet(S \cup {0})
    BY <1>5, FS_AddElement
  <2>2. S \cup {0} = T
    OBVIOUS
  <2>3. T \in SUBSET Int /\ T # {} /\ f[query] \in T
    BY <1>5
  <2> HIDE DEF T
  <2> QED BY <2>1, <2>2, <2>3
<1> HIDE DEF T
<1>7. f[query] <= Max(T)
  BY <1>6, MaxOf
<1> QED BY <1>1, <1>4, <1>7 DEF T

LEMMA SignalMost ==
  ASSUME NEW m, m = None \/ m \in Metric, NEW top \in Nat, NEW field \in {"volume", "cpc"},
         NEW share \in Nat, m # None => (m[field] # None => m[field] <= top)
  PROVE  Signal(m, top, field, share)[2] <= 10000 * Signal(m, top, field, share)[1]
<1>1. CASE m = None \/ top = 0
  BY <1>1 DEF Signal
<1>2. CASE m # None /\ top # 0 /\ m[field] = None
  BY <1>2 DEF Signal
<1>3. CASE m # None /\ top # 0 /\ m[field] # None
  <2> DEFINE v == m[field]
             n == 10000 * v
             r == Round(n, top)
             k == 10000
  <2>1. v \in Int /\ v <= top
    BY <1>3 DEF Metric
  <2>2. Signal(m, top, field, share) = <<share, share * r>>
    BY <1>3 DEF Signal, Unit
  <2> HIDE DEF v
  <2>3. n \in Int /\ top \in Int /\ top > 0 /\ k \in Int /\ n <= k * top
    BY <1>3, <2>1
  <2> HIDE DEF n, k
  <2>4. r \in Int /\ r <= k
    BY <2>3, RoundTop
  <2> HIDE DEF r
  <2>5. share * r <= share * k
    <3>1. CASE share = 0
      BY <2>3, <2>4, <3>1
    <3>2. CASE share > 0
      BY <2>3, <2>4, <3>2, TimesMore
    <3> QED BY <3>1, <3>2
  <2>6. share * k = 10000 * share
    BY DEF k
  <2> QED BY <2>2, <2>5, <2>6
<1> QED BY <1>1, <1>2, <1>3

\* A query of those that are compared weighs one at most
LEMMA KeywordWeightMost ==
  ASSUME NEW ms \in Seq(Metric), NEW queries, IsFiniteSet(queries), NEW query \in queries
  PROVE  KeywordWeight(query, queries, ms) <= 10000
<1> DEFINE m == MetricOf(query, ms)
           tv == Largest(queries, ms, "volume")
           tc == Largest(queries, ms, "cpc")
           d == Signal(m, tv, "volume", 60)
           c == Signal(m, tc, "cpc", 40)
<1>1. m = None \/ m \in Metric
  BY MetricOfMetric
<1>2. tv \in Nat /\ tc \in Nat
  BY LargestNat
<1>3. KeywordWeight(query, queries, ms) =
        IF d[1] + c[1] = 0 THEN Unit
        ELSE Most(Unit \div 4, Round(d[2] + c[2], d[1] + c[1]))
  BY DEF KeywordWeight, Signal
<1>a. "volume" \in {"volume", "cpc"} /\ "cpc" \in {"volume", "cpc"} /\ 60 \in Nat /\ 40 \in Nat
  OBVIOUS
<1>4. m # None => (m["volume"] # None => m["volume"] <= tv)
  BY <1>a, LargestMost
<1>5. m # None => (m["cpc"] # None => m["cpc"] <= tc)
  BY <1>a, LargestMost
<1> HIDE DEF m, tv, tc
<1>6. d[1] \in {0, 60} /\ d[2] \in Int /\ d[2] <= 10000 * d[1]
  <2>1. d[1] \in {0, 60} /\ d[2] \in Int
    BY ONLY <1>1, <1>2, <1>a, SignalInt
  <2>2. d[2] <= 10000 * d[1]
    BY ONLY <1>1, <1>2, <1>4, <1>a, SignalMost
  <2> QED BY <2>1, <2>2
<1>7. c[1] \in {0, 40} /\ c[2] \in Int /\ c[2] <= 10000 * c[1]
  <2>1. c[1] \in {0, 40} /\ c[2] \in Int
    BY ONLY <1>1, <1>2, <1>a, SignalInt
  <2>2. c[2] <= 10000 * c[1]
    BY ONLY <1>1, <1>2, <1>5, <1>a, SignalMost
  <2> QED BY <2>1, <2>2
<1> HIDE DEF d, c
<1> DEFINE n == d[2] + c[2]
           e == d[1] + c[1]
           k == 10000
<1>8. n \in Int /\ e \in Int /\ k \in Int /\ (e # 0 => e > 0) /\ n <= k * e
  <2> DEFINE d1 == d[1]
             d2 == d[2]
             c1 == c[1]
             c2 == c[2]
  <2>1. /\ d1 \in {0, 60} /\ d2 \in Int /\ d2 <= 10000 * d1
        /\ c1 \in {0, 40} /\ c2 \in Int /\ c2 <= 10000 * c1
    BY <1>6, <1>7
  <2> HIDE DEF d1, d2, c1, c2
  <2>2. d1 \in Nat /\ c1 \in Nat
    BY ONLY <2>1
  <2>3. /\ d2 + c2 \in Int /\ d1 + c1 \in Int /\ (d1 + c1 # 0 => d1 + c1 > 0)
        /\ d2 + c2 <= 10000 * (d1 + c1)
    BY ONLY <2>1, <2>2
  <2>4. k \in Int
    OBVIOUS
  <2> QED BY ONLY <2>3, <2>4 DEF d1, d2, c1, c2, n, e, k
<1>9. Unit = 10000 /\ Unit \div 4 = 2500
  BY DEF Unit
<1> HIDE DEF n, e, k
<1>10. e # 0 => Round(n, e) \in Int /\ Round(n, e) <= k
  BY <1>8, RoundTop
<1>11. KeywordWeight(query, queries, ms) = IF e = 0 THEN 10000 ELSE Most(2500, Round(n, e))
  BY <1>3, <1>9 DEF n, e
<1> QED BY <1>10, <1>11 DEF Most, k

\* Without metrics every query weighs one
LEMMA KeywordWeightNone ==
  ASSUME NEW queries, NEW query
  PROVE  KeywordWeight(query, queries, <<>>) = 10000
<1>1. DOMAIN <<>> = {}
  OBVIOUS
<1>2. MetricOf(query, <<>>) = None
  BY <1>1 DEF MetricOf
<1> DEFINE d == Signal(None, Largest(queries, <<>>, "volume"), "volume", 60)
           c == Signal(None, Largest(queries, <<>>, "cpc"), "cpc", 40)
<1>3. d = <<0, 0>> /\ c = <<0, 0>>
  BY DEF Signal
<1>4. KeywordWeight(query, queries, <<>>) =
        IF d[1] + c[1] = 0 THEN Unit
        ELSE Most(Unit \div 4, Round(d[2] + c[2], d[1] + c[1]))
  BY <1>2 DEF KeywordWeight, Signal
<1> HIDE DEF d, c
<1>5. d[1] + c[1] = 0
  BY <1>3
<1> QED BY <1>4, <1>5 DEF Unit

\* Points that grow by k hundredths at most, and their scores
LEMMA BoundedMoved ==
  ASSUME NEW v \in Int, NEW u \in Int, NEW weight \in Nat, NEW k \in Nat, v <= u + 100 * k
  PROVE  Bounded(v, weight) <= Bounded(u, weight) + k
<1> DEFINE a == Clamp(v, weight * Unit)
           b == Clamp(u, weight * Unit)
           r == Round(a, 100)
           t == Round(b, 100)
<1>1. a \in Int /\ b \in Int /\ a <= b + 100 * k
  BY DEF Clamp, Most, Least, Unit
<1>2. Bounded(v, weight) = r /\ Bounded(u, weight) = t
  BY DEF Bounded
<1> HIDE DEF a, b
<1>a. 100 \in Int /\ 100 > 0
  OBVIOUS
<1>3. r \in Int /\ 2 * (100 * r) <= 2 * a + 100
  BY ONLY <1>1, <1>a, RoundSpan
<1>4. t \in Int /\ 2 * b + 100 < 2 * (100 * t) + 2 * 100
  BY ONLY <1>1, <1>a, RoundSpan
<1> HIDE DEF r, t
<1>5. r <= t + k
  BY <1>1, <1>3, <1>4
<1> QED BY <1>2, <1>5

\* Without metrics a competitor weighs one to four times as much
LEMMA ExposureMoved ==
  ASSUME NEW c, Rival(c), NEW queries, IsFiniteSet(queries), NEW ms \in Seq(Metric),
         \A o \in c.observations : o.query \in queries
  PROVE  /\ Exposure(c, queries, <<>>) \in Int
         /\ Exposure(c, queries, ms) <= Exposure(c, queries, <<>>)
         /\ Exposure(c, queries, <<>>) <= 4 * Exposure(c, queries, ms)
<1> DEFINE T == c.observations
           kw(o) == KeywordWeight(o.query, queries, ms)
           pw(o) == CompetitorPositionWeight(o.position)
           f == [o \in T |-> Round(kw(o) * pw(o), 100)]
           g == [o \in T |-> Round(10000 * pw(o), 100)]
<1>1. IsFiniteSet(T)
  BY DEF Rival
<1>2. Exposure(c, queries, ms) = IF T = {} THEN Unit ELSE SumFunctionOnSet(f, T)
  BY DEF Exposure, SumOver
<1>3. Exposure(c, queries, <<>>) = IF T = {} THEN Unit ELSE SumFunctionOnSet(g, T)
  BY KeywordWeightNone DEF Exposure, SumOver
<1>4. ASSUME NEW o \in T PROVE f[o] \in Int /\ g[o] \in Int /\ f[o] <= g[o] /\ g[o] <= 4 * f[o]
  <2> DEFINE a == kw(o)
             b == pw(o)
             x == a * b
             y == 10000 * b
             r == Round(x, 100)
             t == Round(y, 100)
  <2>1. a \in Int /\ a >= 2500 /\ a <= 10000
    BY KeywordWeightInt, KeywordWeightMost
  <2>2. b \in Int /\ b >= 18
    BY PositionMore
  <2>3. f[o] = r /\ g[o] = t
    OBVIOUS
  <2> HIDE DEF a, b, r, t, f, g
  <2>4. x \in Int /\ x >= 2500 * b /\ x <= 10000 * b /\ y = 10000 * b /\ y \in Int
    <3>1. b * a >= b * 2500 /\ b * 10000 >= b * a
      BY <2>1, <2>2, TimesMore
    <3>2. b * a = x
      BY <2>1, <2>2
    <3> QED BY <2>1, <2>2, <3>1, <3>2
  <2> HIDE DEF x, y
  <2>5. x \in Int /\ y \in Int /\ 100 \in Int /\ 100 > 0
    BY <2>4
  <2>6. r \in Int /\ 2 * (100 * r) <= 2 * x + 100 /\ 2 * x + 100 < 2 * (100 * r) + 2 * 100
    BY <2>5, RoundSpan DEF r
  <2>7. t \in Int /\ 2 * (100 * t) <= 2 * y + 100 /\ 2 * y + 100 < 2 * (100 * t) + 2 * 100
    BY <2>5, RoundSpan DEF t
  <2>8. t = 100 * b /\ r <= 100 * b /\ r >= 25 * b
    BY <2>2, <2>4, <2>6, <2>7
  <2> QED BY <2>2, <2>3, <2>6, <2>7, <2>8
<1> HIDE DEF f, g, T
<1> DEFINE F == SumFunctionOnSet(f, T)
           G == SumFunctionOnSet(g, T)
<1>5. 0 \in Int /\ 1 \in Int /\ 4 \in Int
  OBVIOUS
<1>6. Compared(T, 1, f, 0, f, 1, g, 0, f) /\ Compared(T, 1, g, 0, f, 4, f, 0, f)
  BY <1>4 DEF Compared
<1>7. /\ F \in Int /\ G \in Int /\ 1 * F + 0 * F <= 1 * G + 0 * F
      /\ 1 * G + 0 * F <= 4 * F + 0 * F
  BY ONLY <1>1, <1>5, <1>6, SumCompared
<1> HIDE DEF F, G
<1>8. F \in Int /\ G \in Int /\ F <= G /\ G <= 4 * F
  BY <1>7
<1>9. Unit \in Int /\ Unit <= Unit /\ Unit <= 4 * Unit
  BY DEF Unit
<1> QED BY <1>2, <1>3, <1>8, <1>9 DEF F, G

\* Without metrics competitor weakness grows by a third of its weight at most
LEMMA WeaknessMoved ==
  ASSUME NEW cs, Listed(cs), Rivals(cs), cs # <<>>, NEW ms \in Seq(Metric)
  PROVE  CompetitorWeakness(cs, <<>>) <= CompetitorWeakness(cs, ms) + 734
<1> DEFINE U == UniqueDomains(cs)
           D == DOMAIN U
           q == Queries(U)
           w == [i \in D |-> Exposure(U[i], q, ms)]
           b == [i \in D |-> Exposure(U[i], q, <<>>)]
           e == [i \in D |-> Clamp(RawWeakness(U[i]), Unit)]
           y == [i \in D |-> Clamp(RawWeakness(U[i]), Unit) * Exposure(U[i], q, ms)]
           x == [i \in D |-> Clamp(RawWeakness(U[i]), Unit) * Exposure(U[i], q, <<>>)]
<1>1. /\ CompetitorWeakness(cs, ms) =
           Bounded(ExposureMean(U, ms, LAMBDA c : Clamp(RawWeakness(c), Unit)), 22)
      /\ CompetitorWeakness(cs, <<>>) =
           Bounded(ExposureMean(U, <<>>, LAMBDA c : Clamp(RawWeakness(c), Unit)), 22)
  BY DEF CompetitorWeakness, Weights
<1>2. D = DOMAIN cs /\ \A i \in D : Rival(U[i])
  BY UniqueRivals
<1>3. IsFiniteSet(D) /\ 1 \in D
  <2>1. Len(cs) \in Nat /\ DOMAIN cs = 1..Len(cs)
    BY LenProperties DEF Listed
  <2>2. IsFiniteSet(1..Len(cs))
    BY <2>1, FS_Interval
  <2>3. Len(cs) # 0
    BY EmptySeq DEF Listed
  <2> HIDE DEF D
  <2> QED BY <1>2, <2>1, <2>2, <2>3
<1> HIDE DEF U
<1>4. ExposureMean(U, ms, LAMBDA c : Clamp(RawWeakness(c), Unit)) = Mean22(y, w, D)
  BY DEF ExposureMean, SumOver, Weights, Mean22
<1>5. ExposureMean(U, <<>>, LAMBDA c : Clamp(RawWeakness(c), Unit)) = Mean22(x, b, D)
  BY DEF ExposureMean, SumOver, Weights, Mean22
<1>6. IsFiniteSet(q)
  BY <1>2, <1>3, QueriesFinite
<1>a. \A i \in D : \A o \in U[i].observations : o.query \in q
  BY DEF Queries
<1> DEFINE V == 10000
<1>7. ASSUME NEW i \in D
      PROVE  w[i] \in Int /\ w[i] >= 1 /\ Moved(w[i], b[i], y[i], x[i], V)
  <2>1. Rival(U[i])
    BY <1>2
  <2>2. w[i] \in Int /\ w[i] >= 1 /\ b[i] \in Int /\ w[i] <= b[i] /\ b[i] <= 4 * w[i]
    <3> DEFINE s == U[i]
    <3>1. Rival(s) /\ \A o \in s.observations : o.query \in q
      BY <1>a, <2>1
    <3> HIDE DEF q, s
    <3>2. Exposure(s, q, ms) \in Int /\ Exposure(s, q, ms) >= 1
      BY ONLY <1>6, <3>1, ms \in Seq(Metric), ExposureMore
    <3>3. /\ Exposure(s, q, <<>>) \in Int /\ Exposure(s, q, ms) <= Exposure(s, q, <<>>)
          /\ Exposure(s, q, <<>>) <= 4 * Exposure(s, q, ms)
      BY ONLY <1>6, <3>1, ms \in Seq(Metric), ExposureMoved
    <3>4. w[i] = Exposure(s, q, ms) /\ b[i] = Exposure(s, q, <<>>)
      BY DEF s
    <3> HIDE DEF w, b
    <3> QED BY <3>2, <3>3, <3>4
  <2>3. e[i] \in Nat /\ e[i] <= 10000
    BY <2>1, WeaknessParts
  <2>4. y[i] = e[i] * w[i] /\ x[i] = e[i] * b[i]
    OBVIOUS
  <2>5. V \in Nat /\ e[i] <= V
    BY <2>3
  <2> DEFINE w1 == w[i]
             b1 == b[i]
             e1 == e[i]
             y1 == y[i]
             x1 == x[i]
  <2>6. /\ w1 \in Int /\ w1 >= 0 /\ b1 \in Int /\ w1 <= b1 /\ b1 <= 4 * w1
        /\ e1 \in Nat /\ e1 <= V /\ y1 = e1 * w1 /\ x1 = e1 * b1 /\ V \in Nat
    <3> HIDE DEF w, b, e, y, x
    <3> QED BY <2>2, <2>3, <2>4, <2>5
  <2> HIDE DEF w1, b1, e1, y1, x1, V
  <2>7. Moved(w1, b1, y1, x1, V)
    BY ONLY <2>6, MovedOf
  <2> QED BY <2>2, <2>7 DEF w1, b1, y1, x1
<1>8. V \in Nat
  OBVIOUS
<1> HIDE DEF w, b, e, y, x, D, V
<1> DEFINE S == SumFunctionOnSet(w, D)
           B == SumFunctionOnSet(b, D)
           Y == SumFunctionOnSet(y, D)
           X == SumFunctionOnSet(x, D)
<1>9. Moved(S, B, Y, X, V)
  BY ONLY <1>3, <1>7, <1>8, MovedSum
<1>10. S \in Int /\ S > 0
  BY ONLY <1>3, <1>7, WeightsPositive
<1> HIDE DEF S, B, Y, X
<1>11. /\ B \in Int /\ B > 0 /\ X \in Int /\ Y \in Int
  BY <1>9, <1>10 DEF Moved
<1>12. 3 * (X * S) - 3 * (Y * B) <= V * (B * S)
  BY ONLY <1>8, <1>9, <1>10, MeanMoved
<1>13. B * S = S * B
  BY <1>10, <1>11
<1>14. /\ Round(X, B) \in Int /\ Round(Y, S) \in Int
       /\ 3 * Round(X, B) <= 3 * Round(Y, S) + V + 3
  <2>1. 3 * (X * S) - 3 * (Y * B) <= V * (S * B)
    BY <1>12, <1>13
  <2> QED BY ONLY <1>8, <1>10, <1>11, <2>1, RoundShift
<1> DEFINE v == 22 * Round(X, B)
           u == 22 * Round(Y, S)
<1>15. v \in Int /\ u \in Int /\ v <= u + 100 * 734 /\ 734 \in Nat /\ 22 \in Nat
  <2> DEFINE m == Round(X, B)
             n == Round(Y, S)
  <2>1. m \in Int /\ n \in Int /\ 3 * m <= 3 * n + 10003
    BY <1>14 DEF V
  <2> HIDE DEF m, n
  <2>2. 22 * m \in Int /\ 22 * n \in Int /\ 22 * m <= 22 * n + 100 * 734
    BY <2>1
  <2> QED BY <2>2 DEF m, n
<1>16. Mean22(x, b, D) = v /\ Mean22(y, w, D) = u
  BY DEF Mean22, X, B, Y, S
<1> HIDE DEF v, u
<1>17. Bounded(v, 22) <= Bounded(u, 22) + 734
  BY ONLY <1>15, BoundedMoved
<1> QED BY <1>1, <1>4, <1>5, <1>16, <1>17

\* A larger factor gives no smaller product
LEMMA TimesNat ==
  ASSUME NEW d \in Nat, NEW z \in Int, NEW k \in Int, z >= k
  PROVE  d * z >= d * k
<1>1. CASE d = 0
  BY <1>1
<1>2. CASE d > 0
  BY <1>2, TimesMore
<1> QED BY <1>1, <1>2

\* Without metrics every SERP weighs one, one to four times as much as before
LEMMA SerpsMoved ==
  ASSUME NEW ms \in Seq(Metric), NEW ss \in Seq(Snapshots), NEW i \in DOMAIN ss
  PROVE  /\ SerpWeights(ss, <<>>)[i] = 10000
         /\ SerpWeights(ss, ms)[i] \in Int
         /\ SerpWeights(ss, ms)[i] >= 2500 /\ SerpWeights(ss, ms)[i] <= 10000
<1> DEFINE D == DOMAIN ss
           ask == [j \in D |-> ss[j].query]
           queries == {ask[j] : j \in D}
<1>1. IsFiniteSet(queries)
  <2>1. IsFiniteSet(D)
    BY SerpsWeigh
  <2> HIDE DEF D, ask
  <2> QED BY <2>1, ImageFinite
<1>2. queries = {ss[j].query : j \in D} /\ ss[i].query \in queries
  OBVIOUS
<1>3. /\ SerpWeights(ss, ms)[i] = KeywordWeight(ss[i].query, queries, ms)
      /\ SerpWeights(ss, <<>>)[i] = KeywordWeight(ss[i].query, queries, <<>>)
  BY <1>2 DEF SerpWeights
<1> HIDE DEF queries
<1> QED BY <1>1, <1>2, <1>3, KeywordWeightInt, KeywordWeightMost, KeywordWeightNone

\* Without metrics no feature's share falls by more than a third
LEMMA FeatureMoved ==
  ASSUME NEW ms \in Seq(Metric), NEW ss \in Seq(Snapshots), ss # <<>>, NEW feature
  PROVE  FeatureShare(feature, ss, ms) <= FeatureShare(feature, ss, <<>>) + 3334
<1> DEFINE D == DOMAIN ss
           A == {i \in D : HasFeature(ss[i], feature)}
           sw == SerpWeights(ss, ms)
           sb == SerpWeights(ss, <<>>)
           w == [i \in D |-> sw[i]]
           b == [i \in D |-> sb[i]]
           aw == [i \in A |-> sw[i]]
           ab == [i \in A |-> sb[i]]
           V == 10000
           e == [i \in D |-> IF i \in A THEN V ELSE 0]
           y == [i \in D |-> e[i] * w[i]]
           x == [i \in D |-> e[i] * b[i]]
           S == SumFunctionOnSet(w, D)
           B == SumFunctionOnSet(b, D)
           Y == SumFunctionOnSet(y, D)
           X == SumFunctionOnSet(x, D)
<1>1. DOMAIN sw = D /\ DOMAIN sb = D /\ IsFiniteSet(D)
  <2>1. IsFiniteSet(D)
    BY SerpsWeigh
  <2> QED BY <2>1 DEF SerpWeights
<1>2. \A i \in D : sb[i] = 10000 /\ sw[i] \in Int /\ sw[i] >= 2500 /\ sw[i] <= 10000
  BY SerpsMoved
<1>3. /\ FeatureShare(feature, ss, ms) = Round(10000 * SumFunctionOnSet(aw, A), S)
      /\ FeatureShare(feature, ss, <<>>) = Round(10000 * SumFunctionOnSet(ab, A), B)
  <2>1. ASSUME NEW mm, DOMAIN SerpWeights(ss, mm) = D
        PROVE  FeatureShare(feature, ss, mm) =
                 Round(10000 * SumFunctionOnSet([i \in A |-> SerpWeights(ss, mm)[i]], A),
                       SumFunctionOnSet([i \in D |-> SerpWeights(ss, mm)[i]], D))
    BY <2>1 DEF FeatureShare, SumOver, SumSeq, Unit
  <2>2. FeatureShare(feature, ss, ms) = Round(10000 * SumFunctionOnSet(aw, A), S)
    BY <1>1, <2>1
  <2> DEFINE none == <<>>
  <2>3. DOMAIN SerpWeights(ss, none) = D
    BY <1>1
  <2> HIDE DEF none, D, A
  <2>4. FeatureShare(feature, ss, none) =
          Round(10000 * SumFunctionOnSet([i \in A |-> SerpWeights(ss, none)[i]], A),
                SumFunctionOnSet([i \in D |-> SerpWeights(ss, none)[i]], D))
    BY ONLY <2>1, <2>3
  <2> QED BY ONLY <2>2, <2>4 DEF none
<1>4. A \in SUBSET D /\ IsFiniteSet(A) /\ V \in Nat /\ V = 10000 /\ V \in Int
  BY <1>1, FS_Subset
<1>5. 1 \in D
  <2>1. Len(ss) \in Nat /\ D = 1..Len(ss)
    BY LenProperties
  <2>2. Len(ss) # 0
    BY EmptySeq
  <2> QED BY <2>1, <2>2
<1> HIDE DEF sw, sb, A, D, V
<1>6. ASSUME NEW i \in D
      PROVE  /\ w[i] \in Int /\ w[i] >= 1 /\ Moved(w[i], b[i], y[i], x[i], V)
             /\ y[i] \in Int /\ x[i] \in Int /\ (i \notin A => y[i] = 0 /\ x[i] = 0)
             /\ i \in A => y[i] = V * aw[i] /\ x[i] = V * ab[i] /\ aw[i] \in Int /\ ab[i] \in Int
  <2> DEFINE w1 == w[i]
             b1 == b[i]
             e1 == e[i]
             y1 == y[i]
             x1 == x[i]
  <2>1. /\ w1 \in Int /\ w1 >= 0 /\ w1 >= 1 /\ b1 \in Int /\ w1 <= b1 /\ b1 <= 4 * w1
        /\ e1 \in Nat /\ e1 <= V /\ V \in Nat
    BY <1>2, <1>4
  <2>2. y1 = e1 * w1 /\ x1 = e1 * b1 /\ (i \in A => e1 = V) /\ (i \notin A => e1 = 0)
    OBVIOUS
  <2>3. i \in A => aw[i] = w1 /\ ab[i] = b1
    OBVIOUS
  <2> HIDE DEF w1, b1, e1, y1, x1, w, b, e, y, x, aw, ab
  <2>4. Moved(w1, b1, y1, x1, V)
    BY ONLY <2>1, <2>2, MovedOf
  <2>5. y1 \in Int /\ x1 \in Int /\ (i \notin A => y1 = 0 /\ x1 = 0)
    BY <2>1, <2>2
  <2>6. i \in A => y1 = V * aw[i] /\ x1 = V * ab[i] /\ aw[i] \in Int /\ ab[i] \in Int
    BY <2>1, <2>2, <2>3
  <2> QED BY <2>1, <2>4, <2>5, <2>6 DEF w1, b1, y1, x1
<1> HIDE DEF w, b, e, y, x, aw, ab
<1>7. Y = V * SumFunctionOnSet(aw, A)
  <2>1. \A i \in D : y[i] \in Int
    BY <1>6
  <2>2. \A i \in D \ A : y[i] = 0
    BY <1>6
  <2>3. Y = SumFunctionOnSet(y, A)
    BY ONLY <1>1, <1>4, <2>1, <2>2, SumPart
  <2>4. \A i \in A : aw[i] \in Int /\ y[i] = V * aw[i]
    BY <1>4, <1>6
  <2>5. SumFunctionOnSet(y, A) = V * SumFunctionOnSet(aw, A)
    BY ONLY <1>4, <2>4, SumTimes
  <2> QED BY <2>3, <2>5
<1>8. X = V * SumFunctionOnSet(ab, A)
  <2>1. \A i \in D : x[i] \in Int
    BY <1>6
  <2>2. \A i \in D \ A : x[i] = 0
    BY <1>6
  <2>3. X = SumFunctionOnSet(x, A)
    BY ONLY <1>1, <1>4, <2>1, <2>2, SumPart
  <2>4. \A i \in A : ab[i] \in Int /\ x[i] = V * ab[i]
    BY <1>4, <1>6
  <2>5. SumFunctionOnSet(x, A) = V * SumFunctionOnSet(ab, A)
    BY ONLY <1>4, <2>4, SumTimes
  <2> QED BY <2>3, <2>5
<1>9. FeatureShare(feature, ss, ms) = Round(Y, S) /\ FeatureShare(feature, ss, <<>>) = Round(X, B)
  BY <1>3, <1>4, <1>7, <1>8
<1>10. Moved(S, B, Y, X, V)
  BY ONLY <1>1, <1>4, <1>6, MovedSum
<1>11. S \in Int /\ S > 0
  BY ONLY <1>1, <1>5, <1>6, WeightsPositive
<1> HIDE DEF S, B, Y, X
<1>12. B \in Int /\ B > 0 /\ X \in Int /\ Y \in Int
  BY <1>10, <1>11 DEF Moved
<1>13. 3 * (Y * B) - 3 * (X * S) <= V * (B * S)
  BY ONLY <1>4, <1>10, <1>11, MeanMoved
<1>14. /\ Round(Y, S) \in Int /\ Round(X, B) \in Int
       /\ 3 * Round(Y, S) <= 3 * Round(X, B) + V + 3
  <2>1. V \in Nat
    BY <1>4
  <2> QED BY ONLY <1>11, <1>12, <1>13, <2>1, RoundShift
<1> DEFINE r == Round(Y, S)
           t == Round(X, B)
<1>15. r \in Int /\ t \in Int /\ 3 * r <= 3 * t + 10003
  BY <1>4, <1>14
<1> HIDE DEF r, t
<1>16. r <= t + 3334
  BY <1>15
<1> QED BY <1>9, <1>16 DEF r, t

\* A feature's deduction follows its share
LEMMA DeductionMoved ==
  ASSUME NEW s \in Nat, NEW t \in Nat, NEW p \in Nat, p <= 16, s <= t + 3334,
         NEW x, NEW y, Deducts(x, s, p), Deducts(y, t, p)
  PROVE  x \in Int /\ y \in Int /\ x <= y + 8536
<1> DEFINE sp == s * p
           tp == t * p
           n == sp * 16
           m == tp * 16
<1>1. sp \in Int /\ tp \in Int /\ sp <= tp + 53344
  <2>1. p * (t + 3334) >= p * s
    BY TimesNat
  <2>2. p * (t + 3334) = tp + 3334 * p /\ p * s = sp
    OBVIOUS
  <2>3. sp \in Int /\ tp \in Int
    OBVIOUS
  <2> HIDE DEF sp, tp
  <2> QED BY <2>1, <2>2, <2>3
<1> HIDE DEF sp, tp
<1>2. n \in Int /\ m \in Int /\ n <= m + 853504 /\ 100 \in Int /\ 100 > 0
  BY <1>1
<1>3. x = Round(n, 100) /\ y = Round(m, 100)
  BY DEF Deducts, sp, tp
<1> HIDE DEF n, m
<1>4. x \in Int /\ 2 * (100 * x) <= 2 * n + 100
  BY <1>2, <1>3, RoundSpan
<1>5. y \in Int /\ 2 * m + 100 < 2 * (100 * y) + 2 * 100
  BY <1>2, <1>3, RoundSpan
<1> QED BY <1>2, <1>4, <1>5

\* nor the features' deductions together by more than 2.6 points
LEMMA FeaturesMoved ==
  ASSUME NEW ms \in Seq(Metric), NEW ss \in Seq(Snapshots), ss # <<>>,
         NEW F, F = DOMAIN FeaturePenalty,
         NEW x, \A f \in F : x[f] = FeatureDeduction(f, ss, ms),
         NEW y, \A f \in F : y[f] = FeatureDeduction(f, ss, <<>>)
  PROVE  SumFunctionOnSet(x, F) <= SumFunctionOnSet(y, F) + 25608
<1>0. <<>> \in Seq(Metric)
  BY EmptySeq
<1>1. IsFiniteSet(F) /\ Cardinality(F) <= 3 /\ Cardinality(F) \in Nat
  BY FeaturesFinite, FS_CardinalityType
<1> DEFINE one == [f \in F |-> 1]
           t == 8536
<1>2. ASSUME NEW f \in F PROVE x[f] \in Int /\ y[f] \in Int /\ x[f] <= y[f] + t
  <2> DEFINE s == FeatureShare(f, ss, ms)
             u == FeatureShare(f, ss, <<>>)
             p == FeaturePenalty[f]
             a == x[f]
             b == y[f]
  <2>1. p \in Nat /\ p <= 16
    BY FeaturesFinite
  <2>2. Deducts(a, s, p) /\ Deducts(b, u, p)
    BY DEF FeatureDeduction, Deducts
  <2>3. s \in Nat /\ u \in Nat
    <3>1. s \in Nat
      BY FeatureShareBound
    <3> DEFINE none == <<>>
    <3>2. none \in Seq(Metric) /\ u = FeatureShare(f, ss, none)
      BY <1>0
    <3> HIDE DEF none, u, s
    <3>3. FeatureShare(f, ss, none) \in Nat
      BY <3>2, FeatureShareBound
    <3> QED BY <3>1, <3>2, <3>3
  <2>4. s <= u + 3334
    BY FeatureMoved
  <2> HIDE DEF s, u, p, a, b
  <2>5. a \in Int /\ b \in Int /\ a <= b + 8536
    BY ONLY <2>1, <2>2, <2>3, <2>4, DeductionMoved
  <2> QED BY <2>5 DEF a, b
<1>3. \A f \in F : one[f] = 1
  OBVIOUS
<1> HIDE DEF one
<1>4. 0 \in Int /\ 1 \in Int /\ t \in Int /\ t = 8536
  OBVIOUS
<1> HIDE DEF t
<1>5. Compared(F, 1, x, 0, x, 1, y, t, one)
  BY <1>2, <1>3, <1>4 DEF Compared
<1> DEFINE X == SumFunctionOnSet(x, F)
           Y == SumFunctionOnSet(y, F)
           N == SumFunctionOnSet(one, F)
<1>6. X \in Int /\ Y \in Int /\ N \in Int /\ 1 * X + 0 * X <= 1 * Y + t * N
  BY ONLY <1>1, <1>4, <1>5, SumCompared
<1>7. N <= 1 * Cardinality(F)
  BY <1>1, <1>3, <1>4, SumBelow
<1> HIDE DEF X, Y, N
<1>8. N <= 3
  BY <1>1, <1>6, <1>7
<1>9. X <= Y + 25608
  BY <1>4, <1>6, <1>8
<1> QED BY <1>9 DEF X, Y

\* A class's rounded share, times its penalty, and the places it holds
LEMMA SharePart ==
  ASSUME NEW cap \in Nat, cap >= 250000, NEW h \in Nat, h <= cap, NEW s,
         s = Round(100 * h, cap \div 100)
  PROVE  /\ s \in Nat
         /\ 2 * (cap * s) <= 20000 * h + 9 * cap
         /\ 20000 * h <= 2 * (cap * s) + cap
<1> DEFINE d == cap \div 100
           n == 100 * h
<1>1. d \in Int /\ d >= 2500 /\ cap < 100 * d + 100 /\ 100 * d <= cap
  OBVIOUS
<1>2. s \in Nat /\ s <= 10005
  BY ShareOf
<1>3. n \in Int /\ s = Round(n, d)
  OBVIOUS
<1> HIDE DEF d, n
<1>4. 2 * (d * s) <= 2 * n + d /\ 2 * n + d < 2 * (d * s) + 2 * d
  <2>1. d > 0
    BY <1>1
  <2> QED BY <1>1, <1>3, <2>1, RoundSpan
<1> DEFINE k == cap - 100 * d
<1>5. k \in Nat /\ k <= 99 /\ cap = 100 * d + k
  BY <1>1
<1> HIDE DEF k
<1>6. s * k \in Nat /\ s * k <= 990495
  <2>1. s * 99 >= s * k
    BY <1>2, <1>5, TimesNat
  <2>2. s * k \in Nat
    BY <1>2, <1>5
  <2> QED BY <1>2, <2>1, <2>2
<1>7. cap * s = 100 * (d * s) + s * k
  <2>1. (100 * d + k) * s = 100 * (d * s) + s * k
    <3>1. d \in Int /\ k \in Int /\ s \in Int
      BY <1>1, <1>2, <1>5
    <3> QED BY ONLY <3>1
  <2> QED BY <1>5, <2>1
<1> DEFINE cs == cap * s
           ds == d * s
           sk == s * k
<1>8. /\ cs \in Int /\ ds \in Int /\ sk \in Nat /\ sk <= 990495 /\ cs = 100 * ds + sk
      /\ 2 * ds <= 200 * h + d /\ 200 * h + d < 2 * ds + 2 * d
  <2>1. cs \in Int /\ ds \in Int
    BY <1>1, <1>2
  <2> QED BY <1>4, <1>6, <1>7, <2>1 DEF n
<1> HIDE DEF cs, ds, sk
<1>9. 2 * cs <= 20000 * h + 9 * cap /\ 20000 * h <= 2 * cs + cap
  BY <1>1, <1>8
<1> QED BY <1>2, <1>9 DEF cs

\* ... and what the penalty makes of the class's share
LEMMA PenaltyPart ==
  ASSUME NEW cap \in Nat, NEW h \in Nat, NEW s \in Nat, NEW p \in Nat, p <= 35,
         2 * (cap * s) <= 20000 * h + 9 * cap, 20000 * h <= 2 * (cap * s) + cap
  PROVE  /\ (2 * cap) * (p * s) <= 20000 * (p * h) + 315 * cap
         /\ 20000 * (p * h) <= (2 * cap) * (p * s) + 35 * cap
<1> DEFINE a == 2 * (cap * s)
           b == 20000 * h
<1>1. a \in Int /\ b \in Int /\ a <= b + 9 * cap /\ b <= a + cap
  OBVIOUS
<1>2. p * a = (2 * cap) * (p * s) /\ p * b = 20000 * (p * h)
  OBVIOUS
<1> HIDE DEF a, b
<1>3. p * (b + 9 * cap) >= p * a /\ p * (a + cap) >= p * b
  BY <1>1, TimesNat
<1>4. p * (b + 9 * cap) = p * b + 9 * (p * cap) /\ p * (a + cap) = p * a + p * cap
  BY <1>1
<1>5. cap * 35 >= cap * p
  BY TimesNat
<1> DEFINE pa == p * a
           pb == p * b
           pc == p * cap
<1>6. /\ pa \in Int /\ pb \in Int /\ pc \in Int
      /\ pb + 9 * pc >= pa /\ pa + pc >= pb /\ pc <= 35 * cap
  <2>1. pa \in Int /\ pb \in Int /\ pc \in Int
    BY <1>1
  <2>2. cap * p = pc /\ cap * 35 = 35 * cap
    OBVIOUS
  <2> QED BY <1>3, <1>4, <1>5, <2>1, <2>2
<1> HIDE DEF pa, pb, pc
<1>7. pa <= pb + 315 * cap /\ pb <= pa + 35 * cap
  BY <1>6
<1> QED BY <1>2, <1>7 DEF pa, pb

\* The shares of six classes, with their penalties: Z of the places T, and
\* z of the places t when the capacity grows
LEMMA SharesMoved ==
  ASSUME NEW S \in Nat, NEW B \in Nat, S > 0, B > 0, NEW T \in Int, NEW t \in Int,
         NEW Z \in Int, NEW z \in Int, NEW n \in Int, n <= 6,
         3 * (T * B) - 3 * (t * S) <= 35 * (B * S),
         (2 * S) * Z <= 20000 * T + (315 * S) * n,
         20000 * t <= (2 * B) * z + (35 * B) * n
  PROVE  Z <= z + 117717
<1> DEFINE k == B * S
<1>1. k \in Int /\ k > 0
  <2>1. B * S >= B * 1
    BY TimesMore
  <2> QED BY <2>1
<1>2. (2 * S) * Z <= 20000 * T + 1890 * S
  <2> DEFINE c == 315 * S
  <2>1. c \in Nat /\ c \in Int
    OBVIOUS
  <2> HIDE DEF c
  <2>2. c * 6 >= c * n
    BY <2>1, TimesNat
  <2>3. c * 6 = 1890 * S
    BY DEF c
  <2> DEFINE m == (2 * S) * Z
             cn == c * n
  <2>4. m \in Int /\ cn \in Int /\ m <= 20000 * T + cn /\ cn <= 1890 * S
    BY <2>1, <2>2, <2>3 DEF c
  <2> HIDE DEF m, cn
  <2>5. m <= 20000 * T + 1890 * S
    BY <2>4
  <2> QED BY <2>5 DEF m
<1>3. 20000 * t <= (2 * B) * z + 210 * B
  <2> DEFINE c == 35 * B
  <2>1. c \in Nat /\ c \in Int
    OBVIOUS
  <2> HIDE DEF c
  <2>2. c * 6 >= c * n
    BY <2>1, TimesNat
  <2>3. c * 6 = 210 * B
    BY DEF c
  <2> DEFINE m == (2 * B) * z
             cn == c * n
  <2>4. m \in Int /\ cn \in Int /\ 20000 * t <= m + cn /\ cn <= 210 * B
    BY <2>1, <2>2, <2>3 DEF c
  <2> HIDE DEF m, cn
  <2>5. 20000 * t <= m + 210 * B
    BY <2>4
  <2> QED BY <2>5 DEF m
<1>4. 2 * (k * Z) <= 20000 * (T * B) + 1890 * k
  <2> DEFINE a == (2 * S) * Z
             b == 20000 * T + 1890 * S
  <2>1. a \in Int /\ b \in Int /\ b >= a
    BY <1>2
  <2> HIDE DEF a, b
  <2>2. B * b >= B * a
    BY <2>1, TimesMore
  <2>3. B * a = 2 * (k * Z)
    BY DEF a
  <2>4. B * b = 20000 * (T * B) + 1890 * k
    BY DEF b
  <2> QED BY <2>2, <2>3, <2>4
<1>5. 20000 * (t * S) <= 2 * (k * z) + 210 * k
  <2> DEFINE a == 20000 * t
             b == (2 * B) * z + 210 * B
  <2>1. a \in Int /\ b \in Int /\ b >= a
    BY <1>3
  <2> HIDE DEF a, b
  <2>2. S * b >= S * a
    BY <2>1, TimesMore
  <2>3. S * a = 20000 * (t * S)
    BY DEF a
  <2>4. S * b = 2 * (k * z) + 210 * k
    BY DEF b
  <2> QED BY <2>2, <2>3, <2>4
<1> DEFINE kZ == k * Z
           kz == k * z
           TB == T * B
           tS == t * S
<1>6. /\ kZ \in Int /\ kz \in Int /\ TB \in Int /\ tS \in Int
      /\ 2 * kZ <= 20000 * TB + 1890 * k /\ 20000 * tS <= 2 * kz + 210 * k
      /\ 3 * TB - 3 * tS <= 35 * k
  <2>1. TB \in Int /\ tS \in Int
    OBVIOUS
  <2>2. kZ \in Int /\ kz \in Int
    <3> HIDE DEF k
    <3> QED BY <1>1
  <2> QED BY <1>4, <1>5, <2>1, <2>2
<1> HIDE DEF k, kZ, kz, TB, tS
<1>7. 6 * kZ <= 6 * kz + 706300 * k
  BY <1>1, <1>6
<1>8. SUFFICES ASSUME Z >= z + 117718 PROVE FALSE
  OBVIOUS
<1>9. k * Z >= k * (z + 117718)
  BY <1>1, <1>8, TimesMore
<1>10. k * (z + 117718) = k * z + 117718 * k
  BY <1>1
<1>11. kZ >= kz + 117718 * k
  BY <1>9, <1>10 DEF kZ, kz
<1> QED BY <1>1, <1>6, <1>7, <1>11

\* The places the classes hold when every SERP weighs one to four times as much
LEMMA HeldMoved ==
  ASSUME NEW ms \in Seq(Metric), NEW ss \in Seq(Snapshots), ss # <<>>, NEW C
  PROVE  Moved(SerpsTotal(ss, ms), SerpsTotal(ss, <<>>), HeldBy(C, ss, ms), HeldBy(C, ss, <<>>),
               PositionCapacity)
<1> DEFINE D == DOMAIN ss
           sw == SerpWeights(ss, ms)
           sb == SerpWeights(ss, <<>>)
           w == [i \in D |-> sw[i]]
           b == [i \in D |-> sb[i]]
           in == [i \in D |-> Places(C, ss[i])]
           y == HeldPart(C, ss, ms)
           x == HeldPart(C, ss, <<>>)
           P == PositionCapacity
<1>1. DOMAIN sw = D /\ DOMAIN sb = D /\ IsFiniteSet(D)
  <2>1. IsFiniteSet(D)
    BY SerpsWeigh
  <2> QED BY <2>1 DEF SerpWeights
<1>2. \A i \in D : sb[i] = 10000 /\ sw[i] \in Int /\ sw[i] >= 2500 /\ sw[i] <= 10000
  BY SerpsMoved
<1>3. \A i \in D : in[i] \in Nat /\ in[i] <= P
  <2>1. ASSUME NEW i \in D PROVE in[i] \in Nat /\ in[i] <= P
    <3>1. ss[i] \in Snapshots
      BY LenProperties, ElementOfSeq
    <3> QED BY <3>1, PlacesOf
  <2> HIDE DEF in, P
  <2> QED BY <2>1
<1>4. P \in Nat
  BY CapacityNat
<1>5. /\ SerpsTotal(ss, ms) = SumFunctionOnSet(w, D)
      /\ SerpsTotal(ss, <<>>) = SumFunctionOnSet(b, D)
  BY <1>1 DEF SerpsTotal, SumSeq, SumOver
<1>6. \A i \in D : y[i] = sw[i] * in[i] /\ x[i] = sb[i] * in[i] /\ w[i] = sw[i] /\ b[i] = sb[i]
  BY DEF HeldPart
<1>7. /\ HeldBy(C, ss, ms) = SumFunctionOnSet(y, D)
      /\ HeldBy(C, ss, <<>>) = SumFunctionOnSet(x, D)
  BY DEF HeldBy
<1> HIDE DEF sw, sb, w, b, in, y, x, P, D
<1>8. ASSUME NEW i \in D PROVE Moved(w[i], b[i], y[i], x[i], P)
  <2> DEFINE w1 == w[i]
             b1 == b[i]
             e1 == in[i]
             y1 == y[i]
             x1 == x[i]
  <2>1. /\ w1 \in Int /\ w1 >= 0 /\ b1 \in Int /\ w1 <= b1 /\ b1 <= 4 * w1
        /\ e1 \in Nat /\ e1 <= P /\ y1 = w1 * e1 /\ x1 = b1 * e1
    BY <1>2, <1>3, <1>6
  <2> HIDE DEF w1, b1, e1, y1, x1
  <2>2. y1 = e1 * w1 /\ x1 = e1 * b1
    BY <2>1
  <2>3. Moved(w1, b1, y1, x1, P)
    BY ONLY <1>4, <2>1, <2>2, MovedOf
  <2> QED BY <2>3 DEF w1, b1, y1, x1
<1>9. Moved(SumFunctionOnSet(w, D), SumFunctionOnSet(b, D), SumFunctionOnSet(y, D),
            SumFunctionOnSet(x, D), P)
  BY ONLY <1>1, <1>4, <1>8, MovedSum
<1> QED BY <1>5, <1>7, <1>9 DEF P

\* The shares of the classes, with their penalties, of the weighted places
Penalised(K, share, z) == \A c \in K : z[c] = ClassPenalty[c] * share[c]

\* No class holds more than the weighted places of the SERPs
LEMMA HeldAll ==
  ASSUME NEW ms \in Seq(Metric), NEW ss \in Seq(Snapshots), ss # <<>>
  PROVE  /\ CapacityOf(ss, ms) \in Nat /\ CapacityOf(ss, ms) >= 250000
         /\ \A C : HeldBy(C, ss, ms) \in Nat /\ HeldBy(C, ss, ms) <= CapacityOf(ss, ms)
<1>1. ASSUME NEW C
      PROVE  /\ HeldBy(C, ss, ms) \in Nat /\ HeldBy(C, ss, ms) <= CapacityOf(ss, ms)
             /\ CapacityOf(ss, ms) \in Nat /\ CapacityOf(ss, ms) >= 250000
  BY HeldBelow
<1> QED BY <1>1

ShareIs(cap, h, s) == h \in Nat /\ h <= cap /\ s = Round(100 * h, cap \div 100)

PenaltyNear(cap, p, h, s) ==
  /\ s \in Nat
  /\ (2 * cap) * (p * s) <= 20000 * (p * h) + 315 * cap
  /\ 20000 * (p * h) <= (2 * cap) * (p * s) + 35 * cap

LEMMA PenaltyNearby ==
  ASSUME NEW cap \in Nat, cap >= 250000, NEW h, NEW s, ShareIs(cap, h, s), NEW p \in Nat, p <= 35
  PROVE  PenaltyNear(cap, p, h, s)
<1>1. h \in Nat /\ h <= cap /\ s = Round(100 * h, cap \div 100)
  BY DEF ShareIs
<1>2. s \in Nat /\ 2 * (cap * s) <= 20000 * h + 9 * cap /\ 20000 * h <= 2 * (cap * s) + cap
  BY <1>1, SharePart
<1>3. /\ (2 * cap) * (p * s) <= 20000 * (p * h) + 315 * cap
      /\ 20000 * (p * h) <= (2 * cap) * (p * s) + 35 * cap
  BY <1>1, <1>2, PenaltyPart
<1> QED BY <1>2, <1>3 DEF PenaltyNear

PenaltySpan(S, T, Z, n) ==
  /\ (2 * S) * Z <= 20000 * T + (315 * S) * n
  /\ 20000 * T <= (2 * S) * Z + (35 * S) * n

HeldAre(K, held, ss, ms) == \A c \in K : held[c] = HeldBy({c}, ss, ms)
SharesAre(K, share, ss, ms) == \A c \in K : share[c] = ClassShare(c, ss, ms)
Ones(K, one) == \A c \in K : one[c] = 1
NatOn(K, f) == \A c \in K : f[c] \in Nat

\* The penalised shares of all classes are their penalised places of the capacity,
\* but for the rounding of each
LEMMA PenaltySum ==
  ASSUME NEW ms \in Seq(Metric), NEW ss \in Seq(Snapshots), ss # <<>>,
         NEW K, K = DOMAIN ClassPenalty,
         NEW held, HeldAre(K, held, ss, ms),
         NEW share, SharesAre(K, share, ss, ms),
         NEW t, Penalised(K, held, t), NEW z, Penalised(K, share, z),
         NEW one, Ones(K, one)
  PROVE  LET S == CapacityOf(ss, ms)
             T == SumFunctionOnSet(t, K)
             Z == SumFunctionOnSet(z, K)
             n == SumFunctionOnSet(one, K)
         IN  /\ PenaltySpan(S, T, Z, n)
             /\ T \in Int /\ Z \in Int /\ n \in Int /\ n <= 6
             /\ NatOn(K, share)
<1> DEFINE S == CapacityOf(ss, ms)
<1>1. IsFiniteSet(K) /\ Cardinality(K) <= 6 /\ Cardinality(K) \in Nat
  BY ClassesFinite, FS_CardinalityType
<1>a. /\ CapacityOf(ss, ms) \in Nat /\ CapacityOf(ss, ms) >= 250000
      /\ \A C : HeldBy(C, ss, ms) \in Nat /\ HeldBy(C, ss, ms) <= CapacityOf(ss, ms)
  BY HeldAll
<1>2. S \in Nat /\ S >= 250000
  BY <1>a
<1>3. ASSUME NEW c \in K PROVE held[c] \in Nat /\ held[c] <= S
  <2>1. held[c] = HeldBy({c}, ss, ms)
    BY DEF HeldAre
  <2>2. HeldBy({c}, ss, ms) \in Nat /\ HeldBy({c}, ss, ms) <= S
    BY ONLY <1>a
  <2> QED BY ONLY <2>1, <2>2
<1>4. ASSUME NEW c \in K PROVE share[c] = Round(100 * held[c], S \div 100)
  <2>1. held[c] = HeldBy({c}, ss, ms) /\ share[c] = ClassShare(c, ss, ms)
    BY DEF HeldAre, SharesAre
  <2>2. ClassShare(c, ss, ms) = Round(100 * HeldBy({c}, ss, ms), CapacityOf(ss, ms) \div 100)
    BY ONLY ClassShareIs
  <2> QED BY ONLY <2>1, <2>2
<1>5. \A c \in K : ClassPenalty[c] \in Nat /\ ClassPenalty[c] <= 35
  BY ClassesFinite
<1> HIDE DEF S
<1> DEFINE a == 2 * S
           b == 315 * S
           d == 35 * S
           g == 20000
<1>6. 0 \in Int /\ 1 \in Int /\ a \in Int /\ b \in Int /\ d \in Int /\ g \in Int
  BY <1>2
<1>7. ASSUME NEW c \in K
      PROVE  /\ share[c] \in Nat /\ t[c] \in Int /\ z[c] \in Int
             /\ a * z[c] <= g * t[c] + b /\ g * t[c] <= a * z[c] + d
  <2> DEFINE h == held[c]
             s == share[c]
             p == ClassPenalty[c]
  <2>1. ShareIs(S, h, s) /\ p \in Nat /\ p <= 35 /\ t[c] = p * h /\ z[c] = p * s /\ h \in Nat
    BY <1>3, <1>4, <1>5 DEF Penalised, ShareIs
  <2> HIDE DEF h, s, p
  <2>2. PenaltyNear(S, p, h, s)
    BY ONLY <1>2, <2>1, PenaltyNearby
  <2>3. /\ s \in Nat /\ (2 * S) * (p * s) <= 20000 * (p * h) + 315 * S
        /\ 20000 * (p * h) <= (2 * S) * (p * s) + 35 * S
    BY ONLY <2>2 DEF PenaltyNear
  <2>4. p * h \in Int /\ p * s \in Int
    BY <2>1, <2>3
  <2> QED BY <2>1, <2>3, <2>4 DEF s
<1> HIDE DEF a, b, d, g
<1>8. Compared(K, a, z, 0, z, g, t, b, one) /\ Compared(K, g, t, 0, z, a, z, d, one)
  <2>1. ASSUME NEW c \in K
        PROVE  /\ one[c] \in Int /\ a * z[c] + 0 * z[c] <= g * t[c] + b * one[c]
               /\ g * t[c] + 0 * z[c] <= a * z[c] + d * one[c]
    <3> DEFINE u == z[c]
               v == t[c]
               k == one[c]
    <3>1. /\ k = 1 /\ u \in Int /\ v \in Int /\ a * u <= g * v + b /\ g * v <= a * u + d
      BY <1>7 DEF Ones
    <3> HIDE DEF u, v, k
    <3>2. k \in Int /\ a * u + 0 * u <= g * v + b * k /\ g * v + 0 * u <= a * u + d * k
      <4>1. b * k = b /\ d * k = d /\ 0 * u = 0 /\ k \in Int
        BY <1>6, <3>1
      <4> DEFINE au == a * u
                 gv == g * v
      <4>2. au \in Int /\ gv \in Int /\ au <= gv + b /\ gv <= au + d
        BY <1>6, <3>1
      <4> HIDE DEF au, gv
      <4>3. au + 0 <= gv + b /\ gv + 0 <= au + d
        BY <1>6, <4>2
      <4> QED BY <4>1, <4>3 DEF au, gv
    <3> QED BY <3>2 DEF u, v, k
  <2> QED BY <1>7, <2>1 DEF Compared
<1> DEFINE T == SumFunctionOnSet(t, K)
           Z == SumFunctionOnSet(z, K)
           n == SumFunctionOnSet(one, K)
<1>9. /\ T \in Int /\ Z \in Int /\ n \in Int
      /\ a * Z + 0 * Z <= g * T + b * n /\ g * T + 0 * Z <= a * Z + d * n
  BY ONLY <1>1, <1>6, <1>8, SumCompared
<1>10. n <= 1 * Cardinality(K)
  <2>1. \A c \in K : one[c] \in Int /\ one[c] <= 1
    BY DEF Ones
  <2> QED BY ONLY <1>1, <1>6, <2>1, SumBelow
<1> HIDE DEF T, Z, n
<1>11. n <= 6
  BY <1>1, <1>9, <1>10
<1>12. a * Z <= g * T + b * n /\ g * T <= a * Z + d * n
  <2>1. 0 * Z = 0 /\ a * Z \in Int /\ g * T \in Int
    BY <1>6, <1>9
  <2> QED BY <1>9, <2>1
<1>13. PenaltySpan(S, T, Z, n)
  BY <1>12 DEF a, b, d, g, PenaltySpan
<1>14. NatOn(K, share)
  BY <1>7 DEF NatOn
<1> QED BY <1>9, <1>11, <1>13, <1>14 DEF S, T, Z, n

\* Without metrics the penalised places of the classes move little
LEMMA PlacesMoved ==
  ASSUME NEW ms \in Seq(Metric), NEW ss \in Seq(Snapshots), ss # <<>>,
         NEW K, K = DOMAIN ClassPenalty,
         NEW hw, \A c \in K : hw[c] = HeldBy({c}, ss, ms),
         NEW hb, \A c \in K : hb[c] = HeldBy({c}, ss, <<>>),
         NEW tw, Penalised(K, hw, tw), NEW tb, Penalised(K, hb, tb)
  PROVE  LET S == CapacityOf(ss, ms)
             B == CapacityOf(ss, <<>>)
         IN  3 * (SumFunctionOnSet(tw, K) * B) - 3 * (SumFunctionOnSet(tb, K) * S) <= 35 * (B * S)
<1> DEFINE none == <<>>
           P == PositionCapacity
           s == SerpsTotal(ss, ms)
           b == SerpsTotal(ss, none)
           H == SumFunctionOnSet(hw, K)
           G == SumFunctionOnSet(hb, K)
           Y == SumFunctionOnSet(tw, K)
           X == SumFunctionOnSet(tb, K)
           V == 35
<1>0. none \in Seq(Metric) /\ \A c \in K : hb[c] = HeldBy({c}, ss, none)
  BY EmptySeq
<1>1. IsFiniteSet(K) /\ \A c \in K : ClassPenalty[c] \in Nat /\ ClassPenalty[c] <= V
  BY ClassesFinite
<1>2. /\ CapacityOf(ss, ms) = P * s /\ CapacityOf(ss, none) = P * b
  BY DEF CapacityOf
<1>3. \A C : Moved(s, b, HeldBy(C, ss, ms), HeldBy(C, ss, none), P)
  BY HeldMoved
<1> HIDE DEF none
<1>4. ASSUME NEW c \in K PROVE hw[c] \in Nat
  <2>1. hw[c] = HeldBy({c}, ss, ms)
    OBVIOUS
  <2>2. HeldBy({c}, ss, ms) \in Nat
    BY HeldAll
  <2> QED BY ONLY <2>1, <2>2
<1>5. P \in Nat /\ V \in Nat /\ V = 35
  BY CapacityNat
<1> HIDE DEF P, s, b, V
<1>6. ASSUME NEW c \in K PROVE Moved(hw[c], hb[c], tw[c], tb[c], V)
  <2> DEFINE u == hw[c]
             v == hb[c]
             p == ClassPenalty[c]
             y == tw[c]
             x == tb[c]
  <2>1. u \in Nat /\ p \in Nat /\ p <= V /\ y = p * u /\ x = p * v
    BY <1>1, <1>4 DEF Penalised
  <2>2. Moved(s, b, u, v, P)
    <3>1. Moved(s, b, HeldBy({c}, ss, ms), HeldBy({c}, ss, none), P)
      BY <1>3
    <3> QED BY <1>0, <3>1
  <2> HIDE DEF u, v, p, y, x
  <2>3. u \in Int /\ v \in Int /\ u >= 0 /\ u <= v /\ v <= 4 * u
    BY <2>1, <2>2 DEF Moved
  <2>4. Moved(u, v, y, x, V)
    <3>1. V \in Nat
      BY <1>5
    <3> QED BY ONLY <2>1, <2>3, <3>1, MovedOf
  <2> QED BY <2>4 DEF u, v, y, x
<1>7. Moved(H, G, Y, X, V)
  <2>1. V \in Nat
    BY <1>5
  <2> QED BY ONLY <1>1, <1>6, <2>1, MovedSum
<1>8. H = HeldBy(K, ss, ms)
  BY <1>1, HeldSum
<1>9. G = HeldBy(K, ss, none)
  BY <1>0, <1>1, HeldSum
<1>10. Moved(s, b, H, G, P)
  BY <1>3, <1>8, <1>9
<1> HIDE DEF H, G, Y, X
<1> DEFINE S == P * s
           B == P * b
<1>11. s \in Int /\ b \in Int /\ s <= b /\ b <= 4 * s
  BY <1>10 DEF Moved
<1>12. S \in Int /\ B \in Int /\ S <= B /\ B <= 4 * S /\ (4 * P) * s = 4 * S
  <2>1. P * b >= P * s /\ P * (4 * s) >= P * b
    BY <1>5, <1>11, TimesNat
  <2>2. P * (4 * s) = 4 * S /\ (4 * P) * s = 4 * S
    BY <1>5, <1>11
  <2>3. S \in Int /\ B \in Int
    BY <1>5, <1>11
  <2> QED BY <2>1, <2>2, <2>3
<1>13. 4 * H + B <= G + 4 * S /\ H \in Int /\ G \in Int
  BY <1>10, <1>12 DEF Moved
<1>14. X \in Int /\ Y \in Int /\ Y <= X /\ 4 * Y + 35 * G <= X + 140 * H
  BY <1>5, <1>7 DEF Moved
<1> HIDE DEF S, B
<1>15. 4 * Y - X <= V * (4 * S - B)
  BY <1>5, <1>12, <1>13, <1>14
<1>16. 3 * (Y * B) - 3 * (X * S) <= V * (B * S)
  <2>1. V \in Nat
    BY <1>5
  <2> QED BY ONLY <1>12, <1>14, <1>15, <2>1, Shift
<1>17. 3 * (Y * B) - 3 * (X * S) <= 35 * (B * S)
  BY <1>5, <1>16
<1> QED BY <1>2, <1>17 DEF S, B, X, Y, none

\* A deduction and the penalised share it rounds
LEMMA DeductionSpan ==
  ASSUME NEW s \in Nat, NEW p \in Nat, NEW x, Deducts(x, s, p), NEW z, z = p * s
  PROVE  x \in Int /\ 100 * x <= 16 * z + 50 /\ 16 * z <= 100 * x + 50
<1> DEFINE sp == s * p
           n == sp * 16
<1>1. sp \in Int /\ sp = z
  OBVIOUS
<1>2. x = Round(n, 100)
  BY DEF Deducts
<1> HIDE DEF sp
<1>3. n \in Int /\ n = 16 * z /\ 100 \in Int /\ 100 > 0
  BY <1>1
<1> HIDE DEF n
<1>4. x \in Int /\ 2 * (100 * x) <= 2 * n + 100 /\ 2 * n + 100 < 2 * (100 * x) + 2 * 100
  BY <1>2, <1>3, RoundSpan
<1> QED BY <1>1, <1>3, <1>4

\* The deductions of all classes are sixteen hundredths of their penalised shares,
\* but for the rounding of each
LEMMA DeductionSums ==
  ASSUME NEW ms \in Seq(Metric), NEW ss \in Seq(Snapshots),
         NEW K, K = DOMAIN ClassPenalty, IsFiniteSet(K),
         NEW share, \A c \in K : share[c] = ClassShare(c, ss, ms) /\ share[c] \in Nat,
         NEW z, Penalised(K, share, z),
         NEW x, \A c \in K : x[c] = ClassDeduction(c, ss, ms),
         NEW one, \A c \in K : one[c] = 1
  PROVE  LET X == SumFunctionOnSet(x, K)
             Z == SumFunctionOnSet(z, K)
             n == SumFunctionOnSet(one, K)
         IN  X \in Int /\ 100 * X <= 16 * Z + 50 * n /\ 16 * Z <= 100 * X + 50 * n
<1>1. ASSUME NEW c \in K
      PROVE  /\ x[c] \in Int /\ z[c] \in Int /\ one[c] = 1
             /\ 100 * x[c] <= 16 * z[c] + 50 /\ 16 * z[c] <= 100 * x[c] + 50
  <2> DEFINE s == share[c]
             p == ClassPenalty[c]
             y == x[c]
             v == z[c]
  <2>1. s \in Nat /\ p \in Nat /\ v = p * s
    BY ClassesFinite DEF Penalised
  <2>2. Deducts(y, s, p)
    BY DEF ClassDeduction, Deducts
  <2> HIDE DEF s, p, y, v
  <2>3. y \in Int /\ 100 * y <= 16 * v + 50 /\ 16 * v <= 100 * y + 50
    BY ONLY <2>1, <2>2, DeductionSpan
  <2>4. v \in Int
    BY <2>1
  <2> QED BY <2>3, <2>4 DEF y, v
<1> DEFINE a == 100
           b == 16
           d == 50
<1>2. /\ a \in Int /\ b \in Int /\ d \in Int /\ 0 \in Int
      /\ Compared(K, a, x, 0, x, b, z, d, one) /\ Compared(K, b, z, 0, x, a, x, d, one)
  <2>1. ASSUME NEW c \in K
        PROVE  /\ 100 * x[c] + 0 * x[c] <= 16 * z[c] + 50 * one[c] /\ one[c] \in Int
               /\ 16 * z[c] + 0 * x[c] <= 100 * x[c] + 50 * one[c]
    <3> DEFINE u == x[c]
               v == z[c]
               k == one[c]
    <3>1. /\ u \in Int /\ v \in Int /\ k = 1
          /\ 100 * u <= 16 * v + 50 /\ 16 * v <= 100 * u + 50
      BY <1>1
    <3> HIDE DEF u, v, k
    <3>2. /\ 100 * u + 0 * u <= 16 * v + 50 * k /\ k \in Int
          /\ 16 * v + 0 * u <= 100 * u + 50 * k
      BY ONLY <3>1
    <3> QED BY ONLY <3>2 DEF u, v, k
  <2>2. Compared(K, a, x, 0, x, b, z, d, one)
    BY ONLY <1>1, <2>1 DEF Compared
  <2>3. Compared(K, b, z, 0, x, a, x, d, one)
    BY ONLY <1>1, <2>1 DEF Compared
  <2>4. a \in Int /\ b \in Int /\ d \in Int /\ 0 \in Int
    OBVIOUS
  <2> QED BY ONLY <2>2, <2>3, <2>4
<1> HIDE DEF a, b, d
<1> DEFINE X == SumFunctionOnSet(x, K)
           Z == SumFunctionOnSet(z, K)
           n == SumFunctionOnSet(one, K)
<1>3. /\ X \in Int /\ Z \in Int /\ n \in Int
      /\ a * X + 0 * X <= b * Z + d * n /\ b * Z + 0 * X <= a * X + d * n
  BY ONLY <1>2, IsFiniteSet(K), SumCompared
<1> HIDE DEF X, Z, n
<1>4. 100 * X <= 16 * Z + 50 * n /\ 16 * Z <= 100 * X + 50 * n
  BY <1>3 DEF a, b, d
<1> QED BY <1>3, <1>4 DEF X, Z, n

\* What the classes hold, share and cost together, with their penalties
PenalisedPlaces(ss, ms) == [c \in DOMAIN ClassPenalty |-> ClassPenalty[c] * HeldBy({c}, ss, ms)]
PenalisedShares(ss, ms) == [c \in DOMAIN ClassPenalty |-> ClassPenalty[c] * ClassShare(c, ss, ms)]
ClassDeducted(ss, ms) == [c \in DOMAIN ClassPenalty |-> ClassDeduction(c, ss, ms)]
PlacesSum(ss, ms) == SumFunctionOnSet(PenalisedPlaces(ss, ms), DOMAIN ClassPenalty)
SharesSum(ss, ms) == SumFunctionOnSet(PenalisedShares(ss, ms), DOMAIN ClassPenalty)
ClassSum(ss, ms) == SumFunctionOnSet(ClassDeducted(ss, ms), DOMAIN ClassPenalty)
ClassCount == SumFunctionOnSet([c \in DOMAIN ClassPenalty |-> 1], DOMAIN ClassPenalty)

\* The same of the SERPs of a scan, with any metrics
LEMMA ClassSpan ==
  ASSUME NEW ms \in Seq(Metric), NEW ss \in Seq(Snapshots), ss # <<>>
  PROVE  LET S == CapacityOf(ss, ms)
             T == PlacesSum(ss, ms)
             Z == SharesSum(ss, ms)
             X == ClassSum(ss, ms)
             n == ClassCount
         IN  /\ S \in Nat /\ S > 0 /\ T \in Int /\ Z \in Int /\ X \in Int /\ n \in Int /\ n <= 6
             /\ (2 * S) * Z <= 20000 * T + (315 * S) * n
             /\ 20000 * T <= (2 * S) * Z + (35 * S) * n
             /\ 100 * X <= 16 * Z + 50 * n /\ 16 * Z <= 100 * X + 50 * n
<1> DEFINE K == DOMAIN ClassPenalty
           held == [c \in K |-> HeldBy({c}, ss, ms)]
           share == [c \in K |-> ClassShare(c, ss, ms)]
           one == [c \in K |-> 1]
           t == PenalisedPlaces(ss, ms)
           z == PenalisedShares(ss, ms)
           x == ClassDeducted(ss, ms)
           S == CapacityOf(ss, ms)
           T == SumFunctionOnSet(t, K)
           Z == SumFunctionOnSet(z, K)
           X == SumFunctionOnSet(x, K)
           n == SumFunctionOnSet(one, K)
<1>1. K = DOMAIN ClassPenalty /\ IsFiniteSet(K)
  BY ClassesFinite
<1>2. HeldAre(K, held, ss, ms)
  BY DEF HeldAre
<1>3. SharesAre(K, share, ss, ms)
  BY DEF SharesAre
<1>4. Ones(K, one)
  BY DEF Ones
<1>5. \A c \in K : x[c] = ClassDeduction(c, ss, ms)
  BY DEF ClassDeducted
<1>6. Penalised(K, held, t)
  BY DEF Penalised, PenalisedPlaces
<1>7. Penalised(K, share, z)
  BY DEF Penalised, PenalisedShares
<1>8. /\ PlacesSum(ss, ms) = T /\ SharesSum(ss, ms) = Z /\ ClassSum(ss, ms) = X
      /\ ClassCount = n
  BY DEF PlacesSum, SharesSum, ClassSum, ClassCount
<1>9. S \in Nat /\ S > 0
  BY HeldAll
<1> HIDE DEF K, held, share, one, t, z, x
<1>10. /\ PenaltySpan(S, T, Z, n)
       /\ T \in Int /\ Z \in Int /\ n \in Int /\ n <= 6
       /\ NatOn(K, share)
  BY ONLY ms \in Seq(Metric), ss \in Seq(Snapshots), ss # <<>>, <1>1, <1>2, <1>3, <1>4, <1>6,
          <1>7, PenaltySum
<1>11. \A c \in K : share[c] = ClassShare(c, ss, ms) /\ share[c] \in Nat
  BY ONLY <1>3, <1>10 DEF NatOn, SharesAre
<1>a. \A c \in K : one[c] = 1
  BY ONLY <1>4 DEF Ones
<1>12. X \in Int /\ 100 * X <= 16 * Z + 50 * n /\ 16 * Z <= 100 * X + 50 * n
  BY ONLY ms \in Seq(Metric), ss \in Seq(Snapshots), <1>1, <1>a, <1>5, <1>7, <1>11, DeductionSums
<1> HIDE DEF S, T, Z, X, n
<1> QED BY ONLY <1>8, <1>9, <1>10, <1>12 DEF S, PenaltySpan

LEMMA PlacesSumMoved ==
  ASSUME NEW ms \in Seq(Metric), NEW ss \in Seq(Snapshots), ss # <<>>
  PROVE  3 * (PlacesSum(ss, ms) * CapacityOf(ss, <<>>)) - 3 * (PlacesSum(ss, <<>>) * CapacityOf(ss, ms))
           <= 35 * (CapacityOf(ss, <<>>) * CapacityOf(ss, ms))
<1> DEFINE K == DOMAIN ClassPenalty
           hw == [c \in K |-> HeldBy({c}, ss, ms)]
           hb == [c \in K |-> HeldBy({c}, ss, <<>>)]
           tw == PenalisedPlaces(ss, ms)
           tb == PenalisedPlaces(ss, <<>>)
<1>1. K = DOMAIN ClassPenalty
  OBVIOUS
<1>2. \A c \in K : hw[c] = HeldBy({c}, ss, ms)
  OBVIOUS
<1>3. \A c \in K : hb[c] = HeldBy({c}, ss, <<>>)
  OBVIOUS
<1>4. Penalised(K, hw, tw) /\ Penalised(K, hb, tb)
  BY DEF Penalised, PenalisedPlaces
<1>5. /\ PlacesSum(ss, ms) = SumFunctionOnSet(tw, K)
      /\ PlacesSum(ss, <<>>) = SumFunctionOnSet(tb, K)
  BY DEF PlacesSum
<1> HIDE DEF K, hw, hb, tw, tb
<1>6. 3 * (SumFunctionOnSet(tw, K) * CapacityOf(ss, <<>>))
        - 3 * (SumFunctionOnSet(tb, K) * CapacityOf(ss, ms)) <= 35 * (CapacityOf(ss, <<>>) * CapacityOf(ss, ms))
  BY ONLY ms \in Seq(Metric), ss \in Seq(Snapshots), ss # <<>>, <1>1, <1>2, <1>3, <1>4, PlacesMoved
<1> QED BY ONLY <1>5, <1>6

\* Without metrics the classes' deductions fall by 1.9 points at most
LEMMA ClassesMoved ==
  ASSUME NEW ms \in Seq(Metric), NEW ss \in Seq(Snapshots), ss # <<>>
  PROVE  /\ ClassSum(ss, ms) \in Int /\ ClassSum(ss, <<>>) \in Int
         /\ ClassSum(ss, ms) <= ClassSum(ss, <<>>) + 18840
<1> DEFINE none == <<>>
           S == CapacityOf(ss, ms)
           B == CapacityOf(ss, none)
           T == PlacesSum(ss, ms)
           t == PlacesSum(ss, none)
           Z == SharesSum(ss, ms)
           z == SharesSum(ss, none)
           X == ClassSum(ss, ms)
           x == ClassSum(ss, none)
           n == ClassCount
<1>1. none \in Seq(Metric)
  BY EmptySeq
<1>2. 3 * (T * B) - 3 * (t * S) <= 35 * (B * S)
  BY ONLY ms \in Seq(Metric), ss \in Seq(Snapshots), ss # <<>>, PlacesSumMoved
<1>a. ClassSum(ss, <<>>) = x
  OBVIOUS
<1> HIDE DEF none
<1>3. /\ S \in Nat /\ S > 0 /\ T \in Int /\ Z \in Int /\ X \in Int /\ n \in Int /\ n <= 6
      /\ (2 * S) * Z <= 20000 * T + (315 * S) * n
      /\ 100 * X <= 16 * Z + 50 * n
  BY ONLY ms \in Seq(Metric), ss \in Seq(Snapshots), ss # <<>>, ClassSpan
<1>4. /\ B \in Nat /\ B > 0 /\ t \in Int /\ z \in Int /\ x \in Int
      /\ 20000 * t <= (2 * B) * z + (35 * B) * n
      /\ 16 * z <= 100 * x + 50 * n
  BY ONLY <1>1, ss \in Seq(Snapshots), ss # <<>>, ClassSpan
<1> HIDE DEF S, B, T, t, Z, z, x, X, n
<1>5. Z <= z + 117717
  BY ONLY <1>2, <1>3, <1>4, SharesMoved
<1>6. X <= x + 18840
  BY ONLY <1>3, <1>4, <1>5
<1> QED BY ONLY <1>3, <1>4, <1>6, <1>a DEF X

\* and click availability grows by 4.5 points at most
LEMMA OrganicMoved ==
  ASSUME NEW ms \in Seq(Metric), NEW ss \in Seq(Snapshots)
  PROVE  OrganicAvailability(ss, <<>>) <= OrganicAvailability(ss, ms) + 445
<1>1. CASE NoOrganic(ss)
  BY <1>1 DEF OrganicAvailability
<1>2. CASE ~NoOrganic(ss)
  <2>1. ss # <<>>
    BY <1>2 DEF NoOrganic
  <2> DEFINE F == DOMAIN FeaturePenalty
             v == [f \in F |-> FeatureDeduction(f, ss, ms)]
             u == [f \in F |-> FeatureDeduction(f, ss, <<>>)]
             cv == ClassSum(ss, ms)
             cu == ClassSum(ss, <<>>)
             fv == SumFunctionOnSet(v, F)
             fu == SumFunctionOnSet(u, F)
             n == 160000
  <2>2. /\ OrganicAvailability(ss, ms) = Bounded(n - cv - fv, 16)
        /\ OrganicAvailability(ss, <<>>) = Bounded(n - cu - fu, 16)
    BY <1>2 DEF OrganicAvailability, SumOver, Unit, ClassSum, ClassDeducted
  <2>3. F = DOMAIN FeaturePenalty
    OBVIOUS
  <2>4. \A f \in F : v[f] = FeatureDeduction(f, ss, ms)
    OBVIOUS
  <2>5. \A f \in F : u[f] = FeatureDeduction(f, ss, <<>>)
    OBVIOUS
  <2>6. n \in Int /\ n = 160000
    OBVIOUS
  <2> HIDE DEF F, v, u, n
  <2>7. fv <= fu + 25608
    BY ONLY ms \in Seq(Metric), ss \in Seq(Snapshots), <2>1, <2>3, <2>4, <2>5, FeaturesMoved
  <2>8. fv \in Int
    BY ONLY ms \in Seq(Metric), ss \in Seq(Snapshots), <2>1, <2>3, <2>4, FeatureDeductions
  <2>9. fu \in Int
    <3> DEFINE none == <<>>
    <3>1. none \in Seq(Metric)
      BY EmptySeq
    <3>2. \A f \in F : u[f] = FeatureDeduction(f, ss, none)
      BY <2>5
    <3> HIDE DEF none
    <3> QED BY ONLY <3>1, ss \in Seq(Snapshots), <2>1, <2>3, <3>2, FeatureDeductions
  <2>10. cv \in Int /\ cu \in Int /\ cv <= cu + 18840
    BY ONLY ms \in Seq(Metric), ss \in Seq(Snapshots), <2>1, ClassesMoved
  <2> HIDE DEF cv, cu, fv, fu
  <2> DEFINE a == n - cu - fu
             b == n - cv - fv
  <2>11. a \in Int /\ b \in Int /\ a <= b + 100 * 445 /\ 445 \in Nat /\ 16 \in Nat
    BY ONLY <2>6, <2>7, <2>8, <2>9, <2>10
  <2> HIDE DEF a, b
  <2>12. Bounded(a, 16) <= Bounded(b, 16) + 445
    BY ONLY <2>11, BoundedMoved
  <2> QED BY ONLY <2>2, <2>12 DEF a, b
<1> QED BY <1>1, <1>2

\* The parts of a score, and what they add up to
Scorable(e) == Sampled(e) /\ Rivals(e.competitors) /\ Quoted(e.providers) /\ Placeable(e.market)
ScoreParts(e) == ComponentScores(e, Trace(e, Missing(e), Demand(e.metrics, e.market)))
PartsSum(e) == SumFunctionOnSet([c \in Components |-> ScoreParts(e)[c]], Components)

\* What a score is before its cap
LEMMA ScoreUncapped ==
  ASSUME NEW e
  PROVE  /\ Score(e).uncapped = Most(0, PartsSum(e) - MissingPenalty(Missing(e)))
         /\ Score(e).missing = Missing(e)
<1> DEFINE demand == Demand(e.metrics, e.market)
           missing == MissingFields(e, demand)
           trace == Trace(e, missing, demand)
           confidence == Confidence(e, missing, demand)
           parts == ComponentScores(e, trace)
<1>1. Score(e) = Combined(parts, trace, missing, e.assessment, confidence)
  BY DEF Score, ScoreKnowing, ScoreTraced
<1>2. parts = ScoreParts(e) /\ missing = Missing(e)
  BY DEF ScoreParts, Missing
<1> HIDE DEF demand, missing, trace, confidence, parts
<1> DEFINE uncapped == Most(0, SumOver(Components, LAMBDA c : parts[c]) - MissingPenalty(missing))
           cap == ScoreCap(missing, e.assessment)
           total == IF cap = None THEN uncapped ELSE Least(uncapped, cap)
           status == EvidenceStatus(missing, e.assessment)
<1>3. Score(e) = [total |-> total, uncapped |-> uncapped, cap |-> cap, components |-> parts,
                  trace |-> trace, missing |-> missing, status |-> status,
                  confidence |-> confidence]
  BY <1>1 DEF Combined
<1>4. uncapped = Most(0, PartsSum(e) - MissingPenalty(Missing(e)))
  BY <1>2 DEF PartsSum, SumOver
<1> HIDE DEF uncapped, cap, total, status
<1> QED BY <1>2, <1>3, <1>4

\* No component leaves its weight
LEMMA PartsNat ==
  ASSUME NEW e, Scorable(e)
  PROVE  \A c \in Components : ScoreParts(e)[c] \in Nat /\ ScoreParts(e)[c] <= 100 * Weights[c]
<1> DEFINE demand == Demand(e.metrics, e.market)
           missing == Missing(e)
           trace == Trace(e, missing, demand)
           parts == ComponentScores(e, trace)
<1>1. Sampled(e) /\ Rivals(e.competitors) /\ Quoted(e.providers) /\ Placeable(e.market)
  BY DEF Scorable
<1>2. demand.service \in Nat /\ demand.market \in Nat \cup {None}
  BY <1>1, DemandNat DEF Sampled
<1>3. missing \in SUBSET Fields
  BY MissingOf
<1>4. trace = Trace(e, missing, demand) /\ parts = ComponentScores(e, trace) /\ ScoreParts(e) = parts
  BY DEF ScoreParts
<1> HIDE DEF demand, missing, trace, parts
<1>5. ASSUME NEW c \in Components PROVE parts[c] \in Nat /\ parts[c] <= 100 * Weights[c]
  BY <1>1, <1>2, <1>3, <1>4, PartsAgree
<1> QED BY <1>4, <1>5

\* The six components of a score
LEMMA PartsAre ==
  ASSUME NEW e
  PROVE  LET demand == Demand(e.metrics, e.market)
             p == ScoreParts(e)
         IN  /\ p["demand_evidence"] = Bounded(Steps(DemandSteps(demand)), 24)
             /\ p["commercial_value"] = Bounded(Steps(CommercialSteps(e.metrics)), 16)
             /\ p["competitor_weakness"] = CompetitorWeakness(e.competitors, e.metrics)
             /\ p["organic_click_availability"] = OrganicAvailability(e.serps, e.metrics)
             /\ p["provider_suitability"] = Bounded(Steps(ProviderSteps(e.providers)), 14)
             /\ p["data_completeness"] = Bounded(Steps(CompletenessSteps(Missing(e))), 8)
<1> DEFINE demand == Demand(e.metrics, e.market)
           missing == Missing(e)
           trace == Trace(e, missing, demand)
           p == ComponentScores(e, trace)
<1>1. ScoreParts(e) = p
  BY DEF ScoreParts
<1>2. /\ Weights["demand_evidence"] = 24 /\ Weights["commercial_value"] = 16
      /\ Weights["provider_suitability"] = 14 /\ Weights["data_completeness"] = 8
      /\ Components = {"demand_evidence", "commercial_value", "competitor_weakness",
                    "organic_click_availability", "provider_suitability", "data_completeness"}
  BY DEF Components, Weights
<1>3. /\ trace["demand_evidence"] = DemandSteps(demand)
      /\ trace["commercial_value"] = CommercialSteps(e.metrics)
      /\ trace["provider_suitability"] = ProviderSteps(e.providers)
      /\ trace["data_completeness"] = CompletenessSteps(missing)
  BY DEF Trace
<1> HIDE DEF demand, missing, trace
<1>4. /\ p["demand_evidence"] = Bounded(Steps(trace["demand_evidence"]), 24)
      /\ p["commercial_value"] = Bounded(Steps(trace["commercial_value"]), 16)
  BY <1>2 DEF ComponentScores
<1>5. /\ p["provider_suitability"] = Bounded(Steps(trace["provider_suitability"]), 14)
      /\ p["data_completeness"] = Bounded(Steps(trace["data_completeness"]), 8)
  BY <1>2 DEF ComponentScores
<1>6. /\ p["competitor_weakness"] = CompetitorWeakness(e.competitors, e.metrics)
      /\ p["organic_click_availability"] = OrganicAvailability(e.serps, e.metrics)
  BY <1>2 DEF ComponentScores
<1> HIDE DEF p
<1> QED BY <1>1, <1>3, <1>4, <1>5, <1>6 DEF demand, missing

\* What complete evidence misses and pays
LEMMA NothingMissing ==
  /\ MissingPenalty({}) = 0
  /\ Bounded(Steps(CompletenessSteps({})), 8) = 800
<1> DEFINE none == {}
           raw == SumOver(none, LAMBDA f : Severity[f])
           p == [f \in none |-> IF raw > 24 THEN Round(2400 * Severity[f], raw) ELSE 100 * Severity[f]]
<1>1. MissingPenalty({}) = SumFunctionOnSet(p, {})
  BY DEF MissingPenalty, SumOver
<1> HIDE DEF p
<1>2. MissingPenalty({}) = 0
  BY <1>1, SumEmpty
<1>3. CompletenessSteps({}) = <<80000, 0>>
  <2>1. Cardinality({}) = 0
    BY FS_EmptySet
  <2> QED BY <2>1 DEF CompletenessSteps, Unit, Round
<1>4. Steps(<<80000, 0>>) = 80000
  <2> DEFINE a == 80000
             b == 0
  <2>1. a \in Int /\ b \in Int
    OBVIOUS
  <2> HIDE DEF a, b
  <2>2. Steps(<<a, b>>) = a + b
    BY <2>1, TwoSteps
  <2> QED BY <2>2 DEF a, b
<1>5. Bounded(80000, 8) = 800
  BY DEF Bounded, Clamp, Most, Least, Unit, Round
<1> QED BY <1>2, <1>3, <1>4, <1>5

\* A score that adds no more than the penalties of what it lacks
LEMMA UncappedBelow ==
  ASSUME NEW e, Scorable(e), Missing(e) = {}, NEW x, Scorable(x),
         PartsSum(x) <= PartsSum(e) + MissingPenalty(Missing(x))
  PROVE  Score(x).uncapped <= Score(e).uncapped
<1> DEFINE n == PartsSum(e)
           m == PartsSum(x)
           p == MissingPenalty(Missing(x))
           a == Most(0, n - 0)
           b == Most(0, m - p)
<1>1. /\ Score(e).uncapped = a
  BY ScoreUncapped, NothingMissing
<1>2. Score(x).uncapped = b
  BY ScoreUncapped
<1>3. n \in Int /\ m \in Int
  <2>1. ASSUME NEW y, Scorable(y) PROVE PartsSum(y) \in Int
    <3> DEFINE f == [c \in Components |-> ScoreParts(y)[c]]
    <3>1. \A c \in Components : f[c] \in Nat /\ f[c] <= 100 * Weights[c]
      BY <2>1, PartsNat
    <3>2. PartsSum(y) = SumFunctionOnSet(f, Components)
      BY DEF PartsSum
    <3> HIDE DEF f
    <3>3. SumFunctionOnSet(f, Components) \in Nat
      BY ONLY <3>1, WeightsTotal
    <3> DEFINE s == SumFunctionOnSet(f, Components)
    <3>4. s \in Nat
      BY <3>3
    <3> HIDE DEF s
    <3>5. s \in Int
      BY <3>4
    <3> QED BY <3>2, <3>5 DEF s
  <2> QED BY <2>1
<1>4. p \in Nat
  BY MissingOf, PenaltyNat
<1>5. m <= n + p
  OBVIOUS
<1> HIDE DEF n, m, p
<1>6. b <= a
  BY <1>3, <1>4, <1>5 DEF Most
<1> QED BY <1>1, <1>2, <1>6

\* No component of x outweighs the same of e
LEMMA PartsBelow ==
  ASSUME NEW e, Scorable(e), Missing(e) = {}, NEW x, Scorable(x),
         \A c \in Components : ScoreParts(x)[c] <= ScoreParts(e)[c]
  PROVE  Score(x).uncapped <= Score(e).uncapped
<1> DEFINE f == [c \in Components |-> ScoreParts(x)[c]]
           g == [c \in Components |-> ScoreParts(e)[c]]
<1>1. \A c \in Components : f[c] \in Nat /\ f[c] <= 100 * Weights[c]
  BY PartsNat
<1>2. \A c \in Components : g[c] \in Nat /\ g[c] <= 100 * Weights[c]
  BY PartsNat
<1>3. \A c \in Components : f[c] <= g[c]
  OBVIOUS
<1>4. PartsSum(x) = SumFunctionOnSet(f, Components) /\ PartsSum(e) = SumFunctionOnSet(g, Components)
  BY DEF PartsSum
<1> HIDE DEF f, g
<1>5. IsFiniteSet(Components) /\ SumFunctionOnSet(f, Components) \in Nat
  BY ONLY <1>1, WeightsTotal
<1>6. SumFunctionOnSet(g, Components) \in Nat
  BY ONLY <1>2, WeightsTotal
<1>7. \A c \in Components : f[c] \in Int /\ g[c] \in Int /\ f[c] <= g[c]
  BY ONLY <1>1, <1>2, <1>3
<1>8. SumFunctionOnSet(f, Components) <= SumFunctionOnSet(g, Components)
  BY ONLY <1>5, <1>7, SumMono
<1>9. MissingPenalty(Missing(x)) \in Nat
  BY MissingOf, PenaltyNat
<1> DEFINE n == PartsSum(e)
           m == PartsSum(x)
           p == MissingPenalty(Missing(x))
<1>10. n \in Nat /\ m \in Nat /\ p \in Nat /\ m <= n
  BY ONLY <1>4, <1>5, <1>6, <1>8, <1>9
<1> HIDE DEF n, m, p
<1>11. m <= n + p
  BY ONLY <1>10
<1>12. PartsSum(x) <= PartsSum(e) + MissingPenalty(Missing(x))
  BY ONLY <1>11 DEF n, m, p
<1> QED BY <1>12, UncappedBelow

\* A sum, and the sum with one member more
IsSum(f, S, n) ==
    /\ IsFiniteSet(S) /\ \A y \in S : f[y] \in Int
    /\ SumFunctionOnSet(f, S) = n /\ n \in Int

LEMMA IsSumMember ==
  ASSUME NEW f, NEW S, NEW n, IsSum(f, S, n), NEW x, x \notin S, f[x] \in Int
  PROVE  IsSum(f, S \cup {x}, n + f[x])
<1>1. /\ IsFiniteSet(S) /\ IsFiniteSet(S \cup {x}) /\ \A y \in S : f[y] \in Int
      /\ SumFunctionOnSet(f, S) = n /\ n \in Int
  BY FS_AddElement DEF IsSum
<1>2. SumFunctionOnSet(f, S \cup {x}) = f[x] + SumFunctionOnSet(f, S)
  BY <1>1, SumAdd
<1>3. \A y \in S \cup {x} : f[y] \in Int
  BY <1>1
<1>4. n + f[x] \in Int /\ f[x] + n = n + f[x]
  BY <1>1
<1> QED BY <1>1, <1>2, <1>3, <1>4 DEF IsSum

\* The components one by one
LEMMA SixSum ==
  ASSUME NEW f, \A c \in Components : f[c] \in Int
  PROVE  SumFunctionOnSet(f, Components) =
           0 + f["demand_evidence"] + f["commercial_value"] + f["competitor_weakness"]
             + f["organic_click_availability"] + f["provider_suitability"] + f["data_completeness"]
<1> DEFINE a == "demand_evidence"
           b == "commercial_value"
           c == "competitor_weakness"
           d == "organic_click_availability"
           e == "provider_suitability"
           g == "data_completeness"
           A == {} \cup {a}
           B == A \cup {b}
           C == B \cup {c}
           D == C \cup {d}
           E == D \cup {e}
           G == E \cup {g}
<1>1. Components = {a, b, c, d, e, g}
  BY DEF Components, Weights
<1>2. /\ b \notin A /\ c \notin B /\ d \notin C /\ e \notin D /\ g \notin E /\ Components = G
  BY <1>1
<1>3. /\ f[a] \in Int /\ f[b] \in Int /\ f[c] \in Int /\ f[d] \in Int /\ f[e] \in Int /\ f[g] \in Int
  BY <1>1
<1> HIDE DEF a, b, c, d, e, g
<1>4. IsSum(f, A, 0 + f[a])
  <2> DEFINE Z == {}
             z == 0
  <2>1. IsSum(f, Z, z) /\ a \notin Z
    BY SumEmpty, FS_EmptySet DEF IsSum
  <2> HIDE DEF Z, z
  <2>2. IsSum(f, Z \cup {a}, z + f[a])
    BY ONLY <1>3, <2>1, IsSumMember
  <2> QED BY <2>2 DEF Z, z
<1> HIDE DEF A
<1> DEFINE n1 == 0 + f[a]
           n2 == n1 + f[b]
           n3 == n2 + f[c]
           n4 == n3 + f[d]
           n5 == n4 + f[e]
           n6 == n5 + f[g]
<1>a. IsSum(f, A, n1)
  BY <1>4
<1> HIDE DEF n1
<1>5. IsSum(f, B, n2)
  BY ONLY <1>2, <1>3, <1>a, IsSumMember
<1> HIDE DEF B, n2
<1>6. IsSum(f, C, n3)
  BY ONLY <1>2, <1>3, <1>5, IsSumMember
<1> HIDE DEF C, n3
<1>7. IsSum(f, D, n4)
  BY ONLY <1>2, <1>3, <1>6, IsSumMember
<1> HIDE DEF D, n4
<1>8. IsSum(f, E, n5)
  BY ONLY <1>2, <1>3, <1>7, IsSumMember
<1> HIDE DEF E, n5
<1>9. IsSum(f, G, n6)
  BY ONLY <1>2, <1>3, <1>8, IsSumMember
<1> HIDE DEF G
<1>10. SumFunctionOnSet(f, Components) = n6
  BY <1>2, <1>9 DEF IsSum
<1> QED BY <1>10 DEF n1, n2, n3, n4, n5, n6, a, b, c, d, e, g

\* Rounding and bounding nothing
LEMMA RoundNothing ==
  ASSUME NEW d \in Nat, d > 0
  PROVE  Round(0, d) = 0
<1> DEFINE n == 0
           k == 0
<1>1. n \in Nat /\ k \in Nat /\ d \in Int /\ n <= k * d
  OBVIOUS
<1>2. k = 0 /\ n = 0
  OBVIOUS
<1> HIDE DEF n, k
<1>3. Round(n, d) \in Nat /\ Round(n, d) <= k
  BY ONLY <1>1, d > 0, RoundBetween
<1> DEFINE r == Round(n, d)
<1>4. r \in Nat /\ r <= 0
  BY <1>2, <1>3
<1> HIDE DEF r
<1>5. r = 0
  BY <1>4
<1> QED BY <1>2, <1>5 DEF r

LEMMA BoundedNothing ==
  ASSUME NEW weight \in Nat
  PROVE  Bounded(0, weight) = 0
<1> DEFINE top == weight * Unit
<1>1. top \in Nat
  BY DEF Unit
<1> HIDE DEF top
<1>2. Clamp(0, top) = 0
  BY <1>1 DEF Clamp, Most, Least
<1>3. Round(0, 100) = 0
  BY RoundNothing
<1> QED BY <1>2, <1>3 DEF Bounded, top

LEMMA NoSteps == Steps(<<0, 0>>) = 0 /\ Steps(<<0, 0, 0>>) = 0
<1> DEFINE z == 0
<1>1. z \in Int /\ z + z = 0 /\ z + z + z = 0
  OBVIOUS
<1> HIDE DEF z
<1>2. Steps(<<z, z>>) = z + z /\ Steps(<<z, z, z>>) = z + z + z
  BY <1>1, TwoSteps, ThreeSteps
<1> QED BY <1>1, <1>2 DEF z

\* Without metrics there is neither demand nor commercial value
LEMMA NoDemand ==
  ASSUME NEW market
  PROVE  /\ Demand(<<>>, market).market = None
         /\ Bounded(Steps(DemandSteps(Demand(<<>>, market))), 24) = 0
<1>1. ASSUME NEW G PROVE VolumeAt(<<>>, G) = 0
  <2> DEFINE f == [i \in {} |-> OrZero(<<>>[i].volume)]
  <2>1. VolumeAt(<<>>, G) = SumFunctionOnSet(f, {})
    <3>1. {i \in DOMAIN <<>> : <<>>[i].granularity \in G} = {}
      OBVIOUS
    <3> QED BY <3>1 DEF VolumeAt, SumOver
  <2> HIDE DEF f
  <2> QED BY <2>1, SumEmpty
<1> DEFINE d == Demand(<<>>, market)
<1>2. d = [service |-> 0, market |-> None, kind |-> "missing", confidence |-> "none"]
  BY <1>1 DEF Demand, Estimate
<1> HIDE DEF d
<1>3. d.service = 0 /\ d.market = None /\ d.kind = "missing"
  BY <1>2
<1>4. MarketProfile(d) = [strong |-> 15, credit |-> 40]
  BY <1>3 DEF MarketProfile
<1>5. DemandSteps(d) = <<100 * Round(0, 900), 100 * Round(0, 1500)>>
  BY <1>3, <1>4 DEF DemandSteps, Least, OrZero
<1>6. Round(0, 900) = 0 /\ Round(0, 1500) = 0
  BY RoundNothing
<1>7. Steps(DemandSteps(d)) = 0
  BY <1>5, <1>6, NoSteps
<1> QED BY <1>3, <1>7, BoundedNothing DEF d

\* ... nor any commercial value
LEMMA NoCommerce == Bounded(Steps(CommercialSteps(<<>>)), 16) = 0
<1>1. Known(<<>>, "cpc") = {} /\ Known(<<>>, "paid") = {}
  BY DEF Known
<1>2. ASSUME NEW field, Known(<<>>, field) = {} PROVE Total(<<>>, field) = 0
  <2> DEFINE f == [i \in {} |-> <<>>[i][field]]
  <2>1. Total(<<>>, field) = SumFunctionOnSet(f, {})
    BY <1>2 DEF Total, SumOver
  <2> HIDE DEF f
  <2> QED BY <2>1, SumEmpty
<1>3. Total(<<>>, "cpc") = 0 /\ Total(<<>>, "paid") = 0
  BY <1>1, <1>2
<1>4. Cardinality({}) = 0
  BY FS_EmptySet
<1>5. {i \in DOMAIN <<>> : <<>>[i].intent \in HighIntents} = {}
  OBVIOUS
<1>6. Len(<<>>) = 0
  OBVIOUS
<1>7. CommercialSteps(<<>>) = <<Round(0, 2800), Round(0, 80), Round(0, 1)>>
  <2> DEFINE cpcs == Most(1, Cardinality(Known(<<>>, "cpc")))
             paid == Most(1, Cardinality(Known(<<>>, "paid")))
             high == Cardinality({i \in DOMAIN <<>> : <<>>[i].intent \in HighIntents})
             cpc == Total(<<>>, "cpc")
             bid == Total(<<>>, "paid")
             all == Most(1, Len(<<>>))
  <2>1. CommercialSteps(<<>>) =
          <<Round(9 * Unit * Least(cpc, 2800 * cpcs), 2800 * cpcs),
            Round(3 * Unit * Least(bid, 80 * paid), 80 * paid), Round(4 * Unit * high, all)>>
    BY DEF CommercialSteps
  <2>2. Most(1, 0) = 1
    BY DEF Most
  <2>3. cpcs = 1 /\ paid = 1 /\ all = 1
    BY <1>1, <1>4, <1>6, <2>2
  <2>4. high = 0 /\ cpc = 0 /\ bid = 0
    BY <1>3, <1>4, <1>5
  <2> HIDE DEF cpcs, paid, high, cpc, bid, all
  <2>5. /\ 9 * Unit * Least(cpc, 2800 * cpcs) = 0 /\ 3 * Unit * Least(bid, 80 * paid) = 0
        /\ 4 * Unit * high = 0 /\ 2800 * cpcs = 2800 /\ 80 * paid = 80
    BY <2>3, <2>4 DEF Least, Unit
  <2> QED BY <2>1, <2>3, <2>5
<1>8. Round(0, 2800) = 0 /\ Round(0, 80) = 0 /\ Round(0, 1) = 0
  BY RoundNothing
<1> QED BY <1>7, <1>8, NoSteps, BoundedNothing

\* Without listings there is no provider to suit
LEMMA NoProviders == Bounded(Steps(ProviderSteps(<<>>)), 14) = 0
<1>1. Suitable(<<>>) = {}
  BY DEF Suitable
<1>2. Cardinality({}) = 0
  BY FS_EmptySet
<1>3. TopQuality(<<>>) = 0
  <2> DEFINE f == [i \in {} |-> <<>>[i].score]
  <2>1. TopQuality(<<>>) = Round(SumFunctionOnSet(f, {}), 1)
    BY <1>1, <1>2 DEF TopQuality, SumOver, Most
  <2> HIDE DEF f
  <2>2. SumFunctionOnSet(f, {}) = 0
    BY SumEmpty
  <2>3. Round(0, 1) = 0
    BY RoundNothing
  <2> QED BY <2>1, <2>2, <2>3
<1>4. Round(0, 200) = 0 /\ Round(0, 100) = 0
  BY RoundNothing
<1>5. ProviderSteps(<<>>) = <<0, 0, 0>>
  <2> DEFINE w == Weights.provider_suitability
             s == Cardinality(Suitable(<<>>))
             supply == Round(65 * w * Unit * Least(s, 2), 200)
             m == IF s > 14 THEN 72 ELSE IF s > 8 THEN 88 ELSE 100
  <2>a. w = 14
    BY DEF Weights
  <2>b. s = 0
    BY <1>1, <1>2
  <2>c. Least(0, 2) = 0
    BY DEF Least
  <2>1. w = 14 /\ s = 0 /\ Least(s, 2) = 0
    BY <2>a, <2>b, <2>c
  <2>2. supply = 0 /\ supply = Round(0, 200) /\ m = 100
    BY <1>4, <2>1 DEF Unit
  <2>3. ProviderSteps(<<>>) = <<supply, -Round(supply * (100 - m), 100),
                                Round(35 * w * TopQuality(<<>>), 100)>>
    BY DEF ProviderSteps
  <2> HIDE DEF w, supply, m
  <2>4. supply * (100 - m) = 0 /\ 35 * w * TopQuality(<<>>) = 0
    BY <1>3, <2>1, <2>2
  <2> DEFINE r == Round(supply * (100 - m), 100)
             q == Round(35 * w * TopQuality(<<>>), 100)
  <2>5. r = 0 /\ q = 0
    BY <1>4, <2>4
  <2> HIDE DEF r, q
  <2>6. -r = 0
    <3>1. \A k \in Int : -k \in Int /\ (k >= 0 => -k <= 0) /\ (k <= 0 => -k >= 0)
      OBVIOUS
    <3>2. r \in Int /\ r >= 0 /\ r <= 0
      BY <2>5
    <3> DEFINE n == -r
    <3>3. n \in Int /\ n <= 0 /\ n >= 0
      BY ONLY <3>1, <3>2
    <3> HIDE DEF n
    <3>4. n = 0
      BY ONLY <3>3
    <3> QED BY <3>4 DEF n
  <2> QED BY <2>2, <2>3, <2>5, <2>6 DEF r, q
<1> QED BY <1>5, NoSteps, BoundedNothing

\* What metrics are worth: the two fields missing without them
LEMMA PairMissing ==
  LET pair == {"keyword_metrics", "local_demand"}
  IN  /\ MissingPenalty(pair) = 1100
      /\ Bounded(Steps(CompletenessSteps(pair)), 8) = 571
<1> DEFINE a == "keyword_metrics"
           b == "local_demand"
           A == {} \cup {a}
           pair == A \cup {b}
           Z == {}
           z == 0
<1>0. b \notin A /\ a \notin Z /\ pair = {"keyword_metrics", "local_demand"}
  OBVIOUS
<1>1. Severity[a] = 8 /\ Severity[b] = 3
  BY DEF Severity
<1>2. Cardinality(pair) = 2
  <2>1. IsFiniteSet(Z) /\ Cardinality(Z) = 0
    BY FS_EmptySet
  <2>2. IsFiniteSet(A) /\ Cardinality(A) = 1
    BY <1>0, <2>1, FS_AddElement
  <2> HIDE DEF A
  <2> QED BY <1>0, <2>2, FS_AddElement
<1>3. ASSUME NEW f, NEW i \in Int, NEW j \in Int, f[a] = i, f[b] = j
      PROVE  SumFunctionOnSet(f, pair) = i + j
  <2>1. IsSum(f, Z, z) /\ f[a] \in Int /\ f[b] \in Int
    BY <1>3, SumEmpty, FS_EmptySet DEF IsSum
  <2>a. A = Z \cup {a}
    OBVIOUS
  <2> DEFINE k == z + f[a]
             l == k + f[b]
  <2> HIDE DEF a, b, A, Z, z
  <2>2. IsSum(f, A, k)
    BY ONLY <1>0, <2>1, <2>a, IsSumMember
  <2> HIDE DEF k
  <2>3. IsSum(f, A \cup {b}, l)
    BY ONLY <1>0, <2>1, <2>2, IsSumMember
  <2>4. SumFunctionOnSet(f, pair) = l
    BY <2>3 DEF IsSum
  <2> QED BY <1>3, <2>4 DEF k, z
<1> DEFINE s == [f \in pair |-> Severity[f]]
           raw == SumFunctionOnSet(s, pair)
           p == [f \in pair |-> IF raw > 24 THEN Round(2400 * Severity[f], raw) ELSE 100 * Severity[f]]
<1>4. MissingPenalty(pair) = SumFunctionOnSet(p, pair)
  BY DEF MissingPenalty, SumOver
<1>5. raw = 11
  <2>1. s[a] = 8 /\ s[b] = 3
    BY <1>1
  <2> HIDE DEF s, pair
  <2>2. SumFunctionOnSet(s, pair) = 8 + 3
    BY <1>3, <2>1
  <2> QED BY <2>2
<1> HIDE DEF raw
<1>6. SumFunctionOnSet(p, pair) = 1100
  <2>1. p[a] = 800 /\ p[b] = 300
    BY <1>1, <1>5
  <2> HIDE DEF p, pair
  <2>2. SumFunctionOnSet(p, pair) = 800 + 300
    BY <1>3, <2>1
  <2> QED BY <2>2
<1>7. CompletenessSteps(pair) = <<80000, -22857>>
  <2> HIDE DEF pair
  <2>1. CompletenessSteps(pair) = <<80000, -Round(160000, 7)>>
    BY <1>2 DEF CompletenessSteps, Unit
  <2>2. Round(160000, 7) = 22857
    BY DEF Round
  <2> QED BY <2>1, <2>2
<1>8. Steps(<<80000, -22857>>) = 57143
  <2> DEFINE k == 80000
             l == -22857
  <2>1. k \in Int /\ l \in Int /\ k + l = 57143
    OBVIOUS
  <2> HIDE DEF k, l
  <2>2. Steps(<<k, l>>) = k + l
    BY <2>1, TwoSteps
  <2> QED BY <2>1, <2>2 DEF k, l
<1>9. Bounded(57143, 8) = 571
  BY DEF Bounded, Clamp, Most, Least, Unit, Round
<1> QED BY <1>0, <1>4, <1>6, <1>7, <1>8, <1>9

\* Without metrics, evidence that missed nothing misses two fields
LEMMA MetricsMissing ==
  ASSUME NEW e, Missing(e) = {}, NEW x, x.metrics = <<>>, x.serps = e.serps,
         x.competitors = e.competitors, x.providers = e.providers
  PROVE  Missing(x) = {"keyword_metrics", "local_demand"}
<1> DEFINE m == Demand(e.metrics, e.market)
           d == Demand(x.metrics, x.market)
           empty == \A i \in DOMAIN e.serps : e.serps[i].results = {}
<1>1. d.market = None
  BY NoDemand
<1>2. Missing(e) = MissingFields(e, m) /\ Missing(x) = MissingFields(x, d)
  BY DEF Missing
<1> HIDE DEF m, d
<1>3. /\ e.serps = <<>> => "serp_snapshots" \in MissingFields(e, m)
      /\ e.competitors = <<>> => "competitor_metrics" \in MissingFields(e, m)
      /\ e.providers = <<>> => "provider_candidates" \in MissingFields(e, m)
      /\ e.serps # <<>> /\ empty => "serp_results" \in MissingFields(e, m)
  BY DEF MissingFields
<1>4. e.serps # <<>> /\ e.competitors # <<>> /\ e.providers # <<>> /\ ~empty
  BY <1>2, <1>3
<1>5. /\ "keyword_metrics" \in MissingFields(x, d) /\ "local_demand" \in MissingFields(x, d)
      /\ "serp_snapshots" \notin MissingFields(x, d)
      /\ "competitor_metrics" \notin MissingFields(x, d)
      /\ "provider_candidates" \notin MissingFields(x, d)
      /\ "keyword_cpc" \notin MissingFields(x, d) /\ "serp_results" \notin MissingFields(x, d)
  BY <1>1, <1>4 DEF MissingFields
<1>6. MissingFields(x, d) \in SUBSET Fields
  BY DEF MissingFields, Fields
<1> QED BY <1>2, <1>5, <1>6 DEF Fields

\* What the weights give the two other components is less than what the metrics
\* were worth: 11.79 points at most against 13.29 of penalty and completeness
LEMMA MetricsWithheld ==
  ASSUME NEW e, Scorable(e), Missing(e) = {}, NEW x, Scorable(x), x.metrics = <<>>,
         x.serps = e.serps, x.competitors = e.competitors, x.providers = e.providers
  PROVE  Score(x).uncapped <= Score(e).uncapped
<1> DEFINE p == ScoreParts(e)
           q == ScoreParts(x)
           f == [c \in Components |-> p[c]]
           g == [c \in Components |-> q[c]]
<1>1. Missing(x) = {"keyword_metrics", "local_demand"}
  BY MetricsMissing
<1>2. MissingPenalty(Missing(x)) = 1100 /\ Bounded(Steps(CompletenessSteps(Missing(x))), 8) = 571
  BY <1>1, PairMissing
<1>3. q["demand_evidence"] = 0 /\ q["commercial_value"] = 0 /\ q["data_completeness"] = 571
  <2>1. /\ q["demand_evidence"] = Bounded(Steps(DemandSteps(Demand(x.metrics, x.market))), 24)
        /\ q["commercial_value"] = Bounded(Steps(CommercialSteps(x.metrics)), 16)
        /\ q["data_completeness"] = Bounded(Steps(CompletenessSteps(Missing(x))), 8)
    BY PartsAre
  <2> QED BY <1>2, <2>1, NoDemand, NoCommerce
<1>4. /\ p["competitor_weakness"] = CompetitorWeakness(e.competitors, e.metrics)
      /\ p["organic_click_availability"] = OrganicAvailability(e.serps, e.metrics)
      /\ p["data_completeness"] = Bounded(Steps(CompletenessSteps({})), 8)
      /\ p["provider_suitability"] = Bounded(Steps(ProviderSteps(e.providers)), 14)
  BY PartsAre
<1>5. /\ q["competitor_weakness"] = CompetitorWeakness(e.competitors, <<>>)
      /\ q["organic_click_availability"] = OrganicAvailability(e.serps, <<>>)
      /\ q["provider_suitability"] = Bounded(Steps(ProviderSteps(e.providers)), 14)
  BY PartsAre
<1>6. p["data_completeness"] = 800 /\ p["provider_suitability"] = q["provider_suitability"]
  BY <1>4, <1>5, NothingMissing
<1>7. /\ e.metrics \in Seq(Metric) /\ e.serps \in Seq(Snapshots) /\ Listed(e.competitors)
      /\ Rivals(e.competitors) /\ e.competitors # <<>>
  BY MissingOf DEF Scorable, Sampled
<1>8. CompetitorWeakness(e.competitors, <<>>) <= CompetitorWeakness(e.competitors, e.metrics) + 734
  BY <1>7, WeaknessMoved
<1>9. OrganicAvailability(e.serps, <<>>) <= OrganicAvailability(e.serps, e.metrics) + 445
  BY <1>7, OrganicMoved
<1>10. \A c \in Components : f[c] \in Nat /\ f[c] = p[c]
  BY PartsNat
<1>11. \A c \in Components : g[c] \in Nat /\ g[c] = q[c]
  BY PartsNat
<1>12. PartsSum(e) = SumFunctionOnSet(f, Components) /\ PartsSum(x) = SumFunctionOnSet(g, Components)
  BY DEF PartsSum
<1> HIDE DEF p, q, f, g
<1>13. (\A c \in Components : f[c] \in Int) /\ (\A c \in Components : g[c] \in Int)
  BY ONLY <1>10, <1>11
<1>14. SumFunctionOnSet(f, Components) =
           0 + f["demand_evidence"] + f["commercial_value"] + f["competitor_weakness"]
             + f["organic_click_availability"] + f["provider_suitability"] + f["data_completeness"]
  BY ONLY <1>13, SixSum
<1>15. SumFunctionOnSet(g, Components) =
           0 + g["demand_evidence"] + g["commercial_value"] + g["competitor_weakness"]
             + g["organic_click_availability"] + g["provider_suitability"] + g["data_completeness"]
  BY ONLY <1>13, SixSum
<1>16. Components = {"demand_evidence", "commercial_value", "competitor_weakness",
                     "organic_click_availability", "provider_suitability", "data_completeness"}
  BY DEF Components, Weights
<1> DEFINE a == f["demand_evidence"]
           b == f["commercial_value"]
           w == f["competitor_weakness"]
           o == f["organic_click_availability"]
           k == f["provider_suitability"]
           v == g["competitor_weakness"]
           n == g["organic_click_availability"]
<1>17. /\ a \in Nat /\ b \in Nat /\ w \in Nat /\ o \in Nat /\ k \in Nat /\ v \in Nat /\ n \in Nat
       /\ f["data_completeness"] = 800 /\ g["data_completeness"] = 571
       /\ g["demand_evidence"] = 0 /\ g["commercial_value"] = 0 /\ g["provider_suitability"] = k
  BY ONLY <1>3, <1>6, <1>10, <1>11, <1>16
<1>18. v <= w + 734
  BY ONLY <1>4, <1>5, <1>8, <1>10, <1>11, <1>16
<1>19. n <= o + 445
  BY ONLY <1>4, <1>5, <1>9, <1>10, <1>11, <1>16
<1>20. PartsSum(e) = 0 + a + b + w + o + k + 800
  BY ONLY <1>12, <1>14, <1>17
<1>21. PartsSum(x) = 0 + 0 + 0 + v + n + k + 571
  BY ONLY <1>12, <1>15, <1>17
<1> HIDE DEF a, b, w, o, k, v, n
<1>22. 0 + 0 + 0 + v + n + k + 571 <= 0 + a + b + w + o + k + 800 + 1100
  BY ONLY <1>17, <1>18, <1>19
<1>23. PartsSum(x) <= PartsSum(e) + MissingPenalty(Missing(x))
  BY ONLY <1>2, <1>20, <1>21, <1>22
<1> QED BY <1>23, UncappedBelow

\* Without a group other than the metrics no component grows
LEMMA GroupWithheld ==
  ASSUME NEW e, Scorable(e), Missing(e) = {}, NEW x, Scorable(x), x.metrics = e.metrics,
         x.market = e.market, x.serps = e.serps \/ NoOrganic(x.serps),
         x.competitors = e.competitors \/ x.competitors = <<>>,
         x.providers = e.providers \/ x.providers = <<>>
  PROVE  Score(x).uncapped <= Score(e).uncapped
<1> DEFINE p == ScoreParts(e)
           q == ScoreParts(x)
<1>1. \A c \in Components : p[c] \in Nat /\ p[c] <= 100 * Weights[c]
  BY PartsNat
<1>2. \A c \in Components : q[c] \in Nat /\ q[c] <= 100 * Weights[c]
  BY PartsNat
<1>3. /\ p["demand_evidence"] = Bounded(Steps(DemandSteps(Demand(e.metrics, e.market))), 24)
      /\ p["commercial_value"] = Bounded(Steps(CommercialSteps(e.metrics)), 16)
      /\ p["competitor_weakness"] = CompetitorWeakness(e.competitors, e.metrics)
      /\ p["organic_click_availability"] = OrganicAvailability(e.serps, e.metrics)
      /\ p["provider_suitability"] = Bounded(Steps(ProviderSteps(e.providers)), 14)
      /\ p["data_completeness"] = Bounded(Steps(CompletenessSteps({})), 8)
  BY PartsAre
<1>4. /\ q["demand_evidence"] = Bounded(Steps(DemandSteps(Demand(e.metrics, e.market))), 24)
      /\ q["commercial_value"] = Bounded(Steps(CommercialSteps(e.metrics)), 16)
      /\ q["competitor_weakness"] = CompetitorWeakness(x.competitors, e.metrics)
      /\ q["organic_click_availability"] = OrganicAvailability(x.serps, e.metrics)
      /\ q["provider_suitability"] = Bounded(Steps(ProviderSteps(x.providers)), 14)
  BY PartsAre
<1>5. q["demand_evidence"] = p["demand_evidence"] /\ q["commercial_value"] = p["commercial_value"]
  BY <1>3, <1>4
<1>6. q["competitor_weakness"] = p["competitor_weakness"] \/ q["competitor_weakness"] = 0
  <2>1. x.competitors = <<>> => CompetitorWeakness(x.competitors, e.metrics) = 0
    BY DEF CompetitorWeakness
  <2> QED BY <1>3, <1>4, <2>1
<1>7. \/ q["organic_click_availability"] = p["organic_click_availability"]
      \/ q["organic_click_availability"] = 0
  <2>1. NoOrganic(x.serps) => OrganicAvailability(x.serps, e.metrics) = 0
    BY DEF OrganicAvailability
  <2> QED BY <1>3, <1>4, <2>1
<1>8. q["provider_suitability"] = p["provider_suitability"] \/ q["provider_suitability"] = 0
  BY <1>3, <1>4, NoProviders
<1>9. p["data_completeness"] = 800 /\ Weights["data_completeness"] = 8
  BY <1>3, NothingMissing DEF Weights
<1>10. Components = {"demand_evidence", "commercial_value", "competitor_weakness",
                     "organic_click_availability", "provider_suitability", "data_completeness"}
  BY DEF Components, Weights
<1> HIDE DEF p, q
<1>a. q["data_completeness"] <= 100 * Weights["data_completeness"] /\ q["data_completeness"] \in Nat
  BY ONLY <1>2, <1>10
<1>11. q["data_completeness"] <= p["data_completeness"]
  BY ONLY <1>9, <1>a
<1>12. ASSUME NEW c \in Components PROVE q[c] <= p[c]
  <2>1. p[c] \in Nat /\ q[c] \in Nat
    BY ONLY <1>1, <1>2
  <2>2. q[c] = p[c] \/ q[c] = 0 \/ q[c] <= p[c]
    BY ONLY <1>5, <1>6, <1>7, <1>8, <1>10, <1>11
  <2> QED BY ONLY <2>1, <2>2
<1>13. \A c \in Components : ScoreParts(x)[c] <= ScoreParts(e)[c]
  BY <1>12 DEF p, q
<1> QED BY <1>13, PartsBelow

\* The evidence of a scan, and what is left of it when a group is withheld
LEMMA WithheldScorable ==
  ASSUME EvidenceInv, ScoreInv, GradedInv
  PROVE  /\ Scorable(Evidence)
         /\ \A x \in Withheld(Evidence) : Scorable(x)
<1> DEFINE e == Evidence
<1>1. e.competitors = competitors /\ e.providers = providers /\ e.market = setup.market
  BY DEF Evidence
<1>2. Sampled(e)
  BY EvidenceSampled
<1>3. Placeable(setup.market)
  BY SetupConstants DEF EvidenceInv, Placeable
<1>4. Scorable(e)
  BY <1>1, <1>2, <1>3 DEF GradedInv, Scorable
<1>5. DOMAIN e = {"metrics", "serps", "competitors", "providers", "market", "mode", "configured",
                  "assessment"}
  BY DEF Evidence
<1>6. /\ e.metrics \in Seq(Metric) /\ e.serps \in Seq(Snapshots) /\ Listed(e.competitors)
      /\ Listed(e.providers) /\ e.mode \in {"live", "sandbox", "replay", "fixture"}
      /\ Rivals(e.competitors) /\ Quoted(e.providers) /\ Placeable(e.market)
  BY <1>4 DEF Scorable, Sampled
<1>7. /\ <<>> \in Seq(Metric) /\ <<>> \in Seq(Snapshots) /\ Listed(<<>>) /\ Rivals(<<>>)
      /\ Quoted(<<>>)
  <2>1. DOMAIN <<>> = {}
    OBVIOUS
  <2>2. Listed(<<>>)
    BY EmptySeq DEF Listed
  <2> QED BY <2>1, <2>2, EmptySeq DEF Rivals, Quoted
<1> DEFINE bare == [i \in DOMAIN e.serps |-> [e.serps[i] EXCEPT !.results = {}]]
<1>8. bare \in Seq(Snapshots)
  <2> HIDE DEF e
  <2>1. DOMAIN e.serps = 1..Len(e.serps) /\ Len(e.serps) \in Nat
    BY <1>6, LenProperties
  <2>2. ASSUME NEW i \in DOMAIN e.serps PROVE bare[i] \in Snapshots
    <3>1. e.serps[i] \in Snapshots
      BY <1>6, LenProperties, ElementOfSeq
    <3> DEFINE s == e.serps[i]
    <3>2. bare[i] = [s EXCEPT !.results = {}]
      OBVIOUS
    <3>3. s \in Snapshots
      BY <3>1
    <3> HIDE DEF s, bare
    <3>4. [s EXCEPT !.results = {}] \in Snapshots
      BY <3>3, FS_EmptySet DEF Snapshots, OnePlace
    <3> QED BY <3>2, <3>4
  <2> DEFINE n == Len(e.serps)
  <2>3. DOMAIN bare = 1..n /\ n \in Nat /\ bare = [i \in 1..n |-> bare[i]]
    BY <2>1
  <2>4. \A i \in 1..n : bare[i] \in Snapshots
    BY <2>1, <2>2
  <2> HIDE DEF bare, n
  <2> QED BY <2>3, <2>4
<1> HIDE DEF bare
<1>9. ASSUME NEW x,
             /\ x.metrics \in Seq(Metric) /\ x.serps \in Seq(Snapshots) /\ Listed(x.competitors)
             /\ Listed(x.providers) /\ x.mode \in {"live", "sandbox", "replay", "fixture"}
             /\ Rivals(x.competitors) /\ Quoted(x.providers) /\ Placeable(x.market)
      PROVE  Scorable(x)
  BY <1>9 DEF Scorable, Sampled
<1>10. Withheld(e) = {[e EXCEPT !.metrics = <<>>], [e EXCEPT !.serps = <<>>],
                      [e EXCEPT !.competitors = <<>>], [e EXCEPT !.providers = <<>>],
                      [e EXCEPT !.serps = bare]}
  BY DEF Withheld, bare
<1>11. Scorable(e)
  BY <1>4
<1> HIDE DEF e
<1>12. Scorable([e EXCEPT !.metrics = <<>>])
  BY <1>5, <1>6, <1>7, <1>9
<1>13. Scorable([e EXCEPT !.serps = <<>>])
  BY <1>5, <1>6, <1>7, <1>9
<1>14. Scorable([e EXCEPT !.competitors = <<>>])
  BY <1>5, <1>6, <1>7, <1>9
<1>15. Scorable([e EXCEPT !.providers = <<>>])
  BY <1>5, <1>6, <1>7, <1>9
<1>16. Scorable([e EXCEPT !.serps = bare])
  BY <1>5, <1>6, <1>8, <1>9
<1>17. \A x \in Withheld(e) : Scorable(x)
  BY ONLY <1>10, <1>12, <1>13, <1>14, <1>15, <1>16
<1> QED BY <1>11, <1>17 DEF e

\* No group withheld raises the score of a scan that lacked nothing
LEMMA WithheldBelow ==
  ASSUME EvidenceInv, ScoreInv, GradedInv, Missing(Evidence) = {}, NEW x \in Withheld(Evidence)
  PROVE  Score(x).uncapped <= Score(Evidence).uncapped
<1> DEFINE e == Evidence
           bare == [i \in DOMAIN e.serps |-> [e.serps[i] EXCEPT !.results = {}]]
<1>1. Scorable(e) /\ Scorable(x) /\ Missing(e) = {}
  BY WithheldScorable
<1>2. DOMAIN e = {"metrics", "serps", "competitors", "providers", "market", "mode", "configured",
                  "assessment"}
  BY DEF Evidence
<1>3. \/ x = [e EXCEPT !.metrics = <<>>] \/ x = [e EXCEPT !.serps = <<>>]
      \/ x = [e EXCEPT !.competitors = <<>>] \/ x = [e EXCEPT !.providers = <<>>]
      \/ x = [e EXCEPT !.serps = bare]
  BY DEF Withheld
<1>4. NoOrganic(<<>>)
  BY DEF NoOrganic
<1>5. NoOrganic(bare)
  <2> HIDE DEF e
  <2>0. e.serps \in Seq(Snapshots)
    BY <1>1 DEF Scorable, Sampled
  <2>1. ASSUME NEW i \in DOMAIN bare PROVE Organic(bare[i]) = {}
    <3> DEFINE s == e.serps[i]
               r == bare[i]
    <3>1. s \in Snapshots /\ r = [s EXCEPT !.results = {}]
      BY <2>0, LenProperties, ElementOfSeq
    <3>2. "results" \in DOMAIN s
      <4> HIDE DEF s
      <4> QED BY <3>1 DEF Snapshots
    <3> HIDE DEF s, r, bare
    <3>3. r.results = {}
      BY <3>1, <3>2
    <3>4. Organic(r) = {}
      BY <3>3 DEF Organic
    <3> QED BY <3>4 DEF r
  <2> QED BY <2>1 DEF NoOrganic
<1> HIDE DEF e, bare
<1>6. CASE x = [e EXCEPT !.metrics = <<>>]
  <2>1. /\ x.metrics = <<>> /\ x.serps = e.serps /\ x.competitors = e.competitors
        /\ x.providers = e.providers
    BY <1>2, <1>6
  <2>2. Score(x).uncapped <= Score(e).uncapped
    BY ONLY <1>1, <2>1, MetricsWithheld
  <2> QED BY <2>2 DEF e
<1>7. ASSUME x.metrics = e.metrics, x.market = e.market, x.serps = e.serps \/ NoOrganic(x.serps),
             x.competitors = e.competitors \/ x.competitors = <<>>,
             x.providers = e.providers \/ x.providers = <<>>
      PROVE  Score(x).uncapped <= Score(Evidence).uncapped
  <2>1. Score(x).uncapped <= Score(e).uncapped
    BY ONLY <1>1, <1>7, GroupWithheld
  <2> QED BY <2>1 DEF e
<1>8. CASE x = [e EXCEPT !.serps = <<>>]
  BY <1>2, <1>4, <1>7, <1>8
<1>9. CASE x = [e EXCEPT !.competitors = <<>>]
  BY <1>2, <1>7, <1>9
<1>10. CASE x = [e EXCEPT !.providers = <<>>]
  BY <1>2, <1>7, <1>10
<1>11. CASE x = [e EXCEPT !.serps = bare]
  BY <1>2, <1>5, <1>7, <1>11
<1> QED BY <1>3, <1>6, <1>8, <1>9, <1>10, <1>11

\* The gate leaves what a score added up to before the cap
LEMMA GateKeepsUncapped ==
  ASSUME NEW e, NEW q
  PROVE  LET s == ApplyToScore(Score(e), q)
         IN  s.uncapped = Score(e).uncapped /\ s.missing = Score(e).missing
<1> DEFINE s == Score(e)
           level == Lower(s.confidence, "medium")
           total == Least(s.total, 3500)
           bound == IF s.cap = None THEN 3500 ELSE Least(s.cap, 3500)
<1>1. DOMAIN s = {"total", "uncapped", "cap", "components", "trace", "missing", "status",
                  "confidence"}
  BY DEF Score, ScoreKnowing, ScoreTraced, Combined
<1>2. \/ ApplyToScore(s, q) = s
      \/ ApplyToScore(s, q) = [s EXCEPT !.confidence = level]
      \/ ApplyToScore(s, q) = [s EXCEPT !.total = total, !.status = "unusable", !.cap = bound,
                                        !.confidence = "insufficient"]
  <2>1. CASE q = "pass"
    BY <2>1 DEF ApplyToScore
  <2>2. CASE q = "warning"
    BY <2>2 DEF ApplyToScore
  <2>3. CASE q \notin {"pass", "warning"}
    BY <2>3 DEF ApplyToScore
  <2> QED BY <2>1, <2>2, <2>3
<1> HIDE DEF s, level, total, bound
<1>3. ApplyToScore(s, q).uncapped = s.uncapped /\ ApplyToScore(s, q).missing = s.missing
  BY <1>1, <1>2
<1> QED BY <1>3 DEF s

\* The invariants decide what a score is worth when it is saved
LEMMA WithheldScored == EvidenceInv /\ ScoreInv /\ GradedInv => WithheldNeverOutranks
<1> SUFFICES ASSUME EvidenceInv, ScoreInv, GradedInv, stage = "persisting_results",
                    score.missing = {}, NEW x \in Withheld(Evidence)
             PROVE  Score(x).uncapped <= score.uncapped
  BY DEF WithheldNeverOutranks
<1>1. score = ApplyToScore(Score(Evidence), quality)
  BY DEF ScoreInv, Scored
<1>2. score.uncapped = Score(Evidence).uncapped /\ score.missing = Score(Evidence).missing
  BY <1>1, GateKeepsUncapped
<1>3. Missing(Evidence) = {}
  BY <1>2, ScoreUncapped
<1>4. Score(x).uncapped <= Score(Evidence).uncapped
  BY <1>3, WithheldBelow
<1> QED BY <1>2, <1>4

\* Evidence that lacks a group scores no more than the same evidence with it
\* (docs/scoring_v2.md:21), although without metrics the queries' weights, and
\* with them two other components, move in the market's favour:
\* WithheldNeverOutranks, for every answer of the providers and every setup.
THEOREM WithheldRanksLower == Spec => []WithheldNeverOutranks
<1>1. Init => EvidenceInv /\ ScoreInv /\ GradedInv
  BY EvidenceInit, ScoreInit, GradedInit
<1>2. EvidenceInv /\ ScoreInv /\ GradedInv /\ [Next]_vars => (EvidenceInv /\ ScoreInv /\ GradedInv)'
  BY EvidenceStep, ScoreStep, GradedStep
<1> QED BY <1>1, <1>2, WithheldScored, PTL DEF Spec
=============================================================================
