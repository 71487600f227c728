----------------------------- MODULE PageProofs -----------------------------
(***************************************************************************)
(* Proofs about the pages of the browser that ask, store and pay: the      *)
(* dates they ask for, their lists, the onboarding, the renewals and the   *)
(* administrator's pages; and about the points of the reports.  The        *)
(* invariants are stated over the variables s1 to s14, as the models of    *)
(* MCConsole have them, each for the behaviours of its own model; the      *)
(* values of a model are those of its record of constants, ForPages and    *)
(* the like.                                                               *)
(***************************************************************************)
EXTENDS MCConsole, FiniteSetTheorems, TLAPS

-----------------------------------------------------------------------------
(* What numbers do that are not numerals: multiples, and the quotient and  *)
(* the rest of a division.                                                 *)
LEMMA Multiple ==
    ASSUME NEW b \in Nat \ {0}, NEW k \in Int
    PROVE  /\ b * k \in Int /\ k * b = b * k
           /\ k >= 1 => b * k >= b
           /\ k <= -1 => b * k <= -b
           /\ k = 0 => b * k = 0
  OBVIOUS

LEMMA Distributes ==
    ASSUME NEW b \in Int, NEW k \in Int, NEW l \in Int
    PROVE  b * (k + l) = b * k + b * l /\ b * (k - l) = b * k - b * l
  OBVIOUS

LEMMA Division ==
    ASSUME NEW a \in Int, NEW b \in Nat \ {0}
    PROVE  a \div b \in Int /\ b * (a \div b) \in Int /\ b * (a \div b) <= a /\ a < b * (a \div b) + b
  BY SMT

LEMMA Quotient ==
    ASSUME NEW a \in Int, NEW b \in Nat \ {0}, NEW q \in Int, b * q <= a, a < b * q + b
    PROVE  a \div b = q
<1> DEFINE p == a \div b
<1>1. p \in Int /\ b * p \in Int /\ b * p <= a /\ a < b * p + b
    BY Division
<1> HIDE DEF p
<1>2. b * q \in Int
    OBVIOUS
<1>3. b * (p - q) = b * p - b * q
    BY <1>1, Distributes
<1>4. p - q \in Int /\ b * (p - q) \in Int
    BY <1>1
<1>5. ~(p - q >= 1)
    BY <1>1, <1>2, <1>3, <1>4, Multiple
<1>6. ~(p - q <= -1)
    BY <1>1, <1>2, <1>3, <1>4, Multiple
<1>7. p = q
    BY <1>1, <1>5, <1>6
<1> QED  BY <1>7 DEF p

LEMMA Rest ==
    ASSUME NEW a \in Int, NEW b \in Nat \ {0}
    PROVE  a % b = a - b * (a \div b)
  BY SMT

(* A set of numbers has a least one.                                       *)
LEMMA Least ==
    ASSUME NEW S \in SUBSET Nat, S # {}
    PROVE  \E m \in S : \A n \in S : m <= n
<1> DEFINE R == OpToRel(<, Nat)
<1>1. \E m \in S : \A n \in S : ~(<<n, m>> \in R)
    <2>1. IsWellFoundedOn(R, Nat)
        BY Zenon, NatLessThanWellFounded
    <2> HIDE DEF R
    <2> QED  BY <2>1, WFMin
<1>2. \A n, m \in Nat : <<n, m>> \in R <=> n < m
    BY DEF OpToRel
<1> HIDE DEF R
<1>3. PICK m \in S : \A n \in S : ~(<<n, m>> \in R)
    BY <1>1
<1>4. ASSUME NEW n \in S
      PROVE  m <= n
    <2>1. ~(n < m) /\ n \in Nat /\ m \in Nat
        BY <1>2, <1>3
    <2> QED  BY <2>1
<1> QED  BY <1>4

(* A set of numbers that has zero and, with each number, the next, has all.*)
LEMMA Induction ==
    ASSUME NEW S, 0 \in S, \A n \in Nat : n \in S => n + 1 \in S
    PROVE  Nat \subseteq S
<1> SUFFICES ASSUME Nat \ S # {}
             PROVE  FALSE
    OBVIOUS
<1>1. PICK m \in Nat \ S : \A n \in Nat \ S : m <= n
    BY Least
<1>2. m # 0 /\ m - 1 \in Nat /\ m - 1 \in S
    BY <1>1
<1> QED  BY <1>1, <1>2

(* What is defined step by step is a function.                             *)
Steps(N, A, base, step) == base \in A /\ step \in [1..N -> [A -> A]]
Follows(N, base, step, f) == f[0] = base /\ \A i \in 1..N : f[i] = step[i][f[i - 1]]

LEMMA Recursion ==
    ASSUME NEW N \in Nat, NEW A, NEW base, NEW step, Steps(N, A, base, step)
    PROVE  \E f \in [0..N -> A] : Follows(N, base, step, f)
<1> USE DEF Steps, Follows
<1> DEFINE Good(n, f) == f[0] = base /\ \A i \in 1..n : f[i] = step[i][f[i - 1]]
           S == {n \in Nat : n <= N => \E f \in [0..n -> A] : Good(n, f)}
<1>1. 0 \in S
    <2> DEFINE f == [i \in 0..0 |-> base]
    <2>1. f \in [0..0 -> A] /\ f[0] = base OBVIOUS
    <2>2. 1..0 = {} OBVIOUS
    <2>3. Good(0, f) BY <2>1, <2>2
    <2> HIDE DEF f
    <2> QED BY <2>1, <2>3
<1>2. ASSUME NEW n \in Nat, n \in S PROVE n + 1 \in S
    <2> SUFFICES ASSUME n + 1 <= N PROVE \E f \in [0..(n+1) -> A] : Good(n + 1, f)
      OBVIOUS
    <2>1. PICK f \in [0..n -> A] : Good(n, f) BY <1>2
    <2> DEFINE g == [i \in 0..(n+1) |-> IF i = n + 1 THEN step[n + 1][f[n]] ELSE f[i]]
    <2>2. f[n] \in A /\ n + 1 \in 1..N OBVIOUS
    <2>3. step[n + 1][f[n]] \in A BY <2>2
    <2>4. g \in [0..(n+1) -> A] BY <2>3
    <2>6. \A i \in 0..(n+1) : g[i] = IF i = n + 1 THEN step[n + 1][f[n]] ELSE f[i] OBVIOUS
    <2> HIDE DEF g
    <2>5. Good(n + 1, g)
      <3>1. g[0] = base BY <2>1, <2>6
      <3>2. ASSUME NEW i \in 1..(n+1) PROVE g[i] = step[i][g[i - 1]]
        <4>1. CASE i = n + 1 BY <4>1, <2>6
        <4>2. CASE i # n + 1 
            <5>1. i \in 1..n /\ i - 1 \in 0..n BY <4>2
            <5> QED BY <5>1, <2>1, <2>6, <4>2
        <4> QED BY <4>1, <4>2
      <3> QED BY <3>1, <3>2
    <2> QED BY <2>4, <2>5
<1> HIDE DEF S
<1>3. N \in S BY <1>1, <1>2, Induction
<1> QED BY <1>3 DEF S

(* Two functions that begin alike and go on alike are alike.               *)
Agree(N, f, g) == f[0] = g[0] /\ \A n \in 1..N : f[n - 1] = g[n - 1] => f[n] = g[n]

LEMMA Agreement ==
    ASSUME NEW N \in Nat, NEW f, NEW g, Agree(N, f, g)
    PROVE  \A n \in 0..N : f[n] = g[n]
<1> USE DEF Agree
<1> DEFINE S == {n \in Nat : n <= N => f[n] = g[n]}
<1>1. 0 \in S
    OBVIOUS
<1>2. ASSUME NEW n \in Nat, n \in S
      PROVE  n + 1 \in S
    <2> SUFFICES ASSUME n + 1 <= N
                 PROVE  f[n + 1] = g[n + 1]
        OBVIOUS
    <2>1. n + 1 \in 1..N /\ (n + 1) - 1 = n /\ n <= N
        OBVIOUS
    <2> QED  BY <1>2, <2>1
<1> HIDE DEF S
<1>3. \A n \in Nat : n \in S
    BY <1>1, <1>2, Induction
<1> QED  BY <1>3 DEF S

-----------------------------------------------------------------------------
(* The points of the reports: each is one that its vehicle sends.          *)
PointsInv == DOMAIN s1 = ForReports.fleet /\ s1 = [v \in ForReports.fleet |-> s1[v]] /\ Report!PointsTypeOK

LEMMA PointsBegin ==
    ASSUME Report!ReportsInit
    PROVE  PointsInv
<1>1. \A v \in ForReports.fleet : s1[v] = <<>>
    BY DEF Report!ReportsInit
<1> QED  BY <1>1 DEF Report!ReportsInit, PointsInv, Report!PointsTypeOK

LEMMA PointsMove ==
    ASSUME Report!ReportsAssumption, PointsInv, Report!ReportsNext
    PROVE  PointsInv'
<1>0. PICK v \in ForReports.fleet : \E f \in ForReports.feeds[v] : Report!StorePoint(v, f[1], f[2])
    BY DEF Report!ReportsNext
<1>1. PICK f \in ForReports.feeds[v] : Report!StorePoint(v, f[1], f[2])
    BY <1>0
<1> DEFINE t == f[1]
           k == f[2]
           more == [u \in DOMAIN s1[v] \cup {t} |-> IF u = t THEN k ELSE s1[v][u]]
<1>2. <<t, k>> \in ForReports.feeds[v]
    <2> DEFINE Point == [speed : Nat, ignition : BOOLEAN \cup {None}, reset : BOOLEAN]
    <2>1. f \in ForReports.times \X Point
        BY DEF Report!ReportsAssumption
    <2> HIDE DEF Point
    <2>2. f = <<f[1], f[2]>>
        BY <2>1
    <2> QED  BY <2>2
<1>3. s1' = [s1 EXCEPT ![v] = more]
    BY <1>1 DEF Report!StorePoint
<1>4. DOMAIN more = DOMAIN s1[v] \cup {t} /\ \A u \in DOMAIN more : more[u] = IF u = t THEN k ELSE s1[v][u]
    OBVIOUS
<1> HIDE DEF more, t, k
<1>5. /\ s1' = [w \in ForReports.fleet |-> s1'[w]] /\ DOMAIN s1' = ForReports.fleet
      /\ s1'[v] = more /\ \A w \in ForReports.fleet : w # v => s1'[w] = s1[w]
    BY <1>3 DEF PointsInv
<1>6. ASSUME NEW w \in ForReports.fleet, NEW u \in DOMAIN s1'[w]
      PROVE  <<u, s1'[w][u]>> \in ForReports.feeds[w]
    <2>1. CASE w = v /\ u = t
        BY <1>2, <1>4, <1>5, <2>1
    <2>2. CASE w = v /\ u # t
        <3>1. u \in DOMAIN s1[v] /\ s1'[w][u] = s1[v][u]
            BY <1>4, <1>5, <1>6, <2>2
        <3> QED  BY <2>2, <3>1 DEF PointsInv, Report!PointsTypeOK
    <2>3. CASE w # v
        BY <1>5, <1>6, <2>3 DEF PointsInv, Report!PointsTypeOK
    <2> QED  BY <2>1, <2>2, <2>3
<1> QED  BY <1>5, <1>6 DEF PointsInv, Report!PointsTypeOK

LEMMA PointsRest ==
    ASSUME PointsInv, UNCHANGED s1
    PROVE  PointsInv'
  BY DEF PointsInv, Report!PointsTypeOK

-----------------------------------------------------------------------------
(* The dates of the pages.  A midnight is a multiple of a day in its zone, *)
(* and so are the ends of every range that is a day.                       *)
Divides(b, a) == \E k \in Int : a = b * k
RangePages == [kind : Ranges!Kinds, from : Int, to : Int, day : Int]
RangeAsks == [from : Int, to : Int, at : Int]
RangeTypes ==
    /\ s1 \in ForRanges.first..ForRanges.lastTick /\ s1 % ForRanges.ms = 0
    /\ s2 \in ForRanges.zones
    /\ s3 \in RangePages /\ s4 \in RangeAsks /\ s4.at <= s1

(* A history whose range is as long as a day begins at a midnight.         *)
HistoryInv ==
    s3.kind = "history" =>
        /\ s3.from % ForRanges.minute = 0 /\ s3.to % ForRanges.minute = 0
        /\ s3.to - s3.from = ForRanges.day - ForRanges.minute => \E d \in Int : s3.from = Ranges!Midnight(d)

(* What was asked is a day; the map's is the day of the moment. *)
AskedInv ==
    s4.at # 0 =>
        /\ s3.kind = "report" => s4.to = s4.from + ForRanges.day - ForRanges.ms
        /\ s3.kind = "map" => s4.from = Ranges!MapRange(s4.at).from /\ s4.to = Ranges!MapRange(s4.at).to
        /\ s3.kind = "vehicle" => s4.to = s4.from + ForRanges.day - ForRanges.second

RangeInv ==
    /\ RangeTypes /\ HistoryInv /\ AskedInv
    /\ s3.kind = "archive" => s3.day < Ranges!LocalDay(s1)

LEMMA DividesRest ==
    ASSUME NEW b \in Nat \ {0}, NEW a \in Int
    PROVE  a % b = 0 <=> Divides(b, a)
<1>1. a % b = a - b * (a \div b) /\ a \div b \in Int /\ b * (a \div b) \in Int
    BY Rest, Division
<1>2. ASSUME a % b = 0 PROVE Divides(b, a)
    <2>1. a = b * (a \div b)
        BY <1>1, <1>2
    <2> QED  BY <1>1, <2>1 DEF Divides
<1>3. ASSUME NEW k \in Int, a = b * k PROVE a % b = 0
    <2>1. a \div b = k
        BY <1>3, Quotient
    <2> QED  BY <1>1, <1>3, <2>1
<1> QED  BY <1>2, <1>3 DEF Divides

LEMMA DividesSum ==
    ASSUME NEW b \in Nat \ {0}, NEW a \in Int, NEW c \in Int, Divides(b, a), Divides(b, c)
    PROVE  Divides(b, a + c) /\ Divides(b, a - c)
<1>1. PICK k \in Int : a = b * k
    BY DEF Divides
<1>2. PICK l \in Int : c = b * l
    BY DEF Divides
<1>3. k + l \in Int /\ k - l \in Int
    OBVIOUS
<1>4. b * (k + l) = b * k + b * l /\ b * (k - l) = b * k - b * l
    BY Distributes
<1>5. a + c = b * (k + l) /\ a - c = b * (k - l)
    BY <1>1, <1>2, <1>4
<1> QED  BY <1>3, <1>5 DEF Divides

LEMMA Associates ==
    ASSUME NEW a \in Int, NEW b \in Int, NEW c \in Int
    PROVE  (a * b) * c = a * (b * c)
  OBVIOUS

LEMMA DividesThrough ==
    ASSUME NEW b \in Nat \ {0}, NEW a \in Int, NEW c \in Nat \ {0}, Divides(b, a), Divides(c, b)
    PROVE  Divides(c, a)
<1>1. PICK k \in Int : a = b * k
    BY DEF Divides
<1>2. PICK l \in Int : b = c * l
    BY DEF Divides
<1>3. l * k \in Int /\ (c * l) * k = c * (l * k)
    BY Associates
<1>4. a = c * (l * k)
    BY <1>1, <1>2, <1>3
<1> QED  BY <1>3, <1>4 DEF Divides

(* Between two multiples there is a whole of what they are multiples of.   *)
LEMMA Gap ==
    ASSUME NEW b \in Nat \ {0}, NEW a \in Int, NEW c \in Int, Divides(b, a), Divides(b, c), a < c
    PROVE  a <= c - b
<1>1. PICK k \in Int : c - a = b * k
    BY DividesSum DEF Divides
<1>2. b * k > 0
    BY <1>1
<1>3. ~(k <= -1) /\ k # 0
    BY <1>2, Multiple
<1>4. k >= 1
    BY <1>3
<1>5. b * k >= b
    BY <1>4, Multiple
<1> QED  BY <1>1, <1>5

(* What is taken to the minute.                                            *)
LEMMA ToWhole ==
    ASSUME NEW b \in Nat \ {0}, NEW a \in Int
    PROVE  /\ a - (a % b) \in Int /\ a - (a % b) <= a /\ a < a - (a % b) + b /\ Divides(b, a - (a % b))
           /\ Divides(b, a) => a - (a % b) = a
           /\ \A s \in 1..b : Divides(b, a) => (a - s) - ((a - s) % b) = a - b
<1> DEFINE r == a % b  q == a \div b
<1>1. r = a - b * q /\ q \in Int /\ b * q \in Int /\ b * q <= a /\ a < b * q + b
    BY Rest, Division
<1> HIDE DEF r, q
<1>2. a - r = b * q /\ r \in Int
    BY <1>1
<1>3. Divides(b, a) => r = 0
    BY DividesRest DEF r
<1>4. ASSUME NEW s \in 1..b, Divides(b, a) PROVE (a - s) - ((a - s) % b) = a - b
    <2>1. PICK k \in Int : a = b * k
        BY <1>4 DEF Divides
    <2>2. k - 1 \in Int /\ b * (k - 1) = b * k - b * 1 /\ b * 1 = b
        BY Distributes
    <2>3. b * (k - 1) = a - b
        BY <2>1, <2>2
    <2>4. a - s \in Int /\ a - b <= a - s /\ a - s < a - b + b
        OBVIOUS
    <2>5. (a - s) \div b = k - 1
        <3> DEFINE c == a - s
        <3>1. c \in Int /\ b * (k - 1) <= c /\ c < b * (k - 1) + b
            BY <2>2, <2>3, <2>4
        <3> HIDE DEF c
        <3>2. c \div b = k - 1
            BY <2>2, <3>1, Quotient
        <3> QED  BY <3>2 DEF c
    <2> DEFINE c == a - s  w == c % b
    <2>6. w = c - b * (c \div b) /\ c \in Int
        BY <2>4, Rest
    <2>7. w = c - (a - b)
        BY <2>3, <2>5, <2>6
    <2>8. a - b \in Int
        OBVIOUS
    <2> HIDE DEF c, w
    <2>9. c - w = a - b
        BY <2>6, <2>7, <2>8
    <2> QED  BY <2>9 DEF c, w
<1>5. Divides(b, a - r)
    BY <1>1, <1>2 DEF Divides
<1>6. a - r \in Int /\ a - r <= a /\ a < a - r + b /\ (Divides(b, a) => a - r = a)
    BY <1>1, <1>2, <1>3
<1> QED  BY <1>4, <1>5, <1>6 DEF r

(* Days in the zone of the browser.                                        *)
LEMMA DayFacts ==
    ASSUME Ranges!RangesAssumption, s2 \in ForRanges.zones
    PROVE  /\ ForRanges.ms \in Nat \ {0} /\ ForRanges.second \in Nat \ {0} /\ ForRanges.minute \in Nat \ {0}
           /\ ForRanges.day \in Nat \ {0} /\ ForRanges.first \in Nat \ {0} /\ ForRanges.lastTick \in Nat \ {0}
           /\ ForRanges.day >= 4 * ForRanges.minute /\ ForRanges.first >= 2 * ForRanges.day
           /\ s2 \in Int /\ -ForRanges.day < s2 /\ s2 < ForRanges.day
           /\ Divides(ForRanges.ms, ForRanges.second) /\ Divides(ForRanges.second, ForRanges.minute)
           /\ Divides(ForRanges.minute, ForRanges.day) /\ Divides(ForRanges.minute, s2)
<1>1. /\ ForRanges.ms \in Nat \ {0} /\ ForRanges.second \in Nat \ {0} /\ ForRanges.minute \in Nat \ {0}
      /\ ForRanges.day \in Nat \ {0} /\ ForRanges.first \in Nat \ {0} /\ ForRanges.lastTick \in Nat \ {0}
    BY DEF Ranges!RangesAssumption
<1>2. /\ ForRanges.day >= 4 * ForRanges.minute /\ ForRanges.first >= 2 * ForRanges.day
      /\ s2 \in Int /\ -ForRanges.day < s2 /\ s2 < ForRanges.day
      /\ ForRanges.second % ForRanges.ms = 0 /\ ForRanges.minute % ForRanges.second = 0
      /\ ForRanges.day % ForRanges.minute = 0 /\ s2 % ForRanges.minute = 0
    BY DEF Ranges!RangesAssumption
<1>3. /\ Divides(ForRanges.ms, ForRanges.second) /\ Divides(ForRanges.second, ForRanges.minute)
      /\ Divides(ForRanges.minute, ForRanges.day) /\ Divides(ForRanges.minute, s2)
    <2>1. ForRanges.second \in Int /\ ForRanges.minute \in Int /\ ForRanges.day \in Int
        BY <1>1
    <2> QED  BY <1>1, <1>2, <2>1, DividesRest
<1> QED  BY <1>1, <1>2, <1>3

LEMMA DayOf ==
    ASSUME Ranges!RangesAssumption, s2 \in ForRanges.zones, NEW t \in Int, NEW d \in Int
    PROVE  /\ Ranges!LocalDay(t) \in Int /\ Ranges!Midnight(d) \in Int
           /\ Ranges!Midnight(d + 1) = Ranges!Midnight(d) + ForRanges.day
           /\ Ranges!Midnight(d) <= t <=> d <= Ranges!LocalDay(t)
           /\ Divides(ForRanges.minute, Ranges!Midnight(d))
<1> DEFINE b == ForRanges.day  z == s2  q == (t + z) \div b
<1>1. b \in Nat \ {0} /\ z \in Int /\ ForRanges.minute \in Nat \ {0}
      /\ Divides(ForRanges.minute, b) /\ Divides(ForRanges.minute, z)
    BY DayFacts
<1>2. Ranges!LocalDay(t) = q /\ Ranges!Midnight(d) = d * b - z /\ Ranges!Midnight(d + 1) = (d + 1) * b - z
    BY DEF Ranges!LocalDay, Ranges!Midnight
<1> HIDE DEF b, z
<1>3. q \in Int /\ b * q \in Int /\ b * q <= t + z /\ t + z < b * q + b
    BY <1>1, Division
<1> HIDE DEF q
<1>4. d * b = b * d /\ (d + 1) * b = b * (d + 1) /\ b * d \in Int /\ b * (d + 1) = b * d + b * 1 /\ b * 1 = b
    BY <1>1, Multiple, Distributes
<1>5. b * (q - d) = b * q - b * d /\ q - d \in Int /\ b * (q - d) \in Int
    BY <1>1, <1>3, Distributes
<1>6. ASSUME d <= q PROVE b * d <= t + z
    <2>1. q - d >= 1 \/ q - d = 0
        BY <1>3, <1>6
    <2>2. b * (q - d) >= 0
        BY <1>1, <1>5, <2>1, Multiple
    <2> QED  BY <1>1, <1>3, <1>4, <1>5, <2>2
<1>7. ASSUME ~(d <= q) PROVE ~(b * d <= t + z)
    <2>1. q - d <= -1
        BY <1>3, <1>7
    <2>2. b * (q - d) <= -b
        BY <1>1, <1>5, <2>1, Multiple
    <2> QED  BY <1>1, <1>3, <1>4, <1>5, <2>2
<1>8. Divides(ForRanges.minute, d * b - z)
    <2>1. Divides(b, b * d)
        BY DEF Divides
    <2>2. Divides(ForRanges.minute, b * d)
        BY <1>1, <1>4, <2>1, DividesThrough
    <2> QED  BY <1>1, <1>4, <2>2, DividesSum
<1> QED
    <2>1. Ranges!Midnight(d) \in Int /\ Ranges!Midnight(d + 1) = Ranges!Midnight(d) + b
        BY <1>1, <1>2, <1>4
    <2>2. Ranges!Midnight(d) <= t <=> d <= q
        BY <1>1, <1>2, <1>4, <1>6, <1>7
    <2> QED  BY <1>2, <1>3, <1>8, <2>1, <2>2 DEF b

LEMMA DayIsNumber ==
    ASSUME Ranges!RangesAssumption, s2 \in ForRanges.zones, NEW t \in Int
    PROVE  Ranges!LocalDay(t) \in Int
<1>1. 0 \in Int
    OBVIOUS
<1> QED  BY <1>1, DayOf

LEMMA MidnightIsNumber ==
    ASSUME Ranges!RangesAssumption, s2 \in ForRanges.zones, NEW d \in Int
    PROVE  /\ Ranges!Midnight(d) \in Int /\ Ranges!Midnight(d + 1) = Ranges!Midnight(d) + ForRanges.day
           /\ Divides(ForRanges.minute, Ranges!Midnight(d))
<1>1. 0 \in Int
    OBVIOUS
<1> QED  BY <1>1, DayOf

LEMMA MidnightsFollow ==
    ASSUME Ranges!RangesAssumption, s2 \in ForRanges.zones, NEW d \in Int, NEW e \in Int, d <= e
    PROVE  Ranges!Midnight(d) <= Ranges!Midnight(e)
<1>1. Ranges!Midnight(e) \in Int
    BY DayOf
<1>2. e <= Ranges!LocalDay(Ranges!Midnight(e)) /\ Ranges!LocalDay(Ranges!Midnight(e)) \in Int
    BY <1>1, DayOf
<1> QED  BY <1>1, <1>2, DayOf

(* The local day into which the midnight of UTC of a date falls.           *)
LEMMA DayOfDates ==
    ASSUME Ranges!RangesAssumption, s2 \in ForRanges.zones, NEW d \in Int
    PROVE  Ranges!DayOfDate(d) = IF s2 >= 0 THEN d ELSE d - 1
<1> DEFINE b == ForRanges.day  z == s2
<1>1. b \in Nat \ {0} /\ z \in Int /\ -b < z /\ z < b
    BY DayFacts
<1>2. Ranges!DayOfDate(d) = (d * b + z) \div b
    BY DEF Ranges!DayOfDate, Ranges!LocalDay
<1> HIDE DEF b, z
<1>3. d * b = b * d /\ b * d \in Int /\ b * (d - 1) = b * d - b * 1 /\ b * 1 = b /\ d - 1 \in Int
    BY <1>1, Multiple, Distributes
<1>4. d * b + z \in Int
    BY <1>1, <1>3
<1>5. CASE z >= 0
    <2> DEFINE c == d * b + z
    <2>1. c \in Int /\ b * d <= c /\ c < b * d + b
        BY <1>1, <1>3, <1>4, <1>5
    <2> HIDE DEF c
    <2>2. c \div b = d
        BY <1>1, <2>1, Quotient
    <2> QED  BY <1>2, <1>5, <2>2 DEF c, z
<1>6. CASE ~(z >= 0)
    <2> DEFINE c == d * b + z
    <2>1. c \in Int /\ b * (d - 1) <= c /\ c < b * (d - 1) + b
        BY <1>1, <1>3, <1>4, <1>6
    <2> HIDE DEF c
    <2>2. c \div b = d - 1
        BY <1>1, <1>3, <2>1, Quotient
    <2> QED  BY <1>2, <1>6, <2>2 DEF c, z
<1> QED  BY <1>5, <1>6

LEMMA TodayIsWhole ==
    ASSUME Ranges!RangesAssumption, s2 \in ForRanges.zones, NEW t \in Int
    PROVE  LET r == Ranges!TodayRange(t)
           IN  /\ r.from = Ranges!Midnight(Ranges!LocalDay(t)) /\ r.from \in Int
               /\ r.to = r.from + ForRanges.day - ForRanges.minute
               /\ Divides(ForRanges.minute, r.from) /\ Divides(ForRanges.minute, r.to)
<1> DEFINE d == Ranges!LocalDay(t)  m == Ranges!Midnight(d)  b == ForRanges.day  s == ForRanges.second
           n == ForRanges.minute
<1>1. d \in Int
    BY DayOf
<1> HIDE DEF d
<1>2. m \in Int /\ Divides(n, m)
    BY <1>1, DayOf
<1>3. b \in Nat \ {0} /\ n \in Nat \ {0} /\ s \in 1..n /\ Divides(n, b)
    <2>1. s \in Nat \ {0} /\ n \in Nat \ {0} /\ Divides(s, n) /\ b \in Nat \ {0} /\ Divides(n, b)
        BY DayFacts
    <2>2. PICK k \in Int : n = s * k
        BY <2>1 DEF Divides
    <2>3. k >= 1 => s * k >= s
        BY <2>1, Multiple
    <2>4. ~(k <= -1) /\ k # 0
        BY <2>1, <2>2, Multiple
    <2> QED  BY <2>1, <2>2, <2>3, <2>4
<1> HIDE DEF m, b, s, n
<1>4. m + b \in Int /\ Divides(n, m + b) /\ m + b - s = (m + b) - s
    BY <1>2, <1>3, DividesSum
<1>5. m - (m % n) = m
    BY <1>2, <1>3, ToWhole
<1>6. ((m + b) - s) - (((m + b) - s) % n) = (m + b) - n
    BY <1>3, <1>4, ToWhole
<1>7. Ranges!TodayRange(t).from = m - (m % n) /\ Ranges!TodayRange(t).to = ((m + b) - s) - (((m + b) - s) % n)
    <2>1. \A x : Ranges!ToMinute(x) = x - (x % n)
        BY DEF Ranges!ToMinute, n
    <2>2. Ranges!TodayRange(t) = [from |-> Ranges!ToMinute(m), to |-> Ranges!ToMinute(m + b - s)]
        BY DEF Ranges!TodayRange, m, d, b, s
    <2>3. m + b - s = (m + b) - s
        BY <1>4
    <2> QED  BY <2>1, <2>2, <2>3
<1>8. Divides(n, (m + b) - n)
    <2>1. Divides(n, n)
        <3>1. n = n * 1
            BY <1>3
        <3> QED  BY <3>1 DEF Divides
    <2> QED  BY <1>3, <1>4, <2>1, DividesSum
<1>9. /\ Ranges!TodayRange(t).from = m /\ m \in Int
      /\ Ranges!TodayRange(t).to = m + b - n
      /\ Divides(n, m)
      /\ Divides(n, Ranges!TodayRange(t).to)
    <2>1. Ranges!TodayRange(t).from = m /\ Ranges!TodayRange(t).to = (m + b) - n
        BY Zenon, <1>5, <1>6, <1>7
    <2>2. (m + b) - n = m + b - n
        BY <1>2, <1>3
    <2> QED  BY Zenon, <1>2, <1>8, <2>1, <2>2
<1>10. /\ Ranges!TodayRange(t).from = m /\ Ranges!TodayRange(t).from \in Int
       /\ Ranges!TodayRange(t).to = Ranges!TodayRange(t).from + b - n
       /\ Divides(n, Ranges!TodayRange(t).from)
       /\ Divides(n, Ranges!TodayRange(t).to)
    BY <1>9
<1> QED  BY Zenon, <1>10 DEF m, d, b, n

(* The histories take whole minutes; only today and yesterday are days.    *)
HistoryRange(r) ==
    /\ r.from \in Int /\ r.to \in Int
    /\ Divides(ForRanges.minute, r.from) /\ Divides(ForRanges.minute, r.to)
    /\ r.to - r.from = ForRanges.day - ForRanges.minute => \E d \in Int : r.from = Ranges!Midnight(d)

LEMMA QuickRanges ==
    ASSUME Ranges!RangesAssumption, s2 \in ForRanges.zones, NEW t \in Int,
           NEW range \in {"hours", "today", "yesterday"}
    PROVE  HistoryRange(Ranges!QuickRange(t, range, ForRanges.day \div 2))
<1>1. ASSUME NEW u \in Int PROVE HistoryRange(Ranges!TodayRange(u))
    <2>1. /\ ForRanges.day \in Int /\ ForRanges.minute \in Int /\ Ranges!LocalDay(u) \in Int
        BY DayFacts, DayIsNumber
    <2> DEFINE r == Ranges!TodayRange(u)
    <2>2. /\ r.from = Ranges!Midnight(Ranges!LocalDay(u)) /\ r.from \in Int
          /\ r.to = r.from + ForRanges.day - ForRanges.minute
          /\ Divides(ForRanges.minute, r.from) /\ Divides(ForRanges.minute, r.to)
        BY Zenon, TodayIsWhole
    <2> HIDE DEF r
    <2>3. r.to \in Int
        BY <2>1, <2>2
    <2>4. HistoryRange(r)
        BY <2>1, <2>2, <2>3 DEF HistoryRange
    <2> QED  BY <2>4 DEF r
<1>2. CASE range = "today"
    BY <1>1, <1>2 DEF Ranges!QuickRange
<1>3. CASE range = "yesterday"
    <2>1. t - ForRanges.day \in Int
        BY DayFacts
    <2> QED  BY <1>1, <1>3, <2>1 DEF Ranges!QuickRange
<1>4. CASE range = "hours"
    <2> DEFINE h == ForRanges.day \div 2  n == ForRanges.minute  b == ForRanges.day
               x == t - h  from == x - (x % n)  to == t - (t % n)
    <2>1. n \in Nat \ {0} /\ b \in Nat \ {0} /\ b >= 4 * n
        BY DayFacts
    <2>2. h \in Int /\ 2 * h <= b
        <3>1. \A c \in Nat : c \div 2 \in Int /\ 2 * (c \div 2) <= c
            OBVIOUS
        <3> QED  BY <2>1, <3>1
    <2> HIDE DEF h, n, b
    <2>3. x \in Int /\ x = t - h
        BY <2>2
    <2> HIDE DEF x
    <2>4. from \in Int /\ x < from + n /\ Divides(n, from)
        BY <2>1, <2>3, ToWhole
    <2>5. to \in Int /\ to <= t /\ Divides(n, to)
        BY <2>1, ToWhole
    <2>6. Ranges!QuickRange(t, range, h) = [from |-> from, to |-> to]
        BY <1>4 DEF Ranges!QuickRange, Ranges!ToMinute, x, n, h
    <2> HIDE DEF from, to
    <2>7. to - from # b - n
        BY <2>1, <2>2, <2>3, <2>4, <2>5
    <2> DEFINE r == Ranges!QuickRange(t, range, h)
    <2>8. r.from = from /\ r.to = to
        BY <2>6
    <2> HIDE DEF r
    <2>9. HistoryRange(r)
        BY <2>4, <2>5, <2>7, <2>8 DEF HistoryRange, n, b
    <2> QED  BY <2>9 DEF r, h
<1> QED  BY <1>2, <1>3, <1>4

LEMMA DefaultsAreKept ==
    ASSUME Ranges!RangesAssumption, s2 \in ForRanges.zones, NEW t \in Int, NEW kind \in Ranges!Kinds,
           NEW p, p = Ranges!Default(kind, t)
    PROVE  /\ p \in RangePages /\ p.kind = kind
           /\ kind = "history" => HistoryRange(p)
           /\ kind = "archive" => p.day = Ranges!LocalDay(t) - 1
<1> DEFINE d == Ranges!LocalDay(t)  r == Ranges!TodayRange(t)
           e == IF kind = "archive" THEN d - 1 ELSE Ranges!UtcDay(t)
<1>1. d \in Int
    BY DayOf
<1>2. Ranges!UtcDay(t) \in Int
    BY DayFacts, Division DEF Ranges!UtcDay
<1>3. HistoryRange(r)
    <2>1. "today" \in {"hours", "today", "yesterday"}
        OBVIOUS
    <2>2. Ranges!QuickRange(t, "today", ForRanges.day \div 2) = r
        BY DEF Ranges!QuickRange
    <2> HIDE DEF r
    <2> QED  BY <2>1, <2>2, QuickRanges
<1>4. e \in Int
    BY <1>1, <1>2
<1>5. CASE kind = "history"
    <2> HIDE DEF d, r
    <2>1. p = [kind |-> kind, from |-> r.from, to |-> r.to, day |-> d]
        BY <1>5 DEF Ranges!Default, d, r
    <2>2. r.from \in Int /\ r.to \in Int
        BY <1>3 DEF HistoryRange
    <2>3. p \in RangePages /\ p.kind = kind /\ p.from = r.from /\ p.to = r.to
        BY <1>1, <2>1, <2>2 DEF RangePages
    <2>4. HistoryRange(p)
        BY <1>3, <2>3 DEF HistoryRange
    <2> QED  BY <1>5, <2>3, <2>4
<1>6. CASE kind # "history"
    <2> HIDE DEF d, r
    <2>1. p = [kind |-> kind, from |-> 0, to |-> 0, day |-> e]
        BY <1>6 DEF Ranges!Default, d, e
    <2> HIDE DEF e
    <2>2. p \in RangePages /\ p.kind = kind /\ p.day = e
        BY <1>4, <2>1 DEF RangePages
    <2> QED  BY <1>6, <2>2 DEF e, d
<1> QED  BY <1>5, <1>6

LEMMA RangeBegins ==
    ASSUME Ranges!RangesAssumption, Ranges!RangeInit
    PROVE  RangeInv
<1>1. s1 \in ForRanges.first..ForRanges.lastTick /\ s1 % ForRanges.ms = 0 /\ s2 \in ForRanges.zones
    BY DEF Ranges!RangeInit
<1>2. PICK kind \in Ranges!Kinds : s3 = Ranges!Default(kind, s1)
    BY DEF Ranges!RangeInit
<1>3. s1 \in Int /\ s1 >= 0
    BY <1>1, DayFacts
<1>4. /\ s3 \in RangePages /\ s3.kind = kind
      /\ kind = "history" => HistoryRange(s3)
      /\ kind = "archive" => s3.day = Ranges!LocalDay(s1) - 1
    BY <1>1, <1>2, <1>3, DefaultsAreKept
<1>5. s4 = [from |-> 0, to |-> -1, at |-> 0]
    BY DEF Ranges!RangeInit, Ranges!Nothing
<1>6. s4 \in RangeAsks /\ s4.at = 0
    BY <1>5 DEF RangeAsks
<1>7. HistoryInv
    <2>1. ForRanges.minute \in Nat \ {0}
        BY <1>1, DayFacts
    <2> QED  BY <1>4, <2>1, DividesRest DEF HistoryInv, HistoryRange
<1>8. s3.kind = "archive" => s3.day < Ranges!LocalDay(s1)
    <2>1. Ranges!LocalDay(s1) \in Int
        BY <1>1, <1>3, DayOf
    <2> QED  BY <1>4, <2>1
<1> QED  BY <1>1, <1>3, <1>4, <1>6, <1>7, <1>8 DEF RangeInv, RangeTypes, AskedInv

LEMMA RangeRests == ASSUME RangeInv, UNCHANGED <<s1, s2, s3, s4>> PROVE RangeInv'
    BY DEF RangeInv, RangeTypes, HistoryInv, AskedInv, Ranges!Midnight, Ranges!LocalDay, Ranges!MapRange

LEMMA RangeMoves ==
    ASSUME Ranges!RangesAssumption, RangeInv, Ranges!RangeNext
    PROVE  RangeInv'
<1>1. /\ s1 \in ForRanges.first..ForRanges.lastTick /\ s1 \in Int /\ s1 > 0 /\ s1 % ForRanges.ms = 0
      /\ s2 \in ForRanges.zones /\ s3 \in RangePages /\ s4 \in RangeAsks /\ s4.at <= s1
    BY DayFacts DEF RangeInv, RangeTypes
<1>2. s2' = s2
    BY DEF Ranges!RangeNext, Ranges!Tick, Ranges!ChooseDay, Ranges!Quick, Ranges!Ask
<1>3. \A d : Ranges!Midnight(d)' = Ranges!Midnight(d)
    BY <1>2 DEF Ranges!Midnight
<1>4. \A t : Ranges!LocalDay(t)' = Ranges!LocalDay(t) /\ Ranges!MapRange(t)' = Ranges!MapRange(t)
    BY <1>2 DEF Ranges!MapRange, Ranges!LocalDay, Ranges!Midnight
<1>5. CASE Ranges!Tick
    <2>1. /\ s1' = s1 + ForRanges.ms /\ s1' <= ForRanges.lastTick /\ UNCHANGED <<s2, s3, s4>>
        BY <1>5 DEF Ranges!Tick
    <2>2. ForRanges.ms \in Nat \ {0} /\ ForRanges.first \in Nat /\ ForRanges.lastTick \in Nat
        BY <1>1, DayFacts
    <2>3. s1' \in Int /\ s1 <= s1' /\ s1' \in ForRanges.first..ForRanges.lastTick
        BY <1>1, <2>1, <2>2
    <2>4. s1' % ForRanges.ms = 0
        <3> DEFINE b == ForRanges.ms
        <3>1. Divides(b, s1) /\ b = b * 1
            BY <1>1, <2>2, DividesRest
        <3>2. Divides(b, b)
            BY <3>1 DEF Divides
        <3>3. b \in Int
            BY <2>2
        <3> HIDE DEF b
        <3>4. Divides(b, s1 + b)
            BY <1>1, <2>2, <3>1, <3>2, <3>3, DividesSum DEF b
        <3> QED  BY <1>1, <2>1, <2>2, <2>3, <3>4, DividesRest DEF b
    <2>5. RangeTypes'
        BY <1>1, <2>1, <2>3, <2>4 DEF RangeTypes, RangeAsks
    <2>6. HistoryInv' /\ AskedInv'
        BY <1>3, <1>4, <2>1 DEF RangeInv, HistoryInv, AskedInv
    <2>7. (s3.kind = "archive" => s3.day < Ranges!LocalDay(s1))'
        <3>1. ASSUME s3.kind = "archive" PROVE s3.day < Ranges!LocalDay(s1')
            <4>1. s3.day < Ranges!LocalDay(s1) /\ s3.day \in Int
                BY <1>1, <3>1 DEF RangeInv, RangePages
            <4>2. Ranges!LocalDay(s1) \in Int /\ Ranges!Midnight(Ranges!LocalDay(s1)) \in Int
                BY <1>1, DayOf
            <4>3. Ranges!Midnight(Ranges!LocalDay(s1)) <= s1
                BY <1>1, <4>2, DayOf
            <4>4. Ranges!LocalDay(s1) <= Ranges!LocalDay(s1') /\ Ranges!LocalDay(s1') \in Int
                <5> SUFFICES ASSUME NEW t \in Int, s1 <= t
                             PROVE  Ranges!LocalDay(s1) <= Ranges!LocalDay(t) /\ Ranges!LocalDay(t) \in Int
                    BY <2>3
                <5>1. Ranges!Midnight(Ranges!LocalDay(s1)) <= t
                    BY <1>1, <4>2, <4>3
                <5> QED  BY <1>1, <4>2, <5>1, DayOf
            <4> QED  BY <4>1, <4>2, <4>4
        <3> QED  BY <1>4, <2>1, <3>1
    <2> QED  BY <2>5, <2>6, <2>7 DEF RangeInv
<1>6. ASSUME NEW d \in 1..Ranges!UtcDay(s1), Ranges!ChooseDay(d) PROVE RangeInv'
    <2>1. s3.kind \in {"report", "vehicle"} /\ s3' = [s3 EXCEPT !.day = d] /\ UNCHANGED <<s1, s2, s4>>
        BY <1>6 DEF Ranges!ChooseDay
    <2>2. d \in Int
        OBVIOUS
    <2>3. s3' \in RangePages /\ s3'.kind = s3.kind
        BY <1>1, <2>1, <2>2 DEF RangePages
    <2>4. RangeTypes'
        BY <1>1, <2>1, <2>3 DEF RangeTypes, RangeAsks
    <2>5. HistoryInv'
        BY <2>1, <2>3 DEF HistoryInv
    <2>6. AskedInv'
        BY <1>4, <2>1, <2>3 DEF RangeInv, AskedInv
    <2> QED  BY <2>1, <2>3, <2>4, <2>5, <2>6 DEF RangeInv
<1>7. ASSUME NEW range \in {"hours", "today", "yesterday"}, Ranges!Quick(range, ForRanges.day \div 2) PROVE RangeInv'
    <2> DEFINE r == Ranges!QuickRange(s1, range, ForRanges.day \div 2)
               e == Ranges!LocalDay(s1) - (IF range = "yesterday" THEN 1 ELSE 0)
    <2>1. s3.kind = "history" /\ s3' = [s3 EXCEPT !.from = r.from, !.to = r.to, !.day = e] /\ UNCHANGED <<s1, s2, s4>>
        BY <1>7 DEF Ranges!Quick
    <2>2. e \in Int
        BY <1>1, DayIsNumber
    <2>3. HistoryRange(r)
        BY <1>1, QuickRanges
    <2> HIDE DEF r, e
    <2>4. r.from \in Int /\ r.to \in Int
        BY <2>3 DEF HistoryRange
    <2>5. s3' \in RangePages /\ s3'.kind = s3.kind /\ s3'.from = r.from /\ s3'.to = r.to
        BY <1>1, <2>1, <2>2, <2>4 DEF RangePages
    <2>6. RangeTypes'
        BY <1>1, <2>1, <2>5 DEF RangeTypes, RangeAsks
    <2>7. HistoryInv'
        <3>1. ForRanges.minute \in Nat \ {0}
            BY <1>1, DayFacts
        <3>2. r.from % ForRanges.minute = 0 /\ r.to % ForRanges.minute = 0
            BY <2>3, <2>4, <3>1, DividesRest DEF HistoryRange
        <3> QED  BY <1>3, <2>3, <2>5, <3>2 DEF HistoryInv, HistoryRange
    <2>8. AskedInv'
        BY <1>4, <2>1, <2>5 DEF RangeInv, AskedInv
    <2> QED  BY <2>1, <2>5, <2>6, <2>7, <2>8 DEF RangeInv
<1>8. CASE Ranges!Ask
    <2> DEFINE range == CASE s3.kind = "report" -> Ranges!ReportRange(s3.day)
                          [] s3.kind = "history" -> [from |-> s3.from, to |-> s3.to]
                          [] s3.kind = "map" -> Ranges!MapRange(s1)
                          [] s3.kind = "vehicle" -> Ranges!ServerRange(s3.day)
                          [] s3.kind = "today" -> Ranges!AuditRange(s1, FALSE, s3.day)
                          [] s3.kind = "archive" -> Ranges!AuditRange(s1, TRUE, s3.day)
    <2>1. s4' = [from |-> range.from, to |-> range.to, at |-> s1] /\ UNCHANGED <<s1, s2, s3>>
        BY <1>8 DEF Ranges!Ask, Ranges!Asked
    <2>2. /\ s3.kind \in {"report", "history", "map", "vehicle", "today", "archive"}
          /\ s3.day \in Int /\ s3.from \in Int /\ s3.to \in Int
        BY <1>1 DEF RangePages, Ranges!Kinds
    <2>3. ForRanges.day \in Int /\ ForRanges.ms \in Int /\ ForRanges.second \in Int
        BY <1>1, DayFacts
    <2>4. ASSUME NEW d \in Int PROVE Ranges!Midnight(d) \in Int
        BY <1>1, DayOf
    <2>5. Ranges!LocalDay(s1) \in Int /\ Ranges!DayOfDate(s3.day) \in Int
        BY <1>1, <2>2, DayIsNumber, DayOfDates
    <2>6. s3.day * ForRanges.day \in Int
        BY <2>2, <2>3
    <2>7. /\ range.from \in Int /\ range.to \in Int
          /\ s3.kind = "report" => range.to = range.from + ForRanges.day - ForRanges.ms
          /\ s3.kind = "map" => range.from = Ranges!MapRange(s1).from /\ range.to = Ranges!MapRange(s1).to
          /\ s3.kind = "vehicle" => range.to = range.from + ForRanges.day - ForRanges.second
        <3>1. CASE s3.kind = "report"
            <4>1. range = Ranges!ReportRange(s3.day)
                BY <3>1
            <4> QED  BY <2>3, <2>4, <2>5, <3>1, <4>1 DEF Ranges!ReportRange
        <3>2. CASE s3.kind = "history"
            BY <2>2, <3>2
        <3>3. CASE s3.kind = "map"
            <4>1. range = Ranges!MapRange(s1)
                BY <3>3
            <4> QED  BY <2>3, <2>4, <2>5, <3>3, <4>1 DEF Ranges!MapRange
        <3>4. CASE s3.kind = "vehicle"
            <4>1. range = Ranges!ServerRange(s3.day)
                BY <3>4
            <4> QED  BY <2>3, <2>6, <3>4, <4>1 DEF Ranges!ServerRange
        <3>5. CASE s3.kind = "today"
            <4>1. range = Ranges!AuditRange(s1, FALSE, s3.day)
                BY <3>5
            <4> QED  BY <2>3, <2>4, <2>5, <3>5, <4>1 DEF Ranges!AuditRange
        <3>6. CASE s3.kind = "archive"
            <4>1. range = Ranges!AuditRange(s1, TRUE, s3.day)
                BY <3>6
            <4> QED  BY <2>3, <2>4, <2>5, <3>6, <4>1 DEF Ranges!AuditRange
        <3> QED  BY <2>2, <3>1, <3>2, <3>3, <3>4, <3>5, <3>6
    <2> HIDE DEF range
    <2>8. s4' \in RangeAsks /\ s4'.from = range.from /\ s4'.to = range.to /\ s4'.at = s1
        BY <1>1, <2>1, <2>7 DEF RangeAsks
    <2>9. RangeTypes'
        BY <1>1, <2>1, <2>8 DEF RangeTypes
    <2>10. HistoryInv'
        BY <1>3, <2>1 DEF RangeInv, HistoryInv
    <2>11. AskedInv'
        BY <1>4, <2>1, <2>7, <2>8 DEF AskedInv
    <2> QED  BY <1>4, <2>1, <2>9, <2>10, <2>11 DEF RangeInv
<1> QED  BY <1>5, <1>6, <1>7, <1>8 DEF Ranges!RangeNext

(* A day's rows, of whole steps, end a step before the next midnight.      *)
LEMMA RowsOfDay ==
    ASSUME Ranges!RangesAssumption, s2 \in ForRanges.zones, NEW d \in Int,
           NEW step \in Nat \ {0}, Divides(step, ForRanges.second),
           NEW short \in 1..step, NEW range, range.from = Ranges!Midnight(d),
           range.to = range.from + ForRanges.day - short
    PROVE  Ranges!Rows(range, ForRanges.second) = Ranges!DayRows(d, ForRanges.second)
<1> DEFINE b == ForRanges.day  m == Ranges!Midnight(d)  s == ForRanges.second
<1>1. /\ b \in Nat \ {0} /\ s \in Nat \ {0} /\ ForRanges.minute \in Nat \ {0} /\ ForRanges.lastTick \in Nat
      /\ Divides(s, ForRanges.minute) /\ Divides(ForRanges.minute, b)
    BY DayFacts
<1>2. m \in Int /\ Divides(ForRanges.minute, m) /\ Ranges!Midnight(d + 1) = m + b /\ d + 1 \in Int
    BY MidnightIsNumber
<1>3. Divides(s, m) /\ Divides(s, b)
    BY <1>1, <1>2, DividesThrough
<1>4. Divides(s, m + b) /\ m + b \in Int
    <2> HIDE DEF m, b, s
    <2>1. b \in Int
        BY <1>1
    <2> QED  BY <1>1, <1>2, <1>3, <2>1, DividesSum
<1>5. ASSUME NEW t \in Int, t % s = 0 PROVE (m <= t /\ t <= m + b - short) <=> Ranges!LocalDay(t) = d
    <2>1. Ranges!LocalDay(t) \in Int
        BY DayIsNumber
    <2>2. m <= t <=> d <= Ranges!LocalDay(t)
        BY DayOf
    <2>3. m + b <= t <=> d + 1 <= Ranges!LocalDay(t)
        BY <1>2, DayOf
    <2>4. Divides(s, t)
        BY <1>1, <1>5, DividesRest
    <2>5. t < m + b => t <= m + b - s
        <3>1. t < m + b => t <= (m + b) - s
            BY <1>1, <1>4, <2>4, Gap
        <3> QED  BY <1>1, <1>2, <3>1
    <2>6. short <= s /\ short > 0 /\ short \in Int
        <3>1. PICK k \in Int : s = step * k
            BY DEF Divides
        <3>2. k >= 1 => step * k >= step
            BY Multiple
        <3>3. ~(k <= -1) /\ k # 0
            BY <1>1, <3>1, Multiple
        <3> QED  BY <3>1, <3>2, <3>3
    <2> HIDE DEF m, b, s
    <2> QED  BY <1>1, <1>2, <2>1, <2>2, <2>3, <2>5, <2>6
<1>6. \A t \in 0..(ForRanges.lastTick + 2 * ForRanges.day) : t \in Int
    BY <1>1
<1>7. range.from = m /\ range.to = m + b - short
    BY <1>2
<1>8. Ranges!Rows(range, s) = {t \in 0..(ForRanges.lastTick + 2 * ForRanges.day) : t % s = 0 /\ m <= t /\ t <= m + b - short}
    BY <1>7 DEF Ranges!Rows
<1>9. Ranges!DayRows(d, s) = {t \in 0..(ForRanges.lastTick + 2 * ForRanges.day) : t % s = 0 /\ Ranges!LocalDay(t) = d}
    BY DEF Ranges!DayRows
<1> HIDE DEF m, b, s
<1>10. Ranges!Rows(range, s) = Ranges!DayRows(d, s)
    BY <1>5, <1>6, <1>8, <1>9
<1> QED  BY <1>10 DEF s

LEMMA DaysAreShown ==
    ASSUME Ranges!RangesAssumption, RangeInv
    PROVE  Ranges!DayIsShown
<1> DEFINE b == ForRanges.day  s == ForRanges.second
<1>1. /\ s2 \in ForRanges.zones /\ s1 \in Int /\ s1 # 0 /\ s3 \in RangePages /\ s4 \in RangeAsks
      /\ b \in Nat \ {0} /\ s \in Nat \ {0} /\ ForRanges.ms \in Nat \ {0} /\ ForRanges.minute \in Nat \ {0}
      /\ Divides(ForRanges.ms, s)
    BY DayFacts DEF RangeInv, RangeTypes
<1>2. s3.day \in Int /\ s3.from \in Int /\ s3.to \in Int /\ s4.from \in Int /\ s4.to \in Int
    BY <1>1 DEF RangePages, RangeAsks
<1>3. s = s * 1 /\ ForRanges.ms \in 1..ForRanges.ms /\ s \in 1..s
    BY <1>1
<1>4. Divides(s, s)
    BY <1>3 DEF Divides
<1> SUFFICES ASSUME s4.at = s1
             PROVE  /\ s3.kind = "report" /\ s4.from = Ranges!ReportRange(s3.day).from =>
                           Ranges!Rows(s4, s) = Ranges!DayRows(IF s2 >= 0 THEN s3.day ELSE s3.day - 1, s)
                    /\ s3.kind = "history" /\ s4.from = s3.from /\ s4.to = s3.to /\ s3.to - s3.from = b - ForRanges.minute =>
                           Ranges!Rows(s4, s) = {t \in Ranges!DayRows(Ranges!LocalDay(s3.from), s) :
                                                    t <= Ranges!Midnight(Ranges!LocalDay(s3.from) + 1) - ForRanges.minute}
                    /\ s3.kind = "map" => Ranges!Rows(s4, s) = Ranges!DayRows(Ranges!LocalDay(s1), s)
                    /\ s3.kind = "vehicle" /\ s4.from = Ranges!ServerRange(s3.day).from =>
                           Ranges!Rows(s4, s) = {t \in 0..(ForRanges.lastTick + 2 * b) : t % s = 0 /\ Ranges!UtcDay(t) = s3.day}
    BY DEF Ranges!DayIsShown
<1>5. s4.at # 0
    BY <1>1
<1>6. ASSUME s3.kind = "report", s4.from = Ranges!ReportRange(s3.day).from
      PROVE  Ranges!Rows(s4, s) = Ranges!DayRows(IF s2 >= 0 THEN s3.day ELSE s3.day - 1, s)
    <2> DEFINE d == Ranges!DayOfDate(s3.day)
    <2>1. d = (IF s2 >= 0 THEN s3.day ELSE s3.day - 1) /\ d \in Int
        BY <1>1, <1>2, DayOfDates
    <2>2. s4.from = Ranges!Midnight(d)
        BY <1>6 DEF Ranges!ReportRange
    <2>3. s4.to = s4.from + b - ForRanges.ms
        BY <1>5, <1>6 DEF RangeInv, AskedInv
    <2> HIDE DEF d
    <2>4. Ranges!Rows(s4, s) = Ranges!DayRows(d, s)
        BY <1>1, <1>3, <2>1, <2>2, <2>3, RowsOfDay
    <2> QED  BY <2>1, <2>4
<1>7. ASSUME s3.kind = "history", s4.from = s3.from, s4.to = s3.to, s3.to - s3.from = b - ForRanges.minute
      PROVE  Ranges!Rows(s4, s) = {t \in Ranges!DayRows(Ranges!LocalDay(s3.from), s) :
                                      t <= Ranges!Midnight(Ranges!LocalDay(s3.from) + 1) - ForRanges.minute}
    <2>1. PICK d \in Int : s3.from = Ranges!Midnight(d)
        BY <1>7 DEF RangeInv, HistoryInv
    <2>2. d + 1 \in Int /\ Ranges!LocalDay(s3.from) \in Int
        BY <1>1, <1>2, DayIsNumber
    <2>3. Ranges!Midnight(d + 1) = s3.from + b
        BY <1>1, <2>1, MidnightIsNumber
    <2>4. Ranges!LocalDay(s3.from) = d
        <3>1. d <= Ranges!LocalDay(s3.from)
            BY <1>1, <1>2, <2>1, DayOf
        <3>2. ~(d + 1 <= Ranges!LocalDay(s3.from))
            <4>1. ~(Ranges!Midnight(d + 1) <= s3.from)
                BY <1>1, <1>2, <2>3
            <4> QED  BY <1>1, <1>2, <2>2, <4>1, DayOf
        <3> QED  BY <2>2, <3>1, <3>2
    <2>5. \A t \in Int : s3.from <= t /\ t <= s3.to =>
              Ranges!LocalDay(t) = d /\ t <= s3.from + b - ForRanges.minute
        <3> SUFFICES ASSUME NEW t \in Int, s3.from <= t, t <= s3.to
                     PROVE  Ranges!LocalDay(t) = d /\ t <= s3.from + b - ForRanges.minute
            OBVIOUS
        <3>1. t <= s3.from + b - ForRanges.minute /\ ~(s3.from + b <= t)
            <4> HIDE DEF b
            <4>1. s3.to = s3.from + b - ForRanges.minute
                BY <1>1, <1>2, <1>7
            <4> QED  BY <1>1, <1>2, <4>1
        <3>2. d <= Ranges!LocalDay(t) /\ ~(d + 1 <= Ranges!LocalDay(t)) /\ Ranges!LocalDay(t) \in Int
            BY <1>1, <2>1, <2>2, <2>3, <3>1, DayOf
        <3> QED  BY <2>2, <3>1, <3>2
    <2>6. \A t \in Int : Ranges!LocalDay(t) = d /\ t <= s3.from + b - ForRanges.minute =>
              s3.from <= t /\ t <= s3.to
        <3> SUFFICES ASSUME NEW t \in Int, Ranges!LocalDay(t) = d, t <= s3.from + b - ForRanges.minute
                     PROVE  s3.from <= t /\ t <= s3.to
            OBVIOUS
        <3>1. d <= Ranges!LocalDay(t)
            BY <2>1
        <3>2. s3.from <= t
            BY <1>1, <2>1, <3>1, DayOf
        <3> QED  BY <1>1, <1>2, <1>7, <3>2
    <2>7. \A t \in 0..(ForRanges.lastTick + 2 * ForRanges.day) : t \in Int
        OBVIOUS
    <2> DEFINE all == 0..(ForRanges.lastTick + 2 * ForRanges.day)
    <2> HIDE DEF all
    <2>8. Ranges!Rows(s4, s) = {t \in all : t % s = 0 /\ s3.from <= t /\ t <= s3.to}
        BY <1>7 DEF Ranges!Rows, all
    <2>9. Ranges!DayRows(d, s) = {t \in all : t % s = 0 /\ Ranges!LocalDay(t) = d}
        BY DEF Ranges!DayRows, all
    <2>10. \A t \in all : t \in Int
        BY <2>7 DEF all
    <2> HIDE DEF s, b
    <2>11. Ranges!Rows(s4, s) = {t \in Ranges!DayRows(d, s) : t <= s3.from + b - ForRanges.minute}
        BY <2>5, <2>6, <2>8, <2>9, <2>10
    <2>12. Ranges!Midnight(d + 1) - ForRanges.minute = s3.from + b - ForRanges.minute
        BY <1>1, <1>2, <2>3
    <2> QED  BY <2>4, <2>11, <2>12
<1>8. ASSUME s3.kind = "map" PROVE Ranges!Rows(s4, s) = Ranges!DayRows(Ranges!LocalDay(s1), s)
    <2> DEFINE d == Ranges!LocalDay(s1)
    <2>1. d \in Int
        BY <1>1, DayIsNumber
    <2>2. s4.from = Ranges!Midnight(d) /\ s4.to = Ranges!Midnight(d) + b - s
        BY <1>5, <1>8 DEF RangeInv, AskedInv, Ranges!MapRange
    <2> HIDE DEF d
    <2>3. s4.to = s4.from + b - s
        BY <2>2
    <2>4. Ranges!Rows(s4, s) = Ranges!DayRows(d, s)
        BY <1>1, <1>3, <1>4, <2>1, <2>2, <2>3, RowsOfDay
    <2> QED  BY <2>4 DEF d
<1>9. ASSUME s3.kind = "vehicle", s4.from = Ranges!ServerRange(s3.day).from
      PROVE  Ranges!Rows(s4, s) = {t \in 0..(ForRanges.lastTick + 2 * b) : t % s = 0 /\ Ranges!UtcDay(t) = s3.day}
    <2> DEFINE all == 0..(ForRanges.lastTick + 2 * b)  m == s3.day * b
    <2>1. s4.from = m /\ s4.to = s4.from + b - s
        BY <1>5, <1>9 DEF RangeInv, AskedInv, Ranges!ServerRange
    <2>2. m \in Int /\ m = b * s3.day /\ Divides(s, b)
        BY <1>1, <1>2, DayFacts, DividesThrough
    <2>3. Divides(b, m)
        BY <1>2, <2>2 DEF Divides
    <2>4. Divides(s, m + b) /\ m + b \in Int
        <3>1. Divides(s, m)
            BY <1>1, <2>2, <2>3, DividesThrough
        <3>2. s \in Nat \ {0} /\ m \in Int /\ b \in Int /\ Divides(s, b)
            BY <1>1, <2>2
        <3> HIDE DEF m, b, s
        <3>3. Divides(s, m + b)
            BY <3>1, <3>2, DividesSum
        <3> QED  BY <3>2, <3>3
    <2>5. ASSUME NEW t \in Int, t % s = 0 PROVE (s4.from <= t /\ t <= s4.to) <=> Ranges!UtcDay(t) = s3.day
        <3> DEFINE q == t \div b
        <3>1. Divides(s, t)
            BY <1>1, <2>5, DividesRest
        <3>2. t < m + b => t <= (m + b) - s
            BY <1>1, <2>4, <3>1, Gap
        <3>3. Ranges!UtcDay(t) = q
            BY DEF Ranges!UtcDay
        <3>4. q \in Int /\ b * q \in Int /\ b * q <= t /\ t < b * q + b
            BY <1>1, Division
        <3>5. m <= t /\ t < m + b => q = s3.day
            <4> HIDE DEF b, s, m
            <4> QED  BY <1>1, <1>2, <2>2, Quotient DEF q
        <3> HIDE DEF q, m, b, s
        <3> QED  BY <1>1, <1>2, <2>1, <2>2, <2>4, <3>2, <3>3, <3>4, <3>5
    <2>6. \A t \in all : t \in Int
        OBVIOUS
    <2>7. Ranges!Rows(s4, s) = {t \in all : t % s = 0 /\ s4.from <= t /\ t <= s4.to}
        BY DEF Ranges!Rows
    <2> HIDE DEF all
    <2>8. Ranges!Rows(s4, s) = {t \in all : t % s = 0 /\ Ranges!UtcDay(t) = s3.day}
        BY <2>5, <2>6, <2>7
    <2> QED  BY <2>8 DEF all
<1> QED  BY Zenon, <1>6, <1>7, <1>8, <1>9

LEMMA LogIsWhole ==
    ASSUME Ranges!RangesAssumption, RangeInv
    PROVE  Ranges!AuditIsWhole
<1> DEFINE archive == Ranges!AuditRange(s1, TRUE, s3.day)
           today == Ranges!AuditRange(s1, FALSE, s3.day)
           late == Ranges!LocalDay(s1) - 1 - s3.day + (IF s2 < 0 THEN 1 ELSE 0)
           d == Ranges!LocalDay(s1)
           e == Ranges!DayOfDate(s3.day)
           all == 0..(ForRanges.lastTick + 2 * ForRanges.day)
           b == ForRanges.day  ms == ForRanges.ms
<1> SUFFICES ASSUME s3.kind = "archive"
             PROVE  /\ Ranges!Rows(archive, 1) \cap Ranges!Rows(today, 1) = {}
                    /\ \A t \in {t \in 0..s1 : t \notin Ranges!Rows(archive, 1) \cup Ranges!Rows(today, 1)} :
                          \/ t > Ranges!Midnight(Ranges!LocalDay(t) + 1) - ms
                          \/ Ranges!LocalDay(t) \in (Ranges!LocalDay(s1) - late)..(Ranges!LocalDay(s1) - 1)
    BY DEF Ranges!AuditIsWhole
<1>1. /\ s2 \in ForRanges.zones /\ s2 \in Int /\ s1 \in Int /\ s1 > 0 /\ s1 <= ForRanges.lastTick /\ s3 \in RangePages
      /\ b \in Nat \ {0} /\ ms \in Nat \ {0} /\ ForRanges.lastTick \in Nat
    BY DayFacts DEF RangeInv, RangeTypes
<1>2. s3.day \in Int /\ d \in Int
    BY <1>1, DayIsNumber DEF RangePages
<1>3. e = (IF s2 >= 0 THEN s3.day ELSE s3.day - 1) /\ e \in Int
    BY <1>1, <1>2, DayOfDates
<1>4. s3.day < d
    BY DEF RangeInv
<1>5. /\ archive.from = 0 /\ archive.to = Ranges!Midnight(e) + b - ms
      /\ today.from = Ranges!Midnight(d) /\ today.to = Ranges!Midnight(d) + b - ms
    BY DEF Ranges!AuditRange
<1>6. e + 1 <= d /\ late \in Int /\ d - late = e + 1 /\ e + 1 \in Int /\ d + 1 \in Int
    <2> HIDE DEF d, e
    <2>1. late = d - 1 - s3.day + (IF s2 < 0 THEN 1 ELSE 0)
        BY DEF d
    <2> HIDE DEF late
    <2> QED  BY <1>1, <1>2, <1>3, <1>4, <2>1
<1>7. /\ Ranges!Midnight(e) \in Int /\ Ranges!Midnight(e + 1) = Ranges!Midnight(e) + b
      /\ Ranges!Midnight(d) \in Int /\ Ranges!Midnight(d + 1) = Ranges!Midnight(d) + b
      /\ Ranges!Midnight(e + 1) <= Ranges!Midnight(d)
    <2> HIDE DEF d, e
    <2> QED  BY <1>1, <1>2, <1>3, <1>6, DayOf, MidnightsFollow
<1> HIDE DEF archive, today, late, d, e, b, ms
<1>8. \A t \in Int : t % 1 = 0
    OBVIOUS
<1>9. \A r : Ranges!Rows(r, 1) = {t \in all : t % 1 = 0 /\ r.from <= t /\ t <= r.to}
    BY DEF Ranges!Rows
<1>10. \A t \in all : t \in Int
    OBVIOUS
<1>11. \A t \in 0..s1 : t \in all /\ t \in Int /\ t >= 0 /\ t <= s1
    BY <1>1 DEF b
<1> HIDE DEF all
<1>12. Ranges!Rows(archive, 1) \cap Ranges!Rows(today, 1) = {}
    <2> SUFFICES ASSUME NEW t \in all, archive.from <= t, t <= archive.to, today.from <= t, t <= today.to
                 PROVE  FALSE
        BY <1>9
    <2> QED  BY <1>1, <1>5, <1>7, <1>10
<1>13. ASSUME NEW t \in 0..s1, t \notin Ranges!Rows(archive, 1) \cup Ranges!Rows(today, 1),
              ~(t > Ranges!Midnight(Ranges!LocalDay(t) + 1) - ms)
       PROVE  Ranges!LocalDay(t) \in (d - late)..(d - 1)
    <2> DEFINE c == Ranges!LocalDay(t)
    <2>1. t \in all /\ t \in Int /\ t >= 0 /\ t <= s1 /\ t % 1 = 0
        BY <1>8, <1>11
    <2>2. c \in Int /\ c + 1 \in Int
        BY <1>1, <2>1, DayIsNumber
    <2>3. ~(0 <= t /\ t <= archive.to) /\ ~(today.from <= t /\ t <= today.to)
        BY <1>5, <1>9, <1>13, <2>1
    <2>4. e + 1 <= c
        <3> SUFFICES ASSUME c + 1 <= e + 1 PROVE FALSE
            BY <1>3, <2>2
        <3> HIDE DEF c
        <3>1. Ranges!Midnight(c + 1) <= Ranges!Midnight(e + 1) /\ Ranges!Midnight(c + 1) \in Int
            BY <1>1, <1>6, <2>2, MidnightsFollow, DayOf
        <3>2. t <= Ranges!Midnight(c + 1) - ms
            BY <1>1, <1>13, <2>1, <3>1 DEF c
        <3> QED  BY <1>1, <1>5, <1>7, <2>1, <2>3, <3>1, <3>2
    <2>5. c <= d
        <3>1. Ranges!Midnight(d + 1) <= s1 <=> d + 1 <= d
            BY <1>1, <1>6, DayOf DEF d
        <3>2. ~(Ranges!Midnight(d + 1) <= t)
            BY <1>1, <1>2, <1>7, <2>1, <3>1
        <3>3. ~(d + 1 <= c)
            BY <1>1, <1>6, <2>1, <3>2, DayOf
        <3> QED  BY <1>2, <2>2, <3>3
    <2>6. c # d
        <3> SUFFICES ASSUME c = d PROVE FALSE
            OBVIOUS
        <3>1. Ranges!Midnight(d) <= t
            BY <1>1, <1>2, <2>1, <2>2, DayOf
        <3>2. t <= Ranges!Midnight(d + 1) - ms
            BY <1>1, <1>7, <1>13, <2>1
        <3> QED  BY <1>1, <1>5, <1>7, <2>1, <2>3, <3>1, <3>2
    <2> HIDE DEF c
    <2>7. c \in (e + 1)..(d - 1)
        BY <1>2, <1>3, <2>2, <2>4, <2>5, <2>6
    <2> QED  BY <1>6, <2>7 DEF c
<1> QED  BY <1>12, <1>13 DEF d

LEMMA RangeAsPromised ==
    ASSUME Ranges!RangesAssumption, RangeInv
    PROVE  Ranges!RangeTypeOK /\ Ranges!RangesHold
<1>1. Ranges!RangeTypeOK
    BY DEF RangeInv, RangeTypes, HistoryInv, RangePages, Ranges!RangeTypeOK
<1>2. Ranges!DefaultIsToday
    BY DEF Ranges!DefaultIsToday, Ranges!Default
<1> QED  BY <1>1, <1>2, DaysAreShown, LogIsWhole DEF Ranges!RangesHold

-----------------------------------------------------------------------------
(* The pages that ask for a list: what is shown is what was asked for last,*)
(* with the exceptions that QueryPages names.                              *)
QueryAsks == [for : Query!Questions, late : BOOLEAN]
QueryNotes == [last : Query!Questions \cup {None}, behind : BOOLEAN, overlap : BOOLEAN, auto : BOOLEAN]
QueryTypes ==
    /\ s1 \in Query!Reports \cup {"route", "history", "report", "messages", "audit"}
    /\ s2 \in {"superadmin", "dealer"}
    /\ s3 \in Query!Questions
    /\ s4 \in BOOLEAN
    /\ s5 \in Seq(QueryAsks) /\ Len(s5) <= ForQueries.running + 2
    /\ s6 \in Query!Questions \cup {None}
    /\ s7 \in QueryNotes
    /\ s8 \in Nat /\ s8 <= ForQueries.acts

QueryRows ==
    IF s5 = <<>> THEN s6 = s7.last \/ s7.behind
    ELSE LET newest == s5[Len(s5)] IN newest.for = s7.last \/ newest.late \/ (s7.behind /\ s7.last = None)

QueryLoads ==
    /\ s4 => s5 # <<>>
    /\ s5 # <<>> => s4 \/ s7.overlap
    /\ Len(s5) >= 2 => s7.overlap
    /\ s1 \in Query!Reports \cup {"report"} => ~s7.overlap

QueryControls ==
    /\ s7.auto => s1 = "history"
    /\ s1 = "messages" /\ s6 # None => s3.page = s6.page
    /\ s1 # "messages" /\ s7.last # None => \A c \in Query!Is.asksOn : s7.last[c] = s3[c]
    /\ s1 = "audit" => s3.page <= ForQueries.pagesOf[s3.filter]

QueryInv == QueryTypes /\ QueryRows /\ QueryLoads /\ QueryControls

LEMMA PageFacts ==
    ASSUME Query!QueryAssumption, s1 \in Query!Reports \cup {"route", "history", "report", "messages", "audit"}
    PROVE  /\ Query!Is.controls \subseteq Query!Controls
           /\ "page" \in Query!Is.controls => s1 \in {"messages", "audit"}
           /\ s1 = "messages" => Query!Is.controls = {"page"}
           /\ Query!Is.asksOn = CASE s1 = "route" -> {"vehicle"} [] s1 = "messages" -> {"page"}
                                  [] s1 = "audit" -> {"filter", "archived", "page"} [] OTHER -> {}
           /\ Query!Is.asksFirst \in BOOLEAN /\ (Query!Is.asksFirst <=> s1 \in {"report", "messages", "audit"})
           /\ Query!Is.guarded <=> s1 \notin {"messages", "audit"}
    BY DEF Query!Is, Query!Made, Query!Manual, Query!Reports, Query!Controls, Query!TripReportPage,
        Query!OverspeedingReportPage, Query!VehicleActivityReportPage, Query!DailyDistanceReportPage,
        Query!IgnitionReportPage, Query!StoppageReportPage, Query!ConsolidatedReportPage,
        Query!IndividualReportPage, Query!RouteHistoryReportPage, Query!HistoryPage, Query!ReportPage,
        Query!SensorLogsPage, Query!AuditLogsAdminPage

LEMMA OpenedFacts ==
    ASSUME Query!QueryAssumption
    PROVE  Query!Opened \in Query!Questions /\ Query!Opened.page = 1
<1>1. Query!Today \in ForQueries.ranges
    BY DEF Query!QueryAssumption, Query!Today
<1>2. Query!NoFilter \in ForQueries.filters
    BY DEF Query!QueryAssumption, Query!NoFilter
<1> QED  BY <1>1, <1>2 DEF Query!Opened, Query!Questions

LEMMA ChosenIsQuestion ==
    ASSUME Query!QueryAssumption, s3 \in Query!Questions, NEW c \in Query!Controls, NEW value \in Query!Values(c)
    PROVE  /\ [s3 EXCEPT ![c] = value] \in Query!Questions
           /\ [s3 EXCEPT ![c] = value][c] = value
           /\ \A d \in Query!Controls \ {c} : [s3 EXCEPT ![c] = value][d] = s3[d]
<1>0. ForQueries.pagesOf[s3.filter] \in Nat
    BY DEF Query!QueryAssumption, Query!Questions
<1> USE DEF Query!Questions, Query!Values, Query!Controls
<1>1. CASE c = "vehicle" 
   BY <1>1
<1>2. CASE c = "range" 
   BY <1>2
<1>3. CASE c = "filter" 
   BY <1>3
<1>4. CASE c = "archived" 
   BY <1>4
<1>5. CASE c = "page" 
   BY <1>5, <1>0
<1> QED  BY <1>1, <1>2, <1>3, <1>4, <1>5

LEMMA QueryBegins ==
    ASSUME Query!QueryAssumption, Query!QueryInit
    PROVE  QueryInv
<1>1. s1 \in Query!Reports \cup {"route", "history", "report", "messages", "audit"}
    BY DEF Query!QueryInit, Query!Reports
<1>2. None \notin Query!Questions /\ ForQueries.running \in Nat /\ ForQueries.acts \in Nat
    BY DEF Query!QueryAssumption
<1>3. ForQueries.pagesOf[s3.filter] \in Nat \ {0}
    BY OpenedFacts DEF Query!QueryAssumption, Query!QueryInit, Query!Questions
<1>4. s3 \in Query!Questions /\ s3.page = 1 /\ s6 = None /\ s8 = 0
    BY OpenedFacts DEF Query!QueryInit
<1>5. s5 = (IF s4 THEN <<[for |-> s3, late |-> FALSE]>> ELSE <<>>) /\ s4 \in BOOLEAN
    BY <1>1, PageFacts, Zenon DEF Query!QueryInit, Query!Request
<1>6. s7 = [last |-> IF s4 THEN s3 ELSE None, behind |-> FALSE, overlap |-> FALSE, auto |-> s1 = "history"]
    BY DEF Query!QueryInit
<1>7. s5 \in Seq(QueryAsks) /\ Len(s5) <= 1 /\ (s4 <=> s5 # <<>>) /\ (s4 => s5[Len(s5)].for = s3)
    <2>1. [for |-> s3, late |-> FALSE] \in QueryAsks
        BY <1>4 DEF QueryAsks
    <2>2. CASE s4
        BY <1>5, <2>1, <2>2
    <2>3. CASE ~s4
        BY <1>5, <2>3
    <2> QED  BY <2>2, <2>3
<1>8. QueryTypes
    BY <1>1, <1>2, <1>4, <1>5, <1>6, <1>7 DEF QueryTypes, QueryNotes, Query!QueryInit
<1>9. QueryRows
    BY <1>4, <1>5, <1>6, <1>7 DEF QueryRows
<1>10. QueryLoads
    BY <1>4, <1>5, <1>6, <1>7 DEF QueryLoads
<1>11. QueryControls
    <2>1. (s7.auto <=> s1 = "history") /\ (s7.last # None => s7.last = s3)
        BY <1>6
    <2> QED  BY <1>3, <1>4, <2>1 DEF QueryControls
<1> QED  BY <1>8, <1>9, <1>10, <1>11 DEF QueryInv

(* What is left when an answer overtakes the earlier ones: one request     *)
(* less, and when any are left, the newest is the newest that was, or late.*)
LEMMA Overtaken ==
    ASSUME s5 \in Seq(QueryAsks), NEW n \in DOMAIN s5, s5' = Query!Overtaking(n)
    PROVE  /\ s5' \in Seq(QueryAsks) /\ Len(s5') = Len(s5) - 1
           /\ s5' # <<>> => \/ s5'[Len(s5')].late
                            \/ s5'[Len(s5')] = s5[Len(s5)]
           /\ s5' = <<>> => s5[n] = s5[Len(s5)]
<1>1. Len(s5) \in Nat /\ Len(s5) - 1 \in Nat /\ n \in 1..Len(s5)
    OBVIOUS
<1>2. \A m \in 1..(Len(s5) - 1) : s5'[m] = IF m < n THEN [s5[m] EXCEPT !.late = TRUE] ELSE s5[m + 1]
    BY DEF Query!Overtaking
<1>3. ASSUME NEW m \in 1..(Len(s5) - 1)
      PROVE  s5'[m] \in QueryAsks /\ (m < n => s5'[m].late)
    <2>1. s5[m] \in QueryAsks /\ s5[m + 1] \in QueryAsks
        BY <1>1
    <2>2. [s5[m] EXCEPT !.late = TRUE] \in QueryAsks /\ [s5[m] EXCEPT !.late = TRUE].late
        BY <2>1 DEF QueryAsks
    <2> QED  BY <1>2, <2>1, <2>2
<1>4. s5' \in [1..(Len(s5) - 1) -> QueryAsks]
    BY <1>3 DEF Query!Overtaking
<1>5. s5' \in Seq(QueryAsks) /\ Len(s5') = Len(s5) - 1
    BY <1>1, <1>4
<1>6. ASSUME s5' # <<>>
      PROVE  s5'[Len(s5')].late \/ s5'[Len(s5')] = s5[Len(s5)]
    <2>1. Len(s5) - 1 \in 1..(Len(s5) - 1)
        BY <1>1, <1>5, <1>6
    <2>2. CASE n = Len(s5)
        BY <1>1, <1>3, <1>5, <2>1, <2>2
    <2>3. CASE n # Len(s5)
        <3>1. ~(Len(s5) - 1 < n) /\ (Len(s5) - 1) + 1 = Len(s5)
            BY <1>1, <2>3
        <3>2. s5'[Len(s5) - 1] = s5[(Len(s5) - 1) + 1]
            BY <1>2, <2>1, <3>1
        <3> QED  BY <1>5, <3>1, <3>2
    <2> QED  BY <2>2, <2>3
<1>7. s5' = <<>> => s5[n] = s5[Len(s5)]
    <2>1. s5' = <<>> => Len(s5') = 0
        OBVIOUS
    <2>2. s5' = <<>> => n = Len(s5)
        BY <1>1, <1>5, <2>1
    <2> QED  BY <2>2
<1> QED  BY <1>5, <1>6, <1>7

(* A question is asked: the newest request is for what is remembered as    *)
(* asked last.                                                             *)
LEMMA Asks ==
    ASSUME Query!QueryAssumption, QueryInv, NEW q \in Query!Questions, NEW Q,
           Q = <<q>> \/ \E p \in Query!Questions : Q = <<p, q>>,
           Query!Ask(Q)
    PROVE  /\ s4' = TRUE /\ s5' \in Seq(QueryAsks) /\ s5' # <<>> /\ s5'[Len(s5')].for = q
           /\ Len(s5') <= ForQueries.running + 2
           /\ Len(s5') = Len(s5) + Len(Q) /\ Len(Q) \in 1..2
           /\ s7' \in QueryNotes /\ s7'.last = q /\ s7'.behind = s7.behind /\ s7'.auto = s7.auto
           /\ (s7'.overlap <=> s7.overlap \/ s5 # <<>> \/ Len(Q) > 1)
<1>1. Len(Q) \in 1..2 /\ Q \in Seq(Query!Questions) /\ Q[Len(Q)] = q
    <2>1. CASE Q = <<q>>
        BY <2>1
    <2>2. CASE \E p \in Query!Questions : Q = <<p, q>>
        BY <2>2
    <2> QED  BY <2>1, <2>2
<1> DEFINE R == [n \in DOMAIN Q |-> Query!Request(Q[n])]
<1>2. R \in Seq(QueryAsks) /\ Len(R) = Len(Q) /\ R[Len(R)].for = q
    <2>1. \A n \in DOMAIN Q : Query!Request(Q[n]) \in QueryAsks
        BY <1>1 DEF Query!Request, QueryAsks
    <2>2. R \in [1..Len(Q) -> QueryAsks]
        BY <1>1, <2>1
    <2>3. R \in Seq(QueryAsks) /\ Len(R) = Len(Q)
        BY <1>1, <2>2
    <2> QED  BY <1>1, <2>3 DEF Query!Request
<1>3. /\ s4' = TRUE /\ s5' = s5 \o R /\ Len(s5) < ForQueries.running
      /\ s7' = [s7 EXCEPT !.last = Q[Len(Q)], !.overlap = @ \/ s5 # <<>> \/ Len(Q) > 1]
    BY DEF Query!Ask
<1> HIDE DEF R
<1>4. s5 \in Seq(QueryAsks) /\ s7 \in QueryNotes /\ ForQueries.running \in Nat
    BY DEF QueryInv, QueryTypes, Query!QueryAssumption
<1>5. s5' \in Seq(QueryAsks) /\ Len(s5') = Len(s5) + Len(R) /\ s5'[Len(s5')] = R[Len(R)]
    <2>1. s5 \o R \in Seq(QueryAsks) /\ Len(s5 \o R) = Len(s5) + Len(R)
        BY <1>2, <1>4
    <2>2. Len(s5) \in Nat /\ Len(R) \in Nat /\ Len(R) >= 1
        BY <1>1, <1>2, <1>4
    <2>3. (s5 \o R)[Len(s5) + Len(R)] = R[Len(R)]
        BY <1>2, <1>4, <2>2
    <2> QED  BY <1>3, <2>1, <2>3
<1>6. s7' \in QueryNotes /\ s7'.last = q /\ s7'.behind = s7.behind /\ s7'.auto = s7.auto
           /\ (s7'.overlap <=> s7.overlap \/ s5 # <<>> \/ Len(Q) > 1)
    BY <1>1, <1>3, <1>4 DEF QueryNotes
<1>7. Len(s5') = Len(s5) + Len(Q) /\ Len(s5) < ForQueries.running /\ Len(s5) \in Nat
    BY <1>2, <1>3, <1>4, <1>5
<1>8. Len(s5') <= ForQueries.running + 2 /\ Len(s5') # 0
    <2> DEFINE l == Len(Q)
               k == Len(s5)
    <2>1. l \in 1..2 /\ k \in Nat /\ k < ForQueries.running /\ Len(s5') = k + l
        BY <1>1, <1>7
    <2> HIDE DEF l, k
    <2> QED  BY <2>1, <1>4
<1>9. s5' # <<>>
    BY <1>8
<1> QED  BY <1>1, <1>2, <1>3, <1>5, <1>6, <1>7, <1>8, <1>9

(* A question that the controls ask keeps the invariant.                   *)
LEMMA AskedNow ==
    ASSUME Query!QueryAssumption, QueryInv, NEW q \in Query!Questions, NEW Q,
           Q = <<q>> \/ \E p \in Query!Questions : Q = <<p, q>>,
           Query!Ask(Q), Query!Act, UNCHANGED <<s1, s2, s6>>,
           s3' \in Query!Questions, s3' = IF s1 = "messages" THEN s3 ELSE q,
           s1 \in Query!Reports \cup {"report"} => s5 = <<>> /\ Q = <<q>>,
           s1 = "audit" => s3'.page <= ForQueries.pagesOf[s3'.filter]
    PROVE  QueryInv'
<1>1. /\ s4' = TRUE /\ s5' \in Seq(QueryAsks) /\ s5' # <<>> /\ s5'[Len(s5')].for = q
      /\ Len(s5') <= ForQueries.running + 2
      /\ Len(s5') = Len(s5) + Len(Q) /\ Len(Q) \in 1..2
      /\ s7' \in QueryNotes /\ s7'.last = q /\ s7'.behind = s7.behind /\ s7'.auto = s7.auto
      /\ (s7'.overlap <=> s7.overlap \/ s5 # <<>> \/ Len(Q) > 1)
    BY Asks
<1>2. s8' = s8 + 1 /\ s8 < ForQueries.acts /\ ForQueries.acts \in Nat
    BY DEF Query!Act, Query!QueryAssumption
<1>3. QueryTypes'
    BY <1>1, <1>2 DEF QueryInv, QueryTypes
<1>4. QueryRows'
    BY <1>1 DEF QueryRows
<1>5. QueryLoads'
    <2>1. s1 \in Query!Reports \cup {"report"} => s5 = <<>> /\ Len(Q) = 1
        OBVIOUS
    <2>2. Len(s5') >= 2 => s5 # <<>> \/ Len(Q) > 1
        BY <1>1
    <2>3. s5' # <<>> /\ s4'
        BY <1>1
    <2>4. s1' \in Query!Reports \cup {"report"} => ~s7'.overlap
        <3>1. s1 \in Query!Reports \cup {"report"} => ~(Len(Q) > 1) /\ s5 = <<>> /\ ~s7.overlap
            BY <2>1 DEF QueryInv, QueryLoads
        <3> QED  BY <1>1, <3>1
    <2> QED  BY <1>1, <2>2, <2>3, <2>4 DEF QueryLoads
<1>6. QueryControls'
    BY <1>1 DEF QueryInv, QueryControls, Query!Is
<1> QED  BY <1>3, <1>4, <1>5, <1>6 DEF QueryInv

LEMMA Generates ==
    ASSUME Query!QueryAssumption, QueryInv, Query!Generate
    PROVE  QueryInv'
<1>1. s3 \in Query!Questions /\ UNCHANGED <<s1, s2, s3, s6>> /\ Query!Act /\ Query!Ask(<<s3>>) /\ s1 # "messages"
    BY DEF Query!Generate, QueryInv, QueryTypes
<1>2. s1 \in Query!Reports \cup {"report"} => s5 = <<>>
    <2>1. Query!Is.guarded => ~s4
        BY DEF Query!Generate
    <2> QED  BY <2>1, PageFacts DEF QueryInv, QueryTypes, QueryLoads, Query!Reports
<1>3. s1 = "audit" => s3'.page <= ForQueries.pagesOf[s3'.filter]
    BY <1>1 DEF QueryInv, QueryControls
<1> QED  BY <1>1, <1>2, <1>3, AskedNow

LEMMA VehicleIsRead ==
    ASSUME Query!QueryAssumption, QueryInv, Query!VehicleArrives
    PROVE  QueryInv'
<1>1. /\ s7.auto /\ Len(s5) < ForQueries.running /\ s5' = Append(s5, Query!Request(s3)) /\ s4' = TRUE
      /\ s7' = [s7 EXCEPT !.auto = FALSE, !.last = s3, !.overlap = @ \/ s5 # <<>>]
      /\ UNCHANGED <<s1, s2, s3, s6, s8>>
    BY DEF Query!VehicleArrives
<1>2. /\ s3 \in Query!Questions /\ s5 \in Seq(QueryAsks) /\ s7 \in QueryNotes /\ s1 = "history"
      /\ ForQueries.running \in Nat
    BY <1>1 DEF QueryInv, QueryTypes, QueryControls, Query!QueryAssumption
<1>3. Query!Request(s3) \in QueryAsks /\ Query!Request(s3).for = s3
    BY <1>2 DEF Query!Request, QueryAsks
<1>4. s5' \in Seq(QueryAsks) /\ Len(s5') = Len(s5) + 1 /\ s5'[Len(s5')].for = s3
    BY <1>1, <1>2, <1>3
<1>5. s7' \in QueryNotes /\ s7'.last = s3 /\ s7'.auto = FALSE /\ (s7'.overlap <=> s7.overlap \/ s5 # <<>>)
    BY <1>1, <1>2 DEF QueryNotes
<1>6. Len(s5) \in Nat /\ (s5 = <<>> <=> Len(s5) = 0) /\ s5' # <<>>
    BY <1>2, <1>4
<1>7. QueryTypes'
    BY <1>1, <1>2, <1>4, <1>5, <1>6 DEF QueryInv, QueryTypes
<1>8. QueryRows'
    BY <1>4, <1>5, <1>6 DEF QueryRows
<1>9. QueryLoads'
    <2>1. s1 \notin Query!Reports \cup {"report"}
        BY <1>2 DEF Query!Reports
    <2>2. s5' # <<>> /\ s4' /\ s1' = s1
        BY <1>1, <1>6
    <2>3. Len(s5') >= 2 => s5 # <<>>
        BY <1>4, <1>6
    <2> QED  BY <1>5, <2>1, <2>2, <2>3 DEF QueryLoads
<1>10. QueryControls'
    BY <1>1, <1>2, <1>5 DEF QueryInv, QueryControls, Query!Is
<1> QED  BY <1>7, <1>8, <1>9, <1>10 DEF QueryInv

LEMMA Unchooses ==
    ASSUME Query!QueryAssumption, QueryInv, Query!Unchoose
    PROVE  QueryInv'
<1>1. /\ Query!Act /\ s1 = "route" /\ s3' = [s3 EXCEPT !.vehicle = None] /\ s6' = None
      /\ s7' = [s7 EXCEPT !.behind = (s5 # <<>>), !.last = None]
      /\ UNCHANGED <<s1, s2, s4, s5>>
    BY DEF Query!Unchoose
<1>2. s3' \in Query!Questions /\ s5 \in Seq(QueryAsks)
    BY <1>1 DEF QueryInv, QueryTypes, Query!Questions
<1>3. /\ s7' \in QueryNotes /\ s7'.last = None /\ (s7'.behind <=> s5 # <<>>)
      /\ s7'.auto = s7.auto /\ s7'.overlap = s7.overlap
    BY <1>1 DEF QueryInv, QueryTypes, QueryNotes
<1>4. QueryTypes'
    BY <1>1, <1>2, <1>3 DEF QueryInv, QueryTypes, Query!Act, Query!QueryAssumption
<1>5. QueryRows'
    BY <1>1, <1>3 DEF QueryRows
<1>6. QueryLoads'
    BY <1>1, <1>3 DEF QueryInv, QueryLoads
<1>7. QueryControls'
    BY <1>1, <1>3 DEF QueryInv, QueryControls, Query!Is
<1> QED  BY <1>4, <1>5, <1>6, <1>7 DEF QueryInv

LEMMA Changes ==
    ASSUME Query!QueryAssumption, QueryInv,
           \/ Query!SwitchArchived
           \/ \E f \in ForQueries.filters : Query!Filter(f)
    PROVE  QueryInv'
<1>1. PICK change \in Query!Questions : Query!Act /\ s1 = "audit" /\ Query!Change(change) /\ UNCHANGED <<s1, s2, s6>>
    <2>1. CASE Query!SwitchArchived
        <3>1. [s3 EXCEPT !.archived = ~@] \in Query!Questions
            BY DEF QueryInv, QueryTypes, Query!Questions
        <3> QED  BY <2>1, <3>1 DEF Query!SwitchArchived
    <2>2. CASE \E f \in ForQueries.filters : Query!Filter(f)
        <3>1. PICK f \in ForQueries.filters : Query!Filter(f)
            BY <2>2
        <3>2. [s3 EXCEPT !.filter = f] \in Query!Questions
            BY DEF QueryInv, QueryTypes, Query!Questions
        <3> QED  BY <3>1, <3>2 DEF Query!Filter
    <2> QED  BY <2>1, <2>2
<1> DEFINE reset == IF change.archived # s3.archived THEN [Query!Opened EXCEPT !.archived = change.archived]
                    ELSE [change EXCEPT !.page = 1]
           Q == IF reset = change THEN <<change>> ELSE <<change, reset>>
<1>2. s3' = reset /\ Query!Ask(Q)
    BY <1>1 DEF Query!Change
<1>3. reset \in Query!Questions /\ reset.page = 1
    BY OpenedFacts DEF Query!Questions
<1>4. Q = <<reset>> \/ \E p \in Query!Questions : Q = <<p, reset>>
    OBVIOUS
<1> HIDE DEF reset, Q
<1>5. ForQueries.pagesOf[s3'.filter] \in Nat \ {0}
    BY <1>2, <1>3 DEF Query!QueryAssumption, Query!Questions
<1>6. s3'.page <= ForQueries.pagesOf[s3'.filter]
    BY <1>2, <1>3, <1>5
<1>7. s1 \notin Query!Reports \cup {"report"} /\ s1 # "messages"
    BY <1>1 DEF Query!Reports
<1> QED  BY <1>1, <1>2, <1>3, <1>4, <1>6, <1>7, AskedNow

LEMMA Chooses ==
    ASSUME Query!QueryAssumption, QueryInv, NEW c \in Query!Controls, NEW value \in Query!Values(c),
           Query!Choose(c, value)
    PROVE  QueryInv'
<1> DEFINE q == [s3 EXCEPT ![c] = value]
<1>1. s3 \in Query!Questions
    BY DEF QueryInv, QueryTypes
<1>2. q \in Query!Questions /\ q[c] = value /\ \A d \in Query!Controls \ {c} : q[d] = s3[d]
    BY <1>1, ChosenIsQuestion
<1>3. s1 = "audit" => q.page <= ForQueries.pagesOf[q.filter]
    <2> SUFFICES ASSUME s1 = "audit" PROVE q.page <= ForQueries.pagesOf[q.filter]
        OBVIOUS
    <2>1. c = "page"
        BY DEF Query!Choose
    <2>2. value \in 1..ForQueries.pagesOf[s3.filter] /\ ForQueries.pagesOf[s3.filter] \in Nat
        BY <2>1, <1>1 DEF Query!Values, Query!QueryAssumption, Query!Questions
    <2>3. q.page = value /\ q.filter = s3.filter
        BY <1>1, <2>1 DEF Query!Questions
    <2> QED  BY <2>2, <2>3
<1>4. c \in Query!Is.controls /\ Query!Act /\ UNCHANGED <<s1, s2, s6>>
    BY DEF Query!Choose
<1>5. s1 \in Query!Reports \cup {"route", "history", "report", "messages", "audit"}
    BY DEF QueryInv, QueryTypes
<1> HIDE DEF q
<1>6. CASE s1 = "messages"
    <2>1. Query!Ask(<<q>>) /\ s3' = s3
        BY <1>6 DEF Query!Choose, q
    <2>2. s1 \notin Query!Reports \cup {"report"}
        BY <1>6 DEF Query!Reports
    <2> QED  BY <1>1, <1>2, <1>4, <1>6, <2>1, <2>2, AskedNow
<1>7. CASE s1 # "messages" /\ c \in Query!Is.asksOn
    <2>1. Query!Ask(<<q>>) /\ s3' = q
        BY <1>7 DEF Query!Choose, q
    <2>2. s1 \notin Query!Reports \cup {"report"}
        BY <1>5, <1>7, PageFacts DEF Query!Reports
    <2> QED  BY <1>2, <1>3, <1>4, <1>7, <2>1, <2>2, AskedNow
<1>8. CASE s1 # "messages" /\ c \notin Query!Is.asksOn
    <2>1. s3' = q /\ UNCHANGED <<s4, s5, s7>>
        BY <1>8 DEF Query!Choose, q
    <2>2. QueryTypes'
        BY <1>2, <1>4, <2>1 DEF QueryInv, QueryTypes, Query!Act, Query!QueryAssumption
    <2>3. QueryRows' /\ QueryLoads'
        BY <1>4, <2>1 DEF QueryInv, QueryRows, QueryLoads
    <2>4. Query!Is.asksOn \subseteq Query!Controls
        BY <1>5, PageFacts DEF Query!Controls
    <2>5. Query!Is.asksOn' = Query!Is.asksOn
        BY <1>4 DEF Query!Is
    <2>6. \A d \in Query!Is.asksOn : q[d] = s3[d]
        BY <1>2, <1>8, <2>4
    <2>7. QueryControls'
        BY <1>3, <1>4, <1>8, <2>1, <2>5, <2>6 DEF QueryInv, QueryControls
    <2> QED  BY <2>2, <2>3, <2>7 DEF QueryInv
<1> QED  BY <1>6, <1>7, <1>8

LEMMA QueryAnswers ==
    ASSUME Query!QueryAssumption, QueryInv, NEW n \in DOMAIN s5, Query!Answer(n)
    PROVE  QueryInv'
<1>1. s5 \in Seq(QueryAsks) /\ s5[n] \in QueryAsks /\ s5 # <<>> /\ Len(s5) \in Nat
    BY DEF QueryInv, QueryTypes
<1>2. /\ s5' \in Seq(QueryAsks) /\ Len(s5') = Len(s5) - 1
      /\ s5' # <<>> => s5'[Len(s5')].late \/ s5'[Len(s5')] = s5[Len(s5)]
      /\ s5' = <<>> => s5[n] = s5[Len(s5)]
    BY <1>1, Overtaken DEF Query!Answer
<1>3. s5[n].for \in Query!Questions /\ s5[n].late \in BOOLEAN
    BY <1>1 DEF QueryAsks
<1>4. /\ s4' = FALSE /\ s6' = s5[n].for
      /\ s3' = IF s1 = "messages" THEN [s3 EXCEPT !.page = s5[n].for.page] ELSE s3
      /\ s7' = [s7 EXCEPT !.behind = s5[n].late \/ (@ /\ s5[n].for # s7.last)]
      /\ UNCHANGED <<s1, s2, s8>>
    BY DEF Query!Answer
<1>5. /\ s7' \in QueryNotes /\ s7'.last = s7.last /\ s7'.auto = s7.auto /\ s7'.overlap = s7.overlap
      /\ s7'.behind <=> s5[n].late \/ (s7.behind /\ s5[n].for # s7.last)
    BY <1>3, <1>4 DEF QueryInv, QueryTypes, QueryNotes
<1>6. s3' \in Query!Questions /\ (s1 = "messages" => s3'.page = s6'.page)
    BY <1>3, <1>4 DEF QueryInv, QueryTypes, Query!Questions
<1>7. QueryTypes'
    <2>1. Len(s5') <= ForQueries.running + 2
        BY <1>1, <1>2 DEF QueryInv, QueryTypes, Query!QueryAssumption
    <2> QED  BY <1>2, <1>3, <1>4, <1>5, <1>6, <2>1 DEF QueryInv, QueryTypes
<1>8. QueryRows'
    <2>1. s5[Len(s5)].for = s7.last \/ s5[Len(s5)].late \/ (s7.behind /\ s7.last = None)
        BY <1>1 DEF QueryInv, QueryRows
    <2>2. CASE s5' = <<>>
        <3>1. s6' = s7'.last \/ s7'.behind
            BY <1>2, <1>3, <1>4, <1>5, <2>1, <2>2 DEF Query!QueryAssumption
        <3> QED  BY <2>2, <3>1 DEF QueryRows
    <2>3. CASE s5' # <<>>
        <3>1. s7'.behind \/ ~(s7.behind /\ s7.last = None)
            BY <1>3, <1>5 DEF Query!QueryAssumption
        <3> QED  BY <1>2, <1>5, <2>1, <2>3, <3>1 DEF QueryRows
    <2> QED  BY <2>2, <2>3
<1>9. QueryLoads'
    <2>1. Len(s5') >= 2 => Len(s5) >= 2
        BY <1>1, <1>2
    <2>2. s5' # <<>> => Len(s5) >= 2
        BY <1>1, <1>2
    <2> QED  BY <1>4, <1>5, <2>1, <2>2 DEF QueryInv, QueryLoads
<1>10. QueryControls'
    BY <1>4, <1>5, <1>6 DEF QueryInv, QueryControls, Query!Is
<1> QED  BY <1>7, <1>8, <1>9, <1>10 DEF QueryInv

LEMMA QueryFails ==
    ASSUME Query!QueryAssumption, QueryInv, NEW n \in DOMAIN s5, Query!Fail(n)
    PROVE  QueryInv'
<1>1. s5 \in Seq(QueryAsks) /\ s5 # <<>> /\ Len(s5) \in Nat
    BY DEF QueryInv, QueryTypes
<1>2. /\ s5' \in Seq(QueryAsks) /\ Len(s5') = Len(s5) - 1
      /\ s5' # <<>> => s5'[Len(s5')].late \/ s5'[Len(s5')] = s5[Len(s5)]
    BY <1>1, Overtaken DEF Query!Fail
<1>3. /\ s4' = FALSE /\ s7' = [s7 EXCEPT !.behind = TRUE]
      /\ UNCHANGED <<s1, s2, s3, s6, s8>>
    BY DEF Query!Fail
<1>4. s7' \in QueryNotes /\ s7'.last = s7.last /\ s7'.auto = s7.auto /\ s7'.overlap = s7.overlap /\ s7'.behind
    BY <1>3 DEF QueryInv, QueryTypes, QueryNotes
<1>5. QueryTypes'
    <2>1. Len(s5') <= ForQueries.running + 2
        BY <1>1, <1>2 DEF QueryInv, QueryTypes, Query!QueryAssumption
    <2> QED  BY <1>2, <1>3, <1>4, <2>1 DEF QueryInv, QueryTypes
<1>6. QueryRows'
    BY <1>1, <1>2, <1>4 DEF QueryInv, QueryRows
<1>7. QueryLoads'
    <2>1. (Len(s5') >= 2 => Len(s5) >= 2) /\ (s5' # <<>> => Len(s5) >= 2)
        BY <1>1, <1>2
    <2> QED  BY <1>3, <1>4, <2>1 DEF QueryInv, QueryLoads
<1>8. QueryControls'
    BY <1>3, <1>4 DEF QueryInv, QueryControls, Query!Is
<1> QED  BY <1>5, <1>6, <1>7, <1>8 DEF QueryInv

LEMMA QueryMoves ==
    ASSUME Query!QueryAssumption, QueryInv, Query!QueryNext
    PROVE  QueryInv'
    BY Generates, VehicleIsRead, Unchooses, Changes, Chooses, QueryAnswers, QueryFails DEF Query!QueryNext

LEMMA QueryRests ==
    ASSUME QueryInv, UNCHANGED <<s1, s2, s3, s4, s5, s6, s7, s8>>
    PROVE  QueryInv'
    BY DEF QueryInv, QueryTypes, QueryRows, QueryLoads, QueryControls, Query!Is

LEMMA QueryAsPromised ==
    ASSUME Query!QueryAssumption, QueryInv
    PROVE  Query!QueryTypeOK /\ Query!QueryHolds
<1>1. Query!QueryTypeOK
    BY DEF QueryInv, QueryTypes, Query!QueryTypeOK, Query!Reports
<1>2. Query!LastAskedIsShown
    <2>1. s1 \in Query!Reports \cup {"report"} => ~s7.overlap /\ ~(Len(s5) >= 2) /\ Len(s5) \in Nat
        BY DEF QueryInv, QueryTypes, QueryLoads
    <2> QED  BY <2>1 DEF QueryInv, QueryRows, Query!LastAskedIsShown
<1>3. Query!ControlsMatchRows
    <2> SUFFICES ASSUME s5 = <<>>, ~s7.behind, s6 # None, NEW c \in Query!Is.asksOn
                 PROVE  s6[c] = s3[c]
        BY DEF Query!ControlsMatchRows
    <2>1. s6 = s7.last
        BY DEF QueryInv, QueryRows
    <2>2. s1 = "messages" => c = "page"
        BY PageFacts DEF QueryInv, QueryTypes
    <2> QED  BY <2>1, <2>2 DEF QueryInv, QueryControls
<1>4. Query!PageExists
    BY DEF QueryInv, QueryControls, Query!PageExists
<1>5. Query!LoadingIsTold
    BY DEF QueryInv, QueryLoads, Query!LoadingIsTold
<1> QED  BY <1>1, <1>2, <1>3, <1>4, <1>5 DEF Query!QueryHolds

-----------------------------------------------------------------------------
(* The onboarding of devices: the form, its submission and what it took.   *)
Kept == [ForOnboarding.tiers -> Nat]
Numbers == ForOnboarding.imeis \cup {None}
Takers == ForOnboarding.mails \cup Onboard!Orgs \cup {None}
OnboardPages ==
    [step : 1..3, tier : ForOnboarding.tiers, quota : Kept \cup {None}, rows : Seq(Numbers), who : Takers,
     upload : BOOLEAN, submitting : BOOLEAN, leaving : BOOLEAN, told : BOOLEAN,
     error : Onboard!Results \cup {None, "step1", "lost"}]
Submissions ==
    [rows : Seq(Numbers), tier : ForOnboarding.tiers, who : Takers, result : Onboard!Results \cup {None}, there : Nat]
OnboardNotes ==
    [checked : Kept \cup {None}, lost : BOOLEAN, again : BOOLEAN, edited : BOOLEAN,
     mine : SUBSET ForOnboarding.imeis, last : SUBSET Numbers]

OnboardTypes ==
    /\ s1 \in {"dealer", "superadmin"}
    /\ s2 \in [Onboard!Orgs -> [ForOnboarding.tiers -> 0..ForOnboarding.mostLimit]]
    /\ s3 \in [ForOnboarding.imeis -> [org : Onboard!Orgs, tier : ForOnboarding.tiers] \cup {None}]
    /\ \A m \in ForOnboarding.imeis : s3[m] # None => m \in s4
    /\ s4 \subseteq ForOnboarding.imeis \cup ForOnboarding.mails
    /\ s5 \in OnboardPages /\ Len(s5.rows) <= ForOnboarding.mostRows
    /\ s6 \in [asked : Nat, answers : SUBSET Kept]
    /\ s7 = <<>> \/ \E s \in Submissions : s7 = <<s>>
    /\ s8 \in OnboardNotes
    /\ s9 \in Nat /\ s9 <= ForOnboarding.acts

(* What the page and its submission have in common. *)
FormInv ==
    /\ s5.submitting <=> s7 # <<>>
    /\ s5.step = 1 => s7 = <<>> /\ s8.mine = {} /\ ~s5.leaving /\ ~s5.told
    /\ s5.step = 3 => s5.leaving
    /\ s7 # <<>> => /\ ~s5.told /\ s5.error = None
                    /\ s5.leaving => s8.again
                    /\ s7[1].rows = s5.rows \/ s8.edited
                    /\ None \notin Onboard!Ids(s7[1]) => ~Onboard!Blanks

CheckInv ==
    /\ s5.step # 1 /\ s1 = "dealer" /\ s8.checked # None => Len(s5.rows) <= s8.checked[s5.tier]
    /\ s7 # <<>> =>
        /\ Len(s7[1].rows) = Len(s5.rows) /\ s7[1].tier = s5.tier
        /\ s7[1].result = "quota" =>
               s1 = "dealer" /\ (Onboard!OrgFor(s7[1].who) = ForOnboarding.own => Len(s7[1].rows) > s7[1].there)
        /\ s7[1].result = "none" => Onboard!Ids(s7[1]) \subseteq s8.mine

RowsOf == {s5.rows[i] : i \in DOMAIN s5.rows}
MineInv ==
    /\ s8.mine # {} => ~Onboard!Blanks /\ (s8.lost \/ s5.leaving \/ (s7 # <<>> /\ s7[1].result = "none"))
    /\ s5.leaving => RowsOf \subseteq s8.mine \/ s8.edited \/ s8.again
    /\ s5.told => s8.last \subseteq s8.mine
    /\ s5.error \notin {None, "lost"} /\ s5.step = 2 => s8.last \cap s8.mine = {} \/ s8.lost \/ s8.again

OnboardInv == OnboardTypes /\ FormInv /\ CheckInv /\ MineInv

LEMMA OnboardNumbers ==
    ASSUME Onboard!OnboardAssumption
    PROVE  /\ {ForOnboarding.mostRows, ForOnboarding.mostLimit, ForOnboarding.acts} \subseteq Nat
           /\ IsFiniteSet(ForOnboarding.imeis) /\ ForOnboarding.tiers # {}
           /\ None \notin ForOnboarding.imeis \cup ForOnboarding.mails \cup Onboard!Orgs \cup Onboard!Results
           /\ ForOnboarding.own \in Onboard!Orgs
    BY DEF Onboard!OnboardAssumption, Onboard!Orgs, Onboard!IsFiniteSet, IsFiniteSet

LEMMA AvailableIsNumber ==
    ASSUME Onboard!OnboardAssumption, OnboardTypes, NEW o \in Onboard!Orgs, NEW t \in ForOnboarding.tiers
    PROVE  Onboard!Available(o, t) \in Nat
<1>1. Onboard!Used(o, t) \in Nat
    <2> DEFINE U == {m \in ForOnboarding.imeis : s3[m] = [org |-> o, tier |-> t]}
    <2>1. Cardinality(U) \in Nat
        BY OnboardNumbers, FS_Subset, FS_CardinalityType
    <2>2. Onboard!Cardinality(U) = Cardinality(U)
        BY Zenon DEF Onboard!Cardinality, Cardinality
    <2> QED  BY <2>1, <2>2 DEF Onboard!Used
<1>2. s2[o][t] \in Nat
    BY OnboardNumbers DEF OnboardTypes
<1> QED  BY <1>1, <1>2 DEF Onboard!Available

LEMMA OnboardBegins ==
    ASSUME Onboard!OnboardAssumption, Onboard!OnboardInit
    PROVE  OnboardInv
<1>1. /\ s2 \in [Onboard!Orgs -> [ForOnboarding.tiers -> 0..ForOnboarding.mostLimit]]
      /\ s1 \in {"dealer", "superadmin"}
    BY DEF Onboard!OnboardInit, Onboard!OnboardAssumption, Onboard!Orgs
<1>2. (CHOOSE t \in ForOnboarding.tiers : TRUE) \in ForOnboarding.tiers
    BY OnboardNumbers
<1>3. /\ s5 \in OnboardPages /\ s5.step = 1 /\ s5.rows = <<>> /\ ~s5.submitting /\ ~s5.leaving /\ ~s5.told /\ s5.error = None
    BY <1>2 DEF Onboard!OnboardInit, OnboardPages, Takers, Numbers
<1>4. s6 \in [asked : Nat, answers : SUBSET Kept]
    <2>1. s6 = [asked |-> IF s1 = "dealer" THEN 1 ELSE 0, answers |-> {}]
        BY DEF Onboard!OnboardInit
    <2>2. (IF s1 = "dealer" THEN 1 ELSE 0) \in Nat
        OBVIOUS
    <2> QED  BY <2>1, <2>2
<1>5. s3 = [m \in ForOnboarding.imeis |-> None] /\ s4 = {} /\ s7 = <<>> /\ s9 = 0
    BY DEF Onboard!OnboardInit
<1>6. /\ s8 \in OnboardNotes /\ s8.mine = {} /\ s8.last = {}
    BY DEF Onboard!OnboardInit, OnboardNotes
<1>7. OnboardTypes
    BY <1>1, <1>3, <1>4, <1>5, <1>6, OnboardNumbers DEF OnboardTypes
<1>8. FormInv /\ CheckInv /\ MineInv
    BY <1>3, <1>5, <1>6 DEF FormInv, CheckInv, MineInv
<1> QED  BY <1>7, <1>8 DEF OnboardInv

(* What leaves the page, its submission and the notes alone.               *)
LEMMA PageUntouched ==
    ASSUME OnboardInv, OnboardTypes', UNCHANGED <<s1, s5, s7, s8>>
    PROVE  OnboardInv'
    BY DEF OnboardInv, FormInv, CheckInv, MineInv, RowsOf, Onboard!Ids, Onboard!Blanks, Onboard!OrgFor

LEMMA QuotaMoves ==
    ASSUME Onboard!OnboardAssumption, OnboardInv, Onboard!getDeviceQuota \/ Onboard!QuotaFails
    PROVE  OnboardInv'
<1>1. s6.asked \in Nat /\ s6.asked > 0 /\ s6.asked - 1 \in Nat /\ s6.answers \subseteq Kept
    BY DEF OnboardInv, OnboardTypes, Onboard!getDeviceQuota, Onboard!QuotaFails
<1>2. s6' \in [asked : Nat, answers : SUBSET Kept]
    <2>1. CASE Onboard!getDeviceQuota
        <3> DEFINE q == [t \in ForOnboarding.tiers |-> Onboard!Available(ForOnboarding.own, t)]
        <3>1. q \in Kept
            BY AvailableIsNumber, OnboardNumbers DEF OnboardInv, Kept
        <3>2. s6' = [asked |-> s6.asked - 1, answers |-> s6.answers \cup {q}]
            BY <2>1 DEF Onboard!getDeviceQuota
        <3> HIDE DEF q
        <3> QED  BY <1>1, <3>1, <3>2
    <2>2. CASE Onboard!QuotaFails
        BY <1>1, <2>2 DEF Onboard!QuotaFails, OnboardInv, OnboardTypes
    <2> QED  BY <2>1, <2>2
<1>3. UNCHANGED <<s1, s2, s3, s4, s5, s7, s8, s9>>
    BY DEF Onboard!getDeviceQuota, Onboard!QuotaFails
<1>4. OnboardTypes'
    BY <1>2, <1>3 DEF OnboardInv, OnboardTypes
<1> QED  BY <1>3, <1>4, PageUntouched

LEMMA OthersMove ==
    ASSUME Onboard!OnboardAssumption, OnboardInv,
           \/ \E o \in Onboard!Orgs, t \in ForOnboarding.tiers, n \in 0..ForOnboarding.mostLimit : Onboard!OtherLimits(o, t, n)
           \/ \E m \in ForOnboarding.imeis : \E o \in Onboard!Orgs, t \in ForOnboarding.tiers : Onboard!OtherOnboards(m, o, t)
           \/ \E m \in ForOnboarding.imeis : Onboard!OtherDeletes(m)
    PROVE  OnboardInv'
<1>1. UNCHANGED <<s1, s5, s6, s7, s8>> /\ s9' = s9 + 1 /\ s9 < ForOnboarding.acts
    BY DEF Onboard!OtherLimits, Onboard!OtherOnboards, Onboard!OtherDeletes, Onboard!Act
<1>2. /\ s2' \in [Onboard!Orgs -> [ForOnboarding.tiers -> 0..ForOnboarding.mostLimit]]
      /\ s3' \in [ForOnboarding.imeis -> [org : Onboard!Orgs, tier : ForOnboarding.tiers] \cup {None}]
      /\ \A m \in ForOnboarding.imeis : s3'[m] # None => m \in s4'
      /\ s4' \subseteq ForOnboarding.imeis \cup ForOnboarding.mails
    <2>1. ASSUME NEW o \in Onboard!Orgs, NEW t \in ForOnboarding.tiers, NEW n \in 0..ForOnboarding.mostLimit,
                 Onboard!OtherLimits(o, t, n)
          PROVE  <1>2!:
        BY <2>1 DEF OnboardInv, OnboardTypes, Onboard!OtherLimits
    <2>2. ASSUME NEW m \in ForOnboarding.imeis, NEW o \in Onboard!Orgs, NEW t \in ForOnboarding.tiers,
                 Onboard!OtherOnboards(m, o, t)
          PROVE  <1>2!:
        BY <2>2 DEF OnboardInv, OnboardTypes, Onboard!OtherOnboards
    <2>3. ASSUME NEW m \in ForOnboarding.imeis, Onboard!OtherDeletes(m)
          PROVE  <1>2!:
        BY <2>3 DEF OnboardInv, OnboardTypes, Onboard!OtherDeletes
    <2> QED  BY <2>1, <2>2, <2>3
<1>3. s9' \in Nat /\ s9' <= ForOnboarding.acts
    BY <1>1, OnboardNumbers DEF OnboardInv, OnboardTypes
<1>4. OnboardTypes'
    BY <1>1, <1>2, <1>3 DEF OnboardInv, OnboardTypes
<1> QED  BY <1>1, <1>4, PageUntouched

(* Nothing of the page's rows and flags changes, and no request of it.     *)
LEMMA QuotaArrived ==
    ASSUME Onboard!OnboardAssumption, OnboardInv, NEW q \in s6.answers, Onboard!QuotaArrives(q)
    PROVE  OnboardInv'
<1>1. /\ s6' = [s6 EXCEPT !.answers = @ \ {q}] /\ s5' = [s5 EXCEPT !.quota = q]
      /\ UNCHANGED <<s1, s2, s3, s4, s7, s8, s9>>
    BY DEF Onboard!QuotaArrives
<1>2. s6' \in [asked : Nat, answers : SUBSET Kept] /\ q \in Kept
    BY <1>1 DEF OnboardInv, OnboardTypes
<1>3. /\ s5' \in OnboardPages /\ s5'.step = s5.step /\ s5'.tier = s5.tier /\ s5'.rows = s5.rows
      /\ s5'.submitting = s5.submitting /\ s5'.leaving = s5.leaving /\ s5'.told = s5.told /\ s5'.error = s5.error
    BY <1>1, <1>2 DEF OnboardInv, OnboardTypes, OnboardPages
<1>4. OnboardTypes'
    BY <1>1, <1>2, <1>3 DEF OnboardInv, OnboardTypes
<1>5. FormInv' /\ CheckInv' /\ MineInv'
    BY <1>1, <1>3 DEF OnboardInv, FormInv, CheckInv, MineInv, RowsOf, Onboard!Ids, Onboard!Blanks, Onboard!OrgFor
<1> QED  BY <1>4, <1>5 DEF OnboardInv

LEMMA TierChosen ==
    ASSUME Onboard!OnboardAssumption, OnboardInv, NEW t \in ForOnboarding.tiers, Onboard!ChooseTier(t)
    PROVE  OnboardInv'
<1>1. /\ s5.step = 1 /\ s9' = s9 + 1 /\ s9 < ForOnboarding.acts /\ s5' = [s5 EXCEPT !.tier = t]
      /\ s6' = IF s1 = "dealer" THEN [s6 EXCEPT !.asked = @ + 1] ELSE s6
      /\ UNCHANGED <<s1, s2, s3, s4, s7, s8>>
    BY DEF Onboard!ChooseTier, Onboard!Act
<1>2. s6' \in [asked : Nat, answers : SUBSET Kept]
    <2>1. s6 \in [asked : Nat, answers : SUBSET Kept] /\ s6.asked + 1 \in Nat
        BY DEF OnboardInv, OnboardTypes
    <2> QED  BY <1>1, <2>1
<1>3. /\ s5' \in OnboardPages /\ s5'.step = s5.step /\ s5'.rows = s5.rows
      /\ s5'.submitting = s5.submitting /\ s5'.leaving = s5.leaving /\ s5'.told = s5.told /\ s5'.error = s5.error
    BY <1>1 DEF OnboardInv, OnboardTypes, OnboardPages
<1>4. s9' \in Nat /\ s9' <= ForOnboarding.acts
    BY <1>1, OnboardNumbers DEF OnboardInv, OnboardTypes
<1>5. OnboardTypes'
    BY <1>1, <1>2, <1>3, <1>4 DEF OnboardInv, OnboardTypes
<1>6. FormInv' /\ CheckInv' /\ MineInv'
    BY <1>1, <1>3 DEF OnboardInv, FormInv, CheckInv, MineInv, RowsOf, Onboard!Ids, Onboard!Blanks
<1> QED  BY <1>5, <1>6 DEF OnboardInv

LEMMA Step1Submitted ==
    ASSUME Onboard!OnboardAssumption, OnboardInv, NEW n \in 1..ForOnboarding.mostRows, Onboard!handleStep1Submit(n)
    PROVE  OnboardInv'
<1>1. s5.step = 1 /\ s7 = <<>> /\ s8.mine = {} /\ ~s5.leaving /\ ~s5.told /\ UNCHANGED <<s1, s2, s3, s4, s6, s7, s9>>
    BY DEF Onboard!handleStep1Submit, OnboardInv, FormInv
<1>2. CASE Onboard!TooMany(n)
    <2>1. s5' = [s5 EXCEPT !.error = "step1"] /\ s8' = s8
        BY <1>2 DEF Onboard!handleStep1Submit
    <2>2. /\ s5' \in OnboardPages /\ s5'.step = s5.step /\ s5'.rows = s5.rows /\ s5'.tier = s5.tier
          /\ s5'.submitting = s5.submitting /\ s5'.leaving = s5.leaving /\ s5'.told = s5.told
        BY <2>1 DEF OnboardInv, OnboardTypes, OnboardPages
    <2>3. OnboardTypes'
        BY <1>1, <2>1, <2>2 DEF OnboardInv, OnboardTypes
    <2>4. FormInv' /\ CheckInv' /\ MineInv'
        BY <1>1, <2>1, <2>2 DEF OnboardInv, FormInv, CheckInv, MineInv
    <2> QED  BY <2>3, <2>4 DEF OnboardInv
<1>3. CASE ~Onboard!TooMany(n)
    <2> DEFINE rows == [i \in 1..n |-> None]
    <2>1. /\ s5' = [s5 EXCEPT !.error = None, !.step = 2, !.rows = rows]
          /\ s8' = [s8 EXCEPT !.checked = s5.quota]
        BY <1>3 DEF Onboard!handleStep1Submit
    <2>2. n \in Nat /\ n <= ForOnboarding.mostRows
        BY OnboardNumbers
    <2>3. rows \in Seq(Numbers) /\ Len(rows) = n
        BY <2>2 DEF Numbers
    <2> HIDE DEF rows
    <2>4. /\ s5' \in OnboardPages /\ s5'.step = 2 /\ s5'.rows = rows /\ s5'.tier = s5.tier /\ s5'.error = None
          /\ s5'.submitting = s5.submitting /\ s5'.leaving = s5.leaving /\ s5'.told = s5.told
        <3> DEFINE x == [s5 EXCEPT !.error = None, !.step = 2]
        <3>1. /\ x \in OnboardPages /\ x.step = 2 /\ x.rows = s5.rows /\ x.tier = s5.tier /\ x.error = None
              /\ x.submitting = s5.submitting /\ x.leaving = s5.leaving /\ x.told = s5.told
            <4>1. s5 \in OnboardPages /\ 2 \in 1..3
                BY DEF OnboardInv, OnboardTypes
            <4> QED  BY <4>1 DEF OnboardPages
        <3>2. s5' = [x EXCEPT !.rows = rows]
            BY <2>1
        <3> HIDE DEF x
        <3> QED  BY <2>3, <3>1, <3>2 DEF OnboardPages
    <2>5. /\ s8' \in OnboardNotes /\ s8'.checked = s5.quota /\ s8'.mine = s8.mine /\ s8'.last = s8.last
        BY <2>1 DEF OnboardInv, OnboardTypes, OnboardNotes, OnboardPages
    <2>6. OnboardTypes'
        BY <1>1, <2>2, <2>3, <2>4, <2>5 DEF OnboardInv, OnboardTypes
    <2>7. s1 = "dealer" /\ s5.quota # None => n <= s5.quota[s5.tier]
        <3>1. s1 = "dealer" /\ s5.quota # None => ~(n > s5.quota[s5.tier])
            BY <1>3 DEF Onboard!TooMany
        <3>2. s5.quota # None => s5.quota[s5.tier] \in Nat
            BY DEF OnboardInv, OnboardTypes, OnboardPages, Kept
        <3> QED  BY <2>2, <3>1, <3>2
    <2>8. FormInv' /\ CheckInv' /\ MineInv'
        BY <1>1, <2>3, <2>4, <2>5, <2>7 DEF OnboardInv, FormInv, CheckInv, MineInv
    <2> QED  BY <2>6, <2>8 DEF OnboardInv
<1> QED  BY <1>2, <1>3

LEMMA RowChanged ==
    ASSUME Onboard!OnboardAssumption, OnboardInv, NEW i \in 1..ForOnboarding.mostRows, NEW m \in ForOnboarding.imeis,
           Onboard!updateDevice(i, m)
    PROVE  OnboardInv'
<1> DEFINE rows == [s5.rows EXCEPT ![i] = m]
<1>1. /\ s5.step = 2 /\ i \in DOMAIN s5.rows /\ s9' = s9 + 1 /\ s9 < ForOnboarding.acts
      /\ s5' = [s5 EXCEPT !.rows = rows]
      /\ s8' = [s8 EXCEPT !.edited = @ \/ s5.leaving \/ s5.submitting]
      /\ UNCHANGED <<s1, s2, s3, s4, s6, s7>>
    BY DEF Onboard!updateDevice, Onboard!Act
<1>2. s5.rows \in Seq(Numbers)
    BY DEF OnboardInv, OnboardTypes, OnboardPages
<1>3. /\ rows \in Seq(Numbers) /\ Len(rows) = Len(s5.rows) /\ DOMAIN rows = DOMAIN s5.rows
      /\ \A k \in DOMAIN rows : rows[k] = IF k = i THEN m ELSE s5.rows[k]
    BY <1>1, <1>2 DEF Numbers
<1> HIDE DEF rows
<1>4. /\ s5' \in OnboardPages /\ s5'.step = s5.step /\ s5'.rows = rows /\ s5'.tier = s5.tier /\ s5'.error = s5.error
      /\ s5'.submitting = s5.submitting /\ s5'.leaving = s5.leaving /\ s5'.told = s5.told
    BY <1>1, <1>3 DEF OnboardInv, OnboardTypes, OnboardPages
<1>5. /\ s8' \in OnboardNotes /\ s8'.checked = s8.checked /\ s8'.lost = s8.lost /\ s8'.again = s8.again
      /\ s8'.mine = s8.mine /\ s8'.last = s8.last
      /\ s5.leaving \/ s5.submitting => s8'.edited
    BY <1>1 DEF OnboardInv, OnboardTypes, OnboardNotes
<1>6. s9' \in Nat /\ s9' <= ForOnboarding.acts
    BY <1>1, OnboardNumbers DEF OnboardInv, OnboardTypes
<1>7. OnboardTypes'
    BY <1>1, <1>3, <1>4, <1>5, <1>6 DEF OnboardInv, OnboardTypes
<1>8. ~Onboard!Blanks => ~Onboard!Blanks'
    BY <1>3, <1>4, OnboardNumbers DEF Onboard!Blanks
<1>9. FormInv'
    BY <1>1, <1>4, <1>5, <1>8 DEF OnboardInv, FormInv, Onboard!Ids
<1>10. CheckInv'
    BY <1>1, <1>3, <1>4, <1>5 DEF OnboardInv, CheckInv, Onboard!Ids, Onboard!OrgFor
<1>11. MineInv'
    BY <1>1, <1>4, <1>5, <1>8 DEF OnboardInv, MineInv
<1> QED  BY <1>7, <1>9, <1>10, <1>11 DEF OnboardInv

LEMMA UserChosen ==
    ASSUME Onboard!OnboardAssumption, OnboardInv,
           \/ Onboard!ChooseUpload
           \/ \E who \in ForOnboarding.mails \cup Onboard!Orgs : Onboard!ChooseUser(who)
    PROVE  OnboardInv'
<1>1. /\ UNCHANGED <<s1, s2, s3, s4, s6, s7, s8>>
      /\ s9' = s9 \/ (s9' = s9 + 1 /\ s9 < ForOnboarding.acts)
    BY DEF Onboard!ChooseUpload, Onboard!ChooseUser, Onboard!Act
<1>2. /\ s5' \in OnboardPages /\ s5'.step = s5.step /\ s5'.rows = s5.rows /\ s5'.tier = s5.tier /\ s5'.error = s5.error
      /\ s5'.submitting = s5.submitting /\ s5'.leaving = s5.leaving /\ s5'.told = s5.told
    <2>1. s5 \in OnboardPages
        BY DEF OnboardInv, OnboardTypes
    <2>2. CASE Onboard!ChooseUpload
        BY <2>1, <2>2 DEF OnboardPages, Onboard!ChooseUpload
    <2>3. CASE \E who \in ForOnboarding.mails \cup Onboard!Orgs : Onboard!ChooseUser(who)
        <3>1. PICK who \in Takers : s5' = [s5 EXCEPT !.who = who]
            BY <2>3 DEF Onboard!ChooseUser, Takers
        <3> QED  BY <2>1, <3>1 DEF OnboardPages
    <2> QED  BY <2>2, <2>3
<1>3. s9' \in Nat /\ s9' <= ForOnboarding.acts
    BY <1>1, OnboardNumbers DEF OnboardInv, OnboardTypes
<1>4. OnboardTypes'
    BY <1>1, <1>2, <1>3 DEF OnboardInv, OnboardTypes
<1>5. FormInv' /\ CheckInv' /\ MineInv'
    BY <1>1, <1>2 DEF OnboardInv, FormInv, CheckInv, MineInv, RowsOf, Onboard!Ids, Onboard!Blanks, Onboard!OrgFor
<1> QED  BY <1>4, <1>5 DEF OnboardInv

LEMMA RowsSubmitted ==
    ASSUME Onboard!OnboardAssumption, OnboardInv, Onboard!handleSubmit
    PROVE  OnboardInv'
<1>1. /\ s5.step = 2 /\ ~s5.submitting /\ s9' = s9 + 1 /\ s9 < ForOnboarding.acts
      /\ UNCHANGED <<s1, s2, s3, s4, s6>>
    BY DEF Onboard!handleSubmit, Onboard!Act
<1>2. s7 = <<>> /\ s5 \in OnboardPages
    BY <1>1 DEF OnboardInv, OnboardTypes, FormInv
<1>3. s9' \in Nat /\ s9' <= ForOnboarding.acts
    BY <1>1, OnboardNumbers DEF OnboardInv, OnboardTypes
<1>4. CASE ~s5.upload /\ Onboard!Blanks
    <2>1. s5' = [s5 EXCEPT !.error = "blank", !.told = FALSE] /\ UNCHANGED <<s7, s8>>
        BY <1>4 DEF Onboard!handleSubmit
    <2>2. /\ s5' \in OnboardPages /\ s5'.step = s5.step /\ s5'.rows = s5.rows /\ s5'.tier = s5.tier
          /\ s5'.submitting = s5.submitting /\ s5'.leaving = s5.leaving /\ ~s5'.told
        BY <1>2, <2>1 DEF OnboardPages, Onboard!Results
    <2>3. OnboardTypes'
        BY <1>1, <1>3, <2>1, <2>2 DEF OnboardInv, OnboardTypes
    <2>4. s8.mine = {}
        BY <1>4 DEF OnboardInv, MineInv
    <2>5. FormInv' /\ CheckInv' /\ MineInv'
        <3>1. FormInv'
            BY <1>1, <1>2, <2>1, <2>2 DEF OnboardInv, FormInv
        <3>2. CheckInv'
            BY <1>1, <1>2, <2>1, <2>2 DEF OnboardInv, CheckInv
        <3>3. MineInv'
            BY <2>1, <2>2, <2>4 DEF OnboardInv, MineInv, RowsOf
        <3> QED  BY <3>1, <3>2, <3>3
    <2> QED  BY <2>3, <2>5 DEF OnboardInv
<1>5. CASE ~(~s5.upload /\ Onboard!Blanks)
    <2> DEFINE s == [rows |-> s5.rows, tier |-> s5.tier, who |-> s5.who, result |-> None, there |-> 0]
    <2>1. /\ s5' = [s5 EXCEPT !.error = None, !.told = FALSE, !.submitting = TRUE] /\ s7' = <<s>>
          /\ s8' = [s8 EXCEPT !.again = @ \/ s5.leaving, !.edited = FALSE]
        BY <1>5 DEF Onboard!handleSubmit
    <2>2. s \in Submissions /\ s.rows = s5.rows /\ s.tier = s5.tier /\ s.result = None
        BY <1>2 DEF Submissions, OnboardPages
    <2> HIDE DEF s
    <2>3. s7' # <<>> /\ s7'[1] = s
        BY <2>1
    <2>4. /\ s5' \in OnboardPages /\ s5'.step = s5.step /\ s5'.rows = s5.rows /\ s5'.tier = s5.tier
          /\ s5'.submitting /\ s5'.leaving = s5.leaving /\ ~s5'.told /\ s5'.error = None
        BY <1>2, <2>1 DEF OnboardPages
    <2>5. /\ s8' \in OnboardNotes /\ s8'.checked = s8.checked /\ s8'.lost = s8.lost
          /\ s8'.mine = s8.mine /\ s8'.last = s8.last
          /\ s5.leaving \/ s8.again => s8'.again
        BY <2>1 DEF OnboardInv, OnboardTypes, OnboardNotes
    <2>6. OnboardTypes'
        BY <1>1, <1>3, <2>1, <2>2, <2>4, <2>5 DEF OnboardInv, OnboardTypes
    <2>7. None \notin Onboard!Ids(s) => ~Onboard!Blanks'
        BY <2>2, <2>4 DEF Onboard!Ids, Onboard!Blanks
    <2>8. FormInv'
        BY <1>1, <2>2, <2>3, <2>4, <2>5, <2>7 DEF OnboardInv, FormInv, Onboard!Ids
    <2>9. s.result \notin {"quota", "none"}
        BY <2>2, OnboardNumbers DEF Onboard!Results
    <2>10. CheckInv'
        BY <1>1, <2>2, <2>3, <2>4, <2>5, <2>9 DEF OnboardInv, CheckInv
    <2>11. MineInv'
        BY <1>2, <2>4, <2>5 DEF OnboardInv, MineInv, Onboard!Blanks
    <2> QED  BY <2>6, <2>8, <2>10, <2>11 DEF OnboardInv
<1> QED  BY <1>4, <1>5

(* What a refusal says of the submission.                                  *)
LEMMA RefusalSays ==
    ASSUME Onboard!OnboardAssumption, OnboardTypes, NEW s \in Submissions
    PROVE  /\ Onboard!Refusal(s) \in Onboard!Results
           /\ Onboard!Refusal(s) = "none" => s.who \in ForOnboarding.mails \cup Onboard!Orgs /\ None \notin Onboard!Ids(s)
           /\ Onboard!Refusal(s) = "quota" => s1 = "dealer" /\ Len(s.rows) > Onboard!Available(Onboard!OrgFor(s.who), s.tier)
<1>1. s.who \in Takers /\ None \notin s4
    BY OnboardNumbers DEF Submissions, OnboardTypes
<1>2. CASE s.who = None
    BY <1>1, <1>2 DEF Onboard!Refusal, Onboard!Results
<1>3. CASE s.who # None /\ s.who \in s4
    BY <1>1, <1>3 DEF Onboard!Refusal, Onboard!Results
<1>4. CASE s.who # None /\ s.who \notin s4 /\ None \in Onboard!Ids(s)
    BY <1>1, <1>4 DEF Onboard!Refusal, Onboard!Results
<1>5. CASE s.who # None /\ s.who \notin s4 /\ None \notin Onboard!Ids(s)
    <2>1. Onboard!Refusal(s) =
             IF s1 = "dealer" /\ Len(s.rows) > Onboard!Available(Onboard!OrgFor(s.who), s.tier) THEN "quota"
             ELSE IF Onboard!Twice(s) \/ Onboard!Ids(s) \cap s4 # {} THEN "registered" ELSE "none"
        BY <1>5 DEF Onboard!Refusal
    <2>2. s.who \in ForOnboarding.mails \cup Onboard!Orgs
        BY <1>1, <1>5 DEF Takers
    <2> QED  BY <1>5, <2>1, <2>2 DEF Onboard!Results
<1> QED  BY <1>2, <1>3, <1>4, <1>5

LEMMA Registers ==
    ASSUME Onboard!OnboardAssumption, OnboardInv, Onboard!onboardDevices
    PROVE  OnboardInv'
<1>1. PICK s \in Submissions : s7 = <<s>>
    BY DEF OnboardInv, OnboardTypes, Onboard!onboardDevices
<1> DEFINE result == Onboard!Refusal(s)
           there == Onboard!Available(ForOnboarding.own, s.tier)
           x == [s EXCEPT !.result = result, !.there = there]
           org == Onboard!OrgFor(s.who)
           ids == Onboard!Ids(s)
<1>2. /\ s.result = None /\ s7' = <<x>> /\ UNCHANGED <<s1, s2, s5, s6, s9>>
      /\ IF result = "none"
         THEN /\ s3' = [m \in ForOnboarding.imeis |-> IF m \in ids THEN [org |-> org, tier |-> s.tier] ELSE s3[m]]
              /\ s4' = s4 \cup ids \cup ({s.who} \cap ForOnboarding.mails)
              /\ s8' = [s8 EXCEPT !.mine = @ \cup ids]
         ELSE UNCHANGED <<s3, s4, s8>>
    BY <1>1 DEF Onboard!onboardDevices
<1>3. s.tier \in ForOnboarding.tiers /\ s.rows \in Seq(Numbers) /\ s.who \in Takers /\ OnboardTypes
    BY DEF Submissions, OnboardInv
<1>4. there \in Nat
    BY <1>3, AvailableIsNumber, OnboardNumbers
<1>5. /\ result \in Onboard!Results
      /\ result = "none" => s.who \in ForOnboarding.mails \cup Onboard!Orgs /\ None \notin ids
      /\ result = "quota" => s1 = "dealer" /\ Len(s.rows) > Onboard!Available(org, s.tier)
    BY <1>3, RefusalSays
<1>6. ids \subseteq Numbers
    BY <1>3 DEF Onboard!Ids
<1>7. s.who \in ForOnboarding.mails \cup Onboard!Orgs => org \in Onboard!Orgs
    BY OnboardNumbers DEF Onboard!OrgFor
<1>8. result = "quota" => s1 = "dealer" /\ (org = ForOnboarding.own => Len(s.rows) > there)
    BY <1>5
<1> HIDE DEF result, there
<1>9. x \in Submissions /\ x.rows = s.rows /\ x.tier = s.tier /\ x.who = s.who /\ x.result = result /\ x.there = there
    BY <1>4, <1>5 DEF Submissions
<1> HIDE DEF x
<1>10. s7 # <<>> /\ s7[1] = s /\ s7' # <<>> /\ s7'[1] = x
    BY <1>1, <1>2
<1>11. Onboard!Ids(x) = ids /\ Onboard!OrgFor(x.who) = org
    BY <1>9 DEF Onboard!Ids
<1> HIDE DEF ids, org
<1>12. /\ s8' \in OnboardNotes /\ s8'.checked = s8.checked /\ s8'.lost = s8.lost /\ s8'.again = s8.again
       /\ s8'.edited = s8.edited /\ s8'.last = s8.last /\ s8.mine \subseteq s8'.mine
       /\ result # "none" => s8'.mine = s8.mine
       /\ result = "none" => s8'.mine = s8.mine \cup ids
    BY <1>2, <1>5, <1>6 DEF OnboardInv, OnboardTypes, OnboardNotes, Numbers
<1>13. /\ s3' \in [ForOnboarding.imeis -> [org : Onboard!Orgs, tier : ForOnboarding.tiers] \cup {None}]
       /\ \A m \in ForOnboarding.imeis : s3'[m] # None => m \in s4'
       /\ s4' \subseteq ForOnboarding.imeis \cup ForOnboarding.mails
    <2>1. CASE result = "none"
        <3>1. [org |-> org, tier |-> s.tier] \in [org : Onboard!Orgs, tier : ForOnboarding.tiers] /\ ids \subseteq ForOnboarding.imeis
            BY <1>3, <1>5, <1>6, <1>7, <2>1 DEF Numbers
        <3> QED  BY <1>2, <2>1, <3>1 DEF OnboardInv, OnboardTypes
    <2>2. CASE result # "none"
        BY <1>2, <2>2 DEF OnboardInv, OnboardTypes
    <2> QED  BY <2>1, <2>2
<1>14. OnboardTypes'
    BY <1>2, <1>9, <1>12, <1>13 DEF OnboardInv, OnboardTypes
<1>15. FormInv'
    BY <1>2, <1>9, <1>10, <1>11, <1>12 DEF OnboardInv, FormInv, Onboard!Blanks, ids
<1>16. CheckInv'
    <2>1. result = "none" => ids \subseteq s8'.mine
        BY <1>12
    <2>2. Len(s.rows) = Len(s5.rows) /\ s.tier = s5.tier
        BY <1>10 DEF OnboardInv, CheckInv
    <2> QED  BY <1>2, <1>8, <1>9, <1>10, <1>11, <1>12, <2>1, <2>2 DEF OnboardInv, CheckInv
<1>17. MineInv'
    <2>1. s5.error = None /\ ~s5.told /\ (None \notin ids => ~Onboard!Blanks)
        BY <1>10 DEF OnboardInv, FormInv, ids
    <2>2. Onboard!Blanks' = Onboard!Blanks /\ RowsOf' = RowsOf
        BY <1>2 DEF Onboard!Blanks, RowsOf
    <2>3. s8'.mine # {} => ~Onboard!Blanks /\ (s8.lost \/ s5.leaving \/ result = "none")
        <3>1. s8.mine # {} => ~Onboard!Blanks /\ (s8.lost \/ s5.leaving)
            BY <1>2, <1>10, OnboardNumbers DEF OnboardInv, MineInv, Onboard!Results
        <3> QED  BY <1>5, <1>12, <2>1, <3>1
    <2>4. s5.leaving => RowsOf \subseteq s8'.mine \/ s8'.edited \/ s8'.again
        BY <1>12 DEF OnboardInv, MineInv
    <2> QED  BY <1>2, <1>9, <1>10, <1>12, <2>1, <2>2, <2>3, <2>4 DEF MineInv
<1> QED  BY <1>14, <1>15, <1>16, <1>17 DEF OnboardInv

LEMMA AnswerIsBack ==
    ASSUME Onboard!OnboardAssumption, OnboardInv, Onboard!Answered \/ Onboard!AnswerLost
    PROVE  OnboardInv'
<1>1. PICK s \in Submissions : s7 = <<s>>
    BY DEF OnboardInv, OnboardTypes, Onboard!Answered, Onboard!AnswerLost
<1> DEFINE ids == Onboard!Ids(s)
<1>2. s7 # <<>> /\ s7[1] = s
    BY <1>1
<1>3. /\ ~s5.told /\ s5.error = None /\ (s5.leaving => s8.again) /\ (s.rows = s5.rows \/ s8.edited)
      /\ (s5.step = 3 => s5.leaving) /\ s5.step # 1
    BY <1>2 DEF OnboardInv, FormInv
<1>4. ids \subseteq Numbers
    BY DEF Submissions, Onboard!Ids
<1>5. s.rows = s5.rows => ids = RowsOf
    BY DEF RowsOf, Onboard!Ids
<1>6. (s.result = "none" => ids \subseteq s8.mine) /\ s5 \in OnboardPages
    BY <1>2 DEF OnboardInv, OnboardTypes, CheckInv
<1> HIDE DEF ids
<1>7. CASE Onboard!AnswerLost
    <2>1. /\ s5' = [s5 EXCEPT !.submitting = FALSE, !.error = IF s5.step = 3 THEN @ ELSE "lost"]
          /\ s7' = <<>> /\ s8' = [s8 EXCEPT !.lost = TRUE, !.last = ids] /\ UNCHANGED <<s1, s2, s3, s4, s6, s9>>
        BY <1>1, <1>7 DEF Onboard!AnswerLost, ids
    <2>2. /\ s5' \in OnboardPages /\ s5'.step = s5.step /\ s5'.rows = s5.rows /\ s5'.tier = s5.tier
          /\ ~s5'.submitting /\ s5'.leaving = s5.leaving /\ s5'.told = s5.told
        BY <1>6, <2>1 DEF OnboardPages
    <2>3. /\ s8' \in OnboardNotes /\ s8'.checked = s8.checked /\ s8'.lost /\ s8'.again = s8.again
          /\ s8'.mine = s8.mine /\ s8'.last = ids /\ s8'.edited = s8.edited
        BY <1>4, <2>1 DEF OnboardInv, OnboardTypes, OnboardNotes
    <2>4. OnboardTypes'
        BY <2>1, <2>2, <2>3 DEF OnboardInv, OnboardTypes
    <2>5. FormInv' /\ CheckInv'
        BY <1>3, <2>1, <2>2, <2>3 DEF OnboardInv, FormInv, CheckInv
    <2>6. MineInv'
        BY <1>3, <2>2, <2>3 DEF OnboardInv, MineInv, RowsOf, Onboard!Blanks
    <2> QED  BY <2>4, <2>5, <2>6 DEF OnboardInv
<1>8. CASE Onboard!Answered
    <2>1. /\ s.result # None /\ s7' = <<>> /\ s8' = [s8 EXCEPT !.last = ids] /\ UNCHANGED <<s1, s2, s3, s4, s6, s9>>
          /\ s5' = IF s5.step = 3 THEN [s5 EXCEPT !.submitting = FALSE]
                   ELSE IF s.result = "none" THEN [s5 EXCEPT !.submitting = FALSE, !.told = TRUE, !.leaving = TRUE]
                   ELSE [s5 EXCEPT !.submitting = FALSE, !.error = s.result]
        BY <1>1, <1>8 DEF Onboard!Answered, ids
    <2>2. s.result \in Onboard!Results
        BY <2>1 DEF Submissions
    <2>3. /\ s5' \in OnboardPages /\ s5'.step = s5.step /\ s5'.rows = s5.rows /\ s5'.tier = s5.tier /\ ~s5'.submitting
          /\ s5.step = 3 => s5'.told = s5.told /\ s5'.leaving = s5.leaving /\ s5'.error = s5.error
          /\ s5.step # 3 /\ s.result = "none" => s5'.told /\ s5'.leaving /\ s5'.error = s5.error
          /\ s5.step # 3 /\ s.result # "none" => s5'.told = s5.told /\ s5'.leaving = s5.leaving
        BY <1>6, <2>1, <2>2 DEF OnboardPages
    <2>4. /\ s8' \in OnboardNotes /\ s8'.checked = s8.checked /\ s8'.lost = s8.lost /\ s8'.again = s8.again
          /\ s8'.mine = s8.mine /\ s8'.last = ids /\ s8'.edited = s8.edited
        BY <1>4, <2>1 DEF OnboardInv, OnboardTypes, OnboardNotes
    <2>5. OnboardTypes'
        BY <2>1, <2>3, <2>4 DEF OnboardInv, OnboardTypes
    <2>6. FormInv' /\ CheckInv'
        BY <1>3, <2>1, <2>3, <2>4 DEF OnboardInv, FormInv, CheckInv
    <2>7. RowsOf' = RowsOf /\ Onboard!Blanks' = Onboard!Blanks
        BY <2>3 DEF RowsOf, Onboard!Blanks
    <2>8. s8.mine # {} => ~Onboard!Blanks /\ (s8.lost \/ s5.leaving \/ s.result = "none")
        BY <1>2 DEF OnboardInv, MineInv
    <2>9. s5'.leaving => RowsOf \subseteq s8.mine \/ s8.edited \/ s8.again
        <3>1. CASE s5.leaving
            BY <1>3, <3>1
        <3>2. CASE ~s5.leaving
            BY <1>3, <1>5, <1>6, <2>3, <3>2
        <3> QED  BY <3>1, <3>2
    <2>10. s5'.told => ids \subseteq s8.mine
        BY <1>3, <1>6, <2>3
    <2>11. s5.step = 2 => s5'.error = None \/ ids \cap s8.mine = {} \/ s8.lost \/ s8.again
        BY <1>3, <2>3, <2>8
    <2>12. s8.mine # {} => s8.lost \/ s5'.leaving
        BY <1>3, <2>3, <2>8
    <2> HIDE DEF ids
    <2>13. MineInv'
        BY <2>3, <2>4, <2>7, <2>8, <2>9, <2>10, <2>11, <2>12 DEF MineInv
    <2> QED  BY <2>5, <2>6, <2>13 DEF OnboardInv
<1> QED  BY <1>7, <1>8

LEMMA PageIsLeft ==
    ASSUME Onboard!OnboardAssumption, OnboardInv, Onboard!Leave
    PROVE  OnboardInv'
<1>1. /\ s5.step = 2 /\ s5.leaving /\ s5' = [s5 EXCEPT !.step = 3] /\ UNCHANGED <<s1, s2, s3, s4, s6, s7, s8, s9>>
    BY DEF Onboard!Leave
<1>2. /\ s5' \in OnboardPages /\ s5'.step = 3 /\ s5'.rows = s5.rows /\ s5'.tier = s5.tier /\ s5'.error = s5.error
      /\ s5'.submitting = s5.submitting /\ s5'.leaving = s5.leaving /\ s5'.told = s5.told
    <2>1. s5 \in OnboardPages /\ 3 \in 1..3
        BY DEF OnboardInv, OnboardTypes
    <2> QED  BY <1>1, <2>1 DEF OnboardPages
<1>3. OnboardTypes'
    BY <1>1, <1>2 DEF OnboardInv, OnboardTypes
<1>4. FormInv' /\ CheckInv' /\ MineInv'
    BY <1>1, <1>2 DEF OnboardInv, FormInv, CheckInv, MineInv, RowsOf, Onboard!Ids, Onboard!Blanks, Onboard!OrgFor
<1> QED  BY <1>3, <1>4 DEF OnboardInv

LEMMA OnboardMoves ==
    ASSUME Onboard!OnboardAssumption, OnboardInv, Onboard!OnboardNext
    PROVE  OnboardInv'
    BY QuotaMoves, OthersMove, QuotaArrived, TierChosen, Step1Submitted, RowChanged, UserChosen, RowsSubmitted,
        Registers, AnswerIsBack, PageIsLeft DEF Onboard!OnboardNext

LEMMA OnboardRests ==
    ASSUME OnboardInv, UNCHANGED <<s1, s2, s3, s4, s5, s6, s7, s8, s9>>
    PROVE  OnboardInv'
<1>1. OnboardTypes'
    BY DEF OnboardInv, OnboardTypes
<1> QED  BY <1>1, PageUntouched

LEMMA OnboardAsPromised ==
    ASSUME Onboard!OnboardAssumption, OnboardInv
    PROVE  Onboard!OnboardTypeOK /\ Onboard!OnboardHolds
<1>1. s7 = <<>> \/ \E s \in Submissions : s7 = <<s>>
    BY DEF OnboardInv, OnboardTypes
<1>2. Onboard!OnboardTypeOK
    <2>1. Len(s7) <= 1
        BY <1>1
    <2>2. s1 \in {"dealer", "superadmin"} /\ s5.step \in 1..3
        BY DEF OnboardInv, OnboardTypes, OnboardPages
    <2> QED  BY <2>1, <2>2 DEF OnboardInv, OnboardTypes, FormInv, Onboard!OnboardTypeOK
<1>3. Onboard!QuotaRefusalHasCause
    <2> SUFFICES ASSUME s7 # <<>>, s7[1].result = "quota", s8.checked # None, Onboard!OrgFor(s7[1].who) = ForOnboarding.own
                 PROVE  s8.checked[s5.tier] # s7[1].there
        BY DEF Onboard!QuotaRefusalHasCause
    <2>1. s1 = "dealer" /\ Len(s7[1].rows) > s7[1].there /\ Len(s7[1].rows) = Len(s5.rows) /\ s5.step # 1
        BY DEF OnboardInv, CheckInv, FormInv
    <2>2. Len(s5.rows) <= s8.checked[s5.tier]
        BY <2>1 DEF OnboardInv, CheckInv
    <2>3. s8.checked[s5.tier] \in Nat /\ Len(s5.rows) \in Nat /\ s7[1].there \in Nat
        BY <1>1 DEF OnboardInv, OnboardTypes, OnboardPages, OnboardNotes, Kept, Submissions
    <2> QED  BY <2>1, <2>2, <2>3
<1>4. Onboard!AnswerIsTrue
    BY DEF OnboardInv, MineInv, Onboard!AnswerIsTrue
<1>5. Onboard!NothingIsLeftBehind
    BY DEF OnboardInv, FormInv, MineInv, RowsOf, Onboard!NothingIsLeftBehind
<1> QED  BY <1>2, <1>3, <1>4, <1>5 DEF Onboard!OnboardHolds

-----------------------------------------------------------------------------
(* The renewals: the dialog, the price that it was told, what is recorded  *)
(* and the years that were added.                                          *)
Amounts == [price : ForRenewals.prices, no : Nat, of : Nat]
RenewalPages ==
    [list : [ForRenewals.vehicles -> Int], open : BOOLEAN, selected : ForRenewals.vehicles \cup {None},
     loading : BOOLEAN, paying : BOOLEAN, success : BOOLEAN, amount : Amounts, opening : Nat]
Payments == [vehicle : ForRenewals.vehicles, told : Amounts, of : Nat, result : Renewal!Results \cup {None}]
Entries == [vehicle : ForRenewals.vehicles, amount : ForRenewals.prices, own : BOOLEAN]
RenewalNotes ==
    [told : Nat, lost : Nat, unread : BOOLEAN, late : BOOLEAN, settled : SUBSET [vehicle : ForRenewals.vehicles, day : Int]]

RenewalTypes ==
    /\ s1 \in 0..ForRenewals.lastTick
    /\ s2 \in [ForRenewals.vehicles -> Int]
    /\ s3 \in [amount : ForRenewals.prices, no : Nat]
    /\ s4 \in RenewalPages
    /\ s5 \in [running : SUBSET Nat, answers : SUBSET Amounts]
    /\ s6 = <<>> \/ \E p \in Payments : s6 = <<p>>
    /\ s7 \in Seq(Entries)
    /\ s8 \in RenewalNotes
    /\ s9 \in Nat /\ s9 <= ForRenewals.acts /\ s3.no <= s9

DialogInv ==
    /\ s4.open <=> s4.selected # None
    /\ s4.paying <=> s6 # <<>> \/ s4.success
    /\ s4.success => s4.open /\ s6 = <<>>
    /\ s6 # <<>> => s4.open /\ s6[1].of = s4.opening

(* What an amount says of the price was true of its change.                *)
Read(a) == a.of <= s4.opening /\ (a.of # 0 => a.no <= s3.no /\ (a.no = s3.no => a.price = s3.amount))
PriceInv ==
    /\ \A of \in s5.running : of <= s4.opening
    /\ \A a \in s5.answers : Read(a)
    /\ Read(s4.amount)
    /\ s4.open /\ ~s4.loading => s4.amount.of = s4.opening \/ s8.unread \/ s8.late
    /\ s6 # <<>> => LET p == s6[1] IN
        /\ Read(p.told)
        /\ p.told.of = p.of \/ s8.unread \/ s8.late
        /\ p.result # None => p.result.amount = p.told.price \/ p.result.no # p.told.no \/ p.told.of = 0

OwnEntries == {n \in DOMAIN s7 : s7[n].own}
Recorded == IF s6 # <<>> /\ s6[1].result # None THEN 1 ELSE 0
LedgerInv == Cardinality(OwnEntries) = s8.told + s8.lost + Recorded

YearsInv ==
    /\ \A paid \in s8.settled : s2[paid.vehicle] >= paid.day + ForRenewals.year
    /\ \A paid \in s8.settled : ~s4.success => s4.list[paid.vehicle] >= paid.day + ForRenewals.year
    /\ s6 # <<>> /\ s6[1].result # None => s2[s6[1].vehicle] >= s6[1].result.day + ForRenewals.year

RenewalInv == RenewalTypes /\ DialogInv /\ PriceInv /\ LedgerInv /\ YearsInv
(* The numbers of the assumption. *)
LEMMA RenewalNumbers ==
    ASSUME Renewal!RenewalsAssumption
    PROVE  /\ ForRenewals.day \in Nat \ {0} /\ ForRenewals.warn \in Nat /\ ForRenewals.month \in Nat
           /\ ForRenewals.year \in Nat /\ ForRenewals.warn < ForRenewals.month
           /\ ForRenewals.month + 1 < ForRenewals.year
           /\ ForRenewals.prices \subseteq Nat /\ ForRenewals.default \in ForRenewals.prices
           /\ ForRenewals.firsts \subseteq Int /\ ForRenewals.lastTick \in Nat /\ ForRenewals.acts \in Nat
           /\ None \notin ForRenewals.vehicles \cup Renewal!Results
    BY DEF Renewal!RenewalsAssumption

LEMMA FreshPage ==
    ASSUME Renewal!RenewalsAssumption, NEW list \in [ForRenewals.vehicles -> Int], NEW x, x = Renewal!Fresh(list)
    PROVE  /\ x \in RenewalPages /\ x.list = list /\ ~x.open /\ x.selected = None /\ ~x.loading /\ ~x.paying
           /\ ~x.success /\ x.amount.of = 0 /\ x.opening = 0
<1>1. [price |-> ForRenewals.default, no |-> 0, of |-> 0] \in Amounts
    BY RenewalNumbers DEF Amounts
<1> QED  BY <1>1 DEF Renewal!Fresh, RenewalPages

LEMMA RenewalBegins ==
    ASSUME Renewal!RenewalsAssumption, Renewal!RenewalsInit
    PROVE  RenewalInv
<1>1. s2 \in [ForRenewals.vehicles -> Int]
    BY RenewalNumbers DEF Renewal!RenewalsInit
<1>2. /\ s4 \in RenewalPages /\ s4.list = s2 /\ ~s4.open /\ s4.selected = None /\ ~s4.loading /\ ~s4.paying
      /\ ~s4.success /\ s4.amount.of = 0 /\ s4.opening = 0
    BY <1>1, FreshPage DEF Renewal!RenewalsInit
<1>3. /\ s1 = 0 /\ s3 \in [amount : ForRenewals.prices, no : Nat] /\ s3.no = 0
      /\ s5 = [running |-> {}, answers |-> {}]
      /\ s6 = <<>> /\ s7 = <<>> /\ s9 = 0
      /\ s8 = [told |-> 0, lost |-> 0, unread |-> FALSE, late |-> FALSE, settled |-> {}]
    BY DEF Renewal!RenewalsInit
<1>4. RenewalTypes
    BY <1>1, <1>2, <1>3, RenewalNumbers DEF RenewalTypes, RenewalNotes
<1>5. DialogInv
    BY <1>2, <1>3 DEF DialogInv
<1>6. PriceInv
    BY <1>2, <1>3 DEF PriceInv, Read
<1>7. LedgerInv
    <2>1. OwnEntries = {}
        BY <1>3 DEF OwnEntries
    <2> QED  BY <1>3, <2>1, FS_EmptySet DEF LedgerInv, Recorded
<1>8. YearsInv
    BY <1>3 DEF YearsInv
<1> QED  BY <1>4, <1>5, <1>6, <1>7, <1>8 DEF RenewalInv

(* The ledger has no entry more and tells of none more. *)
LEMMA LedgerStays ==
    ASSUME LedgerInv, s7' = s7, s8'.told + s8'.lost + Recorded' = s8.told + s8.lost + Recorded
    PROVE  LedgerInv'
<1>1. OwnEntries' = OwnEntries
    BY DEF OwnEntries
<1> QED  BY <1>1 DEF LedgerInv

LEMMA RenewClicked ==
    ASSUME Renewal!RenewalsAssumption, RenewalInv, NEW v \in ForRenewals.vehicles, Renewal!handleRenewClick(v)
    PROVE  RenewalInv'
<1>1. /\ ~s4.open /\ s9' = s9 + 1 /\ s9 < ForRenewals.acts
      /\ s4' = [s4 EXCEPT !.open = TRUE, !.selected = v, !.loading = TRUE, !.opening = @ + 1]
      /\ s5' = [s5 EXCEPT !.running = @ \cup {s4.opening + 1}]
      /\ s8' = [s8 EXCEPT !.unread = FALSE, !.late = FALSE]
      /\ UNCHANGED <<s1, s2, s3, s6, s7>>
    BY DEF Renewal!handleRenewClick, Renewal!Act
<1>2. s6 = <<>>
    BY <1>1 DEF RenewalInv, DialogInv
<1>3. /\ s4' \in RenewalPages /\ s4'.open /\ s4'.selected = v /\ s4'.loading /\ s4'.opening = s4.opening + 1
      /\ s4'.paying = s4.paying /\ s4'.success = s4.success /\ s4'.amount = s4.amount /\ s4'.list = s4.list
      /\ s4.opening \in Nat
    <2>1. s4 \in RenewalPages /\ s4.opening \in Nat /\ s4.opening + 1 \in Nat
        BY DEF RenewalInv, RenewalTypes, RenewalPages
    <2> QED  BY <1>1, <2>1 DEF RenewalPages
<1>4. /\ s5' \in [running : SUBSET Nat, answers : SUBSET Amounts] /\ s5'.answers = s5.answers
      /\ s5'.running = s5.running \cup {s4.opening + 1}
    <2>1. s5 \in [running : SUBSET Nat, answers : SUBSET Amounts]
        BY DEF RenewalInv, RenewalTypes
    <2> DEFINE Running == s5.running \cup {s4.opening + 1}
    <2>2. Running \in SUBSET Nat
        <3>1. s5.running \in SUBSET Nat
            BY <2>1
        <3>2. s4.opening + 1 \in Nat
            BY <1>3
        <3> QED  BY <3>1, <3>2
    <2>3. s5' = [s5 EXCEPT !.running = Running]
        BY <1>1, <2>1
    <2> HIDE DEF Running
    <2>4. s5' \in [running : SUBSET Nat, answers : SUBSET Amounts] /\ s5'.answers = s5.answers /\ s5'.running = Running
        BY <2>1, <2>2, <2>3
    <2> QED  BY <2>4 DEF Running
<1>5. s8' \in RenewalNotes /\ s8'.told = s8.told /\ s8'.lost = s8.lost /\ s8'.settled = s8.settled
    BY <1>1 DEF RenewalInv, RenewalTypes, RenewalNotes
<1>6. RenewalTypes'
    <2>1. s9' \in Nat /\ s9' <= ForRenewals.acts /\ s3'.no <= s9'
        <3>1. s9 \in Nat /\ s3.no \in Nat /\ s3.no <= s9 /\ ForRenewals.acts \in Nat
            BY RenewalNumbers DEF RenewalInv, RenewalTypes
        <3> QED  BY <1>1, <3>1
    <2> QED  BY <1>1, <1>2, <1>3, <1>4, <1>5, <2>1 DEF RenewalInv, RenewalTypes
<1>7. DialogInv'
    BY <1>1, <1>2, <1>3, RenewalNumbers DEF RenewalInv, DialogInv
<1>8. PriceInv'
    <2>1. \A a \in s5.answers \cup {s4.amount} : Read(a) => Read(a)'
        BY <1>1, <1>3 DEF Read, RenewalInv, RenewalTypes, Amounts, RenewalPages
    <2>2. \A of \in s5'.running : of <= s4'.opening
        BY <1>3, <1>4 DEF RenewalInv, RenewalTypes, PriceInv
    <2> QED  BY <1>1, <1>2, <1>3, <1>4, <2>1, <2>2 DEF RenewalInv, PriceInv, Read
<1>9. LedgerInv'
    BY <1>1, <1>5, LedgerStays DEF RenewalInv, Recorded
<1>10. YearsInv'
    BY <1>1, <1>2, <1>3, <1>5 DEF RenewalInv, YearsInv
<1> QED  BY <1>6, <1>7, <1>8, <1>9, <1>10 DEF RenewalInv

LEMMA SettingsRead ==
    ASSUME Renewal!RenewalsAssumption, RenewalInv, NEW of \in s5.running, Renewal!getRenewalSettings(of)
    PROVE  RenewalInv'
<1> DEFINE a == [price |-> s3.amount, no |-> s3.no, of |-> of]
<1>1. /\ s5' = [running |-> s5.running \ {of}, answers |-> s5.answers \cup {a}]
      /\ UNCHANGED <<s1, s2, s3, s4, s6, s7, s8, s9>>
    BY DEF Renewal!getRenewalSettings
<1>2. a \in Amounts /\ Read(a)
    BY DEF RenewalInv, RenewalTypes, PriceInv, Amounts, Read
<1> HIDE DEF a
<1>3. /\ s5' \in [running : SUBSET Nat, answers : SUBSET Amounts] /\ s5'.running \subseteq s5.running
      /\ s5'.answers = s5.answers \cup {a}
    BY <1>1, <1>2 DEF RenewalInv, RenewalTypes
<1>4. RenewalTypes' /\ DialogInv'
    BY <1>1, <1>3 DEF RenewalInv, RenewalTypes, DialogInv
<1>5. PriceInv'
    <2>1. \A b : Read(b)' <=> Read(b)
        BY <1>1 DEF Read
    <2> QED  BY <1>1, <1>2, <1>3, <2>1 DEF RenewalInv, PriceInv, Read
<1>6. LedgerInv' /\ YearsInv'
    BY <1>1, LedgerStays DEF RenewalInv, Recorded, YearsInv
<1> QED  BY <1>4, <1>5, <1>6 DEF RenewalInv

LEMMA SettingsArrived ==
    ASSUME Renewal!RenewalsAssumption, RenewalInv, NEW a \in s5.answers, Renewal!SettingsArrive(a)
    PROVE  RenewalInv'
<1>1. /\ s5' = [s5 EXCEPT !.answers = @ \ {a}]
      /\ s4' = [s4 EXCEPT !.amount = a, !.loading = FALSE]
      /\ s8' = [s8 EXCEPT !.late = @ \/ a.of # s4.opening]
      /\ UNCHANGED <<s1, s2, s3, s6, s7, s9>>
    BY DEF Renewal!SettingsArrive
<1>2. a \in Amounts /\ Read(a)
    BY DEF RenewalInv, RenewalTypes, PriceInv
<1>3. /\ s5' \in [running : SUBSET Nat, answers : SUBSET Amounts] /\ s5'.running = s5.running
      /\ s5'.answers \subseteq s5.answers
    BY <1>1 DEF RenewalInv, RenewalTypes
<1>4. /\ s4' \in RenewalPages /\ s4'.amount = a
      /\ s4'.open = s4.open /\ s4'.selected = s4.selected /\ s4'.opening = s4.opening
      /\ s4'.paying = s4.paying /\ s4'.success = s4.success /\ s4'.list = s4.list
    BY <1>1, <1>2 DEF RenewalInv, RenewalTypes, RenewalPages
<1>5. /\ s8' \in RenewalNotes /\ s8'.told = s8.told /\ s8'.lost = s8.lost /\ s8'.settled = s8.settled
      /\ s8'.unread = s8.unread /\ (s8.late => s8'.late) /\ (a.of # s4.opening => s8'.late)
    BY <1>1 DEF RenewalInv, RenewalTypes, RenewalNotes
<1>6. RenewalTypes' /\ DialogInv'
    BY <1>1, <1>3, <1>4, <1>5 DEF RenewalInv, RenewalTypes, DialogInv
<1>7. PriceInv'
    <2>1. \A b : Read(b)' <=> Read(b)
        BY <1>1, <1>4 DEF Read
    <2>2. Read(s4.amount)'
        BY <1>2, <1>4, <2>1 DEF Read
    <2>3. s6 # <<>> => (Read(s6[1].told))'
        BY <1>1, <2>1 DEF RenewalInv, PriceInv, Read
    <2> QED  BY <1>1, <1>2, <1>3, <1>4, <1>5, <2>1, <2>2, <2>3 DEF RenewalInv, PriceInv
<1>8. LedgerInv' /\ YearsInv'
    BY <1>1, <1>4, <1>5, LedgerStays DEF RenewalInv, Recorded, YearsInv
<1> QED  BY <1>6, <1>7, <1>8 DEF RenewalInv

LEMMA SettingsFailed ==
    ASSUME Renewal!RenewalsAssumption, RenewalInv, NEW of \in s5.running, Renewal!SettingsFail(of)
    PROVE  RenewalInv'
<1>1. /\ s5' = [s5 EXCEPT !.running = @ \ {of}]
      /\ s4' = [s4 EXCEPT !.loading = FALSE]
      /\ s8' = [s8 EXCEPT !.unread = TRUE]
      /\ UNCHANGED <<s1, s2, s3, s6, s7, s9>>
    BY DEF Renewal!SettingsFail
<1>2. /\ s5' \in [running : SUBSET Nat, answers : SUBSET Amounts] /\ s5'.running \subseteq s5.running
      /\ s5'.answers = s5.answers
    BY <1>1 DEF RenewalInv, RenewalTypes
<1>3. /\ s4' \in RenewalPages /\ s4'.amount = s4.amount
      /\ s4'.open = s4.open /\ s4'.selected = s4.selected /\ s4'.opening = s4.opening
      /\ s4'.paying = s4.paying /\ s4'.success = s4.success /\ s4'.list = s4.list
    BY <1>1 DEF RenewalInv, RenewalTypes, RenewalPages
<1>4. /\ s8' \in RenewalNotes /\ s8'.told = s8.told /\ s8'.lost = s8.lost /\ s8'.settled = s8.settled
      /\ s8'.unread
    BY <1>1 DEF RenewalInv, RenewalTypes, RenewalNotes
<1>5. RenewalTypes' /\ DialogInv'
    BY <1>1, <1>2, <1>3, <1>4 DEF RenewalInv, RenewalTypes, DialogInv
<1>6. PriceInv'
    BY <1>1, <1>2, <1>3, <1>4 DEF RenewalInv, PriceInv, Read
<1>7. LedgerInv' /\ YearsInv'
    BY <1>1, <1>3, <1>4, LedgerStays DEF RenewalInv, Recorded, YearsInv
<1> QED  BY <1>5, <1>6, <1>7 DEF RenewalInv

LEMMA DialogCloses ==
    ASSUME Renewal!RenewalsAssumption, RenewalInv, Renewal!onClose
    PROVE  RenewalInv'
<1>1. /\ s4.open /\ ~s4.paying /\ s4' = [s4 EXCEPT !.open = FALSE, !.selected = None]
      /\ UNCHANGED <<s1, s2, s3, s5, s6, s7, s8, s9>>
    BY DEF Renewal!onClose
<1>2. s6 = <<>> /\ ~s4.success
    BY <1>1 DEF RenewalInv, DialogInv
<1>3. /\ s4' \in RenewalPages /\ s4'.amount = s4.amount
      /\ ~s4'.open /\ s4'.selected = None /\ s4'.opening = s4.opening
      /\ s4'.paying = s4.paying /\ s4'.success = s4.success /\ s4'.list = s4.list
    BY <1>1 DEF RenewalInv, RenewalTypes, RenewalPages
<1>4. RenewalTypes' /\ DialogInv'
    BY <1>1, <1>2, <1>3 DEF RenewalInv, RenewalTypes, DialogInv
<1>5. PriceInv'
    BY <1>1, <1>2, <1>3 DEF RenewalInv, PriceInv, Read
<1>6. LedgerInv' /\ YearsInv'
    BY <1>1, <1>3, LedgerStays DEF RenewalInv, Recorded, YearsInv
<1> QED  BY <1>4, <1>5, <1>6 DEF RenewalInv

LEMMA Pays ==
    ASSUME Renewal!RenewalsAssumption, RenewalInv, Renewal!handlePay
    PROVE  RenewalInv'
<1> DEFINE p == [vehicle |-> s4.selected, told |-> s4.amount, of |-> s4.opening, result |-> None]
<1>1. /\ s4.open /\ ~s4.loading /\ ~s4.paying /\ s9' = s9 + 1 /\ s9 < ForRenewals.acts
      /\ s4' = [s4 EXCEPT !.paying = TRUE] /\ s6' = <<p>>
      /\ UNCHANGED <<s1, s2, s3, s5, s7, s8>>
    BY DEF Renewal!handlePay, Renewal!Act
<1>2. s6 = <<>> /\ ~s4.success /\ s4.selected # None
    BY <1>1 DEF RenewalInv, DialogInv
<1>3. p \in Payments /\ p.told = s4.amount /\ p.of = s4.opening /\ p.result = None
    BY <1>2 DEF Payments, RenewalInv, RenewalTypes, RenewalPages
<1> HIDE DEF p
<1>4. s6' # <<>> /\ s6'[1] = p
    BY <1>1
<1>5. /\ s4' \in RenewalPages /\ s4'.amount = s4.amount /\ s4'.loading = s4.loading
      /\ s4'.open = s4.open /\ s4'.selected = s4.selected /\ s4'.opening = s4.opening
      /\ s4'.paying /\ s4'.success = s4.success /\ s4'.list = s4.list
    BY <1>1 DEF RenewalInv, RenewalTypes, RenewalPages
<1>6. RenewalTypes'
    <2>1. s9' \in Nat /\ s9' <= ForRenewals.acts /\ s3'.no <= s9'
        <3>1. s9 \in Nat /\ s3.no \in Nat /\ s3.no <= s9 /\ ForRenewals.acts \in Nat
            BY RenewalNumbers DEF RenewalInv, RenewalTypes
        <3> QED  BY <1>1, <3>1
    <2> QED  BY <1>1, <1>3, <1>5, <2>1 DEF RenewalInv, RenewalTypes
<1>7. DialogInv'
    BY <1>1, <1>2, <1>3, <1>4, <1>5 DEF RenewalInv, DialogInv
<1>8. PriceInv'
    BY <1>1, <1>3, <1>4, <1>5 DEF RenewalInv, PriceInv, Read
<1>9. LedgerInv' /\ YearsInv'
    BY <1>1, <1>2, <1>3, <1>4, <1>5, LedgerStays DEF RenewalInv, Recorded, YearsInv
<1> QED  BY <1>6, <1>7, <1>8, <1>9 DEF RenewalInv

(* A licence that is renewed ends a year from now or later, and no sooner  *)
(* than it did.                                                            *)
LEMMA RenewedIsLater ==
    ASSUME Renewal!RenewalsAssumption, RenewalTypes, NEW v \in ForRenewals.vehicles
    PROVE  /\ Renewal!Renewed(v) \in Int /\ Renewal!Today \in Int
           /\ Renewal!Renewed(v) >= Renewal!Today + ForRenewals.year
           /\ Renewal!Renewed(v) >= s2[v]
<1> DEFINE q == s1 \div ForRenewals.day
           d == s2[v]
           day == ForRenewals.day
<1>1. day \in Nat \ {0} /\ s1 \in Int /\ d \in Int /\ ForRenewals.year \in Nat
    BY RenewalNumbers DEF RenewalTypes
<1>2. q \in Int /\ day * q \in Int /\ day * q <= s1 /\ s1 < day * q + day
    BY <1>1, Division
<1>3. Renewal!Today = q /\ Renewal!Renewed(v) = IF d * day > s1 THEN d + ForRenewals.year ELSE q + ForRenewals.year
    BY DEF Renewal!Today, Renewal!Renewed
<1> HIDE DEF q, d, day
<1>4. /\ d * day = day * d /\ day * d \in Int /\ d - q \in Int /\ day * (d - q) \in Int
      /\ day * (d - q) = day * d - day * q
      /\ d - q >= 1 => day * (d - q) >= day
      /\ d - q <= -1 => day * (d - q) <= -day
    BY <1>1, <1>2, Multiple, Distributes
<1>5. CASE d * day > s1
    <2>1. ~(d - q <= -1)
        BY <1>1, <1>2, <1>4, <1>5
    <2> QED  BY <1>1, <1>2, <1>3, <1>5, <2>1 DEF d
<1>6. CASE ~(d * day > s1)
    <2>1. ~(d - q >= 1)
        BY <1>1, <1>2, <1>4, <1>6
    <2> QED  BY <1>1, <1>2, <1>3, <1>6, <2>1 DEF d
<1> QED  BY <1>5, <1>6

(* verifyRenewal: no licence ends sooner, the one that is renewed a year   *)
(* from now or later, and the ledger has one entry more.                   *)
LEMMA Verified ==
    ASSUME Renewal!RenewalsAssumption, RenewalInv, NEW v \in ForRenewals.vehicles, NEW own \in BOOLEAN,
           Renewal!verifyRenewal(v, own)
    PROVE  /\ s2' \in [ForRenewals.vehicles -> Int] /\ s7' \in Seq(Entries)
           /\ \A w \in ForRenewals.vehicles : s2'[w] >= s2[w]
           /\ s2'[v] >= Renewal!Today + ForRenewals.year /\ Renewal!Today \in Int
           /\ Cardinality(OwnEntries') = Cardinality(OwnEntries) + (IF own THEN 1 ELSE 0)
<1> DEFINE e == [vehicle |-> v, amount |-> s3.amount, own |-> own]
<1>1. s2' = [s2 EXCEPT ![v] = Renewal!Renewed(v)] /\ s7' = Append(s7, e)
    BY DEF Renewal!verifyRenewal
<1>2. s2 \in [ForRenewals.vehicles -> Int] /\ s7 \in Seq(Entries) /\ e \in Entries /\ e.own = own
    BY DEF RenewalInv, RenewalTypes, Entries
<1> HIDE DEF e
<1>3. /\ s2' \in [ForRenewals.vehicles -> Int]
      /\ \A w \in ForRenewals.vehicles : s2'[w] >= s2[w]
      /\ s2'[v] >= Renewal!Today + ForRenewals.year /\ Renewal!Today \in Int
    <2>1. s2'[v] = Renewal!Renewed(v) /\ \A w \in ForRenewals.vehicles \ {v} : s2'[w] = s2[w]
        BY <1>1, <1>2
    <2>2. \A w \in ForRenewals.vehicles : s2[w] \in Int
        BY <1>2
    <2> QED  BY <1>1, <1>2, <2>1, <2>2, RenewedIsLater DEF RenewalInv
<1>4. s7' \in Seq(Entries) /\ Len(s7') = Len(s7) + 1 /\ s7'[Len(s7) + 1] = e /\ Len(s7) \in Nat
      /\ \A n \in 1..Len(s7) : s7'[n] = s7[n]
    BY <1>1, <1>2
<1>5. OwnEntries' = OwnEntries \cup (IF own THEN {Len(s7) + 1} ELSE {})
    BY <1>2, <1>4 DEF OwnEntries
<1>6. Len(s7) + 1 \notin OwnEntries /\ OwnEntries \subseteq 1..Len(s7)
    BY <1>2, <1>4 DEF OwnEntries
<1>7. IsFiniteSet(OwnEntries)
    <2>1. IsFiniteSet(1..Len(s7))
        BY <1>4, FS_Interval
    <2> QED  BY <1>6, <2>1, FS_Subset
<1>8. Cardinality(OwnEntries') = Cardinality(OwnEntries) + (IF own THEN 1 ELSE 0)
    <2>1. Cardinality(OwnEntries \cup {Len(s7) + 1}) = Cardinality(OwnEntries) + 1
        BY <1>6, <1>7, FS_AddElement
    <2>2. Cardinality(OwnEntries) \in Nat
        BY <1>7, FS_CardinalityType
    <2>3. CASE own
        BY <1>5, <2>1, <2>3
    <2>4. CASE ~own
        <3>1. OwnEntries' = OwnEntries
            BY <1>5, <2>4
        <3> QED  BY <2>2, <2>4, <3>1
    <2> QED  BY <2>3, <2>4
<1> QED  BY <1>3, <1>4, <1>8

LEMMA PaymentIsVerified ==
    ASSUME Renewal!RenewalsAssumption, RenewalInv, Renewal!PaymentVerified
    PROVE  RenewalInv'
<1>1. PICK p \in Payments : s6 = <<p>>
    BY DEF RenewalInv, RenewalTypes, Renewal!PaymentVerified
<1> DEFINE answer == [no |-> s3.no, amount |-> s3.amount, day |-> Renewal!Today]
           x == [p EXCEPT !.result = answer]
<1>2. /\ p.result = None /\ Renewal!verifyRenewal(p.vehicle, TRUE) /\ s6' = <<x>>
      /\ UNCHANGED <<s1, s3, s4, s5, s8, s9>>
    BY <1>1 DEF Renewal!PaymentVerified
<1>3. p.vehicle \in ForRenewals.vehicles /\ p.told \in Amounts
    BY DEF Payments
<1>4. /\ s2' \in [ForRenewals.vehicles -> Int] /\ s7' \in Seq(Entries)
      /\ \A w \in ForRenewals.vehicles : s2'[w] >= s2[w]
      /\ s2'[p.vehicle] >= Renewal!Today + ForRenewals.year /\ Renewal!Today \in Int
      /\ Cardinality(OwnEntries') = Cardinality(OwnEntries) + 1
    BY <1>2, <1>3, Verified
<1>5. answer \in Renewal!Results /\ answer.no = s3.no /\ answer.amount = s3.amount /\ answer.day = Renewal!Today
    BY <1>4 DEF Renewal!Results, RenewalInv, RenewalTypes
<1> HIDE DEF answer
<1>6. x \in Payments /\ x.vehicle = p.vehicle /\ x.told = p.told /\ x.of = p.of /\ x.result = answer
    BY <1>5 DEF Payments
<1> HIDE DEF x
<1>7. s6' # <<>> /\ s6'[1] = x /\ s6 # <<>> /\ s6[1] = p
    BY <1>1, <1>2
<1>8. answer # None
    BY <1>5, RenewalNumbers
<1>9. RenewalTypes' /\ DialogInv'
    BY <1>1, <1>2, <1>4, <1>6, <1>7 DEF RenewalInv, RenewalTypes, DialogInv
<1>10. PriceInv'
    <2>1. Read(p.told)' /\ \A a : Read(a)' <=> Read(a)
        BY <1>2, <1>7 DEF RenewalInv, PriceInv, Read
    <2> QED  BY <1>2, <1>5, <1>6, <1>7, <2>1 DEF RenewalInv, PriceInv, Read
<1>11. LedgerInv'
    BY <1>2, <1>4, <1>6, <1>7, <1>8 DEF RenewalInv, RenewalTypes, RenewalNotes, LedgerInv, Recorded
<1>12. YearsInv'
    <2>1. ForRenewals.year \in Int
        BY RenewalNumbers
    <2>2. ASSUME NEW paid \in s8.settled
          PROVE  s2'[paid.vehicle] >= paid.day + ForRenewals.year
        <3>1. paid.vehicle \in ForRenewals.vehicles /\ paid.day \in Int
            BY DEF RenewalInv, RenewalTypes, RenewalNotes
        <3>2. s2[paid.vehicle] \in Int /\ s2'[paid.vehicle] \in Int
            BY <1>4, <3>1 DEF RenewalInv, RenewalTypes
        <3>3. s2[paid.vehicle] >= paid.day + ForRenewals.year
            BY DEF RenewalInv, YearsInv
        <3> QED  BY <1>4, <2>1, <3>1, <3>2, <3>3
    <2> QED  BY <1>2, <1>4, <1>5, <1>6, <1>7, <2>2 DEF RenewalInv, YearsInv
<1> QED  BY <1>9, <1>10, <1>11, <1>12 DEF RenewalInv

LEMMA PaymentIsAnswered ==
    ASSUME Renewal!RenewalsAssumption, RenewalInv, Renewal!PaymentAnswered
    PROVE  RenewalInv'
<1>1. PICK p \in Payments : s6 = <<p>>
    BY DEF RenewalInv, RenewalTypes, Renewal!PaymentAnswered
<1> DEFINE paid == [vehicle |-> p.vehicle, day |-> p.result.day]
<1>2. /\ p.result # None /\ s6' = <<>> /\ s4' = [s4 EXCEPT !.success = TRUE]
      /\ s8' = [s8 EXCEPT !.told = @ + 1, !.settled = @ \cup {paid}]
      /\ UNCHANGED <<s1, s2, s3, s5, s7, s9>>
    BY <1>1 DEF Renewal!PaymentAnswered
<1>3. p.result \in Renewal!Results /\ p.vehicle \in ForRenewals.vehicles
    BY <1>2 DEF Payments
<1>4. paid \in [vehicle : ForRenewals.vehicles, day : Int] /\ paid.vehicle = p.vehicle /\ paid.day = p.result.day
    BY <1>3 DEF Renewal!Results
<1> HIDE DEF paid
<1>5. /\ s4' \in RenewalPages /\ s4'.amount = s4.amount /\ s4'.loading = s4.loading
      /\ s4'.open = s4.open /\ s4'.selected = s4.selected /\ s4'.opening = s4.opening
      /\ s4'.paying = s4.paying /\ s4'.success /\ s4'.list = s4.list
    BY <1>2 DEF RenewalInv, RenewalTypes, RenewalPages
<1>6. /\ s8' \in RenewalNotes /\ s8'.told = s8.told + 1 /\ s8'.lost = s8.lost
      /\ s8'.settled = s8.settled \cup {paid} /\ s8'.unread = s8.unread /\ s8'.late = s8.late
      /\ s8.told \in Nat /\ s8.lost \in Nat
    <2>1. s8 \in RenewalNotes /\ s8.told + 1 \in Nat /\ s8.lost \in Nat /\ s8.told \in Nat
        BY DEF RenewalInv, RenewalTypes, RenewalNotes
    <2>2. s8.settled \cup {paid} \in SUBSET [vehicle : ForRenewals.vehicles, day : Int]
        BY <1>4, <2>1 DEF RenewalNotes
    <2> QED  BY <1>2, <2>1, <2>2 DEF RenewalNotes
<1>7. s6 # <<>> /\ s6[1] = p
    BY <1>1
<1>8. RenewalTypes' /\ DialogInv'
    BY <1>2, <1>5, <1>6, <1>7 DEF RenewalInv, RenewalTypes, DialogInv
<1>9. PriceInv'
    BY <1>2, <1>5, <1>6 DEF RenewalInv, PriceInv, Read
<1>10. LedgerInv'
    <2>1. Recorded = 1 /\ Recorded' = 0
        BY <1>2, <1>7 DEF Recorded
    <2> QED  BY <1>2, <1>6, <2>1, LedgerStays DEF RenewalInv
<1>11. YearsInv'
    BY <1>2, <1>4, <1>5, <1>6, <1>7 DEF RenewalInv, YearsInv
<1> QED  BY <1>8, <1>9, <1>10, <1>11 DEF RenewalInv

LEMMA PaymentHasFailed ==
    ASSUME Renewal!RenewalsAssumption, RenewalInv, Renewal!PaymentFails
    PROVE  RenewalInv'
<1>1. PICK p \in Payments : s6 = <<p>>
    BY DEF RenewalInv, RenewalTypes, Renewal!PaymentFails
<1>2. /\ s6' = <<>> /\ s4' = [s4 EXCEPT !.paying = FALSE]
      /\ s8' = [s8 EXCEPT !.lost = IF p.result = None THEN @ ELSE @ + 1]
      /\ UNCHANGED <<s1, s2, s3, s5, s7, s9>>
    BY <1>1 DEF Renewal!PaymentFails
<1>3. /\ s4' \in RenewalPages /\ s4'.amount = s4.amount /\ s4'.loading = s4.loading
      /\ s4'.open = s4.open /\ s4'.selected = s4.selected /\ s4'.opening = s4.opening
      /\ ~s4'.paying /\ s4'.success = s4.success /\ s4'.list = s4.list
    BY <1>2 DEF RenewalInv, RenewalTypes, RenewalPages
<1>4. /\ s8' \in RenewalNotes /\ s8'.told = s8.told /\ s8'.lost = s8.lost + (IF p.result = None THEN 0 ELSE 1)
      /\ s8'.settled = s8.settled /\ s8'.unread = s8.unread /\ s8'.late = s8.late
      /\ s8.told \in Nat /\ s8.lost \in Nat
    <2>1. s8 \in RenewalNotes /\ s8.told \in Nat /\ s8.lost \in Nat
        BY DEF RenewalInv, RenewalTypes, RenewalNotes
    <2>2. CASE p.result = None
        BY <1>2, <2>1, <2>2 DEF RenewalNotes
    <2>3. CASE p.result # None
        <3>1. s8.lost + 1 \in Nat
            BY <2>1
        <3> QED  BY <1>2, <2>1, <2>3, <3>1 DEF RenewalNotes
    <2> QED  BY <2>2, <2>3
<1>5. s6 # <<>> /\ s6[1] = p /\ ~s4.success
    BY <1>1 DEF RenewalInv, DialogInv
<1>6. RenewalTypes' /\ DialogInv'
    BY <1>2, <1>3, <1>4, <1>5 DEF RenewalInv, RenewalTypes, DialogInv
<1>7. PriceInv'
    BY <1>2, <1>3, <1>4 DEF RenewalInv, PriceInv, Read
<1>8. LedgerInv'
    <2>1. Recorded' = 0 /\ Recorded = IF p.result = None THEN 0 ELSE 1
        BY <1>2, <1>5 DEF Recorded
    <2> QED  BY <1>2, <1>4, <2>1, LedgerStays DEF RenewalInv
<1>9. YearsInv'
    BY <1>2, <1>3, <1>4 DEF RenewalInv, YearsInv
<1> QED  BY <1>6, <1>7, <1>8, <1>9 DEF RenewalInv

LEMMA PageReloads ==
    ASSUME Renewal!RenewalsAssumption, RenewalInv, Renewal!Reload
    PROVE  RenewalInv'
<1>1. /\ s4.success /\ s4' = Renewal!Fresh(s2) /\ s5' = [running |-> {}, answers |-> {}]
      /\ s8' = [s8 EXCEPT !.unread = FALSE, !.late = FALSE]
      /\ UNCHANGED <<s1, s2, s3, s6, s7, s9>>
    BY DEF Renewal!Reload
<1>2. s6 = <<>> /\ s2 \in [ForRenewals.vehicles -> Int]
    BY <1>1 DEF RenewalInv, RenewalTypes, DialogInv
<1>3. /\ s4' \in RenewalPages /\ s4'.list = s2 /\ ~s4'.open /\ s4'.selected = None /\ ~s4'.loading /\ ~s4'.paying
      /\ ~s4'.success /\ s4'.amount.of = 0 /\ s4'.opening = 0
    BY <1>1, <1>2, FreshPage
<1>4. s8' \in RenewalNotes /\ s8'.told = s8.told /\ s8'.lost = s8.lost /\ s8'.settled = s8.settled
    BY <1>1 DEF RenewalInv, RenewalTypes, RenewalNotes
<1>5. RenewalTypes' /\ DialogInv'
    BY <1>1, <1>2, <1>3, <1>4 DEF RenewalInv, RenewalTypes, DialogInv
<1>6. PriceInv'
    BY <1>1, <1>2, <1>3 DEF RenewalInv, PriceInv, Read
<1>7. LedgerInv' /\ YearsInv'
    BY <1>1, <1>2, <1>3, <1>4, LedgerStays DEF RenewalInv, Recorded, YearsInv
<1> QED  BY <1>5, <1>6, <1>7 DEF RenewalInv

LEMMA PriceIsSet ==
    ASSUME Renewal!RenewalsAssumption, RenewalInv, NEW p \in ForRenewals.prices, Renewal!updateRenewalSettings(p)
    PROVE  RenewalInv'
<1>1. /\ s9' = s9 + 1 /\ s9 < ForRenewals.acts /\ s3' = [amount |-> p, no |-> s3.no + 1]
      /\ UNCHANGED <<s1, s2, s4, s5, s6, s7, s8>>
    BY DEF Renewal!updateRenewalSettings, Renewal!Act
<1>2. s3.no \in Nat /\ s3' \in [amount : ForRenewals.prices, no : Nat] /\ s3'.no = s3.no + 1
    BY <1>1 DEF RenewalInv, RenewalTypes
<1>3. RenewalTypes' /\ DialogInv'
    <2>1. s9' \in Nat /\ s9' <= ForRenewals.acts /\ s3'.no <= s9'
        <3>1. s9 \in Nat /\ s3.no <= s9 /\ ForRenewals.acts \in Nat
            BY RenewalNumbers DEF RenewalInv, RenewalTypes
        <3> QED  BY <1>1, <1>2, <3>1
    <2> QED  BY <1>1, <1>2, <2>1 DEF RenewalInv, RenewalTypes, DialogInv
<1>4. PriceInv'
    <2>1. ASSUME NEW a \in Amounts, Read(a)
          PROVE  a.of <= s4.opening /\ (a.of # 0 => a.no <= s3'.no /\ a.no # s3'.no)
        BY <1>2, <2>1 DEF Read, Amounts
    <2>2. /\ s4.amount \in Amounts /\ s5.answers \subseteq Amounts
          /\ s6 # <<>> => s6[1].told \in Amounts
        BY DEF RenewalInv, RenewalTypes, RenewalPages, Payments
    <2>3. \A a \in Amounts : Read(a) => Read(a)'
        BY <1>1, <2>1 DEF Read
    <2>4. Read(s4.amount)' /\ (s6 # <<>> => Read(s6[1].told)') /\ \A a \in s5.answers : Read(a)'
        <3>1. Read(s4.amount)'
            BY <1>1, <2>1, <2>2 DEF RenewalInv, PriceInv, Read
        <3>2. s6 # <<>> => Read(s6[1].told)'
            BY <1>1, <2>1, <2>2 DEF RenewalInv, PriceInv, Read
        <3>3. \A a \in s5.answers : Read(a)'
            BY <1>1, <2>2, <2>3 DEF RenewalInv, PriceInv
        <3> QED  BY <3>1, <3>2, <3>3
    <2> QED  BY <1>1, <2>4 DEF RenewalInv, PriceInv
<1>5. LedgerInv' /\ YearsInv'
    BY <1>1, LedgerStays DEF RenewalInv, Recorded, YearsInv
<1> QED  BY <1>3, <1>4, <1>5 DEF RenewalInv

LEMMA OthersRenew ==
    ASSUME Renewal!RenewalsAssumption, RenewalInv, NEW v \in ForRenewals.vehicles, Renewal!OtherRenews(v)
    PROVE  RenewalInv'
<1>1. /\ s9' = s9 + 1 /\ s9 < ForRenewals.acts /\ Renewal!verifyRenewal(v, FALSE)
      /\ UNCHANGED <<s1, s3, s4, s5, s6, s8>>
    BY DEF Renewal!OtherRenews, Renewal!Act
<1>2. /\ s2' \in [ForRenewals.vehicles -> Int] /\ s7' \in Seq(Entries)
      /\ \A w \in ForRenewals.vehicles : s2'[w] >= s2[w]
      /\ Cardinality(OwnEntries') = Cardinality(OwnEntries) + 0
    BY <1>1, Verified
<1>3. RenewalTypes' /\ DialogInv' /\ PriceInv'
    <2>1. s9' \in Nat /\ s9' <= ForRenewals.acts /\ s3'.no <= s9'
        <3>1. s9 \in Nat /\ s3.no \in Nat /\ s3.no <= s9 /\ ForRenewals.acts \in Nat
            BY RenewalNumbers DEF RenewalInv, RenewalTypes
        <3> QED  BY <1>1, <3>1
    <2> QED  BY <1>1, <1>2, <2>1 DEF RenewalInv, RenewalTypes, DialogInv, PriceInv, Read
<1>4. LedgerInv'
    BY <1>1, <1>2 DEF RenewalInv, RenewalTypes, RenewalNotes, LedgerInv, Recorded
<1>5. YearsInv'
    <2>1. ForRenewals.year \in Int /\ \A w \in ForRenewals.vehicles : s2[w] \in Int /\ s2'[w] \in Int
        BY <1>2, RenewalNumbers DEF RenewalInv, RenewalTypes
    <2>2. ASSUME NEW paid \in s8.settled
          PROVE  s2'[paid.vehicle] >= paid.day + ForRenewals.year
        <3>1. paid.vehicle \in ForRenewals.vehicles /\ paid.day \in Int
            BY DEF RenewalInv, RenewalTypes, RenewalNotes
        <3>2. s2[paid.vehicle] >= paid.day + ForRenewals.year
            BY DEF RenewalInv, YearsInv
        <3> QED  BY <1>2, <2>1, <3>1, <3>2
    <2>3. ASSUME s6 # <<>>, s6[1].result # None
          PROVE  s2'[s6[1].vehicle] >= s6[1].result.day + ForRenewals.year
        <3>1. s6[1].vehicle \in ForRenewals.vehicles /\ s6[1].result.day \in Int
            BY <2>3 DEF RenewalInv, RenewalTypes, Payments, Renewal!Results
        <3>2. s2[s6[1].vehicle] >= s6[1].result.day + ForRenewals.year
            BY <2>3 DEF RenewalInv, YearsInv
        <3> QED  BY <1>2, <2>1, <3>1, <3>2
    <2> QED  BY <1>1, <2>2, <2>3 DEF RenewalInv, YearsInv
<1> QED  BY <1>3, <1>4, <1>5 DEF RenewalInv

LEMMA TimePasses ==
    ASSUME Renewal!RenewalsAssumption, RenewalInv, Renewal!Tick
    PROVE  RenewalInv'
<1>1. s1 < ForRenewals.lastTick /\ s1' = s1 + 1 /\ UNCHANGED <<s2, s3, s4, s5, s6, s7, s8, s9>>
    BY DEF Renewal!Tick
<1>2. RenewalTypes'
    <2>1. s1' \in 0..ForRenewals.lastTick
        <3>1. s1 \in Nat /\ ForRenewals.lastTick \in Nat
            BY RenewalNumbers DEF RenewalInv, RenewalTypes
        <3> QED  BY <1>1, <3>1
    <2> QED  BY <1>1, <2>1 DEF RenewalInv, RenewalTypes
<1>3. DialogInv' /\ PriceInv' /\ LedgerInv' /\ YearsInv'
    BY <1>1, LedgerStays DEF RenewalInv, DialogInv, PriceInv, Read, Recorded, YearsInv
<1> QED  BY <1>2, <1>3 DEF RenewalInv

LEMMA RenewalMoves ==
    ASSUME Renewal!RenewalsAssumption, RenewalInv, Renewal!RenewalsNext
    PROVE  RenewalInv'
    BY RenewClicked, SettingsRead, SettingsArrived, SettingsFailed, DialogCloses, Pays, PaymentIsVerified,
        PaymentIsAnswered, PaymentHasFailed, PageReloads, PriceIsSet, OthersRenew, TimePasses
        DEF Renewal!RenewalsNext

LEMMA RenewalRests ==
    ASSUME RenewalInv, UNCHANGED <<s1, s2, s3, s4, s5, s6, s7, s8, s9>>
    PROVE  RenewalInv'
    BY LedgerStays DEF RenewalInv, RenewalTypes, DialogInv, PriceInv, Read, Recorded, YearsInv

(* The days that are left of a licence, rounded up: a month or less until  *)
(* it ends exactly if its end is no later than in a month.                 *)
LEMMA DaysLeft ==
    ASSUME Renewal!RenewalsAssumption, RenewalTypes, NEW d \in Int
    PROVE  /\ Renewal!Today \in Int /\ Renewal!Left(d) = d - Renewal!Today
           /\ \A k \in Int : Renewal!Left(d) <= k <=> d * ForRenewals.day <= s1 + k * ForRenewals.day
<1> DEFINE q == s1 \div ForRenewals.day
           day == ForRenewals.day
           left == s1 - d * day
<1>1. day \in Nat \ {0} /\ s1 \in Int
    BY RenewalNumbers DEF RenewalTypes
<1>2. q \in Int /\ day * q \in Int /\ day * q <= s1 /\ s1 < day * q + day
    BY <1>1, Division
<1>3. Renewal!Today = q /\ Renewal!Left(d) = -(left \div day)
    BY DEF Renewal!Today, Renewal!Left
<1>4. d * day = day * d /\ day * d \in Int /\ q - d \in Int /\ day * (q - d) = day * q - day * d
    BY <1>1, <1>2, Multiple, Distributes
<1>5. left \in Int /\ left = s1 - day * d
    BY <1>1, <1>4
<1>6. day * (q - d) <= left /\ left < day * (q - d) + day
    BY <1>1, <1>2, <1>4, <1>5
<1> HIDE DEF q, day, left
<1>7. left \div day = q - d
    BY <1>1, <1>4, <1>5, <1>6, Quotient
<1>8. ASSUME NEW k \in Int
      PROVE  d - q <= k <=> d * day <= s1 + k * day
    <2> DEFINE e == (d - q) - k
    <2>1. e \in Int /\ d - q \in Int
        BY <1>2
    <2>2. /\ day * e = day * (d - q) - day * k /\ day * (d - q) = day * d - day * q
          /\ k * day = day * k /\ day * k \in Int /\ day * e \in Int
          /\ e >= 1 => day * e >= day
          /\ e <= -1 => day * e <= -day
          /\ e = 0 => day * e = 0
        BY <1>1, <1>2, <2>1, Multiple, Distributes
    <2>3. d - q <= k <=> ~(e >= 1)
        BY <1>2
    <2>4. e = 0 \/ e >= 1 \/ e <= -1
        BY <2>1
    <2> HIDE DEF e
    <2>5. d * day <= s1 + k * day <=> ~(e >= 1)
        BY <1>1, <1>2, <1>4, <2>1, <2>2, <2>4
    <2> QED  BY <2>3, <2>5
<1> QED  BY <1>2, <1>3, <1>7, <1>8 DEF day

LEMMA RenewalAsPromised ==
    ASSUME Renewal!RenewalsAssumption, RenewalInv
    PROVE  Renewal!RenewalsTypeOK /\ Renewal!RenewalsHold
<1> USE RenewalNumbers
<1>1. Renewal!RenewalsTypeOK
    <2>1. s3.amount \in ForRenewals.prices /\ s3.no \in 0..ForRenewals.acts
        BY DEF RenewalInv, RenewalTypes
    <2>2. s4.amount.of <= s4.opening
        BY DEF RenewalInv, PriceInv, Read
    <2>3. Len(s6) <= 1
        <3>1. CASE s6 = <<>>
            BY <3>1
        <3>2. CASE \E p \in Payments : s6 = <<p>>
            BY <3>2
        <3> QED  BY <3>1, <3>2 DEF RenewalInv, RenewalTypes
    <2> QED  BY <2>1, <2>2, <2>3 DEF RenewalInv, RenewalTypes, DialogInv, Renewal!RenewalsTypeOK
<1>2. Renewal!PagesAgreeOnLicences
    <2> SUFFICES ASSUME NEW v \in ForRenewals.vehicles
                 PROVE  LET d == s2[v] IN
                        /\ Renewal!getExpiredBillingLicenses(d) => Renewal!getExpiryWarning(d) # "none"
                        /\ Renewal!getStatus(d) = "expired" => Renewal!getExpiredBillingLicenses(d)
                        /\ Renewal!getExpiryWarning(d) # "none" => Renewal!needsRenewal(d)
                        /\ Renewal!expiringVehicles(d) = Renewal!needsRenewal(d)
        BY DEF Renewal!PagesAgreeOnLicences
    <2> DEFINE d == s2[v]
    <2>1. d \in Int /\ RenewalTypes
        BY DEF RenewalInv, RenewalTypes
    <2> HIDE DEF d
    <2>2. Renewal!Today \in Int /\ Renewal!Left(d) = d - Renewal!Today
        BY <2>1, DaysLeft
    <2>3. Renewal!Left(d) <= ForRenewals.month <=> d * ForRenewals.day <= s1 + ForRenewals.month * ForRenewals.day
        <3>1. ForRenewals.month \in Int
            BY RenewalNumbers
        <3>2. \A k \in Int : Renewal!Left(d) <= k <=> d * ForRenewals.day <= s1 + k * ForRenewals.day
            BY Zenon, <2>1, DaysLeft
        <3> QED  BY Zenon, <3>1, <3>2
    <2>4. Renewal!needsRenewal(d) <=> Renewal!Left(d) <= ForRenewals.month
        BY <2>1, <2>2 DEF Renewal!needsRenewal, Renewal!getStatus
    <2>5. Renewal!expiringVehicles(d) = Renewal!needsRenewal(d)
        BY <2>3, <2>4 DEF Renewal!expiringVehicles, Renewal!needsRenewal
    <2>6. Renewal!getExpiredBillingLicenses(d) => Renewal!getExpiryWarning(d) # "none"
        BY <2>1, <2>2 DEF Renewal!getExpiredBillingLicenses, Renewal!getExpiryWarning
    <2>7. Renewal!getStatus(d) = "expired" => Renewal!getExpiredBillingLicenses(d)
        BY <2>1, <2>2 DEF Renewal!getExpiredBillingLicenses, Renewal!getStatus
    <2>8. Renewal!getExpiryWarning(d) # "none" => Renewal!needsRenewal(d)
        BY <2>1, <2>2, <2>4 DEF Renewal!getExpiryWarning
    <2> QED  BY <2>5, <2>6, <2>7, <2>8 DEF d
<1>3. Renewal!ChargedAsShown
    BY DEF RenewalInv, PriceInv, Renewal!ChargedAsShown
<1>4. Renewal!PaidAsTold
    <2>1. \A S : Renewal!Cardinality(S) = Cardinality(S)
        BY Zenon DEF Renewal!Cardinality, Cardinality
    <2>2. Renewal!Cardinality(OwnEntries) = s8.told + s8.lost + Recorded
        BY <2>1 DEF RenewalInv, LedgerInv
    <2> QED  BY <2>2 DEF Renewal!PaidAsTold, OwnEntries, Recorded
<1>5. Renewal!PaidIsNotOffered
    <2> SUFFICES ASSUME NEW paid \in s8.settled, ~s4.success,
                        s1 < (paid.day + ForRenewals.year - ForRenewals.month) * ForRenewals.day
                 PROVE  ~Renewal!needsRenewal(s4.list[paid.vehicle])
        BY DEF Renewal!PaidIsNotOffered
    <2> DEFINE d == s4.list[paid.vehicle]
               day == ForRenewals.day
               k == paid.day + ForRenewals.year - ForRenewals.month
    <2>1. paid.vehicle \in ForRenewals.vehicles /\ paid.day \in Int /\ s4.list \in [ForRenewals.vehicles -> Int] /\ RenewalTypes
        BY DEF RenewalInv, RenewalTypes, RenewalNotes, RenewalPages
    <2>2. d \in Int /\ d >= paid.day + ForRenewals.year /\ day \in Nat \ {0} /\ s1 \in Int /\ s1 >= 0
        <3>1. d >= paid.day + ForRenewals.year
            BY DEF RenewalInv, YearsInv
        <3> QED  BY <2>1, <3>1 DEF RenewalTypes
    <2>3. k \in Int /\ (d - ForRenewals.month) - k \in Nat /\ s1 < k * day
        <3> HIDE DEF d
        <3> QED  BY <2>1, <2>2
    <2>4. Renewal!Left(d) <= ForRenewals.month <=> d * day <= s1 + ForRenewals.month * day
        <3>1. ForRenewals.month \in Int
            OBVIOUS
        <3> HIDE DEF d
        <3> QED  BY <2>1, <2>2, <3>1, DaysLeft DEF day
    <2>5. Renewal!needsRenewal(d) => Renewal!Left(d) <= ForRenewals.month
        <3>1. Renewal!Left(d) \in Int
            <4> HIDE DEF d
            <4> QED  BY <2>1, <2>2, DaysLeft
        <3> QED  BY <3>1 DEF Renewal!needsRenewal, Renewal!getStatus
    <2> DEFINE e == (d - ForRenewals.month) - k
    <2>6. /\ e \in Int /\ e >= 0 /\ day * e = day * (d - ForRenewals.month) - day * k
          /\ day * (d - ForRenewals.month) = day * d - day * ForRenewals.month
          /\ (e >= 1 => day * e >= day) /\ (e = 0 => day * e = 0)
          /\ k * day = day * k /\ d * day = day * d /\ ForRenewals.month * day = day * ForRenewals.month
          /\ {day * e, day * k, day * d, day * ForRenewals.month} \subseteq Int
        BY <2>2, <2>3, Multiple, Distributes
    <2> HIDE DEF d, day, k, e
    <2>7. ~(d * day <= s1 + ForRenewals.month * day)
        BY <2>2, <2>3, <2>6
    <2> QED  BY <2>4, <2>5, <2>7 DEF d
<1> QED  BY <1>1, <1>2, <1>3, <1>4, <1>5 DEF Renewal!RenewalsHold

-----------------------------------------------------------------------------
(* The administrator's pages.                                              *)
AtNone == Records \cup {None}
Written == [value : Nat, at : Nat \ {0}, by : Nat]
FarParts == [value : Nat, at : Nat]
Copies == [of : AtNone, value : Nat, at : Nat]
Contents == UNION {[some -> Written] : some \in SUBSET Records}
ListAnswers == [rows : Contents, late : BOOLEAN]
PageForms == [open : BOOLEAN, of : AtNone, row : Copies, near : Copies, far : Copies,
              typed : SUBSET {"near", "far"}, foreign : BOOLEAN, no : Nat]
RowSaves == [op : {"row"}, id : Nat, form : PageForms, viewing : AtNone]
FarSaves == [op : {"far"}, id : Nat, form : PageForms, on : Records]
Deletions == [op : {"delete"}, id : Nat, on : Records, viewing : AtNone]

RowTypes ==
    /\ s2 \in [Records -> Written \cup {None, Gone}]
    /\ s3 \in [Records -> FarParts]
    /\ s4 \in [near : [Records -> Nat], far : [Records -> Nat]]
ListTypes ==
    /\ s5 \in Contents
    /\ s6 \in [asked : Nat, answers : Seq(ListAnswers), orgs : BOOLEAN]
SaveTypes == s9 \subseteq RowSaves \cup FarSaves \cup Deletions /\ IsFiniteSet(s9)
NoteTypes ==
    s12 \in [muddled : SUBSET (Records \X {"near", "far"}), doubled : SUBSET Nat, behind : BOOLEAN, crossed : BOOLEAN]
PageTypes ==
    /\ s1 \in {"users", "groups", "orgs", "zones", "vehicles", "devices"}
    /\ RowTypes /\ ListTypes /\ s7 \in PageForms /\ s8 \subseteq AtNone /\ SaveTypes /\ NoteTypes
    /\ s10 \in [of : AtNone, lists : AtNone] /\ s11 \subseteq Records
    /\ s13 \in Nat /\ s13 <= ForPages.acts

(* What was read of a row is what it holds, or has been written since.     *)
There(row) == row \notin {None, Gone}
Reads(rows, id, copy) ==
    /\ rows[id] # None
    /\ There(rows[id]) => copy.at <= rows[id].at /\ (copy.at = rows[id].at => copy.value = rows[id].value)
ReadsNear(rows, f) == f.of # None /\ "near" \notin f.typed => Reads(rows, f.of, f.near)
ReadsFar(fars, f) ==
    "far" \notin f.typed /\ ~f.foreign /\ s1 \in {"users", "groups", "zones"} =>
        IF f.of = None THEN f.far.at = 0 /\ f.far.value = 0
        ELSE f.far.at <= fars[f.of].at /\ (f.far.at = fars[f.of].at => f.far.value = fars[f.of].value)
ListReads(rows, list) == \A id \in DOMAIN list : Reads(rows, id, list[id])
ListsRead == ListReads(s2, s5) /\ \A n \in DOMAIN s6.answers : ListReads(s2, s6.answers[n].rows)
FormReads(rows, fars, n, f) ==
    /\ f.of # None => Reads(rows, f.of, f.row)
    /\ f.row.of = f.of /\ f.near.of \in {f.of, None}
    /\ ReadsNear(rows, f) /\ ReadsFar(fars, f)
    /\ f.open => s1 \in {"users", "groups", "orgs", "zones"}
    /\ f.no <= n + 1
SaveReads(rows, fars, n, s) ==
    /\ s.op # "delete" => ReadsNear(rows, s.form) /\ ReadsFar(fars, s.form) /\ s.form.no <= n + 1
    /\ s.op = "row" => (s.form.of = None => "near" \in s.form.typed)
    /\ s.op = "far" => /\ s.form.of \in {s.on, None} /\ s1 \in {"users", "zones"}
                       /\ s1 = "zones" => "far" \in s.form.typed
    /\ s.op # "row" => rows[s.on] # None
SavesRead == \A s \in s9 : SaveReads(s2, s3, s13, s)

(* What is stored was meant. *)
NearKept ==
    \A id \in Records : Page!Stored(id) => s2[id].value = s4.near[id] \/ <<id, "near">> \in s12.muddled
FarKept ==
    /\ \A id \in Records : s3[id].value = s4.far[id] \/ <<id, "far">> \in s12.muddled
    /\ s1 \notin {"users", "groups", "zones"} => \A id \in Records : s3[id].value = s4.far[id]
    /\ \A id \in Records : s3[id].at = 0 => s3[id].value = 0
    /\ \A id \in Records : s2[id] = None => s3[id].at = 0
LastIsCurrent == s6.answers # <<>> /\ LET last == s6.answers[Len(s6.answers)] IN ~last.late /\ last.rows = Page!Current
AllLate == \A n \in DOMAIN s6.answers : s6.answers[n].late
FollowInv ==
    \/ s12.behind \/ s6.asked > 0 \/ (s1 = "zones" /\ \E s \in s9 : s.op = "far")
    \/ LastIsCurrent \/ (AllLate /\ s5 = Page!Current)
PanelInv ==
    /\ s12.crossed \/ s10.of = None \/ (s11 \subseteq {s10.of} /\ s10.lists \in {None, s10.of})
    /\ s11 # {} \/ s10.lists # None => s1 = "users"
Writes == {s \in s9 : s.op = "row"}
Stores == {s \in s9 : s.op # "delete"}
CountInv ==
    /\ s1 \in {"users", "groups"} => Cardinality(Stores) <= 1
    /\ Cardinality(Writes) <= s13
    /\ \A id \in Records : Page!Stored(id) => s2[id].at + Cardinality(Writes) <= s13 + 1
FormIsSaved(no) ==
    /\ \A s \in Writes : s.form.no # no
    /\ s7.open /\ s7.no = no => \E s \in s9 : s.op = "far"
OnceInv ==
    /\ \A id \in Records : Page!Stored(id) => s2[id].by <= s13 + 1
    /\ s1 \in {"users", "groups"} =>
        \A id \in Records : Page!Stored(id) /\ s2[id].by \notin s12.doubled \cup {0} =>
            /\ \A other \in Records \ {id} : Page!Stored(other) => s2[other].by # s2[id].by
            /\ FormIsSaved(s2[id].by)
PageInv ==
    /\ PageTypes /\ ListsRead /\ FormReads(s2, s3, s13, s7) /\ SavesRead
    /\ NearKept /\ FarKept /\ FollowInv /\ PanelInv /\ CountInv /\ OnceInv

LEMMA PageNames ==
    ASSUME Page!PagesAssumption
    PROVE  /\ None \notin Records /\ Gone \notin Records /\ None # Gone
           /\ \A row \in Written : There(row)
           /\ ForPages.acts \in Nat
<1>1. \A row \in Written : row \in [value : Nat, at : Nat, by : Nat]
    BY DEF Written
<1> QED  BY <1>1 DEF Page!PagesAssumption, There

LEMMA PageShapes ==
    ASSUME s1 \in {"users", "groups", "orgs", "zones", "vehicles", "devices"}
    PROVE  /\ Page!HasFar <=> s1 \in {"users", "groups", "zones"}
           /\ Page!Page.guarded <=> s1 \in {"users", "groups"}
           /\ Page!Page.form <=> s1 \in {"users", "groups", "orgs", "zones"}
<1>1. CASE s1 = "users"
    <2>1. Page!Page.far = "apart" /\ Page!Page.form = TRUE /\ Page!Page.guarded = TRUE
        BY <1>1 DEF Page!Page, Page!UsersAdminPage, Page!Has
    <2> QED  BY <1>1, <2>1 DEF Page!HasFar
<1>2. CASE s1 = "groups"
    <2>1. Page!Page.far = "with" /\ Page!Page.form = TRUE /\ Page!Page.guarded = TRUE
        BY <1>2 DEF Page!Page, Page!GroupsAdminPage, Page!Has
    <2> QED  BY <1>2, <2>1 DEF Page!HasFar
<1>3. CASE s1 = "orgs"
    <2>1. Page!Page.far = "none" /\ Page!Page.form = TRUE /\ Page!Page.guarded = FALSE
        BY <1>3 DEF Page!Page, Page!OrgsAdminPage, Page!Has
    <2> QED  BY <1>3, <2>1 DEF Page!HasFar
<1>4. CASE s1 = "zones"
    <2>1. Page!Page.far = "apart" /\ Page!Page.form = TRUE /\ Page!Page.guarded = FALSE
        BY <1>4 DEF Page!Page, Page!GeofencesAdminPage, Page!Has
    <2> QED  BY <1>4, <2>1 DEF Page!HasFar
<1>5. CASE s1 = "vehicles"
    <2>1. Page!Page.far = "none" /\ Page!Page.form = FALSE /\ Page!Page.guarded = FALSE
        BY <1>5 DEF Page!Page, Page!VehiclesAdminPage, Page!Has
    <2> QED  BY <1>5, <2>1 DEF Page!HasFar
<1>6. CASE s1 = "devices"
    <2>1. Page!Page.far = "none" /\ Page!Page.form = FALSE /\ Page!Page.guarded = FALSE
        BY <1>6 DEF Page!Page, Page!DevicesAdminPage, Page!Has
    <2> QED  BY <1>6, <2>1 DEF Page!HasFar
<1> QED  BY <1>1, <1>2, <1>3, <1>4, <1>5, <1>6

(* Rows go on: what is there is written again, or deleted for good.        *)
Later(rows, then) ==
    \A id \in Records : rows[id] # None =>
        /\ then[id] # None
        /\ There(then[id]) => /\ There(rows[id]) /\ rows[id].at <= then[id].at
                              /\ rows[id].at = then[id].at => rows[id].value = then[id].value
FarLater(fars, then) ==
    \A id \in Records : fars[id].at <= then[id].at /\ (fars[id].at = then[id].at => fars[id].value = then[id].value)

LEMMA StillRead ==
    ASSUME NEW rows \in [Records -> Written \cup {None, Gone}],
           NEW then \in [Records -> Written \cup {None, Gone}], Later(rows, then),
           NEW id \in Records, NEW copy, copy.at \in Nat, Reads(rows, id, copy)
    PROVE  Reads(then, id, copy)
<1> SUFFICES ASSUME There(then[id])
             PROVE  copy.at <= then[id].at /\ (copy.at = then[id].at => copy.value = then[id].value)
    BY DEF Later, Reads
<1>1. There(rows[id]) /\ rows[id].at <= then[id].at /\ (rows[id].at = then[id].at => rows[id].value = then[id].value)
    BY DEF Later, Reads
<1>2. copy.at <= rows[id].at /\ (copy.at = rows[id].at => copy.value = rows[id].value)
    BY <1>1 DEF Reads
<1>3. rows[id] \in Written /\ then[id] \in Written
    BY <1>1 DEF There
<1>4. rows[id].at \in Nat /\ then[id].at \in Nat
    BY <1>3 DEF Written
<1> QED  BY <1>1, <1>2, <1>4

LEMMA FormStillReads ==
    ASSUME NEW rows \in [Records -> Written \cup {None, Gone}],
           NEW then \in [Records -> Written \cup {None, Gone}], Later(rows, then),
           NEW fars \in [Records -> FarParts], NEW farsThen \in [Records -> FarParts], FarLater(fars, farsThen),
           NEW f \in PageForms
    PROVE  /\ ReadsNear(rows, f) => ReadsNear(then, f)
           /\ f.of # None /\ Reads(rows, f.of, f.row) => Reads(then, f.of, f.row)
           /\ ReadsFar(fars, f) => ReadsFar(farsThen, f)
<1>1. /\ f.of \in AtNone /\ f.near.at \in Nat /\ f.row.at \in Nat /\ f.far.at \in Nat
    BY DEF PageForms, Copies
<1>2. f.of # None => f.of \in Records
    BY <1>1 DEF AtNone
<1>3. ReadsNear(rows, f) => ReadsNear(then, f)
    BY <1>1, <1>2, StillRead DEF ReadsNear
<1>4. f.of # None /\ Reads(rows, f.of, f.row) => Reads(then, f.of, f.row)
    BY <1>1, <1>2, StillRead
<1>5. \A id \in Records : fars[id].at \in Nat /\ farsThen[id].at \in Nat
    BY DEF FarParts
<1>6. ReadsFar(fars, f) => ReadsFar(farsThen, f)
    <2> SUFFICES ASSUME ReadsFar(fars, f), "far" \notin f.typed /\ ~f.foreign /\ s1 \in {"users", "groups", "zones"},
                        f.of # None
                 PROVE  f.far.at <= farsThen[f.of].at /\ (f.far.at = farsThen[f.of].at => f.far.value = farsThen[f.of].value)
        BY DEF ReadsFar
    <2>1. f.far.at <= fars[f.of].at /\ (f.far.at = fars[f.of].at => f.far.value = fars[f.of].value)
        BY DEF ReadsFar
    <2>2. fars[f.of].at <= farsThen[f.of].at /\ (fars[f.of].at = farsThen[f.of].at => fars[f.of].value = farsThen[f.of].value)
        BY <1>2 DEF FarLater
    <2>3. fars[f.of].at \in Nat /\ farsThen[f.of].at \in Nat
        BY <1>2, <1>5
    <2> QED  BY <1>1, <2>1, <2>2, <2>3
<1> QED  BY <1>3, <1>4, <1>6

LEMMA ListStillReads ==
    ASSUME NEW rows \in [Records -> Written \cup {None, Gone}],
           NEW then \in [Records -> Written \cup {None, Gone}], Later(rows, then),
           NEW list \in Contents, ListReads(rows, list)
    PROVE  ListReads(then, list)
<1>1. \A id \in DOMAIN list : id \in Records /\ list[id] \in Written
    BY DEF Contents
<1>2. \A id \in DOMAIN list : id \in Records /\ list[id].at \in Nat
    BY <1>1 DEF Written
<1> QED  BY <1>2, StillRead DEF ListReads

LEMMA Same ==
    /\ \A rows \in [Records -> Written \cup {None, Gone}] : Later(rows, rows)
    /\ \A fars \in [Records -> FarParts] : FarLater(fars, fars)
<1>1. ASSUME NEW rows \in [Records -> Written \cup {None, Gone}] PROVE Later(rows, rows)
    <2>1. \A id \in Records : There(rows[id]) => rows[id].at \in Nat
        BY DEF There, Written
    <2> QED  BY <2>1 DEF Later
<1>2. ASSUME NEW fars \in [Records -> FarParts] PROVE FarLater(fars, fars)
    <2>1. \A id \in Records : fars[id].at \in Nat
        BY DEF FarParts
    <2> QED  BY <2>1 DEF FarLater
<1> QED  BY <1>1, <1>2

LEMMA BlankIsCopy == Page!Blank \in Copies /\ Page!Blank.of = None /\ Page!Blank.value = 0 /\ Page!Blank.at = 0
    BY DEF Page!Blank, Copies, AtNone

LEMMA AsksAreRecords ==
    ASSUME PageTypes, NEW of \in AtNone
    PROVE  Page!Asks(of) \subseteq AtNone /\ (s1 = "groups" => Page!Asks(of) # {})
    BY DEF Page!Asks

(* What the effects leave in a form is what was read of its record.        *)
LEMMA Filling ==
    ASSUME PageTypes, FarKept, FormReads(s2, s3, s13, s7), NEW of \in AtNone, NEW row \in Copies, row.of = of,
           of # None => Reads(s2, of, row), NEW x, x = Page!Filled(of, row)
    PROVE  /\ x \in PageForms /\ FormReads(s2, s3, s13, x)
           /\ x.open = s7.open /\ x.no = s7.no /\ x.of = of /\ x.row = row /\ x.typed = {}
<1> DEFINE far == IF s1 = "groups" THEN s7.far ELSE Page!Blank
           other == Page!Asks(of) # {}
<1>1. s7 \in PageForms
    BY DEF PageTypes
<1>2. far \in Copies
    BY <1>1, BlankIsCopy DEF PageForms
<1>3. other \in BOOLEAN /\ (s1 = "groups" => other)
    BY AsksAreRecords
<1>4. x = [s7 EXCEPT !.of = of, !.row = row, !.typed = {}, !.near = row, !.far = far, !.foreign = other]
    BY DEF Page!Filled
<1>5. ~other => far.at = 0 /\ far.value = 0
    BY <1>3, BlankIsCopy
<1> HIDE DEF far, other
<1>6. /\ x \in PageForms /\ x.open = s7.open /\ x.no = s7.no /\ x.of = of /\ x.row = row /\ x.near = row
      /\ x.typed = {} /\ x.far = far /\ (x.foreign <=> other)
    BY <1>1, <1>2, <1>3, <1>4 DEF PageForms
<1>7. ReadsFar(s3, x)
    <2> SUFFICES ASSUME ~other, of # None
                 PROVE  far.at <= s3[of].at /\ (far.at = s3[of].at => far.value = s3[of].value)
        BY <1>5, <1>6 DEF ReadsFar
    <2>1. of \in Records
        BY DEF AtNone
    <2>2. s3[of].at \in Nat /\ (s3[of].at = 0 => s3[of].value = 0)
        BY <2>1 DEF FarKept, PageTypes, RowTypes, FarParts
    <2> QED  BY <1>5, <2>2
<1>8. FormReads(s2, s3, s13, x)
    BY <1>6, <1>7 DEF FormReads, ReadsNear
<1> QED  BY <1>6, <1>8

(* A form that is opened or closed otherwise keeps what it has.            *)
LEMMA OpenIsSet ==
    ASSUME NEW f \in PageForms, FormReads(s2, s3, s13, f), NEW b \in BOOLEAN,
           b => s1 \in {"users", "groups", "orgs", "zones"}, NEW x, x = [f EXCEPT !.open = b]
    PROVE  x \in PageForms /\ FormReads(s2, s3, s13, x) /\ (x.open <=> b) /\ x.no = f.no
<1>1. /\ x \in PageForms /\ (x.open <=> b) /\ x.no = f.no /\ x.of = f.of /\ x.row = f.row /\ x.near = f.near
      /\ x.far = f.far /\ x.typed = f.typed /\ (x.foreign <=> f.foreign)
    BY DEF PageForms
<1> QED  BY <1>1 DEF FormReads, ReadsNear, ReadsFar

LEMMA FormOfRow ==
    ASSUME PageTypes, FormReads(s2, s3, s13, s7)
    PROVE  /\ s7 \in PageForms /\ s7.of \in AtNone /\ s7.row \in Copies /\ s7.row.of = s7.of
           /\ s7.of # None => Reads(s2, s7.of, s7.row)
    BY DEF PageTypes, PageForms, FormReads

LEMMA Closes ==
    ASSUME PageTypes, FarKept, FormReads(s2, s3, s13, s7), Page!Close
    PROVE  s7' \in PageForms /\ FormReads(s2, s3, s13, s7') /\ ~s7'.open /\ s8' \subseteq AtNone
<1>1. /\ s7 \in PageForms /\ s7.of \in AtNone /\ s7.row \in Copies /\ s7.row.of = s7.of
      /\ s7.of # None => Reads(s2, s7.of, s7.row)
    BY FormOfRow
<1>2. s8' \subseteq AtNone
    BY <1>1, AsksAreRecords DEF Page!Close, PageTypes
<1>3. CASE ~s7.open
    BY <1>1, <1>2, <1>3 DEF Page!Close
<1>4. CASE s7.open
    <2> DEFINE x == IF s1 = "users" THEN Page!Filled(s7.of, s7.row) ELSE s7
    <2>1. x \in PageForms /\ FormReads(s2, s3, s13, x)
        BY <1>1, Filling
    <2>2. s7' = [x EXCEPT !.open = FALSE]
        BY <1>4 DEF Page!Close, Page!Closed
    <2> HIDE DEF x
    <2>3. s7' \in PageForms /\ FormReads(s2, s3, s13, s7') /\ (s7'.open <=> FALSE)
        <3>1. FALSE \in BOOLEAN
            OBVIOUS
        <3> QED  BY <2>1, <2>2, <3>1, OpenIsSet
    <2> QED  BY <1>2, <2>3
<1> QED  BY <1>3, <1>4

(* Nothing is stored or asked of the server, but a form changes.           *)
LEMMA FormMoves ==
    ASSUME PageInv, UNCHANGED <<s1, s2, s3, s4, s5, s9, s10, s11, s12>>,
           s6' = s6 \/ s6' = [s6 EXCEPT !.orgs = FALSE],
           s7' \in PageForms, FormReads(s2, s3, s13', s7'), s8' \subseteq AtNone,
           s13' = s13 \/ (s13' = s13 + 1 /\ s13' <= ForPages.acts),
           s7'.open => (s7.open /\ s7'.no = s7.no) \/ s7'.no > s13 + 1
    PROVE  PageInv'
<1>1. s13 \in Nat /\ s13' \in Nat /\ s13 <= s13' /\ s13' <= ForPages.acts
    BY DEF PageInv, PageTypes
<1>2. s6' \in [asked : Nat, answers : Seq(ListAnswers), orgs : BOOLEAN] /\ s6'.asked = s6.asked /\ s6'.answers = s6.answers
    BY DEF PageInv, PageTypes, ListTypes
<1>3. PageTypes'
    BY <1>1, <1>2 DEF PageInv, PageTypes, RowTypes, ListTypes, SaveTypes, NoteTypes
<1>4. ListsRead' /\ FormReads(s2, s3, s13, s7)'
    BY <1>2 DEF PageInv, ListsRead, ListReads, FormReads, ReadsFar
<1>5. SavesRead'
    <2> SUFFICES ASSUME NEW s \in s9 PROVE SaveReads(s2, s3, s13, s)'
        BY DEF SavesRead
    <2>1. SaveReads(s2, s3, s13, s)
        BY DEF PageInv, SavesRead
    <2>2. s.op # "delete" => s.form.no \in Nat
        BY DEF PageInv, PageTypes, SaveTypes, RowSaves, FarSaves, Deletions, PageForms
    <2> QED  BY <1>1, <2>1, <2>2 DEF SaveReads, ReadsFar
<1>6. NearKept' /\ FarKept' /\ PanelInv'
    BY DEF PageInv, NearKept, FarKept, PanelInv, Page!Stored
<1>7. FollowInv'
    <2>1. Page!Current' = Page!Current
        BY DEF Page!Current, Page!Stored
    <2> QED  BY <1>2, <2>1 DEF PageInv, FollowInv, LastIsCurrent, AllLate
<1>8. Writes' = Writes /\ Stores' = Stores /\ (\A id : Page!Stored(id)' <=> Page!Stored(id))
    BY DEF Writes, Stores, Page!Stored
<1>9. CountInv'
    <2>1. Cardinality(Writes) \in Nat
        <3>1. Writes \subseteq s9 /\ IsFiniteSet(s9)
            BY DEF Writes, PageInv, PageTypes, SaveTypes
        <3> QED  BY <3>1, FS_Subset, FS_CardinalityType
    <2>2. \A id \in Records : Page!Stored(id) => s2[id].at \in Nat
        BY DEF Page!Stored, PageInv, PageTypes, RowTypes, Written
    <2> QED  BY <1>1, <1>8, <2>1, <2>2 DEF PageInv, CountInv
<1>10. OnceInv'
    <2>1. \A id \in Records : Page!Stored(id) => s2[id].by \in Nat /\ s2[id].by <= s13 + 1 /\ s2[id].by <= s13' + 1
        <3>1. \A id \in Records : Page!Stored(id) => s2[id].by \in Nat
            BY DEF Page!Stored, PageInv, PageTypes, RowTypes, Written
        <3> QED  BY <1>1, <3>1 DEF PageInv, OnceInv
    <2>2. ASSUME NEW id \in Records, Page!Stored(id), FormIsSaved(s2[id].by)
          PROVE  FormIsSaved(s2[id].by)'
        <3>1. s7'.open /\ s7'.no = s2[id].by => s7.open /\ s7.no = s2[id].by
            <4>1. s7'.no \in Nat
                BY DEF PageForms
            <4> QED  BY <1>1, <2>1, <2>2, <4>1
        <3> QED  BY <1>8, <2>2, <3>1 DEF FormIsSaved
    <2>3. \A id \in Records : (Page!Stored(id) => s2[id].by <= s13 + 1)'
        BY <1>8, <2>1
    <2> QED  BY <1>8, <2>2, <2>3 DEF PageInv, OnceInv
<1> QED  BY <1>3, <1>4, <1>5, <1>6, <1>7, <1>9, <1>10 DEF PageInv

(* Of what was once read, the row is there.                                *)
LEMMA ShownIsRead ==
    ASSUME PageInv, NEW id \in DOMAIN s5
    PROVE  /\ id \in Records /\ s5[id].value \in Nat /\ s5[id].at \in Nat
           /\ Reads(s2, id, s5[id])
    BY DEF PageInv, PageTypes, ListTypes, Contents, Written, ListsRead, ListReads

LEMMA FormOpens ==
    ASSUME Page!PagesAssumption, PageInv, NEW of \in AtNone, Page!Open(of)
    PROVE  PageInv'
<1> DEFINE row == IF of = None THEN Page!Blank ELSE [of |-> of, value |-> s5[of].value, at |-> s5[of].at]
           x == Page!Filled(of, row)
           y == [x EXCEPT !.open = TRUE]
<1>1. /\ s13 \in Nat /\ s13' = s13 + 1 /\ s13' <= ForPages.acts
      /\ s1 \in {"users", "groups", "orgs", "zones"} /\ (of # None => of \in DOMAIN s5)
      /\ s8' \subseteq AtNone
      /\ UNCHANGED <<s1, s2, s3, s4, s5, s6, s9, s10, s11, s12>>
    <2>1. s13 \in Nat /\ s13 < ForPages.acts /\ s13' = s13 + 1 /\ ForPages.acts \in Nat
        BY PageNames DEF Page!Open, Page!Act, PageInv, PageTypes
    <2>2. Page!Asks(of) \subseteq AtNone /\ s8 \subseteq AtNone
        BY AsksAreRecords DEF PageInv, PageTypes
    <2>3. Page!Page.form /\ s1 \in {"users", "groups", "orgs", "zones", "vehicles", "devices"}
        BY DEF Page!Open, PageInv, PageTypes
    <2>4. s1 \in {"users", "groups", "orgs", "zones"}
        BY <2>3, PageShapes
    <2> QED  BY <2>1, <2>2, <2>4 DEF Page!Open
<1>2. row \in Copies /\ row.of = of /\ (of # None => Reads(s2, of, row))
    <2>1. CASE of = None
        BY <2>1, BlankIsCopy
    <2>2. CASE of # None
        <3>1. /\ of \in Records /\ s5[of].value \in Nat /\ s5[of].at \in Nat
              /\ Reads(s2, of, s5[of])
            BY <1>1, <2>2, ShownIsRead
        <3>2. row = [of |-> of, value |-> s5[of].value, at |-> s5[of].at]
            BY <2>2
        <3>3. row \in Copies /\ row.of = of /\ row.value = s5[of].value /\ row.at = s5[of].at
            BY <3>1, <3>2 DEF Copies, AtNone
        <3> QED  BY <3>1, <3>3 DEF Reads
    <2> QED  BY <2>1, <2>2
<1>3. s7' = [y EXCEPT !.no = s13 + 2]
    BY DEF Page!Open
<1> HIDE DEF row
<1>4. x \in PageForms /\ FormReads(s2, s3, s13, x)
    BY <1>2, Filling DEF PageInv
<1> HIDE DEF x
<1>5. TRUE \in BOOLEAN
    OBVIOUS
<1>6. y \in PageForms /\ FormReads(s2, s3, s13, y)
    BY <1>1, <1>4, <1>5, OpenIsSet
<1> HIDE DEF y
<1>7. /\ s7' \in PageForms /\ s7'.no = s13 + 2 /\ s7'.of = y.of /\ s7'.row = y.row /\ s7'.near = y.near
      /\ s7'.far = y.far /\ s7'.typed = y.typed /\ (s7'.foreign <=> y.foreign) /\ (s7'.open <=> y.open)
    <2>1. s13 + 2 \in Nat
        BY <1>1
    <2> QED  BY <1>3, <1>6, <2>1 DEF PageForms
<1>8. FormReads(s2, s3, s13', s7')
    BY <1>1, <1>6, <1>7 DEF FormReads, ReadsNear, ReadsFar
<1> QED  BY <1>1, <1>7, <1>8, FormMoves

LEMMA FormCancelled ==
    ASSUME PageInv, Page!Cancel
    PROVE  PageInv'
<1>1. s7' \in PageForms /\ FormReads(s2, s3, s13, s7') /\ ~s7'.open /\ s8' \subseteq AtNone
    BY Closes DEF PageInv, Page!Cancel
<1>2. UNCHANGED <<s1, s2, s3, s4, s5, s6, s9, s10, s11, s12, s13>>
    BY DEF Page!Cancel
<1> QED  BY <1>1, <1>2, FormMoves

LEMMA OrgsAreThere ==
    ASSUME PageInv, Page!OrgsArrive
    PROVE  PageInv'
<1>1. /\ s6' = [s6 EXCEPT !.orgs = FALSE] /\ s7' = Page!Filled(s7.of, s7.row) /\ s8' = s8 \cup Page!Asks(s7.of)
      /\ UNCHANGED <<s1, s2, s3, s4, s5, s9, s10, s11, s12, s13>>
    BY DEF Page!OrgsArrive
<1>2. /\ s7 \in PageForms /\ s7.of \in AtNone /\ s7.row \in Copies /\ s7.row.of = s7.of
      /\ s7.of # None => Reads(s2, s7.of, s7.row)
    BY FormOfRow DEF PageInv
<1>3. s7' \in PageForms /\ FormReads(s2, s3, s13, s7') /\ s7'.open = s7.open /\ s7'.no = s7.no
    BY <1>1, <1>2, Filling DEF PageInv
<1>4. s8' \subseteq AtNone
    BY <1>1, <1>2, AsksAreRecords DEF PageInv, PageTypes
<1> QED  BY <1>1, <1>3, <1>4, FormMoves

LEMMA FarIsThere ==
    ASSUME PageInv, NEW of \in AtNone, Page!FarArrives(of)
    PROVE  PageInv'
<1> DEFINE far == IF of = None THEN Page!Blank ELSE [of |-> of, value |-> s3[of].value, at |-> s3[of].at]
           typed == s7.typed \ {"far"}
           other == of # s7.of
<1>1. /\ s8' = s8 \ {of} /\ s7' = [s7 EXCEPT !.far = far, !.typed = typed, !.foreign = other]
      /\ UNCHANGED <<s1, s2, s3, s4, s5, s6, s9, s10, s11, s12, s13>>
    BY DEF Page!FarArrives, PageInv, PageTypes, PageForms
<1>2. s7 \in PageForms /\ s8' \subseteq AtNone /\ FormReads(s2, s3, s13, s7)
    BY <1>1 DEF PageInv, PageTypes
<1>3. of # None => of \in Records /\ s3[of].value \in Nat /\ s3[of].at \in Nat
    BY DEF AtNone, PageInv, PageTypes, RowTypes, FarParts
<1>4. far \in Copies /\ IF of = None THEN far.value = 0 /\ far.at = 0 ELSE far.value = s3[of].value /\ far.at = s3[of].at
    <2>1. CASE of = None
        BY <2>1, BlankIsCopy
    <2>2. CASE of # None
        <3>1. far = [of |-> of, value |-> s3[of].value, at |-> s3[of].at]
            BY <2>2
        <3> QED  BY <1>3, <2>2, <3>1 DEF Copies, AtNone
    <2> QED  BY <2>1, <2>2
<1>5. typed \in SUBSET {"near", "far"} /\ other \in BOOLEAN
    BY <1>2 DEF PageForms
<1>6. "near" \in typed <=> "near" \in s7.typed
    OBVIOUS
<1> HIDE DEF far, typed
<1>7. /\ s7' \in PageForms /\ s7'.no = s7.no /\ s7'.of = s7.of /\ s7'.row = s7.row /\ s7'.near = s7.near
      /\ s7'.far = far /\ s7'.typed = typed /\ (s7'.foreign <=> other) /\ (s7'.open <=> s7.open)
    <2> HIDE DEF other
    <2> QED  BY <1>1, <1>2, <1>4, <1>5 DEF PageForms
<1>8. ReadsFar(s3, s7')
    BY <1>3, <1>4, <1>7 DEF ReadsFar
<1>9. FormReads(s2, s3, s13, s7')
    BY <1>2, <1>6, <1>7, <1>8 DEF FormReads, ReadsNear
<1> QED  BY <1>1, <1>2, <1>7, <1>9, FormMoves

LEMMA FarIsNot ==
    ASSUME PageInv, NEW of \in AtNone, Page!FarAskFails(of)
    PROVE  PageInv'
<1>1. s8' \subseteq AtNone /\ UNCHANGED <<s1, s2, s3, s4, s5, s6, s7, s9, s10, s11, s12, s13>>
    BY DEF Page!FarAskFails, PageInv, PageTypes
<1>2. s7 \in PageForms /\ FormReads(s2, s3, s13, s7)
    BY DEF PageInv, PageTypes
<1>3. s7' \in PageForms /\ FormReads(s2, s3, s13', s7') /\ s7' = s7
    BY <1>1, <1>2
<1> QED  BY <1>1, <1>3, FormMoves

LEMMA Types ==
    ASSUME PageInv, NEW part \in {"near", "far"}, Page!Type(part)
    PROVE  PageInv'
<1> DEFINE typed == s7.typed \cup {part}
           near == [s7.near EXCEPT !.value = s7.no]
           far == [s7.far EXCEPT !.value = s7.no]
<1>1. s7 \in PageForms /\ s8 \subseteq AtNone /\ FormReads(s2, s3, s13, s7)
    BY DEF PageInv, PageTypes
<1>2. UNCHANGED <<s1, s2, s3, s4, s5, s6, s8, s9, s10, s11, s12, s13>>
    BY DEF Page!Type
<1>3. typed \in SUBSET {"near", "far"} /\ s7.no \in Nat /\ s7.near \in Copies /\ s7.far \in Copies
    BY <1>1 DEF PageForms
<1>4. near \in Copies /\ far \in Copies /\ near.of = s7.near.of
    BY <1>3 DEF Copies
<1>5. CASE part = "near"
    <2>1. s7' = [s7 EXCEPT !.near = near, !.typed = typed]
        BY <1>1, <1>3, <1>5 DEF Page!Type, PageForms, Copies
    <2>2. "near" \in typed /\ ("far" \in typed <=> "far" \in s7.typed)
        BY <1>5
    <2> HIDE DEF near, typed
    <2>3. /\ s7' \in PageForms /\ s7'.no = s7.no /\ s7'.of = s7.of /\ s7'.row = s7.row /\ s7'.near = near
          /\ s7'.far = s7.far /\ s7'.typed = typed /\ (s7'.foreign <=> s7.foreign) /\ (s7'.open <=> s7.open)
        BY <1>1, <1>3, <1>4, <2>1 DEF PageForms
    <2>4. FormReads(s2, s3, s13, s7')
        BY <1>1, <1>4, <2>2, <2>3 DEF FormReads, ReadsNear, ReadsFar
    <2> QED  BY <1>1, <1>2, <2>3, <2>4, FormMoves
<1>6. CASE part = "far"
    <2>1. s7' = [s7 EXCEPT !.far = far, !.typed = typed]
        BY <1>1, <1>3, <1>6 DEF Page!Type, PageForms, Copies
    <2>2. "far" \in typed /\ ("near" \in typed <=> "near" \in s7.typed)
        BY <1>6
    <2> HIDE DEF far, typed
    <2>3. /\ s7' \in PageForms /\ s7'.no = s7.no /\ s7'.of = s7.of /\ s7'.row = s7.row /\ s7'.near = s7.near
          /\ s7'.far = far /\ s7'.typed = typed /\ (s7'.foreign <=> s7.foreign) /\ (s7'.open <=> s7.open)
        BY <1>1, <1>3, <1>4, <2>1 DEF PageForms
    <2>4. FormReads(s2, s3, s13, s7')
        BY <1>1, <2>2, <2>3 DEF FormReads, ReadsNear, ReadsFar
    <2> QED  BY <1>1, <1>2, <2>3, <2>4, FormMoves
<1> QED  BY <1>5, <1>6

(* Nothing is stored, and nothing submitted.                               *)
LEMMA NothingStored ==
    ASSUME PageInv, UNCHANGED <<s1, s2, s3, s4, s9>>, PageTypes', ListsRead', FormReads(s2, s3, s13', s7'),
           FollowInv', PanelInv', s12'.muddled = s12.muddled, s12'.doubled = s12.doubled, s13 <= s13',
           s7'.open => s7.open /\ s7'.no = s7.no
    PROVE  PageInv'
<1>1. s13 \in Nat /\ s13' \in Nat
    BY DEF PageInv, PageTypes
<1>2. FormReads(s2, s3, s13, s7)'
    BY DEF FormReads, ReadsFar
<1>3. SavesRead'
    <2> SUFFICES ASSUME NEW s \in s9 PROVE SaveReads(s2, s3, s13, s)'
        BY DEF SavesRead
    <2>1. SaveReads(s2, s3, s13, s)
        BY DEF PageInv, SavesRead
    <2>2. s.op # "delete" => s.form.no \in Nat
        BY DEF PageInv, PageTypes, SaveTypes, RowSaves, FarSaves, Deletions, PageForms
    <2> QED  BY <1>1, <2>1, <2>2 DEF SaveReads, ReadsFar
<1>4. NearKept' /\ FarKept'
    BY DEF PageInv, NearKept, FarKept, Page!Stored
<1>5. Writes' = Writes /\ Stores' = Stores /\ (\A id : Page!Stored(id)' <=> Page!Stored(id))
    BY DEF Writes, Stores, Page!Stored
<1>6. CountInv'
    <2>1. Cardinality(Writes) \in Nat
        <3>1. Writes \subseteq s9 /\ IsFiniteSet(s9)
            BY DEF Writes, PageInv, PageTypes, SaveTypes
        <3> QED  BY <3>1, FS_Subset, FS_CardinalityType
    <2>2. \A id \in Records : Page!Stored(id) => s2[id].at \in Nat
        BY DEF Page!Stored, PageInv, PageTypes, RowTypes, Written
    <2> QED  BY <1>1, <1>5, <2>1, <2>2 DEF PageInv, CountInv
<1>7. OnceInv'
    <2>1. \A id \in Records : Page!Stored(id) => s2[id].by \in Nat /\ s2[id].by <= s13' + 1
        <3>1. \A id \in Records : Page!Stored(id) => s2[id].by \in Nat
            BY DEF Page!Stored, PageInv, PageTypes, RowTypes, Written
        <3> QED  BY <1>1, <3>1 DEF PageInv, OnceInv
    <2>2. ASSUME NEW no, FormIsSaved(no) PROVE FormIsSaved(no)'
        BY <1>5, <2>2 DEF FormIsSaved
    <2>3. \A id \in Records : (Page!Stored(id) => s2[id].by <= s13 + 1)'
        BY <1>5, <2>1
    <2>4. \A id \in Records : FormIsSaved(s2[id].by) => FormIsSaved(s2[id].by)'
        BY <2>2
    <2> QED  BY <1>5, <2>3, <2>4 DEF PageInv, OnceInv
<1> QED  BY <1>2, <1>3, <1>4, <1>6, <1>7 DEF PageInv

(* What is stored now is a list, read as it is.                            *)
LEMMA CurrentIsRead ==
    ASSUME PageInv
    PROVE  Page!Current \in Contents /\ ListReads(s2, Page!Current)
<1>1. \A id \in Records : Page!Stored(id) => s2[id] \in Written
    BY DEF Page!Stored, PageInv, PageTypes, RowTypes
<1>2. Page!Current = [id \in {i \in Records : Page!Stored(i)} |-> s2[id]]
    BY DEF Page!Current
<1> DEFINE there == {i \in Records : Page!Stored(i)}
<1>3. there \in SUBSET Records /\ Page!Current \in [there -> Written]
    BY <1>1, <1>2
<1>4. ASSUME NEW id \in there PROVE Reads(s2, id, Page!Current[id])
    <2>1. Page!Current[id] = s2[id] /\ s2[id] \in Written
        BY <1>1, <1>2
    <2>2. s2[id].at \in Nat /\ s2[id] # None
        BY <2>1 DEF Written, Page!Stored
    <2> QED  BY <2>1, <2>2 DEF Reads
<1> HIDE DEF there
<1> QED  BY <1>3, <1>4 DEF ListReads, Contents

LEMMA CurrentStays == ASSUME s2' = s2 PROVE Page!Current' = Page!Current
    BY DEF Page!Current, Page!Stored

LEMMA FormStays ==
    ASSUME PageInv, UNCHANGED <<s1, s2, s3, s7>>, s13' \in Nat, s13 <= s13'
    PROVE  FormReads(s2, s3, s13', s7') /\ s7' \in PageForms
<1>1. s7.no \in Nat /\ s7 \in PageForms /\ s13 \in Nat
    BY DEF PageInv, PageTypes, PageForms
<1> QED  BY <1>1 DEF PageInv, FormReads

LEMMA ListIsRead ==
    ASSUME PageInv, Page!ReadList
    PROVE  PageInv'
<1> DEFINE a == [rows |-> Page!Current, late |-> FALSE]
           k == s6.asked - 1
           more == Append(s6.answers, a)
<1>1. /\ s6.asked > 0 /\ s6' = [s6 EXCEPT !.asked = k, !.answers = more]
      /\ UNCHANGED <<s1, s2, s3, s4, s5, s7, s8, s9, s10, s11, s12, s13>>
    BY DEF Page!ReadList
<1>2. s6.asked \in Nat /\ s6.answers \in Seq(ListAnswers)
    BY DEF PageInv, PageTypes, ListTypes
<1>3. a \in ListAnswers /\ a.rows = Page!Current /\ a.late = FALSE
    BY CurrentIsRead DEF ListAnswers
<1>4. k \in Nat /\ more \in Seq(ListAnswers) /\ Len(more) = Len(s6.answers) + 1 /\ more[Len(more)] = a
      /\ DOMAIN more = 1..Len(more) /\ Len(s6.answers) \in Nat
      /\ \A n \in DOMAIN more : (n \in DOMAIN s6.answers /\ more[n] = s6.answers[n]) \/ more[n] = a
    <2> HIDE DEF a
    <2> QED  BY <1>1, <1>2, <1>3
<1> HIDE DEF k, more, a
<1>5. s6' \in [asked : Nat, answers : Seq(ListAnswers), orgs : BOOLEAN] /\ s6'.answers = more
    BY <1>1, <1>4 DEF PageInv, PageTypes, ListTypes
<1>6. PageTypes'
    BY <1>1, <1>5 DEF PageInv, PageTypes, RowTypes, ListTypes, SaveTypes, NoteTypes
<1>7. ListsRead'
    <2>1. \A n \in DOMAIN more : ListReads(s2, more[n].rows)
        BY <1>3, <1>4, CurrentIsRead DEF PageInv, ListsRead
    <2>2. ListReads(s2, s5)
        BY DEF PageInv, ListsRead
    <2> QED  BY <1>1, <1>5, <2>1, <2>2 DEF ListsRead, ListReads
<1>8. FollowInv'
    <2>1. more # <<>>
        BY <1>4
    <2>2. Page!Current' = Page!Current
        BY <1>1, CurrentStays
    <2> QED  BY <1>3, <1>4, <1>5, <2>1, <2>2 DEF FollowInv, LastIsCurrent
<1>9. PanelInv' /\ s13 <= s13' /\ s13' \in Nat
    BY <1>1 DEF PageInv, PanelInv, PageTypes
<1> QED  BY <1>1, <1>6, <1>7, <1>8, <1>9, FormStays, NothingStored

LEMMA BehindIsSet ==
    ASSUME NoteTypes, NEW b \in BOOLEAN, NEW h, h = [s12 EXCEPT !.behind = b]
    PROVE  /\ (h.behind <=> b) /\ h.muddled = s12.muddled /\ h.doubled = s12.doubled /\ (h.crossed <=> s12.crossed)
           /\ h \in [muddled : SUBSET (Records \X {"near", "far"}), doubled : SUBSET Nat, behind : BOOLEAN, crossed : BOOLEAN]
    BY DEF NoteTypes

LEMMA ListIsNot ==
    ASSUME PageInv, Page!ListFails
    PROVE  PageInv'
<1> DEFINE k == s6.asked - 1
<1>1. /\ s6.asked > 0 /\ s6' = [s6 EXCEPT !.asked = k] /\ s12' = [s12 EXCEPT !.behind = TRUE]
      /\ UNCHANGED <<s1, s2, s3, s4, s5, s7, s8, s9, s10, s11, s13>>
    BY DEF Page!ListFails
<1>2. k \in Nat
    BY <1>1 DEF PageInv, PageTypes, ListTypes
<1> HIDE DEF k
<1>3. s6' \in [asked : Nat, answers : Seq(ListAnswers), orgs : BOOLEAN] /\ s6'.answers = s6.answers
    BY <1>1, <1>2 DEF PageInv, PageTypes, ListTypes
<1>4. /\ s12'.behind /\ s12'.muddled = s12.muddled /\ s12'.doubled = s12.doubled /\ (s12'.crossed <=> s12.crossed)
      /\ NoteTypes'
    <2>1. NoteTypes /\ TRUE \in BOOLEAN
        BY DEF PageInv, PageTypes
    <2> HIDE DEF NoteTypes
    <2>2. /\ (s12'.behind <=> TRUE) /\ s12'.muddled = s12.muddled /\ s12'.doubled = s12.doubled /\ (s12'.crossed <=> s12.crossed)
          /\ s12' \in [muddled : SUBSET (Records \X {"near", "far"}), doubled : SUBSET Nat, behind : BOOLEAN, crossed : BOOLEAN]
        BY <1>1, <2>1, BehindIsSet
    <2> QED  BY <2>2 DEF NoteTypes
<1>5. PageTypes'
    BY <1>1, <1>3, <1>4 DEF PageInv, PageTypes, RowTypes, ListTypes, SaveTypes
<1>6. ListsRead'
    BY <1>1, <1>3 DEF PageInv, ListsRead, ListReads
<1>7. FollowInv'
    BY <1>4 DEF FollowInv
<1>8. PanelInv' /\ s13 <= s13' /\ s13' \in Nat
    BY <1>1, <1>4 DEF PageInv, PanelInv, PageTypes
<1> QED  BY <1>1, <1>4, <1>5, <1>6, <1>7, <1>8, FormStays, NothingStored

(* Of the answers that are left, the last is the last, unless it came.     *)
LEMMA AnswersLeft ==
    ASSUME s6.answers \in Seq(ListAnswers), NEW n \in DOMAIN s6.answers, NEW left, left = Page!Overtaking(n)
    PROVE  /\ left \in Seq(ListAnswers) /\ Len(left) = Len(s6.answers) - 1
           /\ \A m \in DOMAIN left : \E k \in DOMAIN s6.answers : left[m].rows = s6.answers[k].rows
           /\ n = Len(s6.answers) => \A m \in DOMAIN left : left[m].late
           /\ n # Len(s6.answers) => left # <<>> /\ left[Len(left)] = s6.answers[Len(s6.answers)]
<1> DEFINE all == s6.answers  len == Len(all)  u(m) == [all[m] EXCEPT !.late = TRUE]
<1>1. len \in Nat /\ DOMAIN all = 1..len /\ n \in 1..len /\ \A m \in 1..len : all[m] \in ListAnswers
    OBVIOUS
<1>2. left = [m \in 1..(len - 1) |-> IF m < n THEN u(m) ELSE all[m + 1]]
    BY DEF Page!Overtaking
<1>3. \A m \in 1..len : u(m) \in ListAnswers /\ u(m).rows = all[m].rows /\ u(m).late
    BY <1>1 DEF ListAnswers
<1> HIDE DEF all, len, u
<1>4. len - 1 \in Nat /\ \A m \in 1..(len - 1) : m \in 1..len /\ m + 1 \in 1..len
    BY <1>1
<1>5. \A m \in 1..(len - 1) : left[m] \in ListAnswers
    BY <1>1, <1>2, <1>3, <1>4
<1>6. left \in [1..(len - 1) -> ListAnswers]
    BY <1>2, <1>5
<1>7. left \in Seq(ListAnswers) /\ Len(left) = len - 1 /\ DOMAIN left = 1..(len - 1)
    BY <1>4, <1>6
<1>8. \A m \in DOMAIN left : \E k \in DOMAIN all : left[m].rows = all[k].rows
    BY <1>1, <1>2, <1>3, <1>4, <1>7
<1>9. n = len => \A m \in DOMAIN left : left[m].late
    BY <1>1, <1>2, <1>3, <1>4, <1>7
<1>10. n # len => left # <<>> /\ left[Len(left)] = all[len]
    <2> SUFFICES ASSUME n # len PROVE left # <<>> /\ left[Len(left)] = all[len]
        OBVIOUS
    <2>1. len - 1 \in 1..(len - 1) /\ ~(len - 1 < n) /\ (len - 1) + 1 = len
        BY <1>1
    <2>2. left[len - 1] = all[(len - 1) + 1]
        BY <1>2, <2>1
    <2> QED  BY <1>7, <2>1, <2>2
<1> QED  BY <1>7, <1>8, <1>9, <1>10 DEF all, len

LEMMA ListIsThere ==
    ASSUME PageInv, NEW n \in DOMAIN s6.answers, Page!ListArrives(n)
    PROVE  PageInv'
<1> DEFINE a == s6.answers[n]  left == Page!Overtaking(n)  last == Len(s6.answers)
           b == (s12.behind \/ a.late) /\ ~(n = last /\ ~a.late /\ a.rows = Page!Current)
           typed == s7.typed \ {"near"}
<1>1. /\ s6' = [s6 EXCEPT !.answers = left] /\ s5' = a.rows /\ s12' = [s12 EXCEPT !.behind = b]
      /\ s7' = IF s1 = "groups" /\ s7.open THEN [s7 EXCEPT !.near = s7.row, !.typed = typed] ELSE s7
      /\ UNCHANGED <<s1, s2, s3, s4, s8, s9, s10, s11, s13>>
    BY DEF Page!ListArrives, PageInv, PageTypes, PageForms
<1>2. s6.answers \in Seq(ListAnswers) /\ a \in ListAnswers /\ last \in Nat /\ DOMAIN s6.answers = 1..last /\ n \in 1..last
    BY DEF PageInv, PageTypes, ListTypes
<1>3. /\ left \in Seq(ListAnswers) /\ Len(left) = last - 1
      /\ \A m \in DOMAIN left : \E k \in DOMAIN s6.answers : left[m].rows = s6.answers[k].rows
      /\ n = last => \A m \in DOMAIN left : left[m].late
      /\ n # last => left # <<>> /\ left[Len(left)] = s6.answers[last]
    BY <1>2, AnswersLeft
<1> HIDE DEF left
<1>4. s6' \in [asked : Nat, answers : Seq(ListAnswers), orgs : BOOLEAN] /\ s6'.answers = left /\ s6'.asked = s6.asked
    BY <1>1, <1>3 DEF PageInv, PageTypes, ListTypes
<1>5. a.rows \in Contents /\ a.late \in BOOLEAN
    BY <1>2 DEF ListAnswers
<1>6. b \in BOOLEAN
    OBVIOUS
<1> HIDE DEF b
<1>7. /\ (s12'.behind <=> b) /\ s12'.muddled = s12.muddled /\ s12'.doubled = s12.doubled /\ (s12'.crossed <=> s12.crossed)
      /\ NoteTypes'
    <2>1. NoteTypes
        BY DEF PageInv, PageTypes
    <2> HIDE DEF NoteTypes
    <2>2. /\ (s12'.behind <=> b) /\ s12'.muddled = s12.muddled /\ s12'.doubled = s12.doubled /\ (s12'.crossed <=> s12.crossed)
          /\ s12' \in [muddled : SUBSET (Records \X {"near", "far"}), doubled : SUBSET Nat, behind : BOOLEAN, crossed : BOOLEAN]
        BY <1>1, <1>6, <2>1, BehindIsSet
    <2> QED  BY <2>2 DEF NoteTypes
<1>8. /\ s7' \in PageForms /\ FormReads(s2, s3, s13, s7')
      /\ s7'.open => s7.open /\ s7'.no = s7.no
    <2>1. s7 \in PageForms /\ FormReads(s2, s3, s13, s7)
        BY DEF PageInv, PageTypes
    <2>2. CASE s1 = "groups" /\ s7.open
        <3>1. typed \in SUBSET {"near", "far"} /\ s7.row \in Copies
            BY <2>1 DEF PageForms
        <3>2. "near" \notin typed /\ ("far" \in typed <=> "far" \in s7.typed)
            OBVIOUS
        <3> HIDE DEF typed
        <3>3. s7' = [s7 EXCEPT !.near = s7.row, !.typed = typed]
            BY <1>1, <2>2
        <3>4. /\ s7' \in PageForms /\ s7'.no = s7.no /\ s7'.of = s7.of /\ s7'.row = s7.row /\ s7'.near = s7.row
              /\ s7'.far = s7.far /\ s7'.typed = typed /\ (s7'.foreign <=> s7.foreign) /\ (s7'.open <=> s7.open)
            BY <2>1, <3>1, <3>3 DEF PageForms
        <3> QED  BY <2>1, <3>2, <3>4 DEF FormReads, ReadsNear, ReadsFar
    <2>3. CASE ~(s1 = "groups" /\ s7.open)
        BY <1>1, <2>1, <2>3
    <2> QED  BY <2>2, <2>3
<1>9. PageTypes'
    BY <1>1, <1>4, <1>5, <1>7, <1>8 DEF PageInv, PageTypes, RowTypes, ListTypes, SaveTypes
<1>10. ListsRead'
    <2>1. ListReads(s2, a.rows) /\ \A m \in DOMAIN left : ListReads(s2, left[m].rows)
        BY <1>3 DEF PageInv, ListsRead
    <2> QED  BY <1>1, <1>4, <2>1 DEF ListsRead, ListReads
<1>11. FollowInv'
    <2>1. Page!Current' = Page!Current
        BY <1>1, CurrentStays
    <2>2. CASE b
        BY <1>7, <2>2 DEF FollowInv
    <2>3. CASE ~b /\ n = last /\ ~a.late /\ a.rows = Page!Current
        BY <1>1, <1>3, <1>4, <2>1, <2>3 DEF FollowInv, AllLate
    <2>4. CASE ~b /\ ~(n = last /\ ~a.late /\ a.rows = Page!Current)
        <3>1. ~s12.behind /\ ~a.late
            BY <2>4 DEF b
        <3>2. ~AllLate
            BY <3>1 DEF AllLate
        <3>3. CASE s6.asked > 0 \/ (s1 = "zones" /\ \E s \in s9 : s.op = "far")
            BY <1>1, <1>4, <3>3 DEF FollowInv
        <3>4. CASE LastIsCurrent
            <4>1. ~s6.answers[last].late /\ s6.answers[last].rows = Page!Current
                BY <3>4 DEF LastIsCurrent
            <4>2. n # last
                BY <2>4, <3>1, <4>1
            <4> QED  BY <1>3, <1>4, <2>1, <4>1, <4>2 DEF FollowInv, LastIsCurrent
        <3> QED  BY <3>1, <3>2, <3>3, <3>4 DEF PageInv, FollowInv
    <2> QED  BY <2>2, <2>3, <2>4
<1>12. PanelInv' /\ s13 <= s13' /\ s13' = s13
    BY <1>1, <1>7 DEF PageInv, PanelInv, PageTypes
<1> QED  BY <1>1, <1>7, <1>8, <1>9, <1>10, <1>11, <1>12, NothingStored

LEMMA PanelMoves ==
    ASSUME PageInv, UNCHANGED <<s1, s2, s3, s4, s5, s6, s7, s8, s9>>,
           s10' \in [of : AtNone, lists : AtNone], s11' \subseteq Records, NoteTypes', PanelInv',
           s12'.muddled = s12.muddled, s12'.doubled = s12.doubled, s12'.behind = s12.behind,
           s13' = s13 \/ (s13' = s13 + 1 /\ s13' <= ForPages.acts)
    PROVE  PageInv'
<1>1. s13 \in Nat /\ s13' \in Nat /\ s13 <= s13' /\ s13' <= ForPages.acts
    BY DEF PageInv, PageTypes
<1>2. PageTypes'
    BY <1>1 DEF PageInv, PageTypes, RowTypes, ListTypes, SaveTypes
<1>3. ListsRead'
    BY DEF PageInv, ListsRead, ListReads
<1>4. FollowInv'
    BY CurrentStays DEF PageInv, FollowInv, LastIsCurrent, AllLate
<1> QED  BY <1>1, <1>2, <1>3, <1>4, FormStays, NothingStored

LEMMA Views ==
    ASSUME Page!PagesAssumption, PageInv, NEW id \in Records, Page!View(id)
    PROVE  PageInv'
<1> DEFINE c == s11 \ {id} # {}
<1>1. /\ s10' = [of |-> id, lists |-> None]
      /\ s11' = (IF s1 = "users" THEN s11 \cup {id} ELSE s11)
      /\ s12' = [s12 EXCEPT !.crossed = c]
      /\ UNCHANGED <<s1, s2, s3, s4, s5, s6, s7, s8, s9>>
    BY DEF Page!View
<1>2. s13' = s13 + 1 /\ s13' <= ForPages.acts
    BY PageNames DEF Page!View, Page!Act, PageInv, PageTypes
<1>3. s10' \in [of : AtNone, lists : AtNone] /\ s10'.of = id /\ s10'.lists = None /\ s11' \subseteq Records
    BY <1>1 DEF PageInv, PageTypes, AtNone
<1>4. c \in BOOLEAN
    OBVIOUS
<1>5. /\ NoteTypes' /\ (s12'.crossed <=> c)
      /\ s12'.muddled = s12.muddled /\ s12'.doubled = s12.doubled /\ s12'.behind = s12.behind
    <2> HIDE DEF c
    <2> QED  BY <1>1, <1>4 DEF PageInv, PageTypes, NoteTypes
<1>6. PanelInv'
    BY <1>1, <1>3, <1>5 DEF PageInv, PanelInv
<1> QED  BY <1>1, <1>2, <1>3, <1>5, <1>6, PanelMoves

LEMMA PanelIsThere ==
    ASSUME PageInv, NEW id \in Records, NEW list \in {id, None}, Page!PanelArrives(id, list)
    PROVE  PageInv'
<1>1. /\ id \in s11 /\ s11' = s11 \ {id} /\ s10' = [s10 EXCEPT !.lists = list]
      /\ UNCHANGED <<s1, s2, s3, s4, s5, s6, s7, s8, s9, s12, s13>>
    BY DEF Page!PanelArrives
<1>2. s10' \in [of : AtNone, lists : AtNone] /\ s10'.of = s10.of /\ s10'.lists = list /\ s11' \subseteq Records
    BY <1>1 DEF PageInv, PageTypes, AtNone
<1>3. PanelInv'
    BY <1>1, <1>2 DEF PageInv, PanelInv
<1>4. NoteTypes'
    BY <1>1 DEF PageInv, PageTypes, NoteTypes
<1> QED  BY <1>1, <1>2, <1>3, <1>4, PanelMoves

LEMMA CountFacts ==
    ASSUME PageInv
    PROVE  /\ IsFiniteSet(s9) /\ IsFiniteSet(Writes) /\ IsFiniteSet(Stores)
           /\ Cardinality(Writes) \in Nat /\ Cardinality(Stores) \in Nat
           /\ s13 \in Nat
           /\ \A id \in Records : Page!Stored(id) => s2[id] \in Written /\ s2[id].at \in Nat /\ s2[id].by \in Nat
           /\ \A s \in s9 : s.op = "row" => s \in RowSaves
           /\ \A s \in s9 : s.op = "far" => s \in FarSaves
           /\ \A s \in s9 : s.op = "delete" => s \in Deletions
           /\ \A s \in s9 : s.op \in {"row", "far", "delete"}
<1>1. Writes \subseteq s9 /\ Stores \subseteq s9 /\ IsFiniteSet(s9)
    BY DEF Writes, Stores, PageInv, PageTypes, SaveTypes
<1>2. \A id \in Records : Page!Stored(id) => s2[id] \in Written /\ s2[id].at \in Nat /\ s2[id].by \in Nat
    BY DEF Page!Stored, PageInv, PageTypes, RowTypes, Written
<1>3. \A s \in s9 : s \in RowSaves \cup FarSaves \cup Deletions
    BY DEF PageInv, PageTypes, SaveTypes
<1>4. s13 \in Nat
    BY DEF PageInv, PageTypes
<1>5. /\ \A s \in RowSaves : s.op = "row"
      /\ \A s \in FarSaves : s.op = "far"
      /\ \A s \in Deletions : s.op = "delete"
    BY DEF RowSaves, FarSaves, Deletions
<1> QED  BY <1>1, <1>2, <1>3, <1>4, <1>5, FS_Subset, FS_CardinalityType

LEMMA AtMostOneMore ==
    ASSUME NEW S, IsFiniteSet(S), NEW x
    PROVE  /\ IsFiniteSet(S \cup {x}) /\ Cardinality(S \cup {x}) \in Nat
           /\ Cardinality(S \cup {x}) <= Cardinality(S) + 1
<1>1. Cardinality(S) \in Nat
    BY FS_CardinalityType
<1>2. IsFiniteSet(S \cup {x}) /\ (Cardinality(S \cup {x}) = IF x \in S THEN Cardinality(S) ELSE Cardinality(S) + 1)
    BY FS_AddElement
<1> QED  BY <1>1, <1>2

(* A change is submitted.                                                  *)
LEMMA ChangeIsSent ==
    ASSUME PageInv, UNCHANGED <<s1, s2, s3, s4, s5, s6, s7, s8, s10, s11, s12>>,
           s13' = s13 + 1, s13' <= ForPages.acts,
           NEW new \in RowSaves \cup Deletions, s9' = s9 \cup {new}, SaveReads(s2, s3, s13', new),
           new.op = "row" => new.form = s7 /\ s7.open,
           new.op = "row" /\ s1 \in {"users", "groups"} => \A s \in s9 : s.op = "delete"
    PROVE  PageInv'
<1>1. /\ s13 \in Nat /\ s13' \in Nat /\ s13 <= s13' /\ IsFiniteSet(s9) /\ IsFiniteSet(Writes) /\ IsFiniteSet(Stores)
      /\ Cardinality(Writes) \in Nat /\ Cardinality(Stores) \in Nat
    BY CountFacts
<1>2. new.op \in {"row", "delete"}
    BY DEF RowSaves, Deletions
<1>3. PageTypes'
    <2>1. IsFiniteSet(s9') /\ s9' \subseteq RowSaves \cup FarSaves \cup Deletions
        BY <1>1, FS_AddElement DEF PageInv, PageTypes, SaveTypes
    <2> QED  BY <1>1, <2>1 DEF PageInv, PageTypes, RowTypes, ListTypes, SaveTypes, NoteTypes
<1>4. ListsRead'
    BY DEF PageInv, ListsRead, ListReads
<1>5. FormReads(s2, s3, s13, s7)'
    BY <1>1, FormStays DEF FormReads, ReadsFar
<1>6. SavesRead'
    <2>1. ASSUME NEW s \in s9 PROVE SaveReads(s2, s3, s13, s)'
        <3>1. SaveReads(s2, s3, s13, s)
            BY DEF PageInv, SavesRead
        <3>2. s.op # "delete" => s.form.no \in Nat
            BY DEF PageInv, PageTypes, SaveTypes, RowSaves, FarSaves, Deletions, PageForms
        <3> QED  BY <1>1, <3>1, <3>2 DEF SaveReads, ReadsFar
    <2>2. SaveReads(s2, s3, s13, new)'
        BY DEF SaveReads, ReadsFar
    <2> QED  BY <2>1, <2>2 DEF SavesRead
<1>7. NearKept' /\ FarKept' /\ PanelInv'
    BY DEF PageInv, NearKept, FarKept, PanelInv, Page!Stored
<1>8. FollowInv'
    BY CurrentStays DEF PageInv, FollowInv, LastIsCurrent, AllLate
<1>9. /\ Writes' = (IF new.op = "row" THEN Writes \cup {new} ELSE Writes)
      /\ Stores' = (IF new.op = "row" THEN Stores \cup {new} ELSE Stores)
      /\ \A id : Page!Stored(id)' <=> Page!Stored(id)
    BY <1>2 DEF Writes, Stores, Page!Stored
<1>10. CountInv'
    <2>1. Cardinality(Writes') \in Nat /\ Cardinality(Writes') <= Cardinality(Writes) + 1
        <3>1. Cardinality(Writes \cup {new}) \in Nat /\ Cardinality(Writes \cup {new}) <= Cardinality(Writes) + 1
            BY <1>1, AtMostOneMore
        <3>2. CASE new.op = "row"
            BY <1>9, <3>1, <3>2
        <3>3. CASE new.op # "row"
            BY <1>1, <1>9, <3>3
        <3> QED  BY <3>2, <3>3
    <2>2. s1 \in {"users", "groups"} => Cardinality(Stores') <= 1
        <3>1. CASE new.op = "row" /\ s1 \in {"users", "groups"}
            <4>1. Stores = {}
                BY <3>1 DEF Stores
            <4>2. Cardinality({}) = 0
                BY FS_EmptySet
            <4>3. Cardinality(Stores \cup {new}) <= Cardinality(Stores) + 1
                BY <1>1, AtMostOneMore
            <4>4. Stores' = Stores \cup {new}
                BY <1>9, <3>1
            <4>5. Cardinality(Stores) = 0
                BY <4>1, <4>2
            <4>6. Cardinality(Stores') <= 0 + 1
                BY <4>3, <4>4, <4>5
            <4> QED  BY <4>6
        <3>2. CASE ~(new.op = "row" /\ s1 \in {"users", "groups"})
            BY <1>9, <3>2 DEF PageInv, CountInv
        <3> QED  BY <3>1, <3>2
    <2>3. \A id \in Records : Page!Stored(id) => s2[id].at \in Nat /\ s2[id].at + Cardinality(Writes) <= s13 + 1
        BY CountFacts DEF PageInv, CountInv
    <2>4. Cardinality(Writes) <= s13
        BY DEF PageInv, CountInv
    <2>5. \A id \in Records : (Page!Stored(id) => s2[id].at + Cardinality(Writes) <= s13 + 1)'
        BY <1>1, <1>9, <2>1, <2>3
    <2>6. Cardinality(Writes') <= s13'
        BY <1>1, <2>1, <2>4
    <2> QED  BY <2>2, <2>5, <2>6 DEF CountInv
<1>11. OnceInv'
    <2>1. \A id \in Records : (Page!Stored(id) => s2[id].by <= s13 + 1)'
        BY <1>1, <1>9, CountFacts DEF PageInv, OnceInv
    <2>2. ASSUME NEW no, FormIsSaved(no), s1 \in {"users", "groups"} PROVE FormIsSaved(no)'
        <3>1. new.op = "row" => new.form.no # no
            BY <2>2 DEF FormIsSaved
        <3> QED  BY <1>9, <2>2, <3>1 DEF FormIsSaved
    <2>3. s1 \in {"users", "groups"} => \A id \in Records : FormIsSaved(s2[id].by) => FormIsSaved(s2[id].by)'
        BY <2>2
    <2> QED  BY <1>9, <2>1, <2>3 DEF PageInv, OnceInv
<1> QED  BY <1>3, <1>4, <1>5, <1>6, <1>7, <1>8, <1>10, <1>11 DEF PageInv

LEMMA Submits ==
    ASSUME Page!PagesAssumption, PageInv, Page!Submit
    PROVE  PageInv'
<1> DEFINE new == [op |-> "row", id |-> s13, form |-> s7, viewing |-> s10.of]
<1>1. /\ s13 \in Nat /\ s13' = s13 + 1 /\ s13' <= ForPages.acts
      /\ UNCHANGED <<s1, s2, s3, s4, s5, s6, s7, s8, s10, s11, s12>>
      /\ s9' = s9 \cup {new} /\ s7.open
      /\ s7.of = None => "near" \in s7.typed
    BY PageNames DEF Page!Submit, Page!Act, PageInv, PageTypes
<1>2. s7 \in PageForms /\ s10.of \in AtNone /\ s7.no \in Nat
    BY DEF PageInv, PageTypes, PageForms
<1>3. new \in RowSaves /\ new.op = "row" /\ new.form = s7
    BY <1>1, <1>2 DEF RowSaves
<1> HIDE DEF new
<1>4. SaveReads(s2, s3, s13', new)
    BY <1>1, <1>2, <1>3 DEF SaveReads, PageInv, FormReads
<1>5. s1 \in {"users", "groups"} => \A s \in s9 : s.op = "delete"
    <2>1. s1 \in {"users", "groups"} => Page!Page.guarded
        BY PageShapes DEF PageInv, PageTypes
    <2> QED  BY <2>1 DEF Page!Submit
<1> QED  BY <1>1, <1>3, <1>4, <1>5, ChangeIsSent

LEMMA DeletionIsAsked ==
    ASSUME Page!PagesAssumption, PageInv, NEW id \in Records, Page!Delete(id)
    PROVE  PageInv'
<1> DEFINE new == [op |-> "delete", id |-> s13, on |-> id, viewing |-> s10.of]
<1>1. /\ s13 \in Nat /\ s13' = s13 + 1 /\ s13' <= ForPages.acts
      /\ UNCHANGED <<s1, s2, s3, s4, s5, s6, s7, s8, s10, s11, s12>>
      /\ s9' = s9 \cup {new} /\ id \in DOMAIN s5
    BY PageNames DEF Page!Delete, Page!Act, PageInv, PageTypes
<1>2. s10.of \in AtNone /\ s2[id] # None
    BY <1>1, ShownIsRead DEF PageInv, PageTypes, Reads
<1>3. new \in Deletions /\ new.op = "delete" /\ new.on = id
    BY <1>1, <1>2 DEF Deletions
<1> HIDE DEF new
<1>4. SaveReads(s2, s3, s13', new)
    BY <1>2, <1>3 DEF SaveReads
<1> QED  BY <1>1, <1>3, <1>4, ChangeIsSent

(* What is muddled after parts of a form were stored, and what was meant.  *)
LEMMA MuddledFacts ==
    ASSUME NoteTypes, NEW parts \in SUBSET {"near", "far"}, NEW s, NEW id \in Records,
           NEW h, h = Page!Muddled(parts, s, id)
    PROVE  /\ h \in SUBSET (Records \X {"near", "far"})
           /\ \A other \in Records : \A p \in {"near", "far"} :
                  <<other, p>> \in h <=>
                      IF other = id /\ p \in parts
                      THEN p \notin s.form.typed /\ (Page!Excused(p, s, id) \/ <<other, p>> \in s12.muddled)
                      ELSE <<other, p>> \in s12.muddled
<1> DEFINE kept == {m \in s12.muddled : ~(m[1] = id /\ m[2] \in parts \cap s.form.typed)}
           more == {<<id, p>> : p \in {q \in parts \ s.form.typed : Page!Excused(q, s, id)}}
<1>1. h = kept \cup more
    BY DEF Page!Muddled
<1>2. s12.muddled \subseteq Records \X {"near", "far"}
    BY DEF NoteTypes
<1>3. more \subseteq Records \X {"near", "far"}
    OBVIOUS
<1>4. ASSUME NEW other \in Records, NEW p \in {"near", "far"}
      PROVE  /\ <<other, p>> \in kept <=> <<other, p>> \in s12.muddled /\ ~(other = id /\ p \in parts \cap s.form.typed)
             /\ <<other, p>> \in more <=> other = id /\ p \in parts \ s.form.typed /\ Page!Excused(p, s, id)
    OBVIOUS
<1> HIDE DEF kept, more
<1>5. kept \subseteq s12.muddled
    BY DEF kept
<1> QED  BY <1>1, <1>2, <1>3, <1>4, <1>5

MeantBy(m, parts, s, id) ==
    /\ m \in [near : [Records -> Nat], far : [Records -> Nat]]
    /\ \A other \in Records :
          /\ m.near[other] = IF other = id /\ "near" \in parts \cap s.form.typed THEN s.form.near.value
                             ELSE s4.near[other]
          /\ m.far[other] = IF other = id /\ "far" \in parts \cap s.form.typed THEN s.form.far.value
                            ELSE s4.far[other]

LEMMA MeantFacts ==
    ASSUME s4 \in [near : [Records -> Nat], far : [Records -> Nat]],
           NEW parts \in SUBSET {"near", "far"}, NEW s, s.form \in PageForms, NEW id \in Records
    PROVE  MeantBy(Page!Meant(parts, s, id), parts, s, id)
<1>1. s.form.near.value \in Nat /\ s.form.far.value \in Nat
    BY DEF PageForms, Copies
<1> DEFINE u(p) == IF p \in parts \cap s.form.typed THEN [s4[p] EXCEPT ![id] = s.form[p].value] ELSE s4[p]
           m == Page!Meant(parts, s, id)
<1>2. m = [p \in {"near", "far"} |-> u(p)]
    BY DEF Page!Meant
<1>3. u("near") \in [Records -> Nat] /\ \A other \in Records :
          u("near")[other] = IF other = id /\ "near" \in parts \cap s.form.typed THEN s.form.near.value ELSE s4.near[other]
    BY <1>1
<1>4. u("far") \in [Records -> Nat] /\ \A other \in Records :
          u("far")[other] = IF other = id /\ "far" \in parts \cap s.form.typed THEN s.form.far.value ELSE s4.far[other]
    BY <1>1
<1> HIDE DEF u, m
<1>5. m.near = u("near") /\ m.far = u("far")
    BY <1>2
<1>6. m = [near |-> u("near"), far |-> u("far")]
    BY <1>2
<1>7. MeantBy(m, parts, s, id)
    BY <1>3, <1>4, <1>5, <1>6 DEF MeantBy
<1> QED  BY <1>7 DEF m

(* A row is stored, with the far part of a group.                          *)
LEMMA RowIsStored ==
    ASSUME Page!PagesAssumption, PageInv, NEW s \in s9, s.op = "row", NEW id \in Page!Target(s),
           Page!StoreRow(s, id), UNCHANGED s1, s12'.muddled = Page!Muddled(Page!Parts, s, id)
    PROVE  /\ id \in Records /\ RowTypes' /\ Later(s2, s2') /\ FarLater(s3, s3') /\ NearKept' /\ FarKept'
           /\ s12'.muddled \in SUBSET (Records \X {"near", "far"})
           /\ There(s2'[id]) /\ s2'[id] \in Written
           /\ s2'[id].at = (IF s.form.of = None THEN 1 ELSE s2[id].at + 1)
           /\ s2'[id].by = (IF s.form.of = None THEN s.form.no ELSE s2[id].by)
           /\ s.form.of = None => s2[id] = None
           /\ s.form.of # None => There(s2[id]) /\ id = s.form.of
           /\ \A other \in Records \ {id} : s2'[other] = s2[other]
<1> DEFINE f == s.form
           a == IF f.of = None THEN 1 ELSE s2[id].at + 1
           by == IF f.of = None THEN f.no ELSE s2[id].by
           row == [value |-> f.near.value, at |-> a, by |-> by]
           far == [value |-> f.far.value, at |-> s3[id].at + 1]
<1>1. f \in PageForms /\ f.of \in AtNone /\ f.no \in Nat /\ f.near.value \in Nat /\ f.far.value \in Nat
      /\ f.near.at \in Nat /\ f.far.at \in Nat /\ f.typed \in SUBSET {"near", "far"}
    BY CountFacts DEF RowSaves, PageForms, Copies
<1>2. /\ id \in Records
      /\ f.of = None => s2[id] = None
      /\ f.of # None => There(s2[id]) /\ id = f.of
    BY <1>1 DEF Page!Target, Page!Stored, There, AtNone
<1>3. RowTypes /\ NoteTypes /\ NearKept /\ FarKept
    BY DEF PageInv, PageTypes
<1>4. s2 \in [Records -> Written \cup {None, Gone}] /\ s3 \in [Records -> FarParts] /\ s3[id].at \in Nat
      /\ s4 \in [near : [Records -> Nat], far : [Records -> Nat]]
    BY <1>2, <1>3 DEF RowTypes, FarParts
<1>5. There(s2[id]) => s2[id].at \in Nat /\ s2[id].by \in Nat
    BY <1>2, <1>4 DEF There, Written
<1>6. a \in Nat \ {0} /\ by \in Nat
    BY <1>1, <1>2, <1>5
<1>7. s2' = [s2 EXCEPT ![id] = row]
    BY <1>2, <1>4 DEF Page!StoreRow
<1> HIDE DEF a, by
<1>8. row \in Written /\ row.value = f.near.value /\ row.at = a /\ row.by = by /\ There(row)
    <2>1. row \in Written
        BY <1>1, <1>6 DEF Written
    <2> QED  BY <2>1, PageNames
<1> HIDE DEF row
<1>9. s2' \in [Records -> Written \cup {None, Gone}] /\ s2'[id] = row /\ \A other \in Records \ {id} : s2'[other] = s2[other]
    BY <1>2, <1>4, <1>7, <1>8
<1>10. Page!Parts = (IF s1 = "groups" THEN {"near", "far"} ELSE {"near"}) /\ Page!Parts \in SUBSET {"near", "far"}
    BY DEF Page!Parts
<1>11. s3' = IF s1 = "groups" THEN [s3 EXCEPT ![id] = far] ELSE s3
    BY <1>2, <1>4, <1>10 DEF Page!StoreRow
<1>12. far \in FarParts /\ far.value = f.far.value /\ far.at = s3[id].at + 1
    BY <1>1, <1>4 DEF FarParts
<1> HIDE DEF far
<1>13. s3' \in [Records -> FarParts] /\ \A other \in Records \ {id} : s3'[other] = s3[other]
    BY <1>2, <1>4, <1>11, <1>12
<1>14. /\ s4' \in [near : [Records -> Nat], far : [Records -> Nat]]
       /\ \A other \in Records :
              /\ s4'.near[other] = IF other = id /\ "near" \in Page!Parts \cap f.typed THEN f.near.value ELSE s4.near[other]
              /\ s4'.far[other] = IF other = id /\ "far" \in Page!Parts \cap f.typed THEN f.far.value ELSE s4.far[other]
    <2>1. s4' = Page!Meant(Page!Parts, s, id)
        BY DEF Page!StoreRow
    <2>2. MeantBy(s4', Page!Parts, s, id)
        BY <1>1, <1>2, <1>4, <1>10, <2>1, MeantFacts
    <2> QED  BY <2>2 DEF MeantBy
<1> DEFINE h == s12'.muddled
<1>15. /\ h \in SUBSET (Records \X {"near", "far"})
       /\ \A other \in Records : \A p \in {"near", "far"} :
              <<other, p>> \in h <=>
                  IF other = id /\ p \in Page!Parts
                  THEN p \notin f.typed /\ (Page!Excused(p, s, id) \/ <<other, p>> \in s12.muddled)
                  ELSE <<other, p>> \in s12.muddled
    BY <1>2, <1>3, <1>10, MuddledFacts
<1> HIDE DEF h
<1>16. RowTypes'
    BY <1>9, <1>13, <1>14 DEF RowTypes
<1>17. Later(s2, s2')
    <2> SUFFICES ASSUME NEW other \in Records, s2[other] # None
                 PROVE  /\ s2'[other] # None
                        /\ There(s2'[other]) => /\ There(s2[other]) /\ s2[other].at <= s2'[other].at
                                                /\ s2[other].at = s2'[other].at => s2[other].value = s2'[other].value
        BY DEF Later
    <2>1. CASE other = id
        <3>1. f.of # None /\ There(s2[id]) /\ s2[id].at \in Nat
            BY <1>2, <1>5, <2>1
        <3>2. s2'[id] # None /\ s2'[id].at = s2[id].at + 1
            BY <1>8, <1>9, <3>1 DEF a, There
        <3> QED  BY <2>1, <3>1, <3>2
    <2>2. CASE other # id
        <3>1. s2'[other] = s2[other] /\ (There(s2[other]) => s2[other].at \in Nat)
            BY <1>4, <1>9, <2>2 DEF There, Written
        <3> QED  BY <3>1
    <2> QED  BY <2>1, <2>2
<1>18. FarLater(s3, s3')
    <2> SUFFICES ASSUME NEW other \in Records
                 PROVE  s3[other].at <= s3'[other].at /\ (s3[other].at = s3'[other].at => s3[other].value = s3'[other].value)
        BY DEF FarLater
    <2>1. s3[other].at \in Nat
        BY <1>4 DEF FarParts
    <2>2. s3'[other] = s3[other] \/ (other = id /\ s3'[other] = far)
        BY <1>2, <1>4, <1>11, <1>13
    <2> QED  BY <1>12, <2>1, <2>2
<1>19. NearKept'
    <2> SUFFICES ASSUME NEW other \in Records, There(s2'[other])
                 PROVE  s2'[other].value = s4'.near[other] \/ <<other, "near">> \in h
        BY DEF NearKept, Page!Stored, There, h
    <2>1. CASE other # id
        <3>1. s2'[other] = s2[other] /\ s4'.near[other] = s4.near[other] /\ (<<other, "near">> \in h <=> <<other, "near">> \in s12.muddled)
            BY <1>9, <1>14, <1>15, <2>1
        <3> QED  BY <1>3, <3>1 DEF NearKept, Page!Stored, There
    <2>2. CASE other = id /\ "near" \in f.typed
        BY <1>8, <1>9, <1>10, <1>14, <2>2
    <2>3. CASE other = id /\ "near" \notin f.typed
        <3>1. SaveReads(s2, s3, s13, s)
            BY DEF PageInv, SavesRead
        <3>2. f.of # None /\ id = f.of /\ There(s2[id]) /\ Reads(s2, id, f.near)
            BY <1>2, <2>3, <3>1 DEF SaveReads, ReadsNear
        <3>3. s4'.near[id] = s4.near[id]
            BY <1>2, <1>14, <2>3
        <3>4. CASE f.near.at = s2[id].at
            <4>1. s2'[id].value = s2[id].value
                BY <1>8, <1>9, <3>2, <3>4 DEF Reads
            <4>2. s2[id].value = s4.near[id] \/ <<id, "near">> \in s12.muddled
                BY <1>2, <1>3, <3>2 DEF NearKept, Page!Stored, There
            <4>3. <<id, "near">> \in s12.muddled => <<id, "near">> \in h
                BY <1>2, <1>10, <1>15, <2>3
            <4> QED  BY <2>3, <3>3, <4>1, <4>2, <4>3
        <3>5. CASE f.near.at # s2[id].at
            <4>1. Page!Excused("near", s, id)
                BY <3>2, <3>5 DEF Page!Excused
            <4>2. <<id, "near">> \in h
                BY <1>2, <1>10, <1>15, <2>3, <4>1
            <4> QED  BY <2>3, <4>2
        <3> QED  BY <3>4, <3>5
    <2> QED  BY <2>1, <2>2, <2>3
<1>20. FarKept'
    <2>1. CASE s1 # "groups"
        <3>1. s3' = s3 /\ "far" \notin Page!Parts
            BY <1>10, <1>11, <2>1
        <3>2. \A other \in Records : s4'.far[other] = s4.far[other] /\ (<<other, "far">> \in h <=> <<other, "far">> \in s12.muddled)
            BY <1>14, <1>15, <3>1
        <3>3. \A other \in Records : s2'[other] = None => s2[other] = None
            BY <1>17 DEF Later
        <3> QED  BY <1>3, <3>1, <3>2, <3>3 DEF FarKept, h
    <2>2. CASE s1 = "groups"
        <3>1. "far" \in Page!Parts /\ s3'[id] = far
            BY <1>2, <1>4, <1>10, <1>11, <2>2
        <3>2. s3'[id].value = s4'.far[id] \/ <<id, "far">> \in h
            <4>1. CASE "far" \in f.typed
                BY <1>2, <1>12, <1>14, <3>1, <4>1
            <4>2. CASE "far" \notin f.typed /\ (f.foreign \/ f.far.at # s3[id].at)
                <5>1. Page!Excused("far", s, id)
                    BY <4>2 DEF Page!Excused
                <5> QED  BY <1>2, <1>15, <3>1, <4>2, <5>1
            <4>3. CASE "far" \notin f.typed /\ ~f.foreign /\ f.far.at = s3[id].at
                <5>1. SaveReads(s2, s3, s13, s)
                    BY DEF PageInv, SavesRead
                <5>2. ReadsFar(s3, f)
                    BY <5>1 DEF SaveReads
                <5>3. f.far.value = s3[id].value
                    <6>1. CASE f.of = None
                        <7>1. f.far.at = 0 /\ f.far.value = 0
                            BY <2>2, <4>3, <5>2, <6>1 DEF ReadsFar
                        <7> QED  BY <1>2, <1>3, <4>3, <7>1 DEF FarKept
                    <6>2. CASE f.of # None
                        BY <1>2, <2>2, <4>3, <5>2, <6>2 DEF ReadsFar
                    <6> QED  BY <6>1, <6>2
                <5>4. s4'.far[id] = s4.far[id]
                    BY <1>2, <1>14, <4>3
                <5>5. s3[id].value = s4.far[id] \/ <<id, "far">> \in s12.muddled
                    BY <1>2, <1>3 DEF FarKept
                <5>6. <<id, "far">> \in s12.muddled => <<id, "far">> \in h
                    BY <1>2, <1>15, <3>1, <4>3
                <5> QED  BY <1>12, <3>1, <5>3, <5>4, <5>5, <5>6
            <4> QED  BY <4>1, <4>2, <4>3
        <3>3. \A other \in Records \ {id} : s3'[other] = s3[other] /\ s4'.far[other] = s4.far[other]
                                           /\ (<<other, "far">> \in h <=> <<other, "far">> \in s12.muddled)
            BY <1>13, <1>14, <1>15
        <3>4. s3'[id].at # 0 /\ s2'[id] # None
            BY <1>4, <1>8, <1>9, <1>12, <3>1 DEF There
        <3>5. \A other \in Records : s2'[other] = None => s2[other] = None /\ other # id
            BY <1>17, <3>4 DEF Later
        <3>6. \A other \in Records : s3'[other].value = s4'.far[other] \/ <<other, "far">> \in h
            BY <1>3, <3>2, <3>3 DEF FarKept
        <3> QED  BY <1>3, <2>2, <3>3, <3>4, <3>5, <3>6 DEF FarKept, h
    <2> QED  BY <2>1, <2>2
<1> QED  BY <1>2, <1>8, <1>9, <1>15, <1>16, <1>17, <1>18, <1>19, <1>20 DEF a, by, h

(* The far part of a form is stored by itself.                             *)
LEMMA FarIsStored ==
    ASSUME Page!PagesAssumption, PageInv, NEW s \in s9, s.op = "far", UNCHANGED <<s1, s2>>,
           s3' = [s3 EXCEPT ![s.on] = [value |-> s.form.far.value, at |-> @.at + 1]],
           s4' = Page!Meant({"far"}, s, s.on), s12'.muddled = Page!Muddled({"far"}, s, s.on)
    PROVE  /\ RowTypes' /\ FarLater(s3, s3') /\ NearKept' /\ FarKept'
           /\ s12'.muddled \in SUBSET (Records \X {"near", "far"})
<1> DEFINE f == s.form  id == s.on
           far == [value |-> f.far.value, at |-> s3[id].at + 1]
<1>1. f \in PageForms /\ f.of \in AtNone /\ f.far.value \in Nat /\ id \in Records
      /\ f.far.at \in Nat /\ f.typed \in SUBSET {"near", "far"}
    BY CountFacts DEF FarSaves, PageForms, Copies
<1>2. RowTypes /\ NoteTypes /\ NearKept /\ FarKept
    BY DEF PageInv, PageTypes
<1>3. s3 \in [Records -> FarParts] /\ s3[id].at \in Nat
      /\ s4 \in [near : [Records -> Nat], far : [Records -> Nat]]
    BY <1>1, <1>2 DEF RowTypes, FarParts
<1>4. SaveReads(s2, s3, s13, s)
    BY DEF PageInv, SavesRead
<1>5. ReadsFar(s3, f) /\ f.of \in {id, None} /\ s1 \in {"users", "zones"} /\ s2[id] # None
    BY <1>4 DEF SaveReads
<1>6. s3' = [s3 EXCEPT ![id] = far]
    BY <1>1, <1>3
<1>7. far \in FarParts /\ far.value = f.far.value /\ far.at = s3[id].at + 1
    BY <1>1, <1>3 DEF FarParts
<1>8. {"far"} \in SUBSET {"near", "far"}
    OBVIOUS
<1>9. /\ s4' \in [near : [Records -> Nat], far : [Records -> Nat]]
      /\ \A other \in Records :
             /\ s4'.near[other] = IF other = id /\ "near" \in {"far"} \cap f.typed THEN f.near.value ELSE s4.near[other]
             /\ s4'.far[other] = IF other = id /\ "far" \in {"far"} \cap f.typed THEN f.far.value ELSE s4.far[other]
    <2>1. MeantBy(s4', {"far"}, s, s.on)
        BY <1>1, <1>3, <1>8, MeantFacts
    <2> QED  BY <2>1 DEF MeantBy
<1> DEFINE h == s12'.muddled
<1>10. /\ h \in SUBSET (Records \X {"near", "far"})
       /\ \A other \in Records : \A p \in {"near", "far"} :
              <<other, p>> \in h <=>
                  IF other = id /\ p \in {"far"}
                  THEN p \notin f.typed /\ (Page!Excused(p, s, id) \/ <<other, p>> \in s12.muddled)
                  ELSE <<other, p>> \in s12.muddled
    BY <1>1, <1>2, <1>8, MuddledFacts
<1> HIDE DEF h, far, f, id
<1>11. s3' \in [Records -> FarParts] /\ s3'[id] = far /\ \A other \in Records \ {id} : s3'[other] = s3[other]
    BY <1>1, <1>3, <1>6, <1>7
<1>12. RowTypes'
    BY <1>2, <1>9, <1>11 DEF RowTypes
<1>13. FarLater(s3, s3')
    <2> SUFFICES ASSUME NEW other \in Records
                 PROVE  s3[other].at <= s3'[other].at /\ (s3[other].at = s3'[other].at => s3[other].value = s3'[other].value)
        BY DEF FarLater
    <2>1. s3[other].at \in Nat
        BY <1>3 DEF FarParts
    <2>2. s3'[other] = s3[other] \/ (other = id /\ s3'[other] = far)
        BY <1>11
    <2> QED  BY <1>7, <2>1, <2>2
<1>14. NearKept'
    <2>1. \A other \in Records : s4'.near[other] = s4.near[other] /\ (<<other, "near">> \in h <=> <<other, "near">> \in s12.muddled)
        BY <1>9, <1>10
    <2> QED  BY <1>2, <2>1 DEF NearKept, Page!Stored, h
<1>15. FarKept'
    <2>1. s3'[id].value = s4'.far[id] \/ <<id, "far">> \in h
        <3>1. CASE "far" \in f.typed
            BY <1>1, <1>7, <1>9, <1>11, <3>1
        <3>2. CASE "far" \notin f.typed /\ (f.foreign \/ f.far.at # s3[id].at)
            <4>1. Page!Excused("far", s, id)
                BY <3>2 DEF Page!Excused, f
            <4> QED  BY <1>1, <1>10, <3>2, <4>1
        <3>3. CASE "far" \notin f.typed /\ ~f.foreign /\ f.far.at = s3[id].at
            <4>1. f.far.value = s3[id].value
                <5>1. CASE f.of = None
                    <6>1. f.far.at = 0 /\ f.far.value = 0
                        BY <1>5, <3>3, <5>1 DEF ReadsFar
                    <6> QED  BY <1>1, <1>2, <3>3, <6>1 DEF FarKept
                <5>2. CASE f.of # None
                    BY <1>5, <3>3, <5>2 DEF ReadsFar
                <5> QED  BY <5>1, <5>2
            <4>2. s4'.far[id] = s4.far[id]
                BY <1>1, <1>9, <3>3
            <4>3. s3[id].value = s4.far[id] \/ <<id, "far">> \in s12.muddled
                BY <1>1, <1>2 DEF FarKept
            <4>4. <<id, "far">> \in s12.muddled => <<id, "far">> \in h
                BY <1>1, <1>10, <3>3
            <4> QED  BY <1>7, <1>11, <4>1, <4>2, <4>3, <4>4
        <3> QED  BY <3>1, <3>2, <3>3
    <2>2. \A other \in Records \ {id} : s3'[other] = s3[other] /\ s4'.far[other] = s4.far[other]
                                       /\ (<<other, "far">> \in h <=> <<other, "far">> \in s12.muddled)
        BY <1>9, <1>10, <1>11
    <2>3. s3'[id].at # 0
        BY <1>3, <1>7, <1>11
    <2>4. \A other \in Records : s3'[other].value = s4'.far[other] \/ <<other, "far">> \in h
        BY <1>2, <2>1, <2>2 DEF FarKept
    <2>5. \A other \in Records : s2'[other] = None => other # id
        BY <1>5
    <2>6. s1 \notin {"users", "groups", "zones"} => \A other \in Records : s3'[other].value = s4'.far[other]
        <3>1. s1 = "users" \/ s1 = "zones"
            BY <1>5
        <3> QED  BY <3>1
    <2>7. \A other \in Records : s3'[other].at = 0 => s3'[other].value = 0
        BY <1>2, <2>2, <2>3 DEF FarKept
    <2>8. \A other \in Records : s2'[other] = None => s3'[other].at = 0
        BY <1>2, <2>2, <2>5 DEF FarKept
    <2> QED  BY <2>4, <2>6, <2>7, <2>8 DEF FarKept, h
<1> QED  BY <1>10, <1>12, <1>13, <1>14, <1>15 DEF h

(* Answers to changes: what remains to be shown of each.                   *)
LEMMA AnswerComes ==
    ASSUME PageInv, UNCHANGED <<s1, s5, s11>>, RowTypes', Later(s2, s2'), FarLater(s3, s3'), NearKept', FarKept',
           NoteTypes', s10' \in [of : AtNone, lists : AtNone], PanelInv',
           s6' = s6 \/ s6' = [s6 EXCEPT !.asked = @ + 1],
           s7' \in PageForms, FormReads(s2, s3, s13, s7'), s8' \subseteq AtNone,
           s13' = s13 \/ (s13' = s13 + 1 /\ s13' <= ForPages.acts),
           SaveTypes', \A s \in s9' : s \in s9 \/ SaveReads(s2', s3', s13', s),
           CountInv', OnceInv', FollowInv'
    PROVE  PageInv'
<1>1. s13 \in Nat /\ s13' \in Nat /\ s13 <= s13' /\ s13' <= ForPages.acts
    BY DEF PageInv, PageTypes
<1>2. s6' \in [asked : Nat, answers : Seq(ListAnswers), orgs : BOOLEAN] /\ s6'.answers = s6.answers
    <2>1. s6 \in [asked : Nat, answers : Seq(ListAnswers), orgs : BOOLEAN] /\ s6.asked + 1 \in Nat
        BY DEF PageInv, PageTypes, ListTypes
    <2> QED  BY <2>1
<1>3. PageTypes'
    BY <1>1, <1>2 DEF PageInv, PageTypes, ListTypes
<1>4. /\ s2 \in [Records -> Written \cup {None, Gone}] /\ s2' \in [Records -> Written \cup {None, Gone}]
      /\ s3 \in [Records -> FarParts] /\ s3' \in [Records -> FarParts]
    BY DEF PageInv, PageTypes, RowTypes
<1>5. ListsRead'
    <2>1. s5 \in Contents /\ \A n \in DOMAIN s6.answers : s6.answers[n].rows \in Contents
        <3>1. s5 \in Contents /\ s6.answers \in Seq(ListAnswers)
            BY DEF PageInv, PageTypes, ListTypes
        <3>2. \A n \in DOMAIN s6.answers : s6.answers[n] \in ListAnswers
            BY <3>1
        <3> QED  BY <3>1, <3>2 DEF ListAnswers
    <2>2. ListReads(s2', s5) /\ \A n \in DOMAIN s6.answers : ListReads(s2', s6.answers[n].rows)
        BY <1>4, <2>1, ListStillReads DEF PageInv, ListsRead
    <2> QED  BY <1>2, <2>2 DEF ListsRead, ListReads
<1>6. FormReads(s2, s3, s13, s7)'
    <2>1. /\ ReadsNear(s2', s7') /\ (s7'.of # None => Reads(s2', s7'.of, s7'.row)) /\ ReadsFar(s3', s7')
        BY <1>4, FormStillReads DEF FormReads
    <2>2. s7'.no <= s13' + 1
        <3>1. s7'.no \in Nat /\ s7'.no <= s13 + 1
            BY DEF PageForms, FormReads
        <3> QED  BY <1>1, <3>1
    <2> QED  BY <2>1, <2>2 DEF FormReads, ReadsFar
<1>7. SavesRead'
    <2> SUFFICES ASSUME NEW s \in s9' PROVE SaveReads(s2, s3, s13, s)'
        BY DEF SavesRead
    <2>1. CASE SaveReads(s2', s3', s13', s)
        BY <2>1 DEF SaveReads, ReadsFar
    <2>2. CASE s \in s9
        <3>1. SaveReads(s2, s3, s13, s)
            BY <2>2 DEF PageInv, SavesRead
        <3>2. s.op # "delete" => s.form \in PageForms /\ s.form.no \in Nat
            BY <2>2 DEF PageInv, PageTypes, SaveTypes, RowSaves, FarSaves, Deletions, PageForms
        <3>3. s.op # "row" => s.on \in Records
            BY <2>2 DEF PageInv, PageTypes, SaveTypes, RowSaves, FarSaves, Deletions
        <3>4. s.op # "delete" => ReadsNear(s2', s.form) /\ ReadsFar(s3', s.form) /\ s.form.no <= s13' + 1
            BY <1>1, <1>4, <3>1, <3>2, FormStillReads DEF SaveReads
        <3>5. s.op # "row" => s2'[s.on] # None
            BY <3>1, <3>3 DEF SaveReads, Later
        <3> QED  BY <3>1, <3>4, <3>5 DEF SaveReads, ReadsFar
    <2> QED  BY <2>1, <2>2
<1> QED  BY <1>3, <1>5, <1>6, <1>7 DEF PageInv

(* A change is answered: it is one less that runs, and done or not.        *)
LEMMA CountMoves ==
    ASSUME PageInv, UNCHANGED <<s1, s13>>, s1 \in {"users", "groups"} => Cardinality(Stores') <= 1,
           NEW k \in Nat, Cardinality(Writes') \in Nat, Cardinality(Writes') + k = Cardinality(Writes),
           \A id \in Records : There(s2'[id]) =>
               /\ s2'[id].at \in Nat
               /\ (There(s2[id]) /\ s2'[id].at <= s2[id].at + k) \/ s2'[id].at <= k
    PROVE  CountInv'
<1>1. Cardinality(Writes) \in Nat /\ s13 \in Nat /\ Cardinality(Writes) <= s13
    BY CountFacts DEF PageInv, CountInv
<1>2. Cardinality(Writes') <= s13
    BY <1>1
<1>3. ASSUME NEW id \in Records, There(s2'[id]) PROVE s2'[id].at + Cardinality(Writes') <= s13 + 1
    <2>1. CASE s2'[id].at <= k
        BY <1>1, <1>3, <2>1
    <2>2. CASE There(s2[id]) /\ s2'[id].at <= s2[id].at + k
        <3>1. s2[id].at \in Nat /\ s2[id].at + Cardinality(Writes) <= s13 + 1
            BY <2>2, CountFacts DEF PageInv, CountInv, Page!Stored, There
        <3> QED  BY <1>1, <1>3, <2>2, <3>1
    <2> QED  BY <1>3, <2>1, <2>2
<1> QED  BY <1>2, <1>3 DEF CountInv, Page!Stored, There

LEMMA OneIsDone ==
    ASSUME PageInv, NEW s \in s9
    PROVE  /\ s.op = "row" => /\ Cardinality(Writes \ {s}) \in Nat /\ Cardinality(Writes \ {s}) + 1 = Cardinality(Writes)
                              /\ s1 \in {"users", "groups"} => Writes \ {s} = {} /\ Stores \ {s} = {}
           /\ Cardinality(Stores \ {s}) \in Nat /\ Cardinality(Stores \ {s}) <= Cardinality(Stores)
           /\ s1 \in {"users", "groups"} => Cardinality(Stores \ {s}) <= 1
<1>1. /\ IsFiniteSet(Writes) /\ IsFiniteSet(Stores) /\ Cardinality(Writes) \in Nat /\ Cardinality(Stores) \in Nat
    BY CountFacts
<1>2. /\ IsFiniteSet(Writes \ {s}) /\ Cardinality(Writes \ {s}) = IF s \in Writes THEN Cardinality(Writes) - 1 ELSE Cardinality(Writes)
    BY <1>1, FS_RemoveElement
<1>3. /\ IsFiniteSet(Stores \ {s}) /\ Cardinality(Stores \ {s}) = IF s \in Stores THEN Cardinality(Stores) - 1 ELSE Cardinality(Stores)
    BY <1>1, FS_RemoveElement
<1>4. Cardinality(Writes \ {s}) \in Nat /\ Cardinality(Stores \ {s}) \in Nat
    BY <1>2, <1>3, FS_CardinalityType
<1>5. s.op = "row" => s \in Writes /\ s \in Stores
    BY DEF Writes, Stores
<1>6. s1 \in {"users", "groups"} => Cardinality(Stores) <= 1
    BY DEF PageInv, CountInv
<1>7. s.op = "row" /\ s1 \in {"users", "groups"} => Writes \ {s} = {} /\ Stores \ {s} = {}
    <2> SUFFICES ASSUME s.op = "row", s1 \in {"users", "groups"} PROVE Writes \ {s} = {} /\ Stores \ {s} = {}
        OBVIOUS
    <2>1. Cardinality(Stores \ {s}) = 0
        BY <1>1, <1>3, <1>4, <1>5, <1>6
    <2>2. Stores \ {s} = {}
        BY <1>3, <2>1, FS_EmptySet
    <2> QED  BY <2>2 DEF Writes, Stores
<1> QED  BY <1>1, <1>2, <1>3, <1>4, <1>5, <1>6, <1>7

(* A row that is stored is the first of its form, or told to be another.   *)
LEMMA RowIsOnce ==
    ASSUME PageInv, UNCHANGED <<s1, s13>>, NEW s \in s9, s.op = "row", NEW id \in Records,
           s2'[id].by = (IF s.form.of = None THEN s.form.no ELSE s2[id].by),
           s.form.of # None => There(s2[id]), \A other \in Records \ {id} : s2'[other] = s2[other],
           s12.doubled \subseteq s12'.doubled,
           s1 \in {"users", "groups"} =>
               \A no : no \notin s12'.doubled /\ (FormIsSaved(no) \/ (no = s.form.no /\ s.form.of = None)) => FormIsSaved(no)'
    PROVE  OnceInv'
<1>1. s.form.no <= s13 + 1
    BY DEF PageInv, SavesRead, SaveReads
<1>2. \A a \in Records : There(s2[a]) => s2[a].by <= s13 + 1
    BY DEF PageInv, OnceInv, Page!Stored, There
<1>3. \A a \in Records : There(s2'[a]) => s2'[a].by <= s13 + 1
    BY <1>1, <1>2
<1>4. ASSUME s1 \in {"users", "groups"}, NEW a \in Records, There(s2'[a]), s2'[a].by \notin s12'.doubled \cup {0}
      PROVE  /\ \A b \in Records \ {a} : There(s2'[b]) => s2'[b].by # s2'[a].by
             /\ FormIsSaved(s2[a].by)'
    <2> DEFINE no == s2'[a].by
    <2>1. no \notin s12.doubled \cup {0}
        BY <1>4
    <2>2. ASSUME NEW b \in Records, There(s2[b]), s2[b].by = no
          PROVE  FormIsSaved(no) /\ no # s.form.no /\ \A c \in Records \ {b} : There(s2[c]) => s2[c].by # no
        <3>1. FormIsSaved(no) /\ \A c \in Records \ {b} : There(s2[c]) => s2[c].by # no
            BY <1>4, <2>1, <2>2 DEF PageInv, OnceInv, Page!Stored, There
        <3>2. s \in Writes
            BY DEF Writes
        <3> QED  BY <3>1, <3>2 DEF FormIsSaved
    <2>3. \A b \in Records : There(s2'[b]) => \/ There(s2[b]) /\ s2'[b].by = s2[b].by
                                              \/ b = id /\ s.form.of = None /\ s2'[b].by = s.form.no
        OBVIOUS
    <2>4. FormIsSaved(no) \/ (no = s.form.no /\ s.form.of = None)
        BY <1>4, <2>2, <2>3
    <2>5. FormIsSaved(s2[a].by)'
        BY <1>4, <2>4 DEF FormIsSaved
    <2>6. \A b \in Records \ {a} : There(s2'[b]) => s2'[b].by # no
        <3> SUFFICES ASSUME NEW b \in Records \ {a}, There(s2'[b]), s2'[b].by = no PROVE FALSE
            OBVIOUS
        <3>1. CASE There(s2[b]) /\ s2'[b].by = s2[b].by
            <4>1. no # s.form.no /\ \A c \in Records \ {b} : There(s2[c]) => s2[c].by # no
                BY <2>2, <3>1
            <4> QED  BY <1>4, <2>3, <4>1
        <3>2. CASE b = id /\ s.form.of = None /\ s2'[b].by = s.form.no
            <4>1. a # id /\ There(s2[a]) /\ s2[a].by = no
                BY <1>4, <3>2
            <4>2. no # s.form.no
                BY <2>2, <4>1
            <4> QED  BY <3>2, <4>2
        <3> QED  BY <2>3, <3>1, <3>2
    <2> QED  BY <2>5, <2>6
<1> QED  BY <1>3, <1>4 DEF OnceInv, Page!Stored, There

LEMMA ListIsAsked ==
    ASSUME ListTypes, s6' = [s6 EXCEPT !.asked = @ + 1]
    PROVE  s6'.asked > 0 /\ s6'.answers = s6.answers
    BY DEF ListTypes

LEMMA SaveIsDone ==
    ASSUME Page!PagesAssumption, PageInv, NEW s \in s9, Page!SaveSucceeds(s)
    PROVE  PageInv'
<1> DEFINE sends == Page!SendsFar(s)
           again == s1 = "users" /\ s.form.of # None /\ s.viewing = s.form.of
<1>1. PICK id \in Page!Target(s) :
          /\ Page!StoreRow(s, id)
          /\ s9' = (s9 \ {s}) \cup (IF sends THEN {[op |-> "far", id |-> s.id, form |-> s.form, on |-> id]} ELSE {})
          /\ s10' = IF again THEN [s10 EXCEPT !.of = id] ELSE s10
          /\ s12' = [s12 EXCEPT !.muddled = Page!Muddled(Page!Parts, s, id), !.crossed = @ \/ (again /\ s10.of # id)]
    BY DEF Page!SaveSucceeds
<1>2. /\ s.op = "row" /\ UNCHANGED <<s1, s5, s11, s13>>
      /\ IF s1 = "zones" /\ sends THEN s6' = s6 ELSE s6' = [s6 EXCEPT !.asked = @ + 1]
      /\ IF sends THEN s7' = s7 /\ s8' = s8 ELSE Page!Close
    BY DEF Page!SaveSucceeds, Page!AskList
<1>3. /\ PageTypes /\ RowTypes /\ NoteTypes /\ ListTypes /\ FarKept /\ FormReads(s2, s3, s13, s7) /\ PanelInv
      /\ s7 \in PageForms /\ s8 \subseteq AtNone /\ s10 \in [of : AtNone, lists : AtNone]
      /\ SaveReads(s2, s3, s13, s)
    BY DEF PageInv, PageTypes, SavesRead
<1> DEFINE m == Page!Muddled(Page!Parts, s, id)  c == s12.crossed \/ (again /\ s10.of # id)
           far == [op |-> "far", id |-> s.id, form |-> s.form, on |-> id]
<1>4. m \in SUBSET (Records \X {"near", "far"}) /\ c \in BOOLEAN /\ id \in Records
    <2>1. id \in Records
        BY CountFacts, <1>2 DEF Page!Target, RowSaves, PageForms, AtNone
    <2>2. Page!Parts \in SUBSET {"near", "far"}
        BY DEF Page!Parts
    <2>3. m \in SUBSET (Records \X {"near", "far"})
        BY <1>3, <2>1, <2>2, MuddledFacts
    <2> QED  BY <1>3, <2>1, <2>3 DEF NoteTypes
<1>5. s12' = [s12 EXCEPT !.muddled = m, !.crossed = c]
    BY <1>1, <1>3 DEF NoteTypes
<1>6. /\ s12'.muddled = m /\ (s12'.crossed <=> c) /\ s12'.doubled = s12.doubled /\ (s12'.behind <=> s12.behind)
      /\ NoteTypes'
    <2> HIDE DEF m, c
    <2> QED  BY <1>3, <1>4, <1>5 DEF NoteTypes
<1>7. /\ RowTypes' /\ Later(s2, s2') /\ FarLater(s3, s3') /\ NearKept' /\ FarKept'
      /\ There(s2'[id]) /\ s2'[id] \in Written
      /\ s2'[id].at = (IF s.form.of = None THEN 1 ELSE s2[id].at + 1)
      /\ s2'[id].by = (IF s.form.of = None THEN s.form.no ELSE s2[id].by)
      /\ s.form.of # None => There(s2[id]) /\ id = s.form.of
      /\ \A other \in Records \ {id} : s2'[other] = s2[other]
    BY <1>1, <1>2, <1>6, RowIsStored
<1>8. s.id \in Nat /\ s.form \in PageForms /\ s.form.no \in Nat
    BY <1>2, CountFacts DEF RowSaves, PageForms
<1>9. far \in FarSaves /\ far.op = "far" /\ far.on = id /\ far.form = s.form
    BY <1>4, <1>8 DEF FarSaves
<1>10. s9' = (s9 \ {s}) \cup (IF sends THEN {far} ELSE {})
    BY <1>1
<1> HIDE DEF m, c, far
<1>11. SaveTypes'
    <2>1. IsFiniteSet(s9 \ {s}) /\ IsFiniteSet((s9 \ {s}) \cup {far})
        BY CountFacts, FS_RemoveElement, FS_AddElement
    <2>2. s9' = s9 \ {s} \/ s9' = (s9 \ {s}) \cup {far}
        BY <1>10
    <2> QED  BY <1>9, <2>1, <2>2 DEF PageInv, PageTypes, SaveTypes
<1>12. /\ Writes' = Writes \ {s}
       /\ Stores' = (Stores \ {s}) \cup (IF sends THEN {far} ELSE {})
    BY <1>9, <1>10 DEF Writes, Stores
<1>13. sends => SaveReads(s2', s3', s13', far)
    <2> SUFFICES ASSUME sends PROVE SaveReads(s2', s3', s13', far)
        OBVIOUS
    <2>1. ReadsNear(s2', s.form) /\ ReadsFar(s3', s.form) /\ s.form.no <= s13' + 1
        BY <1>2, <1>3, <1>7, <1>8, FormStillReads DEF SaveReads, RowTypes
    <2>2. s1 \in {"users", "zones"} /\ (s1 = "zones" => "far" \in s.form.typed)
        BY DEF Page!SendsFar
    <2>3. s2'[id] # None
        BY <1>7 DEF There
    <2> QED  BY <1>7, <1>9, <2>1, <2>2, <2>3 DEF SaveReads
<1>14. s10' \in [of : AtNone, lists : AtNone] /\ s10'.lists = s10.lists /\ s10'.of = (IF again THEN id ELSE s10.of)
    <2>1. id \in AtNone
        BY <1>4 DEF AtNone
    <2> HIDE DEF again
    <2> QED  BY <1>1, <1>3, <2>1
<1>15. PanelInv'
    BY <1>2, <1>3, <1>6, <1>14 DEF PanelInv, c
<1>16. s7' \in PageForms /\ FormReads(s2, s3, s13, s7') /\ s8' \subseteq AtNone /\ (~sends => ~s7'.open)
    BY <1>2, <1>3, Closes
<1>17. FollowInv'
    <2>1. CASE s1 = "zones" /\ sends
        <3>1. far \in s9' /\ far.op = "far"
            BY <1>9, <1>10, <2>1
        <3> QED  BY <1>2, <2>1, <3>1 DEF FollowInv
    <2>2. CASE ~(s1 = "zones" /\ sends)
        <3>1. s6'.asked > 0
            BY <1>2, <1>3, <2>2, ListIsAsked
        <3> QED  BY <3>1 DEF FollowInv
    <2> QED  BY <2>1, <2>2
<1>18. CountInv'
    <2>1. Cardinality(Writes') \in Nat /\ Cardinality(Writes') + 1 = Cardinality(Writes)
        BY <1>2, <1>12, OneIsDone
    <2>2. s1 \in {"users", "groups"} => Cardinality(Stores') <= 1
        <3> SUFFICES ASSUME s1 \in {"users", "groups"} PROVE Cardinality(Stores') <= 1
            OBVIOUS
        <3>1. Stores \ {s} = {}
            BY <1>2, OneIsDone
        <3>2. Stores' = {} \/ Stores' = {far}
            BY <1>12, <3>1
        <3>3. Cardinality({}) = 0 /\ Cardinality({far}) = 1
            BY FS_EmptySet, FS_Singleton
        <3> QED  BY <3>2, <3>3
    <2>3. ASSUME NEW a \in Records, There(s2'[a])
          PROVE  /\ s2'[a].at \in Nat
                 /\ (There(s2[a]) /\ s2'[a].at <= s2[a].at + 1) \/ s2'[a].at <= 1
        <3>1. CASE a = id
            <4>1. There(s2[id]) => s2[id].at \in Nat
                BY <1>4, CountFacts DEF Page!Stored, There
            <4> QED  BY <1>7, <3>1, <4>1
        <3>2. CASE a # id
            <4>1. s2'[a] = s2[a] /\ There(s2[a]) /\ s2[a].at \in Nat
                BY <1>7, <2>3, <3>2, CountFacts DEF Page!Stored, There
            <4> QED  BY <4>1
        <3> QED  BY <3>1, <3>2
    <2>4. 1 \in Nat
        OBVIOUS
    <2> QED  BY <1>2, <2>1, <2>2, <2>3, <2>4, CountMoves
<1>19. OnceInv'
    <2>1. ASSUME s1 \in {"users", "groups"}, NEW no PROVE FormIsSaved(no)'
        <3>1. Writes' = {}
            BY <1>2, <1>12, <2>1, OneIsDone
        <3>2. sends => far \in s9' /\ far.op = "far"
            BY <1>9, <1>10
        <3> QED  BY <1>16, <3>1, <3>2 DEF FormIsSaved
    <2>2. s12.doubled \subseteq s12'.doubled
        BY <1>6
    <2> QED  BY <1>2, <1>4, <1>7, <2>1, <2>2, RowIsOnce
<1>20. \A t \in s9' : t \in s9 \/ SaveReads(s2', s3', s13', t)
    BY <1>10, <1>13
<1>21. s6' = s6 \/ s6' = [s6 EXCEPT !.asked = @ + 1]
    BY <1>2
<1> QED  BY <1>2, <1>6, <1>7, <1>11, <1>14, <1>15, <1>16, <1>17, <1>18, <1>19, <1>20, <1>21, AnswerComes

LEMMA SaveIsNot ==
    ASSUME Page!PagesAssumption, PageInv, NEW s \in s9, Page!SaveFails(s)
    PROVE  PageInv'
<1>1. /\ s.op = "row" /\ s9' = s9 \ {s} /\ UNCHANGED <<s1, s5, s6, s7, s8, s10, s11, s13>>
    BY DEF Page!SaveFails
<1>2. /\ PageTypes /\ RowTypes /\ NoteTypes /\ FarKept /\ FormReads(s2, s3, s13, s7) /\ PanelInv
      /\ s7 \in PageForms /\ s8 \subseteq AtNone /\ s10 \in [of : AtNone, lists : AtNone]
      /\ SaveReads(s2, s3, s13, s)
    BY DEF PageInv, PageTypes, SavesRead
<1>3. SaveTypes'
    BY <1>1, CountFacts, FS_RemoveElement DEF PageInv, PageTypes, SaveTypes
<1>4. Writes' = Writes \ {s} /\ Stores' = Stores \ {s} /\ (\A t \in s9 : t.op = "far" => t \in s9')
    BY <1>1 DEF Writes, Stores
<1>5. Cardinality(Writes') \in Nat /\ Cardinality(Writes') + 1 = Cardinality(Writes) /\ 1 \in Nat
      /\ (s1 \in {"users", "groups"} => Cardinality(Stores') <= 1)
    BY <1>1, <1>4, OneIsDone
<1>6. \A no : FormIsSaved(no) => FormIsSaved(no)'
    BY <1>1, <1>4 DEF FormIsSaved
<1>7. CASE UNCHANGED <<s2, s3, s4, s12>>
    <2>1. RowTypes' /\ NearKept' /\ FarKept' /\ NoteTypes' /\ PanelInv'
        BY <1>1, <1>2, <1>7 DEF PageInv, RowTypes, NearKept, FarKept, NoteTypes, PanelInv, Page!Stored
    <2>2. Later(s2, s2') /\ FarLater(s3, s3')
        BY <1>2, <1>7, Same DEF RowTypes
    <2>3. FollowInv'
        <3>1. Page!Current' = Page!Current
            BY <1>7, CurrentStays
        <3>2. (\E t \in s9 : t.op = "far") => \E t \in s9' : t.op = "far"
            BY <1>4
        <3> QED  BY <1>1, <1>7, <3>1, <3>2 DEF PageInv, FollowInv, LastIsCurrent, AllLate
    <2>4. \A a \in Records : There(s2'[a]) =>
              /\ s2'[a].at \in Nat
              /\ (There(s2[a]) /\ s2'[a].at <= s2[a].at + 1) \/ s2'[a].at <= 1
        <3>1. \A a \in Records : There(s2[a]) => s2[a].at \in Nat
            BY CountFacts DEF Page!Stored, There
        <3> QED  BY <1>7, <3>1
    <2>5. CountInv'
        BY <1>1, <1>5, <2>4, CountMoves
    <2>6. OnceInv'
        BY <1>1, <1>6, <1>7 DEF PageInv, OnceInv, Page!Stored
    <2>7. \A t \in s9' : t \in s9
        BY <1>1
    <2> QED  BY <1>1, <1>2, <1>3, <2>1, <2>2, <2>3, <2>5, <2>6, <2>7, AnswerComes
<1>8. ASSUME NEW id \in Page!Target(s), Page!StoreRow(s, id),
             s12' = [s12 EXCEPT !.muddled = Page!Muddled(Page!Parts, s, id), !.behind = TRUE, !.doubled = @ \cup {s.form.no}]
      PROVE  PageInv'
    <2> DEFINE m == Page!Muddled(Page!Parts, s, id)  d == s12.doubled \cup {s.form.no}
    <2>1. m \in SUBSET (Records \X {"near", "far"}) /\ d \in SUBSET Nat /\ id \in Records
        <3>1. id \in Records /\ s.form.no \in Nat
            BY CountFacts, <1>1 DEF Page!Target, RowSaves, PageForms, AtNone
        <3>2. Page!Parts \in SUBSET {"near", "far"}
            BY DEF Page!Parts
        <3>3. m \in SUBSET (Records \X {"near", "far"})
            BY <1>2, <3>1, <3>2, MuddledFacts
        <3> QED  BY <1>2, <3>1, <3>3 DEF NoteTypes
    <2>2. s12' = [s12 EXCEPT !.muddled = m, !.behind = TRUE, !.doubled = d]
        BY <1>2, <1>8 DEF NoteTypes
    <2>3. /\ s12'.muddled = m /\ (s12'.crossed <=> s12.crossed) /\ s12'.doubled = d /\ s12'.behind
          /\ NoteTypes'
        <3> HIDE DEF m, d
        <3> QED  BY <1>2, <2>1, <2>2 DEF NoteTypes
    <2>4. /\ RowTypes' /\ Later(s2, s2') /\ FarLater(s3, s3') /\ NearKept' /\ FarKept'
          /\ There(s2'[id]) /\ s2'[id] \in Written
          /\ s2'[id].at = (IF s.form.of = None THEN 1 ELSE s2[id].at + 1)
          /\ s2'[id].by = (IF s.form.of = None THEN s.form.no ELSE s2[id].by)
          /\ s.form.of # None => There(s2[id]) /\ id = s.form.of
          /\ \A other \in Records \ {id} : s2'[other] = s2[other]
        BY <1>1, <1>8, <2>3, RowIsStored
    <2> HIDE DEF m, d
    <2>5. FollowInv' /\ PanelInv'
        BY <1>1, <1>2, <2>3 DEF FollowInv, PanelInv
    <2>6. ASSUME NEW a \in Records, There(s2'[a])
          PROVE  /\ s2'[a].at \in Nat
                 /\ (There(s2[a]) /\ s2'[a].at <= s2[a].at + 1) \/ s2'[a].at <= 1
        <3>1. CASE a = id
            <4>1. There(s2[id]) => s2[id].at \in Nat
                BY <2>1, CountFacts DEF Page!Stored, There
            <4> QED  BY <2>4, <3>1, <4>1
        <3>2. CASE a # id
            <4>1. s2'[a] = s2[a] /\ There(s2[a]) /\ s2[a].at \in Nat
                BY <2>4, <2>6, <3>2, CountFacts DEF Page!Stored, There
            <4> QED  BY <4>1
        <3> QED  BY <3>1, <3>2
    <2>7. CountInv'
        BY <1>1, <1>5, <2>6, CountMoves
    <2>8. OnceInv'
        <3>1. \A no : no \notin s12'.doubled => no # s.form.no
            BY <2>3 DEF d
        <3>2. s12.doubled \subseteq s12'.doubled
            BY <2>3 DEF d
        <3> QED  BY <1>1, <1>6, <2>1, <2>4, <3>1, <3>2, RowIsOnce
    <2>9. \A t \in s9' : t \in s9
        BY <1>1
    <2> QED  BY <1>1, <1>2, <1>3, <2>3, <2>4, <2>5, <2>7, <2>8, <2>9, AnswerComes
<1> QED  BY <1>7, <1>8 DEF Page!SaveFails

(* The forms of what is stored stay saved.                                 *)
LEMMA OnceStays ==
    ASSUME PageInv, UNCHANGED s1, s13' \in Nat, s13 <= s13',
           \A id \in Records : There(s2'[id]) => There(s2[id]) /\ s2'[id].by = s2[id].by,
           s12.doubled \subseteq s12'.doubled,
           s1 \in {"users", "groups"} => Writes' \subseteq Writes,
           s1 \in {"users", "groups"} /\ s7'.open =>
               s7.open /\ s7'.no = s7.no /\ \A t \in s9 : t.op = "far" => t \in s9'
    PROVE  OnceInv'
<1>1. s13 \in Nat
    BY CountFacts
<1>2. ASSUME NEW id \in Records, There(s2'[id])
      PROVE  s2'[id].by <= s13' + 1
    <2>1. There(s2[id]) /\ s2'[id].by = s2[id].by
        BY <1>2
    <2>2. s2[id].by \in Nat /\ s2[id].by <= s13 + 1
        BY <2>1, CountFacts DEF PageInv, OnceInv, Page!Stored, There
    <2> QED  BY <1>1, <2>1, <2>2
<1>3. ASSUME s1 \in {"users", "groups"}, NEW no, FormIsSaved(no) PROVE FormIsSaved(no)'
    BY <1>3 DEF FormIsSaved
<1>4. ASSUME s1 \in {"users", "groups"}, NEW id \in Records, There(s2'[id]), s2'[id].by \notin s12'.doubled \cup {0}
      PROVE  /\ \A other \in Records \ {id} : There(s2'[other]) => s2'[other].by # s2'[id].by
             /\ FormIsSaved(s2[id].by)'
    <2>1. There(s2[id]) /\ s2'[id].by = s2[id].by /\ s2[id].by \notin s12.doubled \cup {0}
        BY <1>4
    <2>2. FormIsSaved(s2[id].by) /\ \A other \in Records \ {id} : There(s2[other]) => s2[other].by # s2[id].by
        BY <1>4, <2>1 DEF PageInv, OnceInv, Page!Stored, There
    <2>3. FormIsSaved(s2[id].by)'
        BY <1>4, <2>1, <2>2 DEF FormIsSaved
    <2> QED  BY <2>1, <2>2, <2>3
<1> QED  BY <1>2, <1>4 DEF OnceInv, Page!Stored, There

LEMMA MuddledIsSet ==
    ASSUME NoteTypes, NEW m \in SUBSET (Records \X {"near", "far"}), s12' = [s12 EXCEPT !.muddled = m]
    PROVE  /\ NoteTypes' /\ s12'.muddled = m /\ (s12'.crossed <=> s12.crossed) /\ s12'.doubled = s12.doubled
           /\ (s12'.behind <=> s12.behind)
    BY DEF NoteTypes

(* Of a far part that is answered, what is common.                         *)
LEMMA FarIsAnswered ==
    ASSUME PageInv, NEW s \in s9, s.op = "far", s9' = s9 \ {s}
    PROVE  /\ SaveTypes' /\ Writes' = Writes /\ Stores' = Stores \ {s} /\ (\A t \in s9' : t \in s9)
           /\ s1 \in {"users", "zones"} /\ s.form \in PageForms /\ s.on \in Records /\ s2[s.on] # None
           /\ s1 \in {"users", "groups"} => Cardinality(Stores') <= 1
<1>1. SaveTypes'
    BY CountFacts, FS_RemoveElement DEF PageInv, PageTypes, SaveTypes
<1>2. Writes' = Writes /\ Stores' = Stores \ {s} /\ (\A t \in s9' : t \in s9)
    BY DEF Writes, Stores
<1>3. SaveReads(s2, s3, s13, s)
    BY DEF PageInv, SavesRead
<1>4. s \in FarSaves
    BY CountFacts
<1>5. s1 \in {"users", "groups"} => Cardinality(Stores') <= 1
    BY <1>2, OneIsDone
<1> QED  BY <1>1, <1>2, <1>3, <1>4, <1>5 DEF SaveReads, FarSaves

LEMMA CountStays ==
    ASSUME PageInv, UNCHANGED <<s1, s13>>, s1 \in {"users", "groups"} => Cardinality(Stores') <= 1,
           Writes' = Writes, \A id \in Records : There(s2'[id]) => s2'[id] = s2[id]
    PROVE  CountInv'
<1>1. 0 \in Nat /\ Cardinality(Writes') \in Nat /\ Cardinality(Writes') + 0 = Cardinality(Writes)
    BY CountFacts
<1>2. \A id \in Records : There(s2'[id]) =>
          /\ s2'[id].at \in Nat
          /\ (There(s2[id]) /\ s2'[id].at <= s2[id].at + 0) \/ s2'[id].at <= 0
    <2>1. \A id \in Records : There(s2[id]) => s2[id].at \in Nat
        BY CountFacts DEF Page!Stored, There
    <2> QED  BY <2>1
<1> QED  BY <1>1, <1>2, CountMoves

LEMMA FarIsDone ==
    ASSUME Page!PagesAssumption, PageInv, NEW s \in s9, Page!FarSucceeds(s)
    PROVE  PageInv'
<1>1. /\ s.op = "far" /\ s9' = s9 \ {s} /\ UNCHANGED <<s1, s2, s5, s10, s11, s13>>
      /\ s3' = [s3 EXCEPT ![s.on] = [value |-> s.form.far.value, at |-> @.at + 1]]
      /\ s4' = Page!Meant({"far"}, s, s.on)
      /\ s12' = [s12 EXCEPT !.muddled = Page!Muddled({"far"}, s, s.on)]
      /\ IF s1 = "zones" THEN s6' = [s6 EXCEPT !.asked = @ + 1] ELSE s6' = s6
      /\ Page!Close
    BY DEF Page!FarSucceeds, Page!AskList
<1>2. /\ PageTypes /\ RowTypes /\ NoteTypes /\ ListTypes /\ FarKept /\ FormReads(s2, s3, s13, s7) /\ PanelInv
      /\ s10 \in [of : AtNone, lists : AtNone] /\ s2 \in [Records -> Written \cup {None, Gone}]
    BY DEF PageInv, PageTypes, RowTypes
<1>3. /\ SaveTypes' /\ Writes' = Writes /\ Stores' = Stores \ {s} /\ (\A t \in s9' : t \in s9)
      /\ s1 \in {"users", "zones"} /\ s.form \in PageForms /\ s.on \in Records
      /\ s1 \in {"users", "groups"} => Cardinality(Stores') <= 1
    BY <1>1, FarIsAnswered
<1> DEFINE m == Page!Muddled({"far"}, s, s.on)
<1>4. m \in SUBSET (Records \X {"near", "far"})
    <2>1. {"far"} \in SUBSET {"near", "far"}
        OBVIOUS
    <2> QED  BY <1>2, <1>3, <2>1, MuddledFacts
<1>5. s12' = [s12 EXCEPT !.muddled = m]
    BY <1>1
<1>6. /\ NoteTypes' /\ s12'.muddled = m /\ (s12'.crossed <=> s12.crossed) /\ s12'.doubled = s12.doubled
      /\ (s12'.behind <=> s12.behind)
    <2> HIDE DEF m
    <2> QED  BY <1>2, <1>4, <1>5, MuddledIsSet
<1>7. RowTypes' /\ FarLater(s3, s3') /\ NearKept' /\ FarKept'
    BY <1>1, <1>6, FarIsStored
<1> HIDE DEF m
<1>8. Later(s2, s2')
    BY <1>1, <1>2, Same
<1>9. s7' \in PageForms /\ FormReads(s2, s3, s13, s7') /\ ~s7'.open /\ s8' \subseteq AtNone
    BY <1>1, <1>2, Closes
<1>10. PanelInv'
    BY <1>1, <1>2, <1>6 DEF PanelInv
<1>11. FollowInv'
    <2>1. CASE s1 = "zones"
        <3>1. s6'.asked > 0
            BY <1>1, <1>2, <2>1, ListIsAsked
        <3> QED  BY <3>1 DEF FollowInv
    <2>2. CASE s1 # "zones"
        <3>1. Page!Current' = Page!Current
            BY <1>1, CurrentStays
        <3> QED  BY <1>1, <1>6, <2>2, <3>1 DEF PageInv, FollowInv, LastIsCurrent, AllLate
    <2> QED  BY <2>1, <2>2
<1>12. CountInv'
    BY <1>1, <1>3, CountStays
<1>13. OnceInv'
    <2>1. s13' \in Nat /\ s13 <= s13'
        BY <1>1, CountFacts
    <2> QED  BY <1>1, <1>3, <1>6, <1>9, <2>1, OnceStays
<1>14. s6' = s6 \/ s6' = [s6 EXCEPT !.asked = @ + 1]
    BY <1>1
<1> QED  BY <1>1, <1>2, <1>3, <1>6, <1>7, <1>8, <1>9, <1>10, <1>11, <1>12, <1>13, <1>14, AnswerComes

LEMMA FarIsNotDone ==
    ASSUME Page!PagesAssumption, PageInv, NEW s \in s9, Page!FarFails(s)
    PROVE  PageInv'
<1>1. /\ s.op = "far" /\ s9' = s9 \ {s} /\ UNCHANGED <<s1, s2, s3, s4, s5, s6, s10, s11, s13>>
      /\ IF s1 = "zones"
         THEN s12' = [s12 EXCEPT !.behind = TRUE, !.doubled = @ \cup {s.form.no}] /\ s7' = s7 /\ s8' = s8
         ELSE s12' = s12 /\ Page!Close
    BY DEF Page!FarFails
<1>2. /\ PageTypes /\ RowTypes /\ NoteTypes /\ FarKept /\ NearKept /\ FormReads(s2, s3, s13, s7) /\ PanelInv
      /\ s7 \in PageForms /\ s8 \subseteq AtNone /\ s10 \in [of : AtNone, lists : AtNone]
    BY DEF PageInv, PageTypes
<1>3. /\ SaveTypes' /\ Writes' = Writes /\ Stores' = Stores \ {s} /\ (\A t \in s9' : t \in s9)
      /\ s1 \in {"users", "zones"} /\ s.form \in PageForms
      /\ s1 \in {"users", "groups"} => Cardinality(Stores') <= 1
    BY <1>1, FarIsAnswered
<1> DEFINE d == s12.doubled \cup {s.form.no}
<1>4. d \in SUBSET Nat
    BY <1>2, <1>3 DEF NoteTypes, PageForms
<1>5. /\ NoteTypes' /\ s12'.muddled = s12.muddled /\ (s12'.crossed <=> s12.crossed)
      /\ s12.doubled \subseteq s12'.doubled
      /\ IF s1 = "zones" THEN s12'.behind ELSE s12' = s12
    <2>1. CASE s1 = "zones"
        <3>1. s12' = [s12 EXCEPT !.behind = TRUE, !.doubled = d]
            BY <1>1, <1>2, <2>1 DEF NoteTypes
        <3>2. s12.doubled \subseteq d
            OBVIOUS
        <3> HIDE DEF d
        <3> QED  BY <1>2, <1>4, <2>1, <3>1, <3>2 DEF NoteTypes
    <2>2. CASE s1 # "zones"
        BY <1>1, <1>2, <2>2 DEF NoteTypes
    <2> QED  BY <2>1, <2>2
<1> HIDE DEF d
<1>6. /\ s7' \in PageForms /\ FormReads(s2, s3, s13, s7') /\ s8' \subseteq AtNone
      /\ IF s1 = "zones" THEN s7' = s7 ELSE ~s7'.open
    BY <1>1, <1>2, Closes
<1>7. RowTypes' /\ NearKept' /\ FarKept' /\ PanelInv'
    BY <1>1, <1>2, <1>5 DEF RowTypes, NearKept, FarKept, PanelInv, Page!Stored
<1>8. Later(s2, s2') /\ FarLater(s3, s3')
    BY <1>1, <1>2, Same DEF RowTypes
<1>9. FollowInv'
    <2>1. CASE s1 = "zones"
        BY <1>5, <2>1 DEF FollowInv
    <2>2. CASE s1 # "zones"
        BY <1>1, <1>5, <2>2, CurrentStays DEF PageInv, FollowInv, LastIsCurrent, AllLate
    <2> QED  BY <2>1, <2>2
<1>10. CountInv'
    BY <1>1, <1>3, CountStays
<1>11. OnceInv'
    <2>1. s13' \in Nat /\ s13 <= s13'
        BY <1>1, CountFacts
    <2>2. \A id \in Records : There(s2'[id]) => There(s2[id]) /\ s2'[id].by = s2[id].by
        BY <1>1
    <2> QED  BY <1>1, <1>3, <1>5, <1>6, <2>1, <2>2, OnceStays
<1> QED  BY <1>1, <1>2, <1>3, <1>5, <1>6, <1>7, <1>8, <1>9, <1>10, <1>11, AnswerComes

(* A row is deleted.                                                       *)
LEMMA RowIsGone ==
    ASSUME Page!PagesAssumption, PageInv, NEW id \in Records, s2' = [s2 EXCEPT ![id] = Gone],
           UNCHANGED <<s1, s3, s4>>, s12'.muddled = s12.muddled
    PROVE  /\ RowTypes' /\ Later(s2, s2') /\ FarLater(s3, s3') /\ NearKept' /\ FarKept'
           /\ \A a \in Records : There(s2'[a]) => There(s2[a]) /\ s2'[a] = s2[a]
<1>1. RowTypes /\ NearKept /\ FarKept /\ Gone # None
    BY PageNames DEF PageInv, PageTypes
<1>2. /\ s2' \in [Records -> Written \cup {None, Gone}] /\ s2'[id] = Gone
      /\ \A a \in Records \ {id} : s2'[a] = s2[a]
    BY <1>1 DEF RowTypes
<1>3. RowTypes' /\ FarLater(s3, s3')
    BY <1>1, <1>2, Same DEF RowTypes
<1>4. \A a \in Records : There(s2'[a]) => There(s2[a]) /\ s2'[a] = s2[a]
    BY <1>2 DEF There
<1>5. Later(s2, s2')
    <2>1. \A a \in Records : There(s2[a]) => s2[a].at \in Nat
        BY <1>1 DEF RowTypes, There, Written
    <2>2. \A a \in Records : s2[a] # None => s2'[a] # None
        BY <1>1, <1>2
    <2> QED  BY <1>4, <2>1, <2>2 DEF Later
<1>6. NearKept'
    BY <1>1, <1>4 DEF NearKept, Page!Stored, There
<1>7. FarKept'
    <2>1. \A a \in Records : s2'[a] = None => s2[a] = None
        BY <1>1, <1>2
    <2> QED  BY <1>1, <2>1 DEF FarKept
<1> QED  BY <1>3, <1>4, <1>5, <1>6, <1>7

LEMMA DeletionIsAnswered ==
    ASSUME PageInv, NEW s \in s9, s.op = "delete", s9' = s9 \ {s}
    PROVE  /\ SaveTypes' /\ Writes' = Writes /\ Stores' = Stores /\ (\A t \in s9' : t \in s9)
           /\ (\A t \in s9 : t.op = "far" => t \in s9') /\ s.on \in Records
           /\ s1 \in {"users", "groups"} => Cardinality(Stores') <= 1
<1>1. SaveTypes'
    BY CountFacts, FS_RemoveElement DEF PageInv, PageTypes, SaveTypes
<1>2. Writes' = Writes /\ Stores' = Stores /\ (\A t \in s9' : t \in s9) /\ (\A t \in s9 : t.op = "far" => t \in s9')
    BY DEF Writes, Stores
<1>3. s \in Deletions
    BY CountFacts
<1> QED  BY <1>1, <1>2, <1>3 DEF Deletions, PageInv, CountInv

LEMMA DeletionIsDone ==
    ASSUME Page!PagesAssumption, PageInv, NEW s \in s9, Page!DeleteSucceeds(s)
    PROVE  PageInv'
<1>1. /\ s.op = "delete" /\ s9' = s9 \ {s} /\ s2' = [s2 EXCEPT ![s.on] = Gone]
      /\ s10' = IF s.viewing = s.on THEN [s10 EXCEPT !.of = None] ELSE s10
      /\ s6' = [s6 EXCEPT !.asked = @ + 1] /\ UNCHANGED <<s1, s3, s4, s5, s7, s8, s11, s12, s13>>
    BY DEF Page!DeleteSucceeds, Page!AskList
<1>2. /\ PageTypes /\ NoteTypes /\ ListTypes /\ FormReads(s2, s3, s13, s7) /\ PanelInv
      /\ s7 \in PageForms /\ s8 \subseteq AtNone /\ s10 \in [of : AtNone, lists : AtNone]
    BY DEF PageInv, PageTypes
<1>3. /\ SaveTypes' /\ Writes' = Writes /\ Stores' = Stores /\ (\A t \in s9' : t \in s9)
      /\ (\A t \in s9 : t.op = "far" => t \in s9') /\ s.on \in Records
      /\ s1 \in {"users", "groups"} => Cardinality(Stores') <= 1
    BY <1>1, DeletionIsAnswered
<1>4. /\ RowTypes' /\ Later(s2, s2') /\ FarLater(s3, s3') /\ NearKept' /\ FarKept'
      /\ \A a \in Records : There(s2'[a]) => There(s2[a]) /\ s2'[a] = s2[a]
    BY <1>1, <1>3, RowIsGone
<1>5. s10' \in [of : AtNone, lists : AtNone] /\ s10'.lists = s10.lists /\ s10'.of \in {s10.of, None}
    BY <1>1, <1>2 DEF AtNone
<1>6. PanelInv'
    BY <1>1, <1>2, <1>5 DEF PanelInv
<1>7. NoteTypes' /\ s12.doubled \subseteq s12'.doubled
    BY <1>1, <1>2 DEF NoteTypes
<1>8. FollowInv'
    <2>1. s6'.asked > 0
        BY <1>1, <1>2, ListIsAsked
    <2> QED  BY <2>1 DEF FollowInv
<1>9. CountInv'
    BY <1>1, <1>3, <1>4, CountStays
<1>10. OnceInv'
    <2>1. s13' \in Nat /\ s13 <= s13'
        BY <1>1, CountFacts
    <2> QED  BY <1>1, <1>3, <1>4, <1>7, <2>1, OnceStays
<1>11. s7' \in PageForms /\ FormReads(s2, s3, s13, s7') /\ s8' \subseteq AtNone
    BY <1>1, <1>2
<1> QED  BY <1>1, <1>3, <1>4, <1>5, <1>6, <1>7, <1>8, <1>9, <1>10, <1>11, AnswerComes

LEMMA DeletionIsNotDone ==
    ASSUME Page!PagesAssumption, PageInv, NEW s \in s9, Page!DeleteFails(s)
    PROVE  PageInv'
<1>1. /\ s.op = "delete" /\ s9' = s9 \ {s} /\ UNCHANGED <<s1, s3, s4, s5, s6, s7, s8, s10, s11, s13>>
      /\ \/ s2' = s2 /\ s12' = s12
         \/ s2' = [s2 EXCEPT ![s.on] = Gone] /\ s12' = [s12 EXCEPT !.behind = TRUE]
    BY DEF Page!DeleteFails
<1>2. /\ PageTypes /\ RowTypes /\ NoteTypes /\ ListTypes /\ FormReads(s2, s3, s13, s7) /\ PanelInv
      /\ s7 \in PageForms /\ s8 \subseteq AtNone /\ s10 \in [of : AtNone, lists : AtNone]
      /\ NearKept /\ FarKept
    BY DEF PageInv, PageTypes
<1>3. /\ SaveTypes' /\ Writes' = Writes /\ Stores' = Stores /\ (\A t \in s9' : t \in s9)
      /\ (\A t \in s9 : t.op = "far" => t \in s9') /\ s.on \in Records
      /\ s1 \in {"users", "groups"} => Cardinality(Stores') <= 1
    BY <1>1, DeletionIsAnswered
<1>4. /\ NoteTypes' /\ s12'.muddled = s12.muddled /\ s12'.doubled = s12.doubled
      /\ (s12'.crossed <=> s12.crossed) /\ (s12' = s12 \/ s12'.behind)
    BY <1>1, <1>2 DEF NoteTypes
<1>5. /\ RowTypes' /\ Later(s2, s2') /\ FarLater(s3, s3') /\ NearKept' /\ FarKept'
      /\ \A a \in Records : There(s2'[a]) => There(s2[a]) /\ s2'[a] = s2[a]
    <2>1. CASE s2' = s2
        <3>1. RowTypes' /\ Later(s2, s2') /\ FarLater(s3, s3')
            BY <1>1, <1>2, <2>1, Same DEF RowTypes
        <3>2. NearKept' /\ FarKept'
            BY <1>1, <1>2, <1>4, <2>1 DEF NearKept, FarKept, Page!Stored
        <3> QED  BY <2>1, <3>1, <3>2
    <2>2. CASE s2' = [s2 EXCEPT ![s.on] = Gone]
        BY <1>1, <1>3, <1>4, <2>2, RowIsGone
    <2> QED  BY <1>1, <2>1, <2>2
<1>6. PanelInv'
    <2>1. s12'.crossed <=> s12.crossed
        BY <1>4
    <2> QED  BY <1>1, <1>2, <2>1 DEF PanelInv
<1>7. FollowInv'
    <2>1. CASE s12'.behind
        BY <2>1 DEF FollowInv
    <2>2. CASE ~s12'.behind
        <3>1. s2' = s2 /\ s12' = s12
            BY <1>1, <1>2, <2>2 DEF NoteTypes
        <3>2. (\E t \in s9 : t.op = "far") => \E t \in s9' : t.op = "far"
            BY <1>3
        <3> QED  BY <1>1, <3>1, <3>2, CurrentStays DEF PageInv, FollowInv, LastIsCurrent, AllLate
    <2> QED  BY <2>1, <2>2
<1>8. CountInv'
    BY <1>1, <1>3, <1>5, CountStays
<1>9. OnceInv'
    <2>1. s13' \in Nat /\ s13 <= s13'
        BY <1>1, CountFacts
    <2> QED  BY <1>1, <1>3, <1>4, <1>5, <2>1, OnceStays
<1>10. s7' \in PageForms /\ FormReads(s2, s3, s13, s7') /\ s8' \subseteq AtNone /\ s10' \in [of : AtNone, lists : AtNone]
    BY <1>1, <1>2
<1> QED  BY <1>1, <1>3, <1>4, <1>5, <1>6, <1>7, <1>8, <1>9, <1>10, AnswerComes

LEMMA OthersWrite ==
    ASSUME Page!PagesAssumption, PageInv, NEW id \in Records, Page!OtherWrites(id)
    PROVE  PageInv'
<1> DEFINE n == s13 + 2
           row == [s2[id] EXCEPT !.value = n, !.at = @ + 1]
           far == [value |-> n, at |-> s3[id].at + 1]
           m == s12.muddled \ ({id} \X {"near", "far"})
<1>1. /\ UNCHANGED <<s1, s5, s6, s7, s8, s9, s10, s11>> /\ Page!Stored(id)
      /\ s13 \in Nat /\ s13' = s13 + 1 /\ s13' <= ForPages.acts
    BY PageNames DEF Page!OtherWrites, Page!Act, PageInv, PageTypes
<1>2. /\ PageTypes /\ RowTypes /\ NoteTypes /\ ListTypes /\ FormReads(s2, s3, s13, s7) /\ PanelInv
      /\ s7 \in PageForms /\ s8 \subseteq AtNone /\ s10 \in [of : AtNone, lists : AtNone]
      /\ NearKept /\ FarKept /\ SaveTypes
    BY DEF PageInv, PageTypes
<1>3. /\ s2 \in [Records -> Written \cup {None, Gone}] /\ s3 \in [Records -> FarParts] /\ s3[id].at \in Nat
      /\ s4 \in [near : [Records -> Nat], far : [Records -> Nat]]
    BY <1>2 DEF RowTypes, FarParts
<1>4. n \in Nat /\ s2[id] \in Written /\ s2[id].at \in Nat /\ There(s2[id])
    BY <1>1, CountFacts DEF Page!Stored, There
<1>5. Page!HasFar <=> s1 \in {"users", "groups", "zones"}
    BY <1>2, PageShapes DEF PageTypes
<1>6. /\ s2' = [s2 EXCEPT ![id] = row]
      /\ s3' = IF Page!HasFar THEN [s3 EXCEPT ![id] = far] ELSE s3
      /\ s4' = [near |-> [s4.near EXCEPT ![id] = n], far |-> IF Page!HasFar THEN [s4.far EXCEPT ![id] = n] ELSE s4.far]
      /\ s12' = [s12 EXCEPT !.behind = TRUE, !.muddled = m]
    BY <1>2, <1>3, <1>4 DEF Page!OtherWrites, NoteTypes, Written
<1> HIDE DEF n
<1>7. row \in Written /\ row.value = n /\ row.at = s2[id].at + 1 /\ row.by = s2[id].by
    <2> DEFINE at == s2[id].at + 1
    <2>1. at \in Nat \ {0} /\ row = [s2[id] EXCEPT !.value = n, !.at = at]
        BY <1>4 DEF Written
    <2> HIDE DEF at, row
    <2>2. row \in Written /\ row.value = n /\ row.at = at /\ row.by = s2[id].by
        BY <1>4, <2>1 DEF Written
    <2> QED  BY <2>2 DEF at
<1>8. far \in FarParts /\ far.value = n /\ far.at = s3[id].at + 1
    BY <1>3, <1>4 DEF FarParts
<1> HIDE DEF row, far
<1>9. There(row)
    BY <1>7, PageNames
<1>10. /\ s2' \in [Records -> Written \cup {None, Gone}] /\ s2'[id] = row
       /\ \A a \in Records \ {id} : s2'[a] = s2[a]
    BY <1>3, <1>6, <1>7
<1>11. /\ s3' \in [Records -> FarParts] /\ (Page!HasFar => s3'[id] = far) /\ (~Page!HasFar => s3' = s3)
       /\ \A a \in Records \ {id} : s3'[a] = s3[a]
    BY <1>3, <1>6, <1>8
<1>12. /\ s4' \in [near : [Records -> Nat], far : [Records -> Nat]]
       /\ s4'.near[id] = n /\ (Page!HasFar => s4'.far[id] = n) /\ (~Page!HasFar => s4'.far = s4.far)
       /\ \A a \in Records \ {id} : s4'.near[a] = s4.near[a] /\ s4'.far[a] = s4.far[a]
    BY <1>3, <1>4, <1>6
<1>13. m \in SUBSET (Records \X {"near", "far"})
       /\ \A a \in Records \ {id} : \A p \in {"near", "far"} : <<a, p>> \in s12.muddled => <<a, p>> \in m
    BY <1>2 DEF NoteTypes
<1> HIDE DEF m
<1>14. /\ NoteTypes' /\ s12'.muddled = m /\ s12'.doubled = s12.doubled /\ (s12'.crossed <=> s12.crossed) /\ s12'.behind
    BY <1>2, <1>6, <1>13 DEF NoteTypes
<1>15. RowTypes'
    BY <1>10, <1>11, <1>12 DEF RowTypes
<1>16. /\ Later(s2, s2') /\ \A a \in Records : There(s2'[a]) => There(s2[a]) /\ s2'[a].by = s2[a].by
    <2>1. \A a \in Records : There(s2[a]) => s2[a].at \in Nat
        BY <1>3 DEF There, Written
    <2>2. s2'[id] # None
        BY <1>9, <1>10 DEF There
    <2>3. ASSUME NEW a \in Records, s2[a] # None
          PROVE  /\ s2'[a] # None
                 /\ There(s2'[a]) => /\ There(s2[a]) /\ s2[a].at <= s2'[a].at
                                     /\ s2[a].at = s2'[a].at => s2[a].value = s2'[a].value
        <3>1. CASE a = id
            BY <1>4, <1>7, <1>10, <2>2, <3>1
        <3>2. CASE a # id
            BY <1>10, <2>1, <2>3, <3>2
        <3> QED  BY <3>1, <3>2
    <2>4. \A a \in Records : There(s2'[a]) => There(s2[a]) /\ s2'[a].by = s2[a].by
        BY <1>4, <1>7, <1>10
    <2> QED  BY <2>3, <2>4 DEF Later
<1>17. FarLater(s3, s3')
    <2> SUFFICES ASSUME NEW a \in Records
                 PROVE  s3[a].at <= s3'[a].at /\ (s3[a].at = s3'[a].at => s3[a].value = s3'[a].value)
        BY DEF FarLater
    <2>1. s3[a].at \in Nat
        BY <1>3 DEF FarParts
    <2>2. s3'[a] = s3[a] \/ (a = id /\ s3'[a] = far)
        BY <1>11
    <2> QED  BY <1>8, <2>1, <2>2
<1>18. NearKept'
    <2> SUFFICES ASSUME NEW a \in Records, There(s2'[a])
                 PROVE  s2'[a].value = s4'.near[a] \/ <<a, "near">> \in s12'.muddled
        BY DEF NearKept, Page!Stored, There
    <2>1. CASE a = id
        BY <1>7, <1>10, <1>12, <2>1
    <2>2. CASE a # id
        <3>1. s2'[a] = s2[a] /\ s4'.near[a] = s4.near[a] /\ (<<a, "near">> \in s12.muddled => <<a, "near">> \in m)
            BY <1>10, <1>12, <1>13, <2>2
        <3> QED  BY <1>2, <1>14, <3>1 DEF NearKept, Page!Stored, There
    <2> QED  BY <2>1, <2>2
<1>19. FarKept'
    <2>1. ASSUME NEW a \in Records
          PROVE  /\ s3'[a].value = s4'.far[a] \/ <<a, "far">> \in s12'.muddled
                 /\ ~Page!HasFar => s3'[a].value = s4'.far[a]
                 /\ s3'[a].at = 0 => s3'[a].value = 0
                 /\ s2'[a] = None => s3'[a].at = 0
        <3>1. /\ s3[a].value = s4.far[a] \/ <<a, "far">> \in s12.muddled
              /\ ~Page!HasFar => s3[a].value = s4.far[a]
              /\ s3[a].at = 0 => s3[a].value = 0
              /\ s2[a] = None => s3[a].at = 0
            BY <1>2, <1>5 DEF FarKept
        <3>2. CASE a = id
            <4>1. s2'[a] # None
                BY <1>9, <1>10, <3>2 DEF There
            <4>2. CASE Page!HasFar
                BY <1>3, <1>8, <1>11, <1>12, <3>2, <4>1, <4>2
            <4>3. CASE ~Page!HasFar
                BY <1>11, <1>12, <3>1, <4>1, <4>3
            <4> QED  BY <4>2, <4>3
        <3>3. CASE a # id
            <4>1. s2'[a] = s2[a] /\ s3'[a] = s3[a] /\ s4'.far[a] = s4.far[a] /\ (<<a, "far">> \in s12.muddled => <<a, "far">> \in m)
                BY <1>10, <1>11, <1>12, <1>13, <3>3
            <4> QED  BY <1>14, <3>1, <4>1
        <3> QED  BY <3>2, <3>3
    <2> QED  BY <1>1, <1>5, <2>1 DEF FarKept
<1>20. PanelInv' /\ FollowInv'
    BY <1>1, <1>2, <1>14 DEF PanelInv, FollowInv
<1>21. Writes' = Writes /\ Stores' = Stores
    BY <1>1 DEF Writes, Stores
<1>22. CountInv'
    <2>1. /\ Cardinality(Writes) \in Nat /\ Cardinality(Writes) <= s13
          /\ s1 \in {"users", "groups"} => Cardinality(Stores) <= 1
        BY CountFacts DEF PageInv, CountInv
    <2>2. ASSUME NEW a \in Records, There(s2'[a]) PROVE s2'[a].at + Cardinality(Writes) <= s13' + 1
        <3>1. s2[a].at \in Nat /\ s2[a].at + Cardinality(Writes) <= s13 + 1
            BY <1>16, <2>2, CountFacts DEF PageInv, CountInv, Page!Stored, There
        <3>2. s2'[a].at = s2[a].at \/ s2'[a].at = s2[a].at + 1
            BY <1>7, <1>10
        <3> QED  BY <1>1, <2>1, <3>1, <3>2
    <2>3. Cardinality(Writes) <= s13'
        BY <1>1, <2>1
    <2> QED  BY <1>1, <1>21, <2>1, <2>2, <2>3 DEF CountInv, Page!Stored, There
<1>23. OnceInv'
    <2>1. s13' \in Nat /\ s13 <= s13'
        BY <1>1
    <2> QED  BY <1>1, <1>14, <1>16, <1>21, <2>1, OnceStays
<1>24. SaveTypes' /\ (\A t \in s9' : t \in s9) /\ s6' = s6
    BY <1>1, <1>2 DEF SaveTypes
<1>25. s7' \in PageForms /\ FormReads(s2, s3, s13, s7') /\ s8' \subseteq AtNone /\ s10' \in [of : AtNone, lists : AtNone]
    BY <1>1, <1>2
<1> QED  BY <1>1, <1>14, <1>15, <1>16, <1>17, <1>18, <1>19, <1>20, <1>22, <1>23, <1>24, <1>25, AnswerComes

LEMMA PageBegins ==
    ASSUME Page!PagesAssumption, Page!PageInit
    PROVE  PageInv
<1>1. PICK First \in ForPages.firsts :
          /\ s2 = [id \in Records |-> IF id \in First THEN [value |-> 1, at |-> 1, by |-> 0] ELSE None]
          /\ s3 = [id \in Records |-> IF id \in First THEN [value |-> 1, at |-> 1] ELSE [value |-> 0, at |-> 0]]
          /\ \E of \in {None} \cup (IF Page!Page.panel THEN First ELSE {}) :
                 s10 = [of |-> of, lists |-> IF s1 = "users" THEN of ELSE None]
    BY DEF Page!PageInit
<1>2. /\ s1 \in {"users", "groups", "orgs", "zones", "vehicles", "devices"}
      /\ s5 = IF s10.of = None THEN <<>> ELSE Page!Current
      /\ s6 = [asked |-> IF s10.of = None THEN 1 ELSE 0, answers |-> <<>>, orgs |-> s1 = "users"]
      /\ s4 = [near |-> [id \in Records |-> 1], far |-> [id \in Records |-> s3[id].value]]
      /\ s7 = [open |-> FALSE, of |-> None, row |-> Page!Blank, near |-> Page!Blank, far |-> Page!Blank,
               typed |-> {}, foreign |-> FALSE, no |-> 0]
      /\ s8 = {} /\ s9 = {} /\ s11 = {} /\ s13 = 0
      /\ s12 = [muddled |-> {}, doubled |-> {}, behind |-> FALSE, crossed |-> FALSE]
    BY DEF Page!PageInit
<1> DEFINE first == [value |-> 1, at |-> 1, by |-> 0]
<1>3. First \subseteq Records /\ s13 <= ForPages.acts /\ None \notin Records /\ None # Gone
    BY <1>2, PageNames DEF Page!PagesAssumption
<1>4. first \in Written /\ There(first) /\ first.value = 1 /\ first.at = 1 /\ first.by = 0
    <2>1. first \in Written
        BY DEF Written
    <2> QED  BY <2>1, PageNames
<1> HIDE DEF first
<1>5. \A id \in Records : s2[id] = IF id \in First THEN first ELSE None
    BY <1>1 DEF first
<1>6. \A id \in Records : s3[id] \in FarParts /\ s3[id].value \in Nat /\ (s3[id].at = 0 => s3[id].value = 0)
                          /\ (s2[id] = None => s3[id].at = 0)
    <2>1. \A id \in Records : s3[id] = IF id \in First THEN [value |-> 1, at |-> 1] ELSE [value |-> 0, at |-> 0]
        BY <1>1
    <2>2. \A id \in First : s2[id] # None
        BY <1>3, <1>4, <1>5 DEF There
    <2> QED  BY <2>1, <2>2 DEF FarParts
<1>7. RowTypes
    <2>1. s2 \in [Records -> Written \cup {None, Gone}]
        BY <1>1, <1>4, <1>5
    <2>2. s3 \in [Records -> FarParts]
        BY <1>1, <1>6
    <2>3. s4 \in [near : [Records -> Nat], far : [Records -> Nat]]
        BY <1>2, <1>6
    <2> QED  BY <2>1, <2>2, <2>3 DEF RowTypes
<1>8. s10 \in [of : AtNone, lists : AtNone] /\ s10.lists \in {None, s10.of} /\ (s10.lists # None => s1 = "users")
    BY <1>1, <1>3 DEF AtNone
<1>9. /\ Page!Current \in Contents /\ <<>> \in Contents /\ ListReads(s2, Page!Current) /\ ListReads(s2, <<>>)
    <2> DEFINE there == {i \in Records : Page!Stored(i)}
    <2>1. Page!Current = [id \in there |-> s2[id]]
        BY DEF Page!Current
    <2>2. \A id \in there : s2[id] \in Written /\ s2[id] # None
        BY <1>4, <1>5 DEF Page!Stored
    <2>3. there \in SUBSET Records /\ Page!Current \in [there -> Written]
        BY <2>1, <2>2
    <2>4. \A id \in there : Reads(s2, id, Page!Current[id])
        BY <2>1, <2>2 DEF Reads, Written
    <2>5. <<>> \in [{} -> Written] /\ {} \in SUBSET Records /\ DOMAIN <<>> = {}
        OBVIOUS
    <2> HIDE DEF there
    <2> QED  BY <2>3, <2>4, <2>5 DEF ListReads, Contents
<1>10. ListTypes /\ ListsRead /\ s6.answers = <<>>
    <2>1. s6 \in [asked : Nat, answers : Seq(ListAnswers), orgs : BOOLEAN] /\ s6.answers = <<>>
        BY <1>2
    <2> QED  BY <1>2, <1>9, <2>1 DEF ListTypes, ListsRead
<1>11. s7 \in PageForms /\ FormReads(s2, s3, s13, s7) /\ ~s7.open
    <2>1. s7 \in PageForms
        BY <1>2, BlankIsCopy DEF PageForms, AtNone
    <2> QED  BY <1>2, <2>1, BlankIsCopy DEF FormReads, ReadsNear, ReadsFar
<1>12. NoteTypes /\ SaveTypes
    <2>1. IsFiniteSet({})
        BY FS_EmptySet
    <2> QED  BY <1>2, <2>1 DEF NoteTypes, SaveTypes
<1>13. PageTypes
    BY <1>2, <1>3, <1>7, <1>8, <1>10, <1>11, <1>12 DEF PageTypes
<1>14. SavesRead /\ PanelInv
    BY <1>2, <1>8 DEF SavesRead, PanelInv
<1>15. NearKept /\ FarKept
    <2>1. \A id \in Records : s4.near[id] = 1 /\ s4.far[id] = s3[id].value
        BY <1>2
    <2>2. \A id \in Records : Page!Stored(id) => s2[id].value = 1
        BY <1>4, <1>5 DEF Page!Stored
    <2> QED  BY <1>6, <2>1, <2>2 DEF NearKept, FarKept
<1>16. FollowInv
    BY <1>2, <1>10 DEF FollowInv, AllLate
<1>17. CountInv /\ OnceInv
    <2>1. Writes = {} /\ Stores = {} /\ Cardinality({}) = 0
        BY <1>2, FS_EmptySet DEF Writes, Stores
    <2>2. \A id \in Records : Page!Stored(id) => s2[id].at = 1 /\ s2[id].by = 0
        BY <1>4, <1>5 DEF Page!Stored
    <2> QED  BY <1>2, <2>1, <2>2 DEF CountInv, OnceInv
<1> QED  BY <1>10, <1>11, <1>13, <1>14, <1>15, <1>16, <1>17 DEF PageInv

LEMMA PageMoves ==
    ASSUME Page!PagesAssumption, PageInv, Page!PageNext
    PROVE  PageInv'
<1>1. CASE Page!ReadList \/ Page!ListFails \/ Page!Cancel \/ Page!OrgsArrive \/ Page!Submit
    BY <1>1, ListIsRead, ListIsNot, FormCancelled, OrgsAreThere, Submits
<1>2. CASE \E n \in DOMAIN s6.answers : Page!ListArrives(n)
    BY <1>2, ListIsThere
<1>3. CASE \E of \in Records \cup {None} : Page!Open(of) \/ Page!FarArrives(of) \/ Page!FarAskFails(of)
    BY <1>3, FormOpens, FarIsThere, FarIsNot DEF AtNone
<1>4. CASE \E part \in {"near", "far"} : Page!Type(part)
    BY <1>4, Types
<1>5. ASSUME NEW s \in s9,
             \/ Page!SaveSucceeds(s) \/ Page!SaveFails(s) \/ Page!FarSucceeds(s) \/ Page!FarFails(s)
             \/ Page!DeleteSucceeds(s) \/ Page!DeleteFails(s)
      PROVE  PageInv'
    BY <1>5, SaveIsDone, SaveIsNot, FarIsDone, FarIsNotDone, DeletionIsDone, DeletionIsNotDone
<1>6. ASSUME NEW id \in Records,
             \/ Page!Delete(id) \/ Page!View(id) \/ Page!OtherWrites(id)
             \/ Page!PanelArrives(id, id) \/ Page!PanelArrives(id, None)
      PROVE  PageInv'
    BY <1>6, DeletionIsAsked, Views, OthersWrite, PanelIsThere
<1> QED  BY <1>1, <1>2, <1>3, <1>4, <1>5, <1>6 DEF Page!PageNext

LEMMA PageRests ==
    ASSUME PageInv, UNCHANGED <<s1, s2, s3, s4, s5, s6, s7, s8, s9, s10, s11, s12, s13>>
    PROVE  PageInv'
<1>1. s7 \in PageForms /\ FormReads(s2, s3, s13, s7) /\ s8 \subseteq AtNone
    BY DEF PageInv, PageTypes
<1> QED  BY <1>1, FormMoves

LEMMA PageAsPromised ==
    ASSUME Page!PagesAssumption, PageInv
    PROVE  Page!PageTypeOK /\ Page!PageHolds
<1>1. PageTypes /\ s1 \in {"users", "groups", "orgs", "zones", "vehicles", "devices"}
    BY DEF PageInv, PageTypes
<1>2. \A id \in DOMAIN s5 : s5[id].at >= 1
    <2>1. \A id \in DOMAIN s5 : s5[id] \in Written
        BY <1>1 DEF PageTypes, ListTypes, Contents
    <2>2. \A row \in Written : row.at >= 1
        BY DEF Written
    <2> QED  BY <2>1, <2>2
<1>3. \A id \in Records : Page!Stored(id) => s2[id].at \in 1..(ForPages.acts + 1)
    <2> SUFFICES ASSUME NEW id \in Records, Page!Stored(id) PROVE s2[id].at \in 1..(ForPages.acts + 1)
        OBVIOUS
    <2>1. s2[id].at \in Nat \ {0} /\ s2[id].at + Cardinality(Writes) <= s13 + 1 /\ Cardinality(Writes) \in Nat
        BY CountFacts DEF PageInv, CountInv, Written
    <2>2. s13 \in Nat /\ s13 <= ForPages.acts /\ ForPages.acts \in Nat
        BY <1>1, PageNames DEF PageTypes
    <2> QED  BY <2>1, <2>2
<1>4. s7.near.of \in {s7.of, None} /\ s7.far.of \in Records \cup {None} /\ (s7.open => Page!Page.form)
    <2>1. s7 \in PageForms /\ FormReads(s2, s3, s13, s7)
        BY <1>1 DEF PageInv, PageTypes
    <2>2. s7.far \in Copies
        BY <2>1 DEF PageForms
    <2> QED  BY <1>1, <2>1, <2>2, PageShapes DEF FormReads, Copies, AtNone
<1>5. Page!Page.guarded => Page!Cardinality({s \in s9 : s.op # "delete"}) <= 1
    <2>1. Page!Cardinality(Stores) = Cardinality(Stores)
        BY Zenon DEF Page!Cardinality, Cardinality
    <2>2. Page!Page.guarded => Cardinality(Stores) <= 1
        BY <1>1, PageShapes DEF PageInv, CountInv
    <2>3. Stores = {s \in s9 : s.op # "delete"}
        BY DEF Stores
    <2> QED  BY <2>1, <2>2, <2>3
<1>6. Page!PageTypeOK
    BY <1>1, <1>2, <1>3, <1>4, <1>5 DEF Page!PageTypeOK, PageTypes, PageInv, PanelInv
<1>7. Page!UntouchedIsKept
    BY DEF Page!UntouchedIsKept, PageInv, NearKept, FarKept
<1>8. Page!ListFollows
    <2> SUFFICES ASSUME s6.asked = 0, s6.answers = <<>>, s9 = {}, ~s12.behind PROVE s5 = Page!Current
        BY DEF Page!ListFollows
    <2> QED  BY DEF PageInv, FollowInv, LastIsCurrent
<1>9. Page!PanelIsOfViewed
    BY DEF Page!PanelIsOfViewed, PageInv, PanelInv
<1>10. Page!OneRecordPerForm
    <2>1. Page!Page.guarded => s1 \in {"users", "groups"}
        BY <1>1, PageShapes
    <2> QED  BY <2>1 DEF Page!OneRecordPerForm, PageInv, OnceInv
<1> QED  BY <1>6, <1>7, <1>8, <1>9, <1>10 DEF Page!PageHolds

=============================================================================
