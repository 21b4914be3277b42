------------------------ MODULE EventLoopTimerProofs ------------------------
(***************************************************************************)
(* For any timers, intervals and width of the clock: the front of the list *)
(* is the first timer to expire, a timer keeps its times exactly, and none *)
(* fires that nobody wants.                                                *)
(***************************************************************************)
EXTENDS EventLoopTimer, SequenceTheorems, WellFoundedInduction, TLAPS

(* Arithmetic modulo the width of the clock, and division by an interval.   *)
LEMMA DivMod ==
    ASSUME NEW x \in Int, NEW w \in Nat, w > 0
    PROVE  /\ x \div w \in Int /\ x % w \in 0 .. w - 1
           /\ x = w * (x \div w) + (x % w)
OBVIOUS

(* Only the multiple 0 of a width is nearer to 0 than the width.            *)
LEMMA NoMultiple ==
    ASSUME NEW w \in Nat, w > 0, NEW q \in Int, -w < w * q, w * q < w
    PROVE  q = 0
<1>1. q >= 1 => w * q >= w
  OBVIOUS
<1>2. q <= -1 => w * q <= -w
  OBVIOUS
<1>3. QED
  BY <1>1, <1>2

(* A quotient and a remainder that fit are those of the division.           *)
LEMMA ModUnique ==
    ASSUME NEW x \in Int, NEW w \in Nat, w > 0, NEW q \in Int, NEW r \in 0 .. w - 1, x = w * q + r
    PROVE  x % w = r /\ x \div w = q
<1> DEFINE p == x \div w
           s == x % w
<1>1. p \in Int /\ s \in 0 .. w - 1 /\ x = w * p + s
  BY DivMod
<1> HIDE DEF p, s
<1>2. w * (p - q) = w * p - w * q
  BY <1>1
<1>3. w * (p - q) = r - s
  BY <1>1, <1>2
<1>4. p - q = 0
  <2>1. p - q \in Int /\ -w < w * (p - q) /\ w * (p - q) < w
    BY <1>1, <1>3
  <2>2. QED
    BY <2>1, NoMultiple
<1>5. p = q
  BY <1>1, <1>4
<1>6. s = r
  BY <1>1, <1>3, <1>4, <1>5
<1>7. QED
  BY <1>5, <1>6 DEF p, s

(* A clock of width w, once around at the most.                             *)
LEMMA Around ==
    ASSUME NEW w \in Nat, w > 0
    PROVE  /\ \A x \in 0 .. w - 1 : x % w = x
           /\ \A x \in w .. w + w - 1 : x % w = x - w
           /\ \A x \in -w .. -1 : x % w = x + w
<1>1. ASSUME NEW x \in 0 .. w - 1 PROVE x % w = x
  <2>1. x = w * 0 + x
    OBVIOUS
  <2>2. QED
    BY <2>1, ModUnique
<1>2. ASSUME NEW x \in w .. w + w - 1 PROVE x % w = x - w
  <2>1. x = w * 1 + (x - w) /\ x - w \in 0 .. w - 1
    OBVIOUS
  <2>2. QED
    BY <2>1, ModUnique
<1>3. ASSUME NEW x \in -w .. -1 PROVE x % w = x + w
  <2>1. x = w * (-1) + (x + w) /\ x + w \in 0 .. w - 1
    OBVIOUS
  <2>2. QED
    BY <2>1, ModUnique
<1>4. QED
  BY <1>1, <1>2, <1>3

(* The time since s, at time n of the clock and one step later.             *)
LEMMA OneLater ==
    ASSUME NEW w \in Nat, NEW n \in 0 .. w - 1, NEW s \in 0 .. w - 1,
           NEW e, e = (n - s) % w, e + 1 < w
    PROVE  (n + 1) % w \in 0 .. w - 1 /\ (((n + 1) % w) - s) % w = e + 1
<1>1. w > 0
  OBVIOUS
<1>2. e = IF n >= s THEN n - s ELSE n - s + w
  BY <1>1, Around
<1>3. (n + 1) % w = IF n + 1 = w THEN 0 ELSE n + 1
  BY <1>1, Around
<1>4. CASE n + 1 = w
  <2>1. (n + 1) % w = 0 /\ 0 - s \in -w .. 0 /\ n >= s /\ e = n - s
    BY <1>2, <1>3, <1>4
  <2>2. s # 0
    BY <1>4, <2>1
  <2>3. (0 - s) % w = w - s
    BY <1>1, <2>1, <2>2, Around
  <2>4. QED
    BY <1>4, <2>1, <2>3
<1>5. CASE n + 1 # w
  <2>1. (n + 1) % w = n + 1
    BY <1>3, <1>5
  <2>2. CASE n + 1 >= s
    <3>1. n + 1 - s \in 0 .. w - 1 /\ n >= s
      BY <1>2, <1>5, <2>2
    <3>2. (n + 1 - s) % w = n + 1 - s
      BY <1>1, <3>1, Around
    <3>3. QED
      BY <1>2, <1>5, <2>1, <3>1, <3>2
  <2>3. CASE n + 1 < s
    <3>1. n + 1 - s \in -w .. -1 /\ n < s
      BY <2>3
    <3>2. (n + 1 - s) % w = n + 1 - s + w
      BY <1>1, <3>1, Around
    <3>3. QED
      BY <1>2, <1>5, <2>1, <3>1, <3>2
  <2>4. QED
    BY <2>2, <2>3
<1>6. QED
  BY <1>4, <1>5

(* The time since s at n, and s moved on by m, on a clock of width w.       *)
Since(s, n, w) == (n - s) % w
Moved(s, m, w) == (s + m) % w

(* A start moved on by part of the time since.                              *)
LEMMA MovedOn ==
    ASSUME NEW w \in Nat, NEW n \in 0 .. w - 1, NEW s \in 0 .. w - 1,
           NEW m \in 0 .. Since(s, n, w)
    PROVE  Moved(s, m, w) \in 0 .. w - 1 /\ Since(Moved(s, m, w), n, w) = Since(s, n, w) - m
<1> DEFINE e == Since(s, n, w)
           u == Moved(s, m, w)
<1>1. w > 0 /\ e = (n - s) % w /\ u = (s + m) % w /\ m \in 0 .. e
  BY DEF Since, Moved
<1> HIDE DEF e, u
<1>2. e = IF n >= s THEN n - s ELSE n - s + w
  BY <1>1, Around
<1>3. e \in 0 .. w - 1
  BY <1>2
<1>4. u = IF s + m < w THEN s + m ELSE s + m - w
  BY <1>1, <1>3, Around
<1>5. u \in 0 .. w - 1
  BY <1>1, <1>3, <1>4
<1>6. (n - u) % w = IF n >= u THEN n - u ELSE n - u + w
  BY <1>1, <1>5, Around
<1>7. (n - u) % w = e - m
  BY <1>1, <1>2, <1>3, <1>4, <1>5, <1>6
<1>8. QED
  BY <1>5, <1>7 DEF e, u, Since

(* The last of the times a late periodic timer missed, and what is left to  *)
(* the next one.                                                            *)
LEMMA NextTime ==
    ASSUME NEW i \in Nat, i > 0, NEW e \in Nat, NEW l \in Int, e = i - l
    PROVE  /\ i * (e \div i) \in 0 .. e
           /\ \E d \in 1 .. i : (d - l) % i = 0
           /\ \A d \in 1 .. i : (d - l) % i = 0 => e - i * (e \div i) = i - d
<1> DEFINE q == e \div i
           r == e % i
<1>1. q \in Int /\ r \in 0 .. i - 1 /\ e = i * q + r
  BY DivMod
<1> HIDE DEF q, r
<1>2. q >= 0
  <2>1. q <= -1 => i * q <= -i
    BY <1>1
  <2>2. QED
    BY <1>1, <2>1
<1>3. i * q \in 0 .. e
  <2>1. i * q \in Int /\ i * q >= 0
    BY <1>1, <1>2
  <2>2. QED
    BY <1>1, <2>1
<1>4. i - r \in 1 .. i /\ ((i - r) - l) % i = 0
  <2>1. PICK x \in Int : x = (i - r) - l
    BY <1>1
  <2>2. x = i * q + 0 /\ 0 \in 0 .. i - 1
    BY <1>1, <1>3, <2>1
  <2>3. x % i = 0
    BY <1>1, <2>2, ModUnique
  <2>4. QED
    BY <1>1, <2>1, <2>3
<1>5. ASSUME NEW d \in 1 .. i, (d - l) % i = 0 PROVE e - i * q = i - d
  <2> DEFINE p == (d - l) \div i
  <2>1. p \in Int /\ d - l = i * p + 0
    BY <1>5, DivMod
  <2> HIDE DEF p
  <2>2. i * (p - q) = i * p - i * q
    BY <1>1, <2>1
  <2>3. i * (p - q) = d - (i - r)
    BY <1>1, <1>3, <2>1, <2>2
  <2>4. p - q = 0
    <3>1. p - q \in Int /\ -i < i * (p - q) /\ i * (p - q) < i
      BY <1>1, <2>1, <2>3
    <3>2. QED
      BY <3>1, NoMultiple
  <2>5. d = i - r
    BY <1>1, <2>3, <2>4
  <2>6. QED
    BY <1>1, <1>3, <2>5
<1>6. QED
  BY <1>3, <1>4, <1>5 DEF q
-----------------------------------------------------------------------------
(* Lists in which an element is linked once, and in the order of a rank.    *)
Distinct(q) == \A m, n \in 1 .. Len(q) : q[m] = q[n] => m = n
Ordered(q, rank) == \A n \in 2 .. Len(q) : rank[q[n - 1]] <= rank[q[n]]

(* A list in which no element is twice is injective.                        *)
LEMMA DistinctIsInjective == \A S : \A s \in Seq(S) : IsInjective(s) <=> Distinct(s)
<1> SUFFICES ASSUME NEW S, NEW s \in Seq(S) PROVE IsInjective(s) <=> Distinct(s)
  OBVIOUS
<1>1. DOMAIN s = 1 .. Len(s)
  OBVIOUS
<1>2. QED
  BY <1>1 DEF IsInjective, Distinct

(* A sequence without its element k.                                        *)
LEMMA RemovedAt ==
    ASSUME NEW S, NEW s \in Seq(S), NEW l \in Nat, Len(s) = l, NEW k \in 1 .. l
    PROVE  /\ RemoveAt(s, k) \in Seq(S) /\ Len(RemoveAt(s, k)) = l - 1
           /\ \A n \in 1 .. l - 1 : RemoveAt(s, k)[n] = IF n < k THEN s[n] ELSE s[n + 1]
<1> DEFINE a == SubSeq(s, 1, k - 1)
           b == SubSeq(s, k + 1, l)
           q == RemoveAt(s, k)
<1>1. \A n \in 1 .. l : s[n] \in S
  OBVIOUS
<1>2. a \in Seq(S) /\ Len(a) = k - 1 /\ \A n \in 1 .. k - 1 : a[n] = s[n]
  BY <1>1, SubSeqProperties
<1>3. b \in Seq(S) /\ Len(b) = l - k /\ \A n \in 1 .. l - k : b[n] = s[k + n]
  <2>1. k + 1 \in Int /\ l \in Int /\ \A n \in k + 1 .. l : s[n] \in S
    BY <1>1
  <2>2. /\ b \in Seq(S) /\ Len(b) = IF k + 1 <= l THEN l - (k + 1) + 1 ELSE 0
        /\ \A n \in 1 .. l - (k + 1) + 1 : b[n] = s[(k + 1) + n - 1]
    BY <2>1, SubSeqProperties
  <2> HIDE DEF b
  <2>3. Len(b) = l - k
    BY <2>2
  <2>4. ASSUME NEW n \in 1 .. l - k PROVE b[n] = s[k + n]
    <3>1. n \in 1 .. l - (k + 1) + 1 /\ (k + 1) + n - 1 = k + n
      OBVIOUS
    <3>2. QED
      BY <2>2, <3>1
  <2>5. QED
    BY <2>2, <2>3, <2>4
<1>4. q = a \o b
  BY DEF RemoveAt
<1> HIDE DEF a, b, q
<1>5. /\ q \in Seq(S) /\ Len(q) = Len(a) + Len(b)
      /\ \A n \in 1 .. Len(a) + Len(b) : q[n] = IF n <= Len(a) THEN a[n] ELSE b[n - Len(a)]
  BY <1>2, <1>3, <1>4, ConcatProperties
<1>6. Len(q) = l - 1
  BY <1>2, <1>3, <1>5
<1>7. ASSUME NEW n \in 1 .. l - 1 PROVE q[n] = IF n < k THEN s[n] ELSE s[n + 1]
  <2>1. CASE n < k
    BY <1>2, <1>3, <1>5, <2>1
  <2>2. CASE n >= k
    <3>1. n - (k - 1) \in 1 .. l - k /\ k + (n - (k - 1)) = n + 1
      BY <2>2
    <3>2. q[n] = b[n - (k - 1)]
      BY <1>2, <1>3, <1>5, <2>2
    <3>3. QED
      BY <1>3, <2>2, <3>1, <3>2
  <2>3. QED
    BY <2>1, <2>2
<1>8. QED
  BY <1>5, <1>6, <1>7 DEF q

(* It holds the others, in the order they were in.                         *)
LEMMA RemovedMembers ==
    ASSUME NEW S, NEW s \in Seq(S), NEW l \in Nat, Len(s) = l, NEW k \in 1 .. l, Distinct(s)
    PROVE  /\ RemoveAt(s, k) \in Seq(S) /\ Distinct(RemoveAt(s, k))
           /\ \A j : j \in ToSet(RemoveAt(s, k)) <=> j \in ToSet(s) /\ j # s[k]
<1> DEFINE q == RemoveAt(s, k)
<1> HIDE DEF q
<1>1. /\ q \in Seq(S) /\ Len(q) = l - 1
      /\ \A n \in 1 .. l - 1 : q[n] = IF n < k THEN s[n] ELSE s[n + 1]
  <2>1. Len(s) = l /\ k \in 1 .. l /\ l \in Nat
    OBVIOUS
  <2>2. /\ RemoveAt(s, k) \in Seq(S) /\ Len(RemoveAt(s, k)) = l - 1
        /\ \A n \in 1 .. l - 1 : RemoveAt(s, k)[n] = IF n < k THEN s[n] ELSE s[n + 1]
    BY <2>1, RemovedAt
  <2>3. QED
    BY <2>2 DEF q
<1>2. DOMAIN q = 1 .. l - 1 /\ DOMAIN s = 1 .. l
  BY <1>1
<1>3. \A m, n \in 1 .. l : s[m] = s[n] => m = n
  BY DEF Distinct
<1>4. ASSUME NEW m \in 1 .. l - 1, NEW n \in 1 .. l - 1, q[m] = q[n] PROVE m = n
  BY <1>1, <1>3, <1>4
<1>5. ASSUME NEW j, j \in ToSet(q) PROVE j \in ToSet(s) /\ j # s[k]
  <2>1. PICK n \in 1 .. l - 1 : q[n] = j
    BY <1>2, <1>5 DEF ToSet
  <2>2. PICK m \in 1 .. l : s[m] = j /\ m # k
    <3>1. CASE n < k
      BY <1>1, <2>1, <3>1
    <3>2. CASE n >= k
      <4>1. n + 1 \in 1 .. l /\ n + 1 # k /\ s[n + 1] = j
        BY <1>1, <2>1, <3>2
      <4>2. QED
        BY <4>1
    <3>3. QED
      BY <3>1, <3>2
  <2>3. QED
    BY <1>2, <1>3, <2>2 DEF ToSet
<1>6. ASSUME NEW j, j \in ToSet(s), j # s[k] PROVE j \in ToSet(q)
  <2>1. PICK m \in 1 .. l : s[m] = j /\ m # k
    BY <1>2, <1>6 DEF ToSet
  <2>2. PICK n \in 1 .. l - 1 : q[n] = j
    <3>1. CASE m < k
      BY <1>1, <2>1, <3>1
    <3>2. CASE m > k
      <4>1. m - 1 \in 1 .. l - 1 /\ ~ (m - 1 < k) /\ (m - 1) + 1 = m
        BY <3>2
      <4>2. q[m - 1] = j
        BY <1>1, <2>1, <4>1
      <4>3. QED
        BY <4>1, <4>2
    <3>3. QED
      BY <2>1, <3>1, <3>2
  <2>3. QED
    BY <1>2, <2>2 DEF ToSet
<1>7. Distinct(q)
  BY <1>1, <1>4 DEF Distinct
<1>8. QED
  BY <1>1, <1>5, <1>6, <1>7 DEF q

(* A list stays in order when an element is removed.                        *)
LEMMA RemovedOrdered ==
    ASSUME NEW S, NEW s \in Seq(S), NEW l \in Nat, Len(s) = l, NEW k \in 1 .. l,
           NEW rank \in [S -> Int], Ordered(s, rank)
    PROVE  Ordered(RemoveAt(s, k), rank)
<1> DEFINE q == RemoveAt(s, k)
<1>1. /\ q \in Seq(S) /\ Len(q) = l - 1
      /\ \A n \in 1 .. l - 1 : q[n] = IF n < k THEN s[n] ELSE s[n + 1]
  <2>1. Len(s) = l /\ k \in 1 .. l /\ l \in Nat
    OBVIOUS
  <2>2. QED
    BY <2>1, RemovedAt
<1> HIDE DEF q
<1>2. \A n \in 1 .. l : rank[s[n]] \in Int
  OBVIOUS
<1>3. \A n \in 2 .. l : rank[s[n - 1]] <= rank[s[n]]
  BY DEF Ordered
<1>4. ASSUME NEW n \in 2 .. l - 1 PROVE rank[q[n - 1]] <= rank[q[n]]
  <2>1. n \in 2 .. l /\ n + 1 \in 2 .. l /\ (n + 1) - 1 = n /\ n - 1 \in 1 .. l - 1 /\ n \in 1 .. l - 1
        /\ n - 1 \in 1 .. l /\ n \in 1 .. l /\ n + 1 \in 1 .. l /\ (n - 1) + 1 = n
    OBVIOUS
  <2>2. rank[s[n - 1]] <= rank[s[n]] /\ rank[s[n]] <= rank[s[n + 1]]
    BY <1>3, <2>1
  <2>3. rank[s[n - 1]] \in Int /\ rank[s[n]] \in Int /\ rank[s[n + 1]] \in Int
    BY <1>2, <2>1
  <2>4. CASE n < k
    <3>1. q[n - 1] = s[n - 1] /\ q[n] = s[n]
      BY <1>1, <2>1, <2>4
    <3>2. QED
      BY <2>2, <3>1
  <2>5. CASE n = k
    <3>1. q[n - 1] = s[n - 1] /\ q[n] = s[n + 1]
      BY <1>1, <2>1, <2>5
    <3>2. QED
      BY <2>2, <2>3, <3>1
  <2>6. CASE n > k
    <3>1. ~ (n - 1 < k) /\ ~ (n < k)
      BY <2>6
    <3>2. q[n - 1] = s[n] /\ q[n] = s[n + 1]
      BY <1>1, <2>1, <3>1
    <3>3. QED
      BY <2>2, <3>2
  <2>7. QED
    BY <2>4, <2>5, <2>6
<1>5. QED
  BY <1>1, <1>4 DEF q, Ordered

(* What a list of timers holds after a timer was unlinked.                  *)
LEMMA UnlinkedMembers ==
    ASSUME NEW s \in Seq(Timers), Distinct(s), NEW t \in Timers
    PROVE  /\ Unlinked(s, t) \in Seq(Timers) /\ Distinct(Unlinked(s, t))
           /\ \A u : u \in ToSet(Unlinked(s, t)) <=> u \in ToSet(s) /\ u # t
           /\ \A rank \in [Timers -> Int] : Ordered(s, rank) => Ordered(Unlinked(s, t), rank)
<1>1. CASE t \notin ToSet(s)
  BY <1>1 DEF Unlinked
<1>2. CASE t \in ToSet(s)
  <2> DEFINE k == CHOOSE n \in 1 .. Len(s) : s[n] = t
  <2>1. \E n \in 1 .. Len(s) : s[n] = t
    BY <1>2 DEF ToSet
  <2>2. k \in 1 .. Len(s) /\ s[k] = t
    BY <2>1
  <2>3. Unlinked(s, t) = RemoveAt(s, k)
    BY <1>2 DEF Unlinked
  <2> HIDE DEF k
  <2>4. Len(s) \in Nat
    OBVIOUS
  <2>5. QED
    BY <2>2, <2>3, <2>4, RemovedMembers, RemovedOrdered
<1>3. QED
  BY <1>1, <1>2

(* The first of a list, and the others.                                     *)
LEMMA FirstMembers ==
    ASSUME NEW s \in Seq(Timers), Distinct(s), s # <<>>
    PROVE  /\ Head(s) \in Timers /\ Head(s) \in ToSet(s) /\ Head(s) = s[1]
           /\ Tail(s) \in Seq(Timers) /\ Distinct(Tail(s))
           /\ \A u : u \in ToSet(Tail(s)) <=> u \in ToSet(s) /\ u # Head(s)
           /\ \A rank \in [Timers -> Int] : Ordered(s, rank) => Ordered(Tail(s), rank)
<1> DEFINE q == Tail(s)
<1>1. PICK l \in Nat : l = Len(s)
  OBVIOUS
<1>2. /\ q \in Seq(Timers) /\ l > 0 /\ Len(q) = l - 1 /\ Head(s) = s[1] /\ s[1] \in Timers
      /\ DOMAIN q = 1 .. l - 1 /\ DOMAIN s = 1 .. l
      /\ \A n \in 1 .. l - 1 : q[n] = s[n + 1]
  BY <1>1
<1> HIDE DEF q
<1>3. \A m, n \in 1 .. l : s[m] = s[n] => m = n
  BY <1>1 DEF Distinct
<1>4. ASSUME NEW m \in 1 .. l - 1, NEW n \in 1 .. l - 1, q[m] = q[n] PROVE m = n
  BY <1>2, <1>3, <1>4
<1>5. Head(s) \in ToSet(s)
  BY <1>2 DEF ToSet
<1>6. ASSUME NEW u, u \in ToSet(s), u # Head(s) PROVE u \in ToSet(q)
  <2>1. PICK n \in 1 .. l : s[n] = u
    BY <1>2, <1>6 DEF ToSet
  <2>2. n - 1 \in 1 .. l - 1 /\ q[n - 1] = u
    BY <1>2, <1>6, <2>1
  <2>3. QED
    BY <1>2, <2>2 DEF ToSet
<1>7. ASSUME NEW u, u \in ToSet(q) PROVE u \in ToSet(s) /\ u # Head(s)
  <2>1. PICK n \in 1 .. l - 1 : q[n] = u
    BY <1>2, <1>7 DEF ToSet
  <2>2. n + 1 \in 1 .. l /\ 1 \in 1 .. l /\ n + 1 # 1 /\ s[n + 1] = u
    BY <1>2, <2>1
  <2>3. QED
    BY <1>2, <1>3, <2>2 DEF ToSet
<1>8. ASSUME NEW rank \in [Timers -> Int], Ordered(s, rank) PROVE Ordered(q, rank)
  <2>1. ASSUME NEW n \in 2 .. l - 1 PROVE rank[q[n - 1]] <= rank[q[n]]
    <3>1. n + 1 \in 2 .. l /\ (n + 1) - 1 = n /\ n - 1 \in 1 .. l - 1 /\ (n - 1) + 1 = n /\ n \in 1 .. l - 1
      OBVIOUS
    <3>2. rank[s[n]] <= rank[s[n + 1]]
      BY <1>1, <1>8, <3>1 DEF Ordered
    <3>3. q[n - 1] = s[n] /\ q[n] = s[n + 1]
      BY <1>2, <3>1
    <3>4. QED
      BY <3>2, <3>3
  <2>2. QED
    BY <1>2, <2>1 DEF Ordered
<1>9. Distinct(q)
  BY <1>2, <1>4 DEF Distinct
<1>10. QED
  BY <1>2, <1>5, <1>6, <1>7, <1>8, <1>9 DEF q

(* A sequence with one more element, x, at k.                               *)
IsInserted(q, s, l, x, k) ==
    /\ Len(q) = l + 1
    /\ \A n \in 1 .. k - 1 : q[n] = s[n]
    /\ q[k] = x
    /\ \A n \in k + 1 .. l + 1 : q[n] = s[n - 1]

(* InsertAt does that.                                                      *)
LEMMA InsertedAt ==
    ASSUME NEW S, NEW s \in Seq(S), NEW l \in Nat, Len(s) = l, NEW x \in S, NEW k \in 1 .. l + 1
    PROVE  InsertAt(s, k, x) \in Seq(S) /\ IsInserted(InsertAt(s, k, x), s, l, x, k)
<1> DEFINE a == SubSeq(s, 1, k - 1)
           b == SubSeq(s, k, l)
           c == a \o <<x>>
           q == InsertAt(s, k, x)
<1>1. \A n \in 1 .. l : s[n] \in S
  OBVIOUS
<1>2. a \in Seq(S) /\ Len(a) = k - 1 /\ \A n \in 1 .. k - 1 : a[n] = s[n]
  BY <1>1, SubSeqProperties
<1>3. b \in Seq(S) /\ Len(b) = l - k + 1 /\ \A n \in 1 .. l - k + 1 : b[n] = s[k + n - 1]
  BY <1>1, SubSeqProperties
<1>4. <<x>> \in Seq(S) /\ Len(<<x>>) = 1 /\ <<x>>[1] = x
  OBVIOUS
<1> HIDE DEF a, b
<1>5. /\ c \in Seq(S) /\ Len(c) = k
      /\ \A n \in 1 .. k : c[n] = IF n <= k - 1 THEN a[n] ELSE <<x>>[n - (k - 1)]
  BY <1>2, <1>4, ConcatProperties
<1>6. c[k] = x /\ \A n \in 1 .. k - 1 : c[n] = s[n]
  BY <1>2, <1>4, <1>5
<1>7. q = c \o b
  BY DEF InsertAt, a, b
<1> HIDE DEF c, q
<1>8. /\ q \in Seq(S) /\ Len(q) = Len(c) + Len(b)
      /\ \A n \in 1 .. Len(c) + Len(b) : q[n] = IF n <= Len(c) THEN c[n] ELSE b[n - Len(c)]
  BY <1>3, <1>5, <1>7, ConcatProperties
<1>9. Len(q) = l + 1 /\ \A n \in 1 .. l + 1 : q[n] = IF n <= k THEN c[n] ELSE b[n - k]
  BY <1>3, <1>5, <1>8
<1>10. ASSUME NEW n \in k + 1 .. l + 1 PROVE q[n] = s[n - 1]
  <2>1. n - k \in 1 .. l - k + 1 /\ k + (n - k) - 1 = n - 1 /\ n \in 1 .. l + 1 /\ ~ (n <= k)
    OBVIOUS
  <2>2. q[n] = b[n - k]
    BY <1>9, <2>1
  <2>3. b[n - k] = s[k + (n - k) - 1]
    BY <1>3, <2>1
  <2>4. QED
    BY <2>1, <2>2, <2>3
<1>11. \A n \in 1 .. k - 1 : q[n] = s[n]
  BY <1>6, <1>9
<1>12. q[k] = x
  BY <1>6, <1>9
<1>13. QED
  BY <1>8, <1>9, <1>10, <1>11, <1>12 DEF q, IsInserted

(* It holds x and what it held.                                             *)
LEMMA InsertedMembers ==
    ASSUME NEW S, NEW s \in Seq(S), NEW l \in Nat, Len(s) = l, NEW x \in S, NEW k \in 1 .. l + 1,
           Distinct(s), x \notin ToSet(s)
    PROVE  /\ InsertAt(s, k, x) \in Seq(S) /\ Distinct(InsertAt(s, k, x))
           /\ \A u : u \in ToSet(InsertAt(s, k, x)) <=> u \in ToSet(s) \/ u = x
<1> DEFINE q == InsertAt(s, k, x)
<1> HIDE DEF q
<1>1. /\ q \in Seq(S) /\ Len(q) = l + 1
      /\ \A n \in 1 .. k - 1 : q[n] = s[n]
      /\ q[k] = x
      /\ \A n \in k + 1 .. l + 1 : q[n] = s[n - 1]
  <2>1. InsertAt(s, k, x) \in Seq(S) /\ IsInserted(InsertAt(s, k, x), s, l, x, k)
    BY InsertedAt
  <2>2. QED
    BY <2>1 DEF q, IsInserted
<1>2. DOMAIN q = 1 .. l + 1 /\ DOMAIN s = 1 .. l
  BY <1>1
<1>3. /\ \A m, n \in 1 .. l : s[m] = s[n] => m = n
      /\ \A n \in 1 .. l : s[n] # x
  BY <1>2 DEF Distinct, ToSet
<1>4. \A n \in 1 .. l + 1 : \/ n \in 1 .. k - 1 /\ n \in 1 .. l /\ q[n] = s[n]
                            \/ n = k /\ q[n] = x
                            \/ n \in k + 1 .. l + 1 /\ n - 1 \in 1 .. l /\ q[n] = s[n - 1]
  BY <1>1
<1>5. ASSUME NEW m \in 1 .. l + 1, NEW n \in 1 .. l + 1, q[m] = q[n] PROVE m = n
  BY <1>3, <1>4, <1>5
<1>6. ASSUME NEW u, u \in ToSet(q) PROVE u \in ToSet(s) \/ u = x
  <2>1. PICK n \in 1 .. l + 1 : q[n] = u
    BY <1>2, <1>6 DEF ToSet
  <2>2. QED
    BY <1>2, <1>4, <2>1 DEF ToSet
<1>7. ASSUME NEW u, u \in ToSet(s) PROVE u \in ToSet(q)
  <2>1. PICK n \in 1 .. l : s[n] = u
    BY <1>2, <1>7 DEF ToSet
  <2>2. CASE n < k
    <3>1. n \in 1 .. l + 1 /\ q[n] = u
      BY <1>1, <2>1, <2>2
    <3>2. QED
      BY <1>2, <3>1 DEF ToSet
  <2>3. CASE n >= k
    <3>1. n + 1 \in k + 1 .. l + 1 /\ (n + 1) - 1 = n /\ n + 1 \in 1 .. l + 1
      BY <2>3
    <3>2. q[n + 1] = u
      BY <1>1, <2>1, <3>1
    <3>3. QED
      BY <1>2, <3>1, <3>2 DEF ToSet
  <2>4. QED
    BY <2>2, <2>3
<1>8. x \in ToSet(q)
  <2>1. k \in 1 .. l + 1
    OBVIOUS
  <2>2. QED
    BY <1>1, <1>2, <2>1 DEF ToSet
<1>9. Distinct(q)
  BY <1>1, <1>5 DEF Distinct
<1>10. QED
  BY <1>1, <1>6, <1>7, <1>8, <1>9 DEF q

(* And in order, where its rank fits.                                       *)
LEMMA InsertedOrdered ==
    ASSUME NEW S, NEW s \in Seq(S), NEW l \in Nat, Len(s) = l, NEW x \in S, NEW k \in 1 .. l + 1,
           NEW rank \in [S -> Int], Ordered(s, rank),
           k > 1 => rank[s[k - 1]] <= rank[x], k <= l => rank[x] <= rank[s[k]]
    PROVE  Ordered(InsertAt(s, k, x), rank)
<1> DEFINE q == InsertAt(s, k, x)
<1> HIDE DEF q
<1>1. /\ q \in Seq(S) /\ Len(q) = l + 1
      /\ \A n \in 1 .. k - 1 : q[n] = s[n]
      /\ q[k] = x
      /\ \A n \in k + 1 .. l + 1 : q[n] = s[n - 1]
  <2>1. InsertAt(s, k, x) \in Seq(S) /\ IsInserted(InsertAt(s, k, x), s, l, x, k)
    BY InsertedAt
  <2>2. QED
    BY <2>1 DEF q, IsInserted
<1>2. \A n \in 2 .. l : rank[s[n - 1]] <= rank[s[n]]
  BY DEF Ordered
<1>3. ASSUME NEW n \in 2 .. l + 1 PROVE rank[q[n - 1]] <= rank[q[n]]
  <2>1. CASE n < k
    <3>1. n \in 2 .. l /\ n - 1 \in 1 .. k - 1 /\ n \in 1 .. k - 1
      BY <2>1
    <3>2. QED
      BY <1>1, <1>2, <3>1
  <2>2. CASE n = k
    <3>1. n - 1 \in 1 .. k - 1 /\ k > 1
      BY <2>2
    <3>2. q[n - 1] = s[k - 1] /\ q[n] = x
      BY <1>1, <2>2, <3>1
    <3>3. QED
      BY <3>1, <3>2
  <2>3. CASE n = k + 1
    <3>1. n \in k + 1 .. l + 1 /\ n - 1 = k /\ k <= l
      BY <2>3
    <3>2. q[n - 1] = x /\ q[n] = s[k]
      BY <1>1, <3>1
    <3>3. QED
      BY <3>1, <3>2
  <2>4. CASE n > k + 1
    <3>1. n \in k + 1 .. l + 1 /\ n - 1 \in k + 1 .. l + 1 /\ n - 1 \in 2 .. l
      BY <2>4
    <3>2. q[n - 1] = s[(n - 1) - 1] /\ q[n] = s[n - 1]
      BY <1>1, <3>1
    <3>3. QED
      BY <1>2, <3>1, <3>2
  <2>5. QED
    BY <2>1, <2>2, <2>3, <2>4
<1>4. QED
  BY <1>1, <1>3 DEF q, Ordered

(* A non-empty set of positions of a list has a last one.                   *)
LEMMA LastOf ==
    ASSUME NEW l \in Nat, NEW P \in SUBSET (1 .. l), P # {}
    PROVE  \E n \in P : \A m \in P : m <= n
<1> DEFINE Q == {l - n : n \in P}
<1>1. \A y \in Q : y \in Nat
  OBVIOUS
<1>2. Q # {} /\ Q \in SUBSET Nat
  BY <1>1
<1> DEFINE R == OpToRel(<, Nat)
<1>3. PICK m \in Q : \A y \in Q : m <= y
  <2>1. IsWellFoundedOn(R, Nat)
    BY NatLessThanWellFounded
  <2>2. \A x, y \in Nat : <<x, y>> \in R <=> x < y
    BY DEF OpToRel
  <2> HIDE DEF R, Q
  <2>3. PICK x \in Q : \A y \in Q : ~ (<<y, x>> \in R)
    BY <1>2, <2>1, WFMin
  <2>4. \A y \in Q : ~ (y < x)
    BY <1>2, <2>2, <2>3
  <2>5. QED
    BY <1>2, <2>3, <2>4
<1>4. PICK n \in P : m = l - n
  BY <1>3
<1>5. ASSUME NEW k \in P PROVE k <= n
  <2>1. l - k \in Q
    OBVIOUS
  <2>2. m <= l - k /\ k \in 1 .. l /\ n \in 1 .. l
    BY <1>3, <2>1
  <2>3. QED
    BY <1>4, <2>2
<1>6. QED
  BY <1>5

(* furi_event_loop_schedule_timer puts a timer where it belongs.            *)
LEMMA ScheduledMembers ==
    ASSUME NEW s \in Seq(Timers), Distinct(s), NEW t \in Timers, t \notin ToSet(s), NEW r \in Int,
           NEW rank \in [Timers -> Int], \A u \in ToSet(s) : rank[u] = Remaining(u), rank[t] = r,
           Ordered(s, rank)
    PROVE  /\ Scheduled(s, t, r) \in Seq(Timers) /\ Distinct(Scheduled(s, t, r))
           /\ \A u : u \in ToSet(Scheduled(s, t, r)) <=> u \in ToSet(s) \/ u = t
           /\ Ordered(Scheduled(s, t, r), rank)
<1> DEFINE earlier == {n \in 1 .. Len(s) : Remaining(s[n]) <= r}
           place == IF earlier = {} THEN 1 ELSE 1 + CHOOSE n \in earlier : \A m \in earlier : m <= n
<1>1. PICK l \in Nat : l = Len(s)
  OBVIOUS
<1>2. \A n \in 1 .. l : s[n] \in Timers /\ rank[s[n]] = Remaining(s[n]) /\ rank[s[n]] \in Int
  BY <1>1 DEF ToSet
<1>3. \A n \in 1 .. l : n \in earlier <=> rank[s[n]] <= r
  BY <1>1, <1>2
<1>4. earlier \in SUBSET (1 .. l)
  BY <1>1
<1>5. Scheduled(s, t, r) = InsertAt(s, place, t)
  BY DEF Scheduled
<1> HIDE DEF earlier
<1>6. /\ place \in 1 .. l + 1
      /\ place > 1 => rank[s[place - 1]] <= rank[t]
      /\ place <= l => rank[t] <= rank[s[place]]
  <2>1. CASE earlier = {}
    <3>1. place = 1
      BY <2>1
    <3>2. l >= 1 => ~ (rank[s[1]] <= r) /\ rank[s[1]] \in Int
      BY <1>2, <1>3, <2>1
    <3>3. QED
      BY <3>1, <3>2
  <2>2. CASE earlier # {}
    <3> DEFINE k == CHOOSE n \in earlier : \A m \in earlier : m <= n
    <3>1. k \in earlier /\ \A m \in earlier : m <= k
      BY <1>4, <2>2, LastOf
    <3>2. place = 1 + k
      BY <2>2
    <3> HIDE DEF k, place
    <3>3. k \in 1 .. l /\ rank[s[k]] <= r
      BY <1>3, <1>4, <3>1
    <3>4. k + 1 <= l => k + 1 \in 1 .. l /\ ~ (rank[s[k + 1]] <= r) /\ rank[s[k + 1]] \in Int
      BY <1>2, <1>3, <3>1, <3>3
    <3>5. place \in 1 .. l + 1 /\ place = k + 1 /\ place - 1 = k
      BY <3>2, <3>3
    <3>6. QED
      BY <3>3, <3>4, <3>5
  <2>3. QED
    BY <2>1, <2>2
<1> HIDE DEF place
<1>7. PICK k \in 1 .. l + 1 : k = place
  BY <1>6
<1>8. /\ InsertAt(s, k, t) \in Seq(Timers) /\ Distinct(InsertAt(s, k, t))
      /\ \A u : u \in ToSet(InsertAt(s, k, t)) <=> u \in ToSet(s) \/ u = t
  BY <1>1, InsertedMembers
<1>9. Ordered(InsertAt(s, k, t), rank)
  <2>1. /\ k > 1 => rank[s[k - 1]] <= rank[t]
        /\ k <= l => rank[t] <= rank[s[k]]
    BY <1>6, <1>7
  <2>2. QED
    BY <1>1, <2>1, InsertedOrdered
<1>10. QED
  BY <1>5, <1>7, <1>8, <1>9
-----------------------------------------------------------------------------
(* The inductive invariant.  Each active timer, and the tick, started as    *)
(* long ago as the time left to it says, and no active timer has interval   *)
(* zero; the list is in the order of the times left; a callback runs only   *)
(* in its turn.                                                             *)
Requests == {No, Stop, Free} \cup {Start(i) : i \in Intervals}
Values ==
    /\ now \in Times /\ pc \in {"wait", "serve", "callback"}
    /\ running \in Timers \cup {"tick", "other"} /\ (pc # "callback" => running = "other")
    /\ request \in [Timers -> Requests]
    /\ active \subseteq Timers /\ interval \in [Timers -> Intervals \cup {0}]
    /\ start \in [Timers -> Times] /\ freed \subseteq Timers /\ prev \in Times
    /\ due \in [Timers -> Int] /\ tickDue \in Int
Linked ==
    /\ list \in Seq(Timers) /\ Distinct(list)
    /\ \A u : u \in ToSet(list) <=> u \in active
    /\ \A u \in active : u \notin freed
Queued ==
    /\ queue \in Seq(Timers) /\ Distinct(queue)
    /\ \A u : u \in ToSet(queue) <=> u \in Timers /\ request[u] # No
    /\ \A u \in freed : request[u] = No

Exact(since, time, left) ==
    left \in -MaxLate .. time /\ Elapsed(since) = time - left
TimerExact(t) == interval[t] \in Intervals /\ Exact(start[t], interval[t], due[t])
Clocks == (\A t \in active : TimerExact(t)) /\ Exact(prev, TickInterval, tickDue)

NotNegative(x) == IF x > 0 THEN x ELSE 0
Rank == [u \in Timers |-> NotNegative(due[u])]
TimerInv == Values /\ Linked /\ Queued /\ Clocks /\ Ordered(list, Rank)

(* What is left is what the ideal clock says, late or not.                  *)
LEMMA LeftIsDue ==
    ASSUME NEW since, NEW time \in Nat, NEW left, Exact(since, time, left)
    PROVE  left \in Int /\ Left(since, time) = NotNegative(left)
BY EventLoopTimerAssumption DEF Exact, Left, NotNegative

(* The widths of the clock and of the intervals.                            *)
LEMMA Widths ==
    /\ Wrap \in Nat /\ MaxLate \in Nat /\ TickInterval \in Nat \ {0} /\ TickInterval + MaxLate < Wrap
    /\ \A i \in Intervals : i \in Nat \ {0} /\ i + MaxLate < Wrap
BY EventLoopTimerAssumption

(* Requests that do not start a timer carry no time.                        *)
LEMMA RequestKinds ==
    /\ No.kind = "None" /\ Stop.kind = "Stop" /\ Free.kind = "Free"
    /\ No.time = 0 /\ Stop.time = 0 /\ Free.time = 0
    /\ \A i : Start(i).kind = "Start" /\ Start(i).time = i
    /\ No # Stop /\ No # Free /\ Stop # Free
    /\ \A i : Start(i) \notin {No, Stop, Free}
<1>1. /\ No.kind = "None" /\ Stop.kind = "Stop" /\ Free.kind = "Free"
      /\ No.time = 0 /\ Stop.time = 0 /\ Free.time = 0
      /\ \A i : Start(i).kind = "Start" /\ Start(i).time = i
  BY DEF No, Stop, Free, Start
<1>2. QED
  BY <1>1

(* Ranks are what Remaining says of active timers.                          *)
LEMMA RankIsRemaining ==
    ASSUME Values, Clocks
    PROVE  /\ Rank \in [Timers -> Int]
           /\ \A u \in active : Remaining(u) = Rank[u] /\ Rank[u] = NotNegative(due[u])
<1>1. ASSUME NEW u \in active PROVE u \in Timers /\ Remaining(u) = NotNegative(due[u])
  <2>1. u \in Timers /\ interval[u] \in Nat /\ Exact(start[u], interval[u], due[u])
    BY Widths DEF Values, Clocks, TimerExact
  <2>2. Left(start[u], interval[u]) = NotNegative(due[u])
    BY <2>1, LeftIsDue
  <2>3. QED
    BY <2>1, <2>2 DEF Remaining
<1>2. \A u \in Timers : NotNegative(due[u]) \in Int
  BY DEF Values, NotNegative
<1>3. QED
  BY <1>1, <1>2 DEF Rank

(* The invariant holds what the runs check.                                 *)
LEMMA TimerInvHolds == TimerInv => FrontExpiresFirst /\ KeepsTime
<1> SUFFICES ASSUME TimerInv PROVE FrontExpiresFirst /\ KeepsTime
  OBVIOUS
<1>1. Values /\ Linked /\ Queued /\ Clocks /\ Ordered(list, Rank)
  BY DEF TimerInv
<1>2. ListsAgree
  <2>1. ToSet(list) = active /\ active \cap freed = {}
    BY <1>1 DEF Linked
  <2>2. ToSet(queue) = {t \in Timers : request[t] # No} /\ ToSet(queue) \cap freed = {}
    BY <1>1 DEF Queued
  <2>3. QED
    BY <2>1, <2>2 DEF ListsAgree
<1>3. IsInjective(list) /\ IsInjective(queue)
  BY <1>1, DistinctIsInjective DEF Linked, Queued
<1>4. request \in [Timers -> {No, Stop, Free} \cup {Start(i) : i \in Intervals \cup {0}}]
  <2>1. Requests \subseteq {No, Stop, Free} \cup {Start(i) : i \in Intervals \cup {0}}
    BY DEF Requests
  <2>2. QED
    BY <1>1, <2>1 DEF Values
<1>5. TypeOK
  BY <1>1, <1>2, <1>3, <1>4 DEF TypeOK, Values, Linked, Queued
<1>6. ASSUME NEW n \in 2 .. Len(list) PROVE Remaining(list[n - 1]) <= Remaining(list[n])
  <2>1. Rank[list[n - 1]] <= Rank[list[n]]
    BY <1>1 DEF Ordered
  <2>2. n - 1 \in 1 .. Len(list) /\ n \in 1 .. Len(list) /\ list \in Seq(Timers)
    BY <1>1 DEF Linked
  <2>3. list[n - 1] \in active /\ list[n] \in active
    BY <1>1, <2>2 DEF Linked, ToSet
  <2>4. QED
    BY <1>1, <2>1, <2>3, RankIsRemaining
<1>7. KeepsTime
  BY <1>1, RankIsRemaining DEF KeepsTime, NotNegative
<1>8. QED
  BY <1>5, <1>6, <1>7 DEF FrontExpiresFirst

(* It holds initially.                                                      *)
LEMMA TimerInitially == Init => TimerInv
<1> SUFFICES ASSUME Init PROVE TimerInv
  OBVIOUS
<1>1. Values
  BY Widths DEF Init, Values, Requests, Times
<1>2. Linked /\ Queued
  BY DEF Init, Linked, Queued, Distinct, ToSet
<1>3. Clocks
  <2>1. Elapsed(prev) = 0
    BY Widths, Around DEF Init, Elapsed
  <2>2. QED
    BY <2>1, Widths DEF Init, Clocks, Exact
<1>4. Ordered(list, Rank)
  BY DEF Init, Ordered
<1>5. QED
  BY <1>1, <1>2, <1>3, <1>4 DEF TimerInv

(* A list with one more timer at its end.                                   *)
LEMMA AppendedMembers ==
    ASSUME NEW s \in Seq(Timers), Distinct(s), NEW t \in Timers, t \notin ToSet(s)
    PROVE  /\ Append(s, t) \in Seq(Timers) /\ Distinct(Append(s, t))
           /\ \A u : u \in ToSet(Append(s, t)) <=> u \in ToSet(s) \/ u = t
<1> DEFINE q == Append(s, t)
<1>1. PICK l \in Nat : l = Len(s)
  OBVIOUS
<1>2. /\ q \in Seq(Timers) /\ Len(q) = l + 1 /\ DOMAIN q = 1 .. l + 1 /\ DOMAIN s = 1 .. l
      /\ \A n \in 1 .. l : q[n] = s[n]
  BY <1>1
<1>3. q[l + 1] = t
  BY <1>1
<1> HIDE DEF q
<1>4. \A n \in 1 .. l : s[n] # t
  BY <1>2 DEF ToSet
<1>5. \A m, n \in 1 .. l : s[m] = s[n] => m = n
  BY <1>1 DEF Distinct
<1>6. Distinct(q)
  BY <1>2, <1>3, <1>4, <1>5 DEF Distinct
<1>7. \A u : u \in ToSet(q) <=> u \in ToSet(s) \/ u = t
  BY <1>2, <1>3 DEF ToSet
<1>8. QED
  BY <1>2, <1>6, <1>7 DEF q
-----------------------------------------------------------------------------
(* Time goes by: each rank falls by one, but not below zero.                *)
LEMMA AdvanceKeeps == TimerInv /\ Advance => TimerInv'
<1> SUFFICES ASSUME TimerInv, Advance PROVE TimerInv'
  OBVIOUS
<1>1. Values /\ Linked /\ Queued /\ Clocks /\ Ordered(list, Rank)
  BY DEF TimerInv
<1>2. /\ tickDue > -MaxLate /\ \A t \in active : due[t] > -MaxLate
      /\ now' = (now + 1) % Wrap
      /\ due' = [t \in Timers |-> IF t \in active THEN due[t] - 1 ELSE 0]
      /\ tickDue' = tickDue - 1
      /\ UNCHANGED <<pc, running, list, queue, request, active, interval, start, freed, prev>>
  BY DEF Advance
<1>3. ASSUME NEW s \in Times, NEW i \in Nat, NEW l \in Int, Exact(s, i, l), l > -MaxLate, i + MaxLate < Wrap
      PROVE  now' \in Times /\ (now' - s) % Wrap = i - (l - 1) /\ l - 1 \in -MaxLate .. i
  <2>1. PICK e : e = (now - s) % Wrap
    OBVIOUS
  <2>2. e = i - l /\ l \in -MaxLate .. i /\ now \in Times
    BY <1>1, <1>3, <2>1 DEF Exact, Elapsed, Values
  <2>3. e + 1 < Wrap /\ Wrap \in Nat
    BY <1>3, <2>2, Widths
  <2>4. (now + 1) % Wrap \in 0 .. Wrap - 1 /\ (((now + 1) % Wrap) - s) % Wrap = e + 1
    BY <1>3, <2>1, <2>2, <2>3, OneLater DEF Times
  <2>5. QED
    BY <1>2, <1>3, <2>2, <2>4, Widths DEF Times
<1>4. prev \in Times /\ tickDue \in Int /\ Exact(prev, TickInterval, tickDue)
  BY <1>1 DEF Values, Clocks
<1>5. now' \in Times /\ (now' - prev) % Wrap = TickInterval - (tickDue - 1) /\ tickDue - 1 \in -MaxLate .. TickInterval
  BY <1>2, <1>3, <1>4, Widths
<1>6. Values'
  BY <1>1, <1>2, <1>5 DEF Values
<1>7. ASSUME NEW t \in active PROVE TimerExact(t)'
  <2>1. t \in Timers /\ interval[t] \in Intervals /\ Exact(start[t], interval[t], due[t])
        /\ start[t] \in Times /\ due[t] \in Int /\ interval[t] \in Nat /\ interval[t] + MaxLate < Wrap
    BY <1>1, Widths DEF Values, Clocks, TimerExact
  <2>2. (now' - start[t]) % Wrap = interval[t] - (due[t] - 1) /\ due[t] - 1 \in -MaxLate .. interval[t]
    BY <1>2, <1>3, <2>1
  <2>3. due'[t] = due[t] - 1
    BY <1>2, <2>1
  <2>4. QED
    BY <1>2, <2>1, <2>2, <2>3 DEF TimerExact, Exact, Elapsed
<1>8. Clocks'
  BY <1>2, <1>5, <1>7 DEF Clocks, Exact, Elapsed
<1>9. Linked' /\ Queued'
  BY <1>1, <1>2 DEF Linked, Queued
<1>10. Ordered(list', Rank')
  <2>1. ASSUME NEW u \in active
        PROVE  due[u] \in Int /\ Rank[u] = NotNegative(due[u]) /\ Rank'[u] = NotNegative(due[u] - 1)
    BY <1>1, <1>2 DEF Rank, Values
  <2>2. ASSUME NEW n \in 2 .. Len(list) PROVE Rank'[list[n - 1]] <= Rank'[list[n]]
    <3>1. Rank[list[n - 1]] <= Rank[list[n]]
      BY <1>1 DEF Ordered
    <3>2. n - 1 \in 1 .. Len(list) /\ n \in 1 .. Len(list) /\ list \in Seq(Timers)
      BY <1>1 DEF Linked
    <3>3. list[n - 1] \in active /\ list[n] \in active
      BY <1>1, <3>2 DEF Linked, ToSet
    <3>4. QED
      BY <2>1, <3>1, <3>3 DEF NotNegative
  <2>3. QED
    BY <1>2, <2>2 DEF Ordered
<1>11. QED
  BY <1>6, <1>8, <1>9, <1>10 DEF TimerInv

(* The invariant is about the variables that a step leaves alone, too.      *)
LEMMA ListUnchanged ==
    TimerInv /\ UNCHANGED <<now, active, interval, start, due, tick, list>> => (Clocks /\ Ordered(list, Rank))'
<1> SUFFICES ASSUME TimerInv, UNCHANGED <<now, active, interval, start, due, tick, list>>
             PROVE  Clocks' /\ Ordered(list', Rank')
  OBVIOUS
<1>1. Clocks /\ Ordered(list, Rank)
  BY DEF TimerInv
<1>2. Clocks'
  BY <1>1 DEF Clocks, TimerExact, Exact, Elapsed, tick
<1>3. Rank' = Rank
  BY DEF Rank
<1>4. QED
  BY <1>1, <1>2, <1>3

(* A request takes its place at the end of the queue.                       *)
LEMMA CommandKeeps ==
    ASSUME TimerInv, NEW t \in Timers, NEW r \in Requests \ {No}, Command(t, r)
    PROVE  TimerInv'
<1>1. Values /\ Linked /\ Queued
  BY DEF TimerInv
<1>2. /\ pc = "callback" /\ t \notin freed
      /\ request' = [request EXCEPT ![t] = r] /\ queue' = Append(Unlinked(queue, t), t)
      /\ UNCHANGED <<now, pc, running, list, active, interval, start, freed, due, prev, tickDue>>
  BY DEF Command, Enqueue, timer, tick
<1>3. Values'
  BY <1>1, <1>2 DEF Values
<1>4. Linked'
  BY <1>1, <1>2 DEF Linked
<1>5. Queued'
  <2>1. /\ Unlinked(queue, t) \in Seq(Timers) /\ Distinct(Unlinked(queue, t))
        /\ \A u : u \in ToSet(Unlinked(queue, t)) <=> u \in ToSet(queue) /\ u # t
    BY <1>1, UnlinkedMembers DEF Queued
  <2>2. t \notin ToSet(Unlinked(queue, t))
    BY <2>1
  <2>3. /\ queue' \in Seq(Timers) /\ Distinct(queue')
        /\ \A u : u \in ToSet(queue') <=> u \in ToSet(Unlinked(queue, t)) \/ u = t
    BY <1>2, <2>1, <2>2, AppendedMembers
  <2>4. \A u \in Timers : request'[u] = IF u = t THEN r ELSE request[u]
    BY <1>1, <1>2 DEF Values
  <2>5. \A u : u \in ToSet(queue') <=> u \in Timers /\ request'[u] # No
    BY <1>1, <2>1, <2>3, <2>4 DEF Queued
  <2>6. \A u \in freed' : request'[u] = No
    BY <1>1, <1>2, <2>4 DEF Queued, Values
  <2>7. QED
    BY <2>3, <2>5, <2>6 DEF Queued
<1>6. Clocks' /\ Ordered(list', Rank')
  BY <1>2, ListUnchanged DEF tick
<1>7. QED
  BY <1>3, <1>4, <1>5, <1>6 DEF TimerInv

(* What the application does in a callback.                                 *)
LEMMA UserKeeps ==
    ASSUME ~ Eager, TimerInv, User
    PROVE  TimerInv'
<1>1. Values /\ Linked /\ Queued
  BY DEF TimerInv
<1>2. PICK t \in Timers :
          \/ \E i \in Intervals : StartTimer(t, i)
          \/ RestartTimer(t) \/ StopTimer(t) \/ FreeTimer(t) \/ AllocTimer(t)
  BY DEF User
<1>3. ASSUME NEW i \in Intervals, Command(t, Start(i)) PROVE TimerInv'
  <2>1. Start(i) \in Requests \ {No}
    BY RequestKinds DEF Requests
  <2>2. QED
    BY <1>3, <2>1, CommandKeeps
<1>4. ASSUME NEW i \in Intervals, StartTimer(t, i) PROVE TimerInv'
  BY <1>3, <1>4 DEF StartTimer
<1>5. CASE RestartTimer(t)
  <2>1. interval[t] # 0 /\ Command(t, Start(interval[t]))
    BY <1>5 DEF RestartTimer
  <2>2. interval[t] \in Intervals
    BY <1>1, <2>1 DEF Values
  <2>3. QED
    BY <1>3, <2>1, <2>2
<1>6. CASE StopTimer(t) \/ FreeTimer(t)
  <2>1. Stop \in Requests \ {No} /\ Free \in Requests \ {No}
    BY RequestKinds DEF Requests
  <2>2. QED
    BY <1>6, <2>1, CommandKeeps DEF StopTimer, FreeTimer
<1>7. CASE AllocTimer(t)
  <2>1. /\ freed' = freed \ {t}
        /\ UNCHANGED <<now, pc, running, list, queue, request, active, interval, start, due, prev, tickDue>>
    BY <1>7 DEF AllocTimer, tick
  <2>2. Values' /\ Linked' /\ Queued'
    BY <1>1, <2>1 DEF Values, Linked, Queued
  <2>3. Clocks' /\ Ordered(list', Rank')
    BY <2>1, ListUnchanged DEF tick
  <2>4. QED
    BY <2>2, <2>3 DEF TimerInv
<1>8. QED
  BY <1>2, <1>4, <1>5, <1>6, <1>7

(* The loop goes from wait to serve or to a callback and back.              *)
LEMMA TurnKeeps ==
    ASSUME TimerInv, Return \/ WakeForCommands \/ WakeForOther \/ Served
    PROVE  TimerInv'
<1>1. Values /\ Linked /\ Queued
  BY DEF TimerInv
<1>2. UNCHANGED <<now, list, queue, request, active, interval, start, freed, due, prev, tickDue>>
  BY DEF Return, WakeForCommands, WakeForOther, Served, timer, tick
<1>3. Values'
  <2>1. /\ pc' \in {"wait", "serve", "callback"} /\ running' \in Timers \cup {"tick", "other"}
        /\ (pc' # "callback" => running' = "other")
    BY <1>1 DEF Return, WakeForCommands, WakeForOther, Served, Values
  <2>2. QED
    BY <1>1, <1>2, <2>1 DEF Values
<1>4. Linked' /\ Queued'
  BY <1>1, <1>2 DEF Linked, Queued
<1>5. Clocks' /\ Ordered(list', Rank')
  BY <1>2, ListUnchanged DEF tick
<1>6. QED
  BY <1>3, <1>4, <1>5 DEF TimerInv

(* What the clocks say of the timers but t, which a step moves.             *)
LEMMA OthersExact ==
    ASSUME TimerInv, NEW t \in Timers, now' = now, UNCHANGED tick,
           \A u \in Timers \ {t} : interval'[u] = interval[u] /\ start'[u] = start[u] /\ due'[u] = due[u],
           \A u \in active' : u = t \/ u \in active,
           t \in active' => TimerExact(t)'
    PROVE  Clocks'
<1>1. Clocks /\ active \subseteq Timers
  BY DEF TimerInv, Values
<1>2. ASSUME NEW u \in active', u # t PROVE TimerExact(u)'
  <2>1. u \in active /\ u \in Timers \ {t} /\ TimerExact(u)
    BY <1>1, <1>2 DEF Clocks
  <2>2. QED
    BY <2>1 DEF TimerExact, Exact, Elapsed
<1>3. Exact(prev', TickInterval, tickDue')
  BY <1>1 DEF Clocks, Exact, Elapsed, tick
<1>4. QED
  BY <1>2, <1>3 DEF Clocks, Exact, Elapsed

(* The list but t is in order, whatever the rank of t.                      *)
LEMMA OthersOrdered ==
    ASSUME TimerInv, NEW t \in Timers, NEW s \in Seq(Timers), Ordered(s, Rank),
           \A u \in ToSet(s) : u \in active /\ u # t,
           NEW rank, \A u \in Timers \ {t} : rank[u] = Rank[u]
    PROVE  Ordered(s, rank) /\ \A u \in ToSet(s) : rank[u] = Remaining(u)
<1>1. \A u \in active : Remaining(u) = Rank[u] /\ u \in Timers
  BY RankIsRemaining DEF TimerInv, Values
<1>2. \A u \in ToSet(s) : u \in Timers \ {t} /\ rank[u] = Remaining(u)
  BY <1>1
<1>3. \A n \in 1 .. Len(s) : s[n] \in ToSet(s)
  BY DEF ToSet
<1>4. \A n \in 1 .. Len(s) : rank[s[n]] = Rank[s[n]]
  BY <1>2, <1>3
<1>5. ASSUME NEW n \in 2 .. Len(s) PROVE rank[s[n - 1]] <= rank[s[n]]
  <2>1. n - 1 \in 1 .. Len(s) /\ n \in 1 .. Len(s)
    OBVIOUS
  <2>2. QED
    BY <1>4, <2>1 DEF Ordered
<1>6. QED
  BY <1>2, <1>5 DEF Ordered

(* The loop serves the request of the first timer in the queue.             *)
LEMMA ServeKeeps ==
    ASSUME TimerInv, Serve
    PROVE  TimerInv'
<1>. PICK t, time : t = Head(queue) /\ time = request[t].time
  OBVIOUS
<1> DEFINE begins == request[t].kind = "Start"
           others == IF t \in active THEN Unlinked(list, t) ELSE list
<1>1. Values /\ Linked /\ Queued /\ Clocks /\ Ordered(list, Rank)
  BY DEF TimerInv
<1>2. /\ pc = "serve" /\ queue # <<>>
      /\ list' = IF begins THEN Scheduled(others, t, time) ELSE others
      /\ active' = IF begins THEN active \cup {t} ELSE active \ {t}
      /\ interval' = IF request[t] = Stop THEN interval ELSE [interval EXCEPT ![t] = time]
      /\ start' = CASE begins -> [start EXCEPT ![t] = now]
                     [] request[t] = Free -> [start EXCEPT ![t] = 0]
                     [] request[t] = Stop -> start
      /\ freed' = IF request[t] = Free THEN freed \cup {t} ELSE freed
      /\ due' = [due EXCEPT ![t] = time]
      /\ request' = [request EXCEPT ![t] = No]
      /\ queue' = Tail(queue)
      /\ UNCHANGED <<now, pc, running, prev, tickDue>>
  BY DEF Serve, tick
<1> HIDE DEF others
<1>3. /\ t \in Timers /\ t \in ToSet(queue)
      /\ Tail(queue) \in Seq(Timers) /\ Distinct(Tail(queue))
      /\ \A u : u \in ToSet(Tail(queue)) <=> u \in ToSet(queue) /\ u # t
  BY <1>1, <1>2, FirstMembers DEF Queued
<1>4. request[t] # No /\ t \notin freed /\ request[t] \in Requests
  BY <1>1, <1>3 DEF Queued, Values
<1>5. \/ begins /\ time \in Intervals /\ request[t] \notin {Stop, Free}
      \/ ~ begins /\ time = 0 /\ request[t] = Stop /\ request[t] # Free
      \/ ~ begins /\ time = 0 /\ request[t] = Free /\ request[t] # Stop
  BY <1>4, RequestKinds DEF Requests
<1> HIDE DEF begins
<1>6. /\ time \in Nat /\ (begins => time \in Intervals) /\ (~ begins => time = 0)
      /\ now \in Times /\ 0 \in Times
  BY <1>1, <1>5, Widths DEF Values, Times
<1>7. /\ others \in Seq(Timers) /\ Distinct(others) /\ Ordered(others, Rank)
      /\ \A u : u \in ToSet(others) <=> u \in active /\ u # t
  <2>1. CASE t \in active
    BY <1>1, <1>3, <2>1, UnlinkedMembers, RankIsRemaining DEF Linked, others
  <2>2. CASE t \notin active
    BY <1>1, <2>2 DEF Linked, others
  <2>3. QED
    BY <2>1, <2>2
<1>8. start' = IF begins THEN [start EXCEPT ![t] = now]
               ELSE IF request[t] = Free THEN [start EXCEPT ![t] = 0] ELSE start
  BY <1>2, <1>5
<1>9. /\ start' \in [Timers -> Times] /\ interval' \in [Timers -> Intervals \cup {0}]
      /\ due' \in [Timers -> Int] /\ request' \in [Timers -> Requests]
  <2>1. No \in Requests
    BY DEF Requests
  <2>2. time \in Intervals \cup {0} /\ time \in Int
    BY <1>6
  <2>3. start' \in [Timers -> Times]
    BY <1>1, <1>6, <1>8 DEF Values
  <2>4. QED
    BY <1>1, <1>2, <2>1, <2>2, <2>3 DEF Values
<1>10. /\ \A u \in Timers \ {t} : /\ interval'[u] = interval[u] /\ start'[u] = start[u]
                                  /\ due'[u] = due[u] /\ request'[u] = request[u]
       /\ due'[t] = time /\ request'[t] = No
       /\ begins => interval'[t] = time /\ start'[t] = now
  BY <1>1, <1>2, <1>3, <1>5, <1>8 DEF Values
<1>11. Values'
  <2>1. active' \subseteq Timers /\ freed' \subseteq Timers
    BY <1>1, <1>2, <1>3 DEF Values
  <2>2. QED
    BY <1>1, <1>2, <1>9, <2>1 DEF Values
<1>12. Clocks'
  <2>1. ASSUME t \in active' PROVE TimerExact(t)'
    <3>1. begins
      BY <1>2, <2>1
    <3>2. (now - now) % Wrap = 0
      BY <1>6, Widths, Around DEF Times
    <3>3. interval'[t] = time /\ start'[t] = now /\ due'[t] = time /\ now' = now
      BY <1>2, <1>10, <3>1
    <3>4. (now' - start'[t]) % Wrap = 0
      BY <3>2, <3>3
    <3>5. time \in Intervals /\ time \in -MaxLate .. time /\ time - time = 0
      BY <1>6, <3>1, Widths
    <3>6. QED
      BY <3>3, <3>4, <3>5 DEF TimerExact, Exact, Elapsed
  <2>2. UNCHANGED tick /\ now' = now
    BY <1>2 DEF tick
  <2>3. \A u \in active' : u = t \/ u \in active
    BY <1>2
  <2>4. QED
    BY <1>3, <1>10, <2>1, <2>2, <2>3, OthersExact
<1>13. /\ list' \in Seq(Timers) /\ Distinct(list') /\ Ordered(list', Rank')
       /\ \A u : u \in ToSet(list') <=> u \in active'
  <2>1. PICK rank : rank = Rank'
    OBVIOUS
  <2>2. /\ rank \in [Timers -> Int] /\ rank[t] = time
        /\ \A u \in Timers \ {t} : rank[u] = Rank[u]
    BY <1>3, <1>6, <1>9, <1>10, <2>1 DEF Rank, NotNegative
  <2>3. Ordered(others, rank) /\ \A u \in ToSet(others) : rank[u] = Remaining(u)
    BY <1>3, <1>7, <2>2, OthersOrdered
  <2>4. CASE begins
    <3>1. list' = Scheduled(others, t, time) /\ active' = active \cup {t}
      BY <1>2, <2>4
    <3>2. /\ Scheduled(others, t, time) \in Seq(Timers) /\ Distinct(Scheduled(others, t, time))
          /\ \A u : u \in ToSet(Scheduled(others, t, time)) <=> u \in ToSet(others) \/ u = t
          /\ Ordered(Scheduled(others, t, time), rank)
      <4>1. t \notin ToSet(others) /\ time \in Int
        BY <1>6, <1>7
      <4>2. QED
        BY <1>3, <1>7, <2>2, <2>3, <4>1, ScheduledMembers
    <3>3. QED
      BY <1>7, <2>1, <3>1, <3>2
  <2>5. CASE ~ begins
    BY <1>2, <1>7, <2>1, <2>3, <2>5
  <2>6. QED
    BY <2>4, <2>5
<1>14. Linked'
  <2>1. \A u \in active' : u \notin freed'
    BY <1>1, <1>2, <1>4, <1>5 DEF Linked
  <2>2. QED
    BY <1>13, <2>1 DEF Linked
<1>15. Queued'
  <2>1. \A u : u \in ToSet(queue') <=> u \in Timers /\ request'[u] # No
    BY <1>1, <1>2, <1>3, <1>10 DEF Queued
  <2>2. \A u \in freed' : request'[u] = No
    BY <1>1, <1>2, <1>10 DEF Queued, Values
  <2>3. QED
    BY <1>2, <1>3, <2>1, <2>2 DEF Queued
<1>16. QED
  BY <1>11, <1>12, <1>13, <1>14, <1>15 DEF TimerInv

(* The front timer expires: a periodic one goes on, a one-shot one is done. *)
LEMMA ExpireKeeps ==
    ASSUME TimerInv, ExpireTimer
    PROVE  TimerInv'
<1>. PICK t, i, e, rest : t = Head(list) /\ i = interval[t] /\ e = Elapsed(start[t]) /\ rest = Tail(list)
  OBVIOUS
<1>1. Values /\ Linked /\ Queued /\ Clocks /\ Ordered(list, Rank)
  BY DEF TimerInv
<1>2. /\ pc = "wait" /\ queue = <<>> /\ list # <<>> /\ Remaining(t) = 0
      /\ running' = t /\ pc' = "callback"
      /\ IF t \in Periodic
         THEN /\ start' = [start EXCEPT ![t] = CaughtUp(t)]
              /\ list' = Scheduled(rest, t, Left(CaughtUp(t), interval[t]))
              /\ due' = [due EXCEPT ![t] =
                            CHOOSE d \in 1 .. interval[t] : (d - due[t]) % interval[t] = 0]
              /\ UNCHANGED active
         ELSE /\ active' = active \ {t} /\ list' = rest
              /\ due' = [due EXCEPT ![t] = 0]
              /\ UNCHANGED start
      /\ UNCHANGED <<now, queue, request, interval, freed, prev, tickDue>>
  BY DEF ExpireTimer, Quiet, Expired, tick
<1>3. /\ t \in Timers /\ t \in active
      /\ rest \in Seq(Timers) /\ Distinct(rest) /\ Ordered(rest, Rank)
      /\ \A u : u \in ToSet(rest) <=> u \in active /\ u # t
  <2>1. Rank \in [Timers -> Int]
    BY <1>1, RankIsRemaining
  <2>2. /\ t \in Timers /\ t \in ToSet(list)
        /\ rest \in Seq(Timers) /\ Distinct(rest) /\ Ordered(rest, Rank)
        /\ \A u : u \in ToSet(rest) <=> u \in ToSet(list) /\ u # t
    BY <1>1, <1>2, <2>1, FirstMembers DEF Linked
  <2>3. QED
    BY <1>1, <2>2 DEF Linked
<1>4. PICK l : l = due[t]
  OBVIOUS
<1>5. /\ i \in Intervals /\ i \in Nat /\ i > 0 /\ i + MaxLate < Wrap
      /\ l \in -MaxLate .. i /\ e = i - l /\ l <= 0 /\ l \in Int
      /\ start[t] \in Times /\ now \in Times
  <2>1. i \in Intervals /\ Exact(start[t], i, l) /\ start[t] \in Times /\ now \in Times
    BY <1>1, <1>3, <1>4 DEF Clocks, TimerExact, Values
  <2>2. NotNegative(l) = 0
    BY <1>1, <1>2, <1>3, <1>4, RankIsRemaining
  <2>3. QED
    BY <2>1, <2>2, Widths DEF Exact, NotNegative
<1>6. t \in Periodic => Linked' /\ Queued' /\ Values' /\ Clocks' /\ Ordered(list', Rank')
  <2> SUFFICES ASSUME t \in Periodic
               PROVE  Linked' /\ Queued' /\ Values' /\ Clocks' /\ Ordered(list', Rank')
    OBVIOUS
  <2>1. PICK m : m = i * (e \div i)
    OBVIOUS
  <2>2. PICK d : d = CHOOSE k \in 1 .. i : (k - l) % i = 0
    OBVIOUS
  <2>3. /\ m \in 0 .. e /\ d \in 1 .. i /\ e - m = i - d
    <3>1. /\ i * (e \div i) \in 0 .. e
          /\ \E k \in 1 .. i : (k - l) % i = 0
          /\ \A k \in 1 .. i : (k - l) % i = 0 => e - i * (e \div i) = i - k
      <4>1. e \in Nat
        BY <1>5
      <4>2. QED
        BY <1>5, <4>1, NextTime
    <3>2. d \in 1 .. i /\ (d - l) % i = 0
      BY <2>2, <3>1
    <3>3. QED
      BY <2>1, <3>1, <3>2
  <2>4. PICK s : s = CaughtUp(t)
    OBVIOUS
  <2>5. s \in Times /\ (now - s) % Wrap = i - d
    <3>1. s = (start[t] + m) % Wrap /\ e = (now - start[t]) % Wrap
      BY <2>1, <2>4 DEF CaughtUp, Elapsed
    <3>2. start[t] \in 0 .. Wrap - 1 /\ now \in 0 .. Wrap - 1 /\ Wrap \in Nat
      BY <1>5, Widths DEF Times
    <3>3. PICK b, n : b = start[t] /\ n = now
      OBVIOUS
    <3>4. /\ Wrap \in Nat /\ n \in 0 .. Wrap - 1 /\ b \in 0 .. Wrap - 1
          /\ e = Since(b, n, Wrap) /\ m \in 0 .. e /\ s = Moved(b, m, Wrap)
      BY <2>3, <3>1, <3>2, <3>3 DEF Since, Moved
    <3>5. s \in 0 .. Wrap - 1 /\ Since(s, n, Wrap) = e - m
      BY <3>4, MovedOn
    <3>6. QED
      BY <2>3, <3>3, <3>5 DEF Times, Since
  <2>6. Exact(s, i, d) /\ Left(s, i) = d /\ d \in Nat /\ d > 0
    <3>1. Exact(s, i, d) /\ d \in Nat /\ d > 0
      BY <1>5, <2>3, <2>5, Widths DEF Exact, Elapsed
    <3>2. QED
      BY <1>5, <3>1, LeftIsDue DEF NotNegative
  <2>7. /\ start' = [start EXCEPT ![t] = s] /\ list' = Scheduled(rest, t, d)
        /\ due' = [due EXCEPT ![t] = d] /\ active' = active
    BY <1>2, <1>4, <2>2, <2>4, <2>6
  <2>8. Values'
    BY <1>1, <1>2, <1>3, <2>5, <2>6, <2>7 DEF Values
  <2>9. Clocks'
    <3>1. start'[t] = s /\ due'[t] = d /\ interval'[t] = i /\ now' = now
      BY <1>1, <1>2, <1>3, <2>7 DEF Values
    <3>2. TimerExact(t)'
      BY <1>5, <2>6, <3>1 DEF TimerExact, Exact, Elapsed
    <3>3. \A u \in Timers \ {t} : interval'[u] = interval[u] /\ start'[u] = start[u] /\ due'[u] = due[u]
      BY <1>1, <1>2, <2>7 DEF Values
    <3>4. UNCHANGED tick /\ \A u \in active' : u = t \/ u \in active
      BY <1>2, <2>7 DEF tick
    <3>5. QED
      BY <1>3, <3>1, <3>2, <3>3, <3>4, OthersExact
  <2>10. /\ list' \in Seq(Timers) /\ Distinct(list') /\ Ordered(list', Rank')
         /\ \A u : u \in ToSet(list') <=> u \in active'
    <3>1. PICK rank : rank = Rank'
      OBVIOUS
    <3>2. /\ rank \in [Timers -> Int] /\ rank[t] = d
          /\ \A u \in Timers \ {t} : rank[u] = Rank[u]
      BY <1>1, <1>3, <2>6, <2>7, <3>1 DEF Rank, NotNegative, Values
    <3>3. Ordered(rest, rank) /\ \A u \in ToSet(rest) : rank[u] = Remaining(u)
      BY <1>3, <3>2, OthersOrdered
    <3>4. /\ Scheduled(rest, t, d) \in Seq(Timers) /\ Distinct(Scheduled(rest, t, d))
          /\ \A u : u \in ToSet(Scheduled(rest, t, d)) <=> u \in ToSet(rest) \/ u = t
          /\ Ordered(Scheduled(rest, t, d), rank)
      <4>1. t \notin ToSet(rest) /\ d \in Int
        BY <1>3, <2>6
      <4>2. QED
        BY <1>3, <3>2, <3>3, <4>1, ScheduledMembers
    <3>5. QED
      BY <1>3, <2>7, <3>1, <3>4
  <2>11. Linked'
    BY <1>1, <1>2, <2>7, <2>10 DEF Linked
  <2>12. Queued'
    BY <1>1, <1>2 DEF Queued
  <2>13. QED
    BY <2>8, <2>9, <2>10, <2>11, <2>12
<1>7. t \notin Periodic => Linked' /\ Queued' /\ Values' /\ Clocks' /\ Ordered(list', Rank')
  <2> SUFFICES ASSUME t \notin Periodic
               PROVE  Linked' /\ Queued' /\ Values' /\ Clocks' /\ Ordered(list', Rank')
    OBVIOUS
  <2>1. /\ active' = active \ {t} /\ list' = rest /\ due' = [due EXCEPT ![t] = 0] /\ start' = start
    BY <1>2
  <2>2. Values'
    BY <1>1, <1>2, <1>3, <2>1 DEF Values
  <2>3. Clocks'
    <3>1. \A u \in Timers \ {t} : interval'[u] = interval[u] /\ start'[u] = start[u] /\ due'[u] = due[u]
      BY <1>1, <1>2, <2>1 DEF Values
    <3>2. UNCHANGED tick /\ now' = now /\ t \notin active' /\ \A u \in active' : u = t \/ u \in active
      BY <1>2, <2>1 DEF tick
    <3>3. QED
      BY <1>3, <3>1, <3>2, OthersExact
  <2>4. /\ list' \in Seq(Timers) /\ Distinct(list') /\ Ordered(list', Rank')
        /\ \A u : u \in ToSet(list') <=> u \in active'
    <3>1. PICK rank : rank = Rank'
      OBVIOUS
    <3>2. /\ rank \in [Timers -> Int] /\ rank[t] = 0
          /\ \A u \in Timers \ {t} : rank[u] = Rank[u]
      BY <1>1, <1>3, <2>1, <3>1 DEF Rank, NotNegative, Values
    <3>3. Ordered(rest, rank)
      BY <1>3, <3>2, OthersOrdered
    <3>4. QED
      BY <1>3, <2>1, <3>1, <3>3
  <2>5. Linked'
    BY <1>1, <1>2, <2>1, <2>4 DEF Linked
  <2>6. Queued'
    BY <1>1, <1>2 DEF Queued
  <2>7. QED
    BY <2>2, <2>3, <2>4, <2>5, <2>6
<1>8. QED
  BY <1>6, <1>7 DEF TimerInv

(* The tick is moved on by its interval.                                    *)
LEMMA TickKeeps ==
    ASSUME TimerInv, Tick
    PROVE  TimerInv'
<1>1. Values /\ Linked /\ Queued /\ Clocks /\ Ordered(list, Rank)
  BY DEF TimerInv
<1>2. /\ Left(prev, TickInterval) = 0
      /\ prev' = (prev + TickInterval) % Wrap /\ tickDue' = tickDue + TickInterval
      /\ running' = "tick" /\ pc' = "callback"
      /\ UNCHANGED <<now, list, queue, request, active, interval, start, freed, due>>
  BY DEF Tick, timer
<1>3. PICK e : e = (now - prev) % Wrap
  OBVIOUS
<1>4. /\ e = TickInterval - tickDue /\ tickDue \in -MaxLate .. TickInterval /\ tickDue <= 0
      /\ prev \in 0 .. Wrap - 1 /\ now \in 0 .. Wrap - 1
  <2>1. Exact(prev, TickInterval, tickDue) /\ prev \in Times /\ now \in Times
    BY <1>1 DEF Clocks, Values
  <2>2. NotNegative(tickDue) = 0
    BY <1>2, <2>1, LeftIsDue, Widths
  <2>3. QED
    BY <1>3, <2>1, <2>2 DEF Exact, Elapsed, NotNegative, Times
<1>5. prev' \in 0 .. Wrap - 1 /\ (now - prev') % Wrap = e - TickInterval
  <2>1. PICK s : s = prev'
    OBVIOUS
  <2>2. TickInterval \in 0 .. e /\ Wrap \in Nat /\ s = (prev + TickInterval) % Wrap
    BY <1>2, <1>4, <2>1, Widths
  <2>3. PICK b, n : b = prev /\ n = now
    OBVIOUS
  <2>4. /\ n \in 0 .. Wrap - 1 /\ b \in 0 .. Wrap - 1
        /\ e = Since(b, n, Wrap) /\ s = Moved(b, TickInterval, Wrap)
    BY <1>3, <1>4, <2>2, <2>3 DEF Since, Moved
  <2>5. s \in 0 .. Wrap - 1 /\ Since(s, n, Wrap) = e - TickInterval
    BY <2>2, <2>4, MovedOn
  <2>6. QED
    BY <2>1, <2>3, <2>5 DEF Since
<1>6. Exact(prev', TickInterval, tickDue') /\ tickDue' \in Int
  BY <1>2, <1>4, <1>5, Widths DEF Exact, Elapsed
<1>7. Values'
  BY <1>1, <1>2, <1>5, <1>6 DEF Values, Times
<1>8. Clocks'
  BY <1>1, <1>2, <1>6 DEF Clocks, TimerExact, Exact, Elapsed
<1>9. Linked' /\ Queued'
  BY <1>1, <1>2 DEF Linked, Queued
<1>10. Ordered(list', Rank')
  BY <1>1, <1>2 DEF Rank
<1>11. QED
  BY <1>7, <1>8, <1>9, <1>10 DEF TimerInv

(* Every step keeps the invariant.                                          *)
LEMMA TimerStepKeeps ==
    ASSUME ~ Eager, TimerInv, [Next]_vars
    PROVE  TimerInv'
<1>1. CASE Advance
  BY <1>1, AdvanceKeeps
<1>2. CASE User
  BY <1>2, UserKeeps
<1>3. CASE Serve
  BY <1>3, ServeKeeps
<1>4. CASE Return \/ WakeForCommands \/ WakeForOther \/ Served
  BY <1>4, TurnKeeps
<1>5. CASE ExpireTimer
  BY <1>5, ExpireKeeps
<1>6. CASE Tick
  BY <1>6, TickKeeps
<1>7. CASE UNCHANGED vars
  <2>1. UNCHANGED <<now, pc, running, list, queue, request, active, interval, start, freed, due, prev, tickDue>>
    BY <1>7 DEF vars, timer, tick
  <2>2. Values /\ Linked /\ Queued
    BY DEF TimerInv
  <2>3. Values' /\ Linked' /\ Queued'
    BY <2>1, <2>2 DEF Values, Linked, Queued
  <2>4. Clocks' /\ Ordered(list', Rank')
    BY <2>1, ListUnchanged DEF tick
  <2>5. QED
    BY <2>3, <2>4 DEF TimerInv
<1>8. QED
  BY <1>1, <1>2, <1>3, <1>4, <1>5, <1>6, <1>7 DEF Next, Loop, Timeout
-----------------------------------------------------------------------------
(* The theorems hold of applications that restart a timer only when the     *)
(* loop has served its start: before that its interval is zero, and a       *)
(* periodic timer of interval zero divides by zero when it expires.         *)

(* The lists, the requests and the clocks of a loop always agree.           *)
THEOREM TimerInvariant == ASSUME ~ Eager PROVE Spec => []TimerInv
<1>1. Init => TimerInv
  BY TimerInitially
<1>2. TimerInv /\ [Next]_vars => TimerInv'
  BY TimerStepKeeps
<1>3. QED
  BY <1>1, <1>2, PTL DEF Spec

(* The front of the timer list is the first to expire: the loop, which      *)
(* looks at the front only, sleeps no longer than any timer allows.         *)
THEOREM FrontIsFirst == ASSUME ~ Eager PROVE Spec => []FrontExpiresFirst
<1>1. TimerInv => FrontExpiresFirst
  BY TimerInvHolds
<1>2. QED
  BY <1>1, TimerInvariant, PTL

(* A timer expires on the tick of the clock it was started for, a periodic  *)
(* one on every multiple of its interval, across any wrap of the clock.     *)
THEOREM TimersKeepTime == ASSUME ~ Eager PROVE Spec => []KeepsTime
<1>1. TimerInv => KeepsTime
  BY TimerInvHolds
<1>2. QED
  BY <1>1, TimerInvariant, PTL

(* No callback runs once its timer was asked to stop or was freed.          *)
THEOREM NoUnwantedCallback == ASSUME ~ Eager PROVE Spec => FiresOnlyWanted
<1>1. ASSUME TimerInv, [Next]_vars
      PROVE  \A t \in Timers : pc = "wait" /\ running' = t => Wanted(t)
  <2> SUFFICES ASSUME NEW t \in Timers, pc = "wait", running' = t PROVE Wanted(t)
    OBVIOUS
  <2>1. Values /\ Linked /\ Queued
    BY <1>1 DEF TimerInv
  <2>2. t # "tick" /\ t # "other"
    BY EventLoopTimerAssumption
  <2>3. running = "other"
    BY <2>1 DEF Values
  <2>4. running' # running
    BY <2>2, <2>3
  <2>5. Timeout
    <3>1. ~ Advance /\ ~ UNCHANGED vars
      BY <2>4 DEF Advance, vars
    <3>2. ~ User
      BY <2>4 DEF User, StartTimer, RestartTimer, StopTimer, FreeTimer, Command, AllocTimer
    <3>3. ~ Loop
      BY <2>4 DEF Loop, Return, WakeForCommands, WakeForOther, Serve, Served
    <3>4. QED
      BY <1>1, <3>1, <3>2, <3>3 DEF Next
  <2>6. ~ Tick
    BY <2>2 DEF Tick
  <2>7. queue = <<>> /\ list # <<>> /\ t = Head(list)
    BY <2>5, <2>6 DEF Timeout, ExpireTimer, Quiet, Expired
  <2>8. t \in active
    BY <2>1, <2>7, FirstMembers DEF Linked
  <2>9. request[t] = No
    BY <2>1, <2>7 DEF Queued, ToSet
  <2>10. QED
    BY <2>8, <2>9, RequestKinds DEF Wanted
<1>2. QED
  BY <1>1, TimerInvariant, PTL DEF Spec, FiresOnlyWanted
=============================================================================
