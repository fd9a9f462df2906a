--------------------------- MODULE MCLists_proofs ---------------------------
(***************************************************************************)
(* Theorems about the numbers and the doubly linked lists of MCLists: for  *)
(* numbers of any size and whatever malloc left, that the lists of digits  *)
(* of LinkedList/list.c are the numbers they stand for; for any nodes and  *)
(* lists, that the lists of dlink.c are what the calls made of them, up to *)
(* the first misuse.  The first two parts are what these and the proofs    *)
(* about the questions need: induction, and what a number is that is read  *)
(* from a list.                                                            *)
(***************************************************************************)
EXTENDS MCLists, SequenceTheorems, NaturalsInduction, WellFoundedInduction, TLAPS

-----------------------------------------------------------------------------
(* Induction, from the least element of a set of numbers: NatInduction and the like
   take an operator, and these take a set. *)

(* Every set of natural numbers has a least one. *)
LEMMA LeastNumber ==
  ASSUME NEW T \in SUBSET Nat, T # {}
  PROVE  \E c \in T : \A m \in T : c <= m
<1> DEFINE R == {ss \in Nat \X Nat : ss[1] < ss[2]}
<1>1. IsWellFoundedOn(R, Nat)
  BY NatLessThanWellFounded DEF OpToRel
<1>2. \A x, y \in Nat : <<y, x>> \in R <=> y < x
  OBVIOUS
<1> HIDE DEF R
<1>3. \E x \in T : \A y \in T : ~ (<<y, x>> \in R)
  BY <1>1, WFMin, Zenon
<1>4. PICK x \in T : \A y \in T : ~ (<<y, x>> \in R)
  BY <1>3
<1>5. \A y \in T : ~ (y < x)
  BY <1>2, <1>4
<1>6. \A y \in T : x <= y
  BY <1>5
<1> QED BY <1>4, <1>6

(* A set of numbers that has every number whose predecessors it has. *)
LEMMA Induction ==
  ASSUME NEW T \in SUBSET Nat,
         \A c \in Nat : (\A m \in Nat : m < c => m \in T) => c \in T
  PROVE  T = Nat
<1> DEFINE U == Nat \ T
<1>1. SUFFICES ASSUME U # {} PROVE FALSE
  OBVIOUS
<1>2. PICK c \in U : \A m \in U : c <= m
  BY <1>1, LeastNumber
<1> QED BY <1>2

(* A function that is defined by recursion: at the ends it is base, elsewhere a step
   from its value at pred, which is of a smaller rank. *)
Descends(X, ends, pred, rank) ==
  /\ ends \in SUBSET X /\ pred \in [X -> X] /\ rank \in [X -> Nat]
  /\ \A x \in X \ ends : rank[pred[x]] < rank[x]
Recursive(f, X, ends, pred, base, step) ==
  \A x \in X : f[x] = IF x \in ends THEN base ELSE step[<<x, f[pred[x]]>>]

(* There is such a function. *)
LEMMA Recursion ==
  ASSUME NEW X, NEW S, NEW base \in S, NEW step \in [X \X S -> S],
         NEW Z, NEW rank, NEW pred, Descends(X, Z, pred, rank)
  PROVE  \E f \in [X -> S] : Recursive(f, X, Z, pred, base, step)
<1> USE DEF Descends
<1> DEFINE Eq(g, x) == IF x \in Z THEN base ELSE step[<<x, g[pred[x]]>>]
           Part(c) == {g \in [X -> S] : \A x \in X : rank[x] < c => g[x] = Eq(g, x)}
           T == {c \in Nat : Part(c) # {}}
<1>1. ASSUME NEW g \in [X -> S], NEW x \in X
      PROVE  Eq(g, x) \in S
  OBVIOUS
<1>2. T = Nat
  <2>1. ASSUME NEW c \in Nat, \A m \in Nat : m < c => m \in T
        PROVE  c \in T
    <3>1. CASE c = 0
      <4>1. [x \in X |-> base] \in Part(0)
        OBVIOUS
      <4> QED BY <4>1, <3>1
    <3>2. CASE c # 0
      <4>1. c - 1 \in Nat /\ c - 1 < c
        BY <3>2
      <4>2. PICK g \in Part(c - 1) : TRUE
        BY <2>1, <4>1
      <4> DEFINE h == [x \in X |-> IF rank[x] = c - 1 THEN Eq(g, x) ELSE g[x]]
      <4>3. h \in [X -> S]
        BY <1>1
      <4>4. ASSUME NEW x \in X, rank[x] < c PROVE h[x] = Eq(h, x)
        <5>1. h[x] = Eq(g, x)
          BY <4>1, <4>2, <4>4
        <5>2. x \notin Z => pred[x] \in X /\ rank[pred[x]] \in Nat /\ rank[pred[x]] < c - 1
          BY <4>1, <4>4
        <5>3. x \notin Z => h[pred[x]] = g[pred[x]]
          BY <5>2
        <5> QED BY <5>1, <5>3
      <4> HIDE DEF h
      <4> QED BY <4>3, <4>4
    <3> QED BY <3>1, <3>2
  <2> HIDE DEF T
  <2>2. T \in SUBSET Nat
    BY DEF T
  <2> QED BY <2>1, <2>2, Induction
<1> DEFINE h == [c \in Nat |-> CHOOSE g \in Part(c) : TRUE]
           f == [x \in X |-> h[rank[x] + 1][x]]
<1>3. ASSUME NEW c \in Nat
      PROVE  h[c] \in [X -> S] /\ \A x \in X : rank[x] < c => h[c][x] = Eq(h[c], x)
  <2>1. Part(c) # {}
    BY <1>2
  <2>2. h[c] \in Part(c)
    <3> HIDE DEF Part
    <3> QED BY <2>1
  <2> HIDE DEF h
  <2> QED BY <2>2
<1>4. ASSUME NEW x \in X, NEW c \in Nat, rank[x] < c PROVE h[c][x] = f[x]
  <2> DEFINE W == {k \in Nat : \A y \in X, m \in Nat : rank[y] = k /\ k < m => h[m][y] = f[y]}
  <2>1. ASSUME NEW k \in Nat, \A j \in Nat : j < k => j \in W
        PROVE  k \in W
    <3> SUFFICES ASSUME NEW y \in X, NEW m \in Nat, rank[y] = k, k < m PROVE h[m][y] = f[y]
      OBVIOUS
    <3> HIDE DEF h
    <3>1. h[m][y] = Eq(h[m], y) /\ f[y] = h[k + 1][y] /\ h[k + 1][y] = Eq(h[k + 1], y)
      BY <1>3
    <3>2. CASE y \in Z
      BY <3>1, <3>2
    <3>3. CASE y \notin Z
      <4>1. pred[y] \in X /\ rank[pred[y]] \in Nat /\ rank[pred[y]] < k
        BY <3>3
      <4>2. rank[pred[y]] \in W
        BY <4>1, <2>1
      <4>3. h[m][pred[y]] = f[pred[y]] /\ h[k + 1][pred[y]] = f[pred[y]]
        <5> HIDE DEF f
        <5> QED BY <4>1, <4>2
      <4> QED BY <3>1, <3>3, <4>3
    <3> QED BY <3>2, <3>3
  <2> HIDE DEF W
  <2>2. W \in SUBSET Nat
    BY DEF W
  <2>3. W = Nat
    BY <2>1, <2>2, Induction
  <2>4. rank[x] \in W
    BY <2>3
  <2> HIDE DEF f, h
  <2> QED BY <2>4, <1>4 DEF W
<1>5. f \in [X -> S]
  <2> HIDE DEF h
  <2> QED BY <1>3
<1>6. ASSUME NEW x \in X PROVE f[x] = Eq(f, x)
  <2> HIDE DEF h
  <2>1. f[x] = Eq(h[rank[x] + 1], x)
    BY <1>3
  <2>2. x \notin Z => h[rank[x] + 1][pred[x]] = f[pred[x]]
    <3> HIDE DEF f
    <3> QED BY <1>4
  <2> QED BY <2>1, <2>2
<1> HIDE DEF f
<1> QED BY <1>5, <1>6 DEF Recursive

-----------------------------------------------------------------------------
(* Numbers read from lists: the value to a base b of a list of digits. *)
(* The digits of the highest place are in front, as for display. *)
Value(b, s) == FoldLeft(LAMBDA v, d : b * v + d, 0, s)

(* The largest of a set of numbers. *)
LEMMA MaxIs ==
  ASSUME NEW c \in Nat, NEW t \in SUBSET (1..c), t # {}
  PROVE  Max(t) \in t /\ \A x \in t : x <= Max(t)
<1> SUFFICES \E x \in t : \A y \in t : x >= y
  BY DEF Max
<1> DEFINE T == {k \in Nat : \A y \in t : y <= k}
<1>1. c \in T
  OBVIOUS
<1>2. PICK k \in T : \A m \in T : k <= m
  BY <1>1, LeastNumber
<1>3. CASE k \in t
  BY <1>2, <1>3
<1>4. CASE k \notin t
  <2>1. \A y \in t : y < k /\ y > 0
    BY <1>2, <1>4
  <2>2. k - 1 \in Nat
    <3>1. PICK y \in t : TRUE
      OBVIOUS
    <3> QED BY <2>1, <3>1
  <2>3. \A y \in t : y \in Nat /\ y <= k - 1
    BY <2>1
  <2> QED BY <2>2, <2>3, <1>2
<1> QED BY <1>3, <1>4

(* The number is what a loop over the digits computes. *)
LEMMA ValueIs ==
  ASSUME NEW b \in Int, NEW s \in Seq(Int)
  PROVE  \E f \in [0..Len(s) -> Int] :
           /\ f[0] = 0 /\ f[Len(s)] = Value(b, s)
           /\ \A k \in 1..Len(s) : f[k] = b * f[k - 1] + s[k]
<1> DEFINE c == Len(s)
           X == SUBSET (1..c)
           Eq(f, t) == IF t = {} THEN 0 ELSE b * f[t \ {Max(t)}] + s[Max(t)]
           g == CHOOSE f : f = [t \in X |-> Eq(f, t)]
<1>1. c \in Nat /\ DOMAIN s = 1..c /\ \A k \in 1..c : s[k] \in Int
  OBVIOUS
<1>2. ASSUME NEW t \in X, t # {}
      PROVE  /\ Max(t) \in t /\ Max(t) \in 1..c /\ \A x \in t : x <= Max(t)
             /\ t \ {Max(t)} \in X
  <2>1. Max(t) \in t /\ \A x \in t : x <= Max(t)
    BY <1>1, <1>2, MaxIs
  <2> QED BY <2>1
<1>3. \E f \in [X -> Int] : f = [t \in X |-> Eq(f, t)]
  <2> DEFINE rank == [t \in X |-> IF t = {} THEN 0 ELSE Max(t)]
             pred == [t \in X |-> IF t = {} THEN t ELSE t \ {Max(t)}]
             Z == {{}}
             step == [x \in X \X Int |-> IF x[1] = {} THEN 0 ELSE b * x[2] + s[Max(x[1])]]
  <2>1. rank \in [X -> Nat] /\ pred \in [X -> X]
    BY <1>1, <1>2
  <2>2. step \in [X \X Int -> Int]
    <3>1. ASSUME NEW x \in X \X Int
          PROVE  (IF x[1] = {} THEN 0 ELSE b * x[2] + s[Max(x[1])]) \in Int
      <4>1. x[1] \in X /\ x[2] \in Int /\ b * x[2] \in Int
        OBVIOUS
      <4>2. x[1] # {} => s[Max(x[1])] \in Int
        BY <4>1, <1>1, <1>2
      <4> QED BY <4>1, <4>2
    <3> QED BY <3>1
  <2>3. ASSUME NEW t \in X \ Z PROVE rank[pred[t]] < rank[t]
    <3>1. pred[t] = t \ {Max(t)} /\ pred[t] \in X /\ rank[t] = Max(t) /\ Max(t) \in 1..c
      BY <1>2
    <3>2. CASE pred[t] = {}
      <4>1. rank[pred[t]] = 0
        BY <3>2, <3>1
      <4>2. rank[t] \in 1..c
        BY <3>1
      <4> HIDE DEF rank, pred
      <4> QED BY <4>1, <4>2, <1>1
    <3>3. CASE pred[t] # {}
      <4>1. Max(pred[t]) \in pred[t] /\ rank[pred[t]] = Max(pred[t])
        BY <3>1, <3>3, <1>2
      <4>2. Max(pred[t]) \in t /\ Max(pred[t]) # Max(t) /\ Max(pred[t]) \in 1..c
        BY <4>1, <3>1
      <4>3. Max(pred[t]) <= Max(t)
        BY <4>2, <1>2
      <4>4. \A x, y \in 1..c : x <= y /\ x # y => x < y
        BY <1>1
      <4>5. rank[pred[t]] = Max(pred[t]) /\ rank[t] = Max(t) /\ Max(t) \in 1..c
        BY <3>1, <4>1
      <4>6. Max(pred[t]) < Max(t)
        BY <4>2, <4>3, <4>4, <4>5, Zenon
      <4> HIDE DEF rank, pred
      <4> QED BY <4>5, <4>6, Zenon
    <3> QED BY <3>2, <3>3
  <2>4. Z \in SUBSET X /\ 0 \in Int
    OBVIOUS
  <2>5. PICK f \in [X -> Int] :
          \A t \in X : f[t] = IF t \in Z THEN 0 ELSE step[<<t, f[pred[t]]>>]
    <3>1. Descends(X, Z, pred, rank)
      BY <2>1, <2>3, <2>4 DEF Descends
    <3>2. \E f \in [X -> Int] : Recursive(f, X, Z, pred, 0, step)
      <4> HIDE DEF X, rank, pred, step, Z
      <4> QED BY <2>2, <2>4, <3>1, Recursion
    <3> QED BY <3>2 DEF Recursive
  <2>6. ASSUME NEW t \in X PROVE f[t] = Eq(f, t)
    <3>1. CASE t = {}
      BY <2>5, <3>1
    <3>2. CASE t # {}
      <4>1. pred[t] = t \ {Max(t)} /\ pred[t] \in X /\ f[pred[t]] \in Int
        BY <3>2, <1>2
      <4>2. f[t] = step[<<t, f[pred[t]]>>]
        BY <2>5, <3>2
      <4> QED BY <4>1, <4>2, <3>2
    <3> QED BY <3>1, <3>2
  <2>7. f = [t \in X |-> Eq(f, t)]
    BY <2>6
  <2> QED BY <2>7
<1>4. g = [t \in X |-> Eq(g, t)]
  BY <1>3
<1>5. Value(b, s) = g[1..c]
  BY <1>1 DEF Value, FoldLeft, MapThenFoldSet
<1> HIDE DEF g
<1>6. g \in [X -> Int]
  <2> SUFFICES g \in [X -> Int]
    OBVIOUS
  <2>1. PICK f \in [X -> Int] : f = [t \in X |-> Eq(f, t)]
    BY <1>3
  <2> DEFINE W == {k \in Nat : \A t \in X : (\A x \in t : x <= k) => g[t] \in Int}
  <2>2. ASSUME NEW k \in Nat, \A j \in Nat : j < k => j \in W
        PROVE  k \in W
    <3> SUFFICES ASSUME NEW t \in X, \A x \in t : x <= k PROVE g[t] \in Int
      OBVIOUS
    <3>1. CASE t = {}
      BY <3>1, <1>4
    <3>2. CASE t # {}
      <4> DEFINE m == Max(t)
      <4>1. m \in t /\ m \in 1..c /\ t \ {m} \in X /\ (\A x \in t : x <= m) /\ g[t] = b * g[t \ {m}] + s[m]
        BY <3>2, <1>2, <1>4
      <4> HIDE DEF m
      <4>2. m <= k /\ m - 1 \in Nat /\ m - 1 < k
        BY <4>1, <1>1
      <4>3. \A x \in t \ {m} : x \in 1..c /\ x <= m - 1
        BY <4>1, <1>1
      <4>4. g[t \ {m}] \in Int
        BY <4>1, <4>2, <4>3, <2>2
      <4> QED BY <4>1, <4>4, <1>1
    <3> QED BY <3>1, <3>2
  <2> HIDE DEF W
  <2>3. W \in SUBSET Nat
    BY DEF W
  <2>4. c \in W
    BY <2>2, <2>3, <1>1, Induction
  <2>5. \A t \in X : g[t] \in Int
    BY <2>4, <1>1 DEF W
  <2> QED BY <2>5, <1>4
<1> DEFINE f == [k \in 0..c |-> g[1..k]]
<1>7. \A k \in 0..c : 1..k \in X /\ g[1..k] \in Int
  BY <1>1, <1>6
<1>8. f[0] = 0
  <2>1. 1..0 = {} /\ {} \in X
    OBVIOUS
  <2>2. g[{}] = 0
    BY <1>4
  <2> QED BY <2>1, <2>2, <1>1
<1>9. ASSUME NEW k \in 1..c PROVE f[k] = b * f[k - 1] + s[k]
  <2>0. k \in Nat /\ k - 1 \in 0..c /\ k \in 0..c /\ k \in 1..k
    BY <1>1
  <2>1. k \in Nat /\ 1..k \in X /\ 1..k # {} /\ k - 1 \in 0..c /\ k \in 0..c
    BY <2>0, <1>7
  <2>2. Max(1..k) \in 1..k /\ \A x \in 1..k : x <= Max(1..k)
    BY <2>1, <1>2
  <2>3. Max(1..k) = k
    BY <2>1, <2>2
  <2>4. (1..k) \ {k} = 1..(k - 1)
    BY <2>1
  <2>5. g[1..k] = b * g[(1..k) \ {Max(1..k)}] + s[Max(1..k)]
    BY <2>1, <1>4
  <2> QED BY <2>1, <2>3, <2>4, <2>5
<1>10. f \in [0..c -> Int]
  BY <1>7
<1>11. f[c] = Value(b, s)
  BY <1>5, <1>1
<1> HIDE DEF f
<1> QED BY <1>8, <1>9, <1>10, <1>11

(* A list without digits is 0. *)
LEMMA ValueEmpty == \A b \in Int : Value(b, <<>>) = 0
<1> TAKE b \in Int
<1>1. <<>> \in Seq(Int) /\ Len(<<>>) = 0
  OBVIOUS
<1> QED BY <1>1, ValueIs

(* A digit more behind the others. *)
LEMMA ValueAppend ==
  ASSUME NEW b \in Int, NEW s \in Seq(Int), NEW d \in Int
  PROVE  Value(b, s) \in Int /\ Value(b, Append(s, d)) = b * Value(b, s) + d
<1> DEFINE c == Len(s)
           u == Append(s, d)
<1>1. c \in Nat /\ u \in Seq(Int) /\ Len(u) = c + 1 /\ u[c + 1] = d /\ \A k \in 1..c : u[k] = s[k] /\ s[k] \in Int
  OBVIOUS
<1>2. PICK f \in [0..c -> Int] : f[0] = 0 /\ f[c] = Value(b, s) /\ \A k \in 1..c : f[k] = b * f[k - 1] + s[k]
  BY ValueIs
<1> HIDE DEF u, c
<1>3. PICK g \in [0..(c + 1) -> Int] :
        g[0] = 0 /\ g[c + 1] = Value(b, u) /\ \A k \in 1..(c + 1) : g[k] = b * g[k - 1] + u[k]
  <2>1. \E g \in [0..Len(u) -> Int] :
          /\ g[0] = 0 /\ g[Len(u)] = Value(b, u)
          /\ \A k \in 1..Len(u) : g[k] = b * g[k - 1] + u[k]
    BY <1>1, ValueIs
  <2> QED BY <2>1, <1>1
<1> DEFINE W == {k \in Nat : k <= c => g[k] = f[k]}
<1>4. ASSUME NEW k \in Nat, \A j \in Nat : j < k => j \in W
      PROVE  k \in W
  <2> SUFFICES ASSUME k <= c PROVE g[k] = f[k]
    OBVIOUS
  <2>1. CASE k = 0
    BY <2>1, <1>2, <1>3
  <2>2. CASE k # 0
    <3>1. k - 1 \in Nat /\ k - 1 < k /\ k \in 1..c /\ k \in 1..(c + 1) /\ k - 1 <= c
      BY <2>2, <1>1
    <3>2. g[k - 1] = f[k - 1]
      BY <3>1, <1>4
    <3> QED BY <3>1, <3>2, <1>1, <1>2, <1>3
  <2> QED BY <2>1, <2>2
<1> HIDE DEF W
<1>5. W \in SUBSET Nat
  BY DEF W
<1>6. c \in W
  BY <1>1, <1>4, <1>5, Induction
<1>7. g[c] = f[c]
  BY <1>6, <1>1 DEF W
<1>8. c + 1 \in 1..(c + 1) /\ (c + 1) - 1 = c /\ c \in 0..c
  BY <1>1
<1>9. Value(b, u) = b * f[c] + d /\ f[c] \in Int
  BY <1>1, <1>3, <1>7, <1>8
<1> QED BY <1>2, <1>9 DEF u

(* Quotient and remainder. *)
LEMMA DivisionIs ==
  ASSUME NEW x \in Nat, NEW w \in Nat, w > 0
  PROVE  x = (x \div w) * w + (x % w) /\ x % w \in 0..(w - 1) /\ x \div w \in Nat
OBVIOUS

(* Multiples of w are w apart. *)
LEMMA Multiples ==
  ASSUME NEW k \in Int, NEW w \in Nat, w > 0
  PROVE  (k >= 1 => k * w >= w) /\ (k <= -1 => k * w <= -w)
OBVIOUS

(* There is one quotient and one remainder. *)
LEMMA DivisionUnique ==
  ASSUME NEW w \in Nat, w > 0, NEW u \in Int, NEW r \in 0..(w - 1), NEW s \in Int, NEW t \in 0..(w - 1),
         u * w + r = s * w + t
  PROVE  u = s /\ r = t
<1>1. (u - s) * w = t - r /\ u - s \in Int
  OBVIOUS
<1>2. u - s = 0
  BY <1>1, Multiples
<1> QED BY <1>2

(* Dividing by ten times as much takes one digit off. *)
LEMMA NextDigit ==
  ASSUME NEW w \in Nat, w > 0, NEW x \in Nat, NEW d \in 0..9, NEW u \in Nat,
         x \div w = 10 * u + d
  PROVE  x \div (10 * w) = u /\ x % (10 * w) = d * w + (x % w)
<1>1. x = (10 * u + d) * w + (x % w) /\ x % w \in 0..(w - 1)
  BY DivisionIs
<1> DEFINE r == d * w + (x % w)
<1>2. d * w \in Nat /\ d * w <= 9 * w
  OBVIOUS
<1>3. r \in 0..(10 * w - 1)
  BY <1>1, <1>2
<1>4. x = u * (10 * w) + r
  BY <1>1
<1>5. x = (x \div (10 * w)) * (10 * w) + (x % (10 * w)) /\ x % (10 * w) \in 0..(10 * w - 1) /\ x \div (10 * w) \in Nat
  <2>1. 10 * w \in Nat /\ 10 * w > 0
    OBVIOUS
  <2> QED BY <2>1, DivisionIs
<1> HIDE DEF r
<1>6. 10 * w \in Nat /\ 10 * w > 0
  OBVIOUS
<1>7. u = x \div (10 * w) /\ r = x % (10 * w)
  BY <1>3, <1>4, <1>5, <1>6, DivisionUnique
<1> QED BY <1>7 DEF r

(* The powers of a base. *)
LEMMA PowerIs ==
  ASSUME NEW b \in Nat, b > 0
  PROVE  /\ Numbers!Power(b)[0] = 1
         /\ \A k \in Nat : /\ Numbers!Power(b)[k] \in Nat /\ Numbers!Power(b)[k] > 0
                           /\ Numbers!Power(b)[k + 1] = b * Numbers!Power(b)[k]
<1> DEFINE Pos == Nat \ {0}
           Eq(f, k) == IF k = 0 THEN 1 ELSE b * f[k - 1]
           pow == CHOOSE f : f = [k \in Nat |-> Eq(f, k)]
           rank == [k \in Nat |-> k]
           pred == [k \in Nat |-> IF k = 0 THEN 0 ELSE k - 1]
           step == [x \in Nat \X Pos |-> b * x[2]]
           Z == {0}
<1>1. Descends(Nat, Z, pred, rank)
  BY DEF Descends
<1>2. step \in [Nat \X Pos -> Pos] /\ 1 \in Pos
  <2>1. ASSUME NEW x \in Nat \X Pos PROVE b * x[2] \in Pos
    <3>1. x[2] \in Nat /\ x[2] > 0
      OBVIOUS
    <3> QED BY <3>1
  <2> QED BY <2>1
<1>3. \E f \in [Nat -> Pos] : Recursive(f, Nat, Z, pred, 1, step)
  <2> HIDE DEF rank, pred, step, Z, Pos
  <2> QED BY <1>1, <1>2, Recursion
<1>4. PICK f \in [Nat -> Pos] : Recursive(f, Nat, Z, pred, 1, step)
  BY <1>3
<1>5. ASSUME NEW k \in Nat PROVE f[k] = Eq(f, k)
  <2>1. k # 0 => f[k - 1] \in Pos /\ k - 1 \in Nat
    OBVIOUS
  <2> QED BY <1>4, <2>1 DEF Recursive
<1>6. f = [k \in Nat |-> Eq(f, k)]
  BY <1>5
<1>7. pow = [k \in Nat |-> Eq(pow, k)]
  BY <1>6
<1> HIDE DEF pow
<1> DEFINE W == {k \in Nat : pow[k] \in Pos}
<1>8. ASSUME NEW k \in Nat, \A j \in Nat : j < k => j \in W
      PROVE  k \in W
  <2>1. CASE k = 0
    BY <1>7, <2>1
  <2>2. CASE k # 0
    <3>1. k - 1 \in Nat /\ k - 1 < k
      BY <2>2
    <3>2. pow[k - 1] \in Nat /\ pow[k - 1] > 0
      BY <3>1, <1>8
    <3>3. pow[k] = b * pow[k - 1]
      BY <2>2, <1>7
    <3> QED BY <3>2, <3>3
  <2> QED BY <2>1, <2>2
<1> HIDE DEF W
<1>9. W = Nat
  <2>1. W \in SUBSET Nat
    BY DEF W
  <2> QED BY <2>1, <1>8, Induction
<1>10. \A k \in Nat : pow[k] \in Nat /\ pow[k] > 0
  BY <1>9 DEF W
<1>11. pow[0] = 1 /\ \A k \in Nat : pow[k + 1] = b * pow[k]
  BY <1>7
<1>12. Numbers!Power(b) = pow
  BY DEF Numbers!Power, pow
<1> QED BY <1>10, <1>11, <1>12

(* A list is its last element behind the others. *)
LEMMA SeqLast ==
  ASSUME NEW S, NEW s \in Seq(S), s # <<>>
  PROVE  /\ SubSeq(s, 1, Len(s) - 1) \in Seq(S) /\ Len(SubSeq(s, 1, Len(s) - 1)) = Len(s) - 1
         /\ s = Append(SubSeq(s, 1, Len(s) - 1), s[Len(s)]) /\ s[Len(s)] \in S
<1>1. Len(s) \in Nat /\ Len(s) > 0 /\ \A k \in 1..Len(s) : s[k] \in S
  OBVIOUS
<1> DEFINE m == Len(s) - 1
           u == SubSeq(s, 1, Len(s) - 1)
<1>2. u \in Seq(S) /\ Len(u) = Len(s) - 1 /\ \A j \in 1..(Len(s) - 1) : u[j] = s[j]
  <2>1. m \in Int /\ m >= 0 /\ \A j \in 1..m : s[j] \in S
    BY <1>1
  <2> HIDE DEF m
  <2>2. /\ SubSeq(s, 1, m) \in Seq(S) /\ Len(SubSeq(s, 1, m)) = (IF 1 <= m THEN m - 1 + 1 ELSE 0)
        /\ \A j \in 1..(m - 1 + 1) : SubSeq(s, 1, m)[j] = s[1 + j - 1]
    BY <2>1, SubSeqProperties
  <2>3. SubSeq(s, 1, m) \in Seq(S) /\ Len(SubSeq(s, 1, m)) = m /\ \A j \in 1..m : SubSeq(s, 1, m)[j] = s[j]
    BY <2>1, <2>2
  <2> QED BY <2>3 DEF m
<1> HIDE DEF u
<1>3. /\ Append(u, s[Len(s)]) \in Seq(S) /\ Len(Append(u, s[Len(s)])) = Len(s)
      /\ \A k \in 1..Len(s) : Append(u, s[Len(s)])[k] = s[k]
  BY <1>1, <1>2
<1>4. Append(u, s[Len(s)]) = s
  BY <1>3, SeqEqual
<1> QED BY <1>1, <1>2, <1>4 DEF u

(* A digit more in front of the others. *)
LEMMA ValueCons ==
  ASSUME NEW b \in Nat, b > 0, NEW d \in Int, NEW s \in Seq(Int)
  PROVE  /\ Value(b, s) \in Int
         /\ Value(b, <<d>> \o s) = d * Numbers!Power(b)[Len(s)] + Value(b, s)
<1>0. b \in Int
  OBVIOUS
<1> DEFINE Pow(k) == Numbers!Power(b)[k]
           W == {m \in Nat : \A u \in Seq(Int) : Len(u) = m => Value(b, <<d>> \o u) = d * Pow(m) + Value(b, u)}
<1>1. ASSUME NEW m \in Nat, \A j \in Nat : j < m => j \in W
      PROVE  m \in W
  <2> SUFFICES ASSUME NEW u \in Seq(Int), Len(u) = m
               PROVE  Value(b, <<d>> \o u) = d * Pow(m) + Value(b, u)
    OBVIOUS
  <2>1. CASE m = 0
    <3>1. u = <<>> /\ <<d>> \o u = Append(<<>>, d) /\ <<>> \in Seq(Int)
      BY <2>1
    <3>2. Value(b, Append(<<>>, d)) = b * Value(b, <<>>) + d /\ Value(b, <<>>) = 0
      BY <1>0, <3>1, ValueAppend, ValueEmpty
    <3>3. Pow(0) = 1
      BY PowerIs
    <3> HIDE DEF Pow
    <3> QED BY <3>1, <3>2, <3>3, <2>1
  <2>2. CASE m # 0
    <3> DEFINE v == SubSeq(u, 1, m - 1)
               c == u[m]
    <3>1. u # <<>>
      BY <2>2
    <3>2. v \in Seq(Int) /\ Len(v) = m - 1 /\ u = Append(v, c) /\ c \in Int
      BY <3>1, SeqLast
    <3>3. m - 1 \in Nat /\ m - 1 < m
      BY <2>2
    <3> HIDE DEF v, c
    <3>4. Value(b, <<d>> \o v) = d * Pow(m - 1) + Value(b, v)
      BY <3>2, <3>3, <1>1
    <3>5. <<d>> \o v \in Seq(Int) /\ <<d>> \o u = Append(<<d>> \o v, c)
      BY <3>2, SMTT(30)
    <3>6. /\ Value(b, v) \in Int /\ Value(b, u) = b * Value(b, v) + c
          /\ Value(b, <<d>> \o u) = b * Value(b, <<d>> \o v) + c
      <4>1. Value(b, v) \in Int /\ Value(b, Append(v, c)) = b * Value(b, v) + c
        BY <1>0, <3>2, ValueAppend
      <4>2. Value(b, Append(<<d>> \o v, c)) = b * Value(b, <<d>> \o v) + c
        BY <1>0, <3>2, <3>5, ValueAppend
      <4> QED BY <3>2, <3>5, <4>1, <4>2
    <3>7. Pow(m) = b * Pow(m - 1) /\ Pow(m - 1) \in Nat
      <4>1. (m - 1) + 1 = m
        OBVIOUS
      <4>2. Pow((m - 1) + 1) = b * Pow(m - 1) /\ Pow(m - 1) \in Nat
        BY <3>3, PowerIs
      <4> QED BY <4>1, <4>2
    <3> HIDE DEF Pow
    <3>8. \A x, y \in Int : b * (d * x + y) = d * (b * x) + b * y
      OBVIOUS
    <3> DEFINE x == Pow(m - 1)
               y == Value(b, v)
    <3>9. x \in Int /\ y \in Int
      BY <3>6, <3>7
    <3>10. b * (d * x + y) = d * (b * x) + b * y
      <4> HIDE DEF x, y
      <4> QED BY <3>8, <3>9
    <3> DEFINE Du == Value(b, <<d>> \o u)
               Dv == Value(b, <<d>> \o v)
               z == Value(b, u)
               w == Pow(m)
    <3>11. Dv = d * x + y /\ Du = b * Dv + c /\ z = b * y + c /\ w = b * x
      BY <3>4, <3>6, <3>7
    <3> SUFFICES Du = d * w + z
      OBVIOUS
    <3>12. c \in Int
      BY <3>2
    <3> HIDE DEF x, y, Du, Dv, z, w
    <3> QED BY <3>9, <3>10, <3>11, <3>12
  <2> QED BY <2>1, <2>2
<1> HIDE DEF W
<1>2. W \in SUBSET Nat
  BY DEF W
<1>3. Len(s) \in Nat /\ W = Nat
  BY <1>1, <1>2, Induction
<1>4. Len(s) \in W
  BY <1>3
<1>5. Value(b, s) \in Int
  BY <1>0, ValueAppend
<1> QED BY <1>4, <1>5 DEF W

(* The digits of a number, least significant first. *)
LEMMA DigitsAre ==
  ASSUME NEW k \in 0..MaxNum
  PROVE  /\ Numbers!Digits[k] \in Seq(0..9)
         /\ Numbers!Digits[k] = IF k = 0 THEN <<>> ELSE <<k % 10>> \o Numbers!Digits[k \div 10]
<1> DEFINE X == 0..MaxNum
           S == Seq(0..9)
           Eq(f, m) == IF m = 0 THEN <<>> ELSE <<m % 10>> \o f[m \div 10]
           D == CHOOSE f : f = [m \in X |-> Eq(f, m)]
           rank == [m \in X |-> m]
           pred == [m \in X |-> m \div 10]
           step == [x \in X \X S |-> <<x[1] % 10>> \o x[2]]
           Z == {0}
<1>0. MaxNum \in Nat /\ \A m \in X : m % 10 \in 0..9 /\ m \div 10 \in X /\ (m # 0 => m \div 10 < m)
  BY NumbersAssumption
<1>1. Descends(X, Z, pred, rank)
  BY <1>0 DEF Descends
<1>2. step \in [X \X S -> S] /\ <<>> \in S
  <2>1. ASSUME NEW x \in X \X S PROVE <<x[1] % 10>> \o x[2] \in S
    <3>1. x[2] \in S /\ x[1] \in X /\ x[1] % 10 \in 0..9
      BY <1>0
    <3> QED BY <3>1
  <2> QED BY <2>1
<1>3. \E f \in [X -> S] : Recursive(f, X, Z, pred, <<>>, step)
  <2> HIDE DEF rank, pred, step, Z, S, X
  <2> QED BY <1>1, <1>2, Recursion
<1>4. PICK f \in [X -> S] : Recursive(f, X, Z, pred, <<>>, step)
  BY <1>3
<1>5. ASSUME NEW m \in X PROVE f[m] = Eq(f, m)
  <2>1. m \div 10 \in X /\ f[m \div 10] \in S
    BY <1>0
  <2> HIDE DEF S
  <2> QED BY <1>4, <2>1 DEF Recursive
<1>6. f = [m \in X |-> Eq(f, m)]
  <2>1. f = [m \in X |-> f[m]]
    BY <1>4, SMTT(30)
  <2> HIDE DEF Eq, S, X
  <2> QED BY <1>5, <2>1
<1>7. D = [m \in X |-> Eq(D, m)]
  BY <1>6, Zenon
<1> HIDE DEF D
<1> DEFINE W == {m \in Nat : m \in X => D[m] \in S}
<1>8. ASSUME NEW m \in Nat, \A j \in Nat : j < m => j \in W
      PROVE  m \in W
  <2> SUFFICES ASSUME m \in X PROVE D[m] \in S
    OBVIOUS
  <2>1. CASE m = 0
    BY <1>7, <2>1
  <2>2. CASE m # 0
    <3>1. m \div 10 \in X /\ m \div 10 \in Nat /\ m \div 10 < m /\ m % 10 \in 0..9
      BY <2>2, <1>0
    <3>2. D[m \div 10] \in S
      BY <3>1, <1>8
    <3>3. D[m] = <<m % 10>> \o D[m \div 10]
      BY <2>2, <1>7
    <3> QED BY <3>1, <3>2, <3>3
  <2> QED BY <2>1, <2>2
<1> HIDE DEF W
<1>9. W = Nat
  <2>1. W \in SUBSET Nat
    BY DEF W
  <2> QED BY <2>1, <1>8, Induction
<1>10. \A m \in X : D[m] \in S
  BY <1>9, <1>0 DEF W
<1>11. Numbers!Digits = D
  BY DEF Numbers!Digits, D
<1> QED BY <1>7, <1>10, <1>11

-----------------------------------------------------------------------------
(* The invariant of the three loops. *)
Pow(b, k) == Numbers!Power(b)[k]
Carry == num \div 10

(* getSum's lists are the digits that are left of both numbers. *)
AddInv ==
  phase = "add" =>
    LET power == Pow(10, Len(l3))
    IN /\ l3 \in Seq(0..9)
       /\ t1 = Numbers!Digits[num1 \div power] /\ t2 = Numbers!Digits[num2 \div power]
       /\ Value(10, l3) + Carry * power = (num1 % power) + (num2 % power)
       /\ n = num1 /\ bits = <<>>

(* The bits so far are the low ones of the number, with the highest in front. *)
ToBinaryInv ==
  /\ phase \in {"add", "toBinary"} => e = 0 /\ val = junk
  /\ phase = "toBinary" => num1 = n * Pow(2, Len(bits)) + Value(2, bits)

(* The bits not added yet are the high ones. *)
Upper == SubSeq(Reverse(bits), 1, Len(bits) - e)
ToDecimalInv ==
  phase = "toDecimal" => e <= Len(bits) /\ num1 = (val - junk) + Pow(2, e) * Value(2, Upper)

NumbersInv ==
  /\ Numbers!TypeOK /\ Numbers!SumOfSimilar /\ Numbers!RoundTrip
  /\ AddInv /\ ToBinaryInv /\ ToDecimalInv

(* display shows the value of its digits. *)
LEMMA ShownIs == \A s \in Seq(Int) : Numbers!Shown(s) = Value(10, s)
  BY DEF Numbers!Shown, Value, FoldLeft, MapThenFoldSet, Numbers!FoldLeft, Numbers!MapThenFoldSet, Max, Numbers!Max

(* Digits are numbers. *)
LEMMA DigitLists == \A s \in Seq(0..9) : s \in Seq(Int) /\ Len(s) \in Nat
  OBVIOUS

(* What is behind an element that was put in front. *)
LEMMA HeadTail ==
  ASSUME NEW S, NEW d \in S, NEW s \in Seq(S)
  PROVE  Head(<<d>> \o s) = d /\ Tail(<<d>> \o s) = s /\ <<d>> \o s # <<>> /\ <<d>> \o s \in Seq(S)
<1> DEFINE u == <<d>> \o s
<1>1. u \in Seq(S) /\ Len(u) = Len(s) + 1 /\ u[1] = d /\ \A k \in 1..Len(s) : u[k + 1] = s[k]
  OBVIOUS
<1> HIDE DEF u
<1>2. u # <<>> /\ Head(u) = d
  BY <1>1
<1>3. Tail(u) \in Seq(S) /\ Len(Tail(u)) = Len(s) /\ \A k \in 1..Len(s) : Tail(u)[k] = s[k]
  BY <1>1, <1>2
<1>4. Tail(u) = s
  BY <1>3, SeqEqual
<1> QED BY <1>1, <1>2, <1>4 DEF u

(* The same for Pow. *)
LEMMA PowerOf ==
  ASSUME NEW b \in Nat, b > 0, NEW k \in Nat
  PROVE  /\ Pow(b, 0) = 1 /\ Pow(b, k) \in Nat /\ Pow(b, k) > 0
         /\ Pow(b, k + 1) = b * Pow(b, k)
BY PowerIs DEF Pow

LEMMA ConsDigit ==
  ASSUME NEW d \in Int, NEW s \in Seq(Int), NEW b \in Nat, b > 0
  PROVE  /\ Value(b, s) \in Int /\ <<d>> \o s \in Seq(Int) /\ Len(<<d>> \o s) = Len(s) + 1
         /\ Value(b, <<d>> \o s) = d * Pow(b, Len(s)) + Value(b, s)
BY ValueCons DEF Pow

(* The invariant holds at the start. *)
LEMMA NumbersInit ==
  ASSUME Numbers!Init PROVE NumbersInv
<1> USE DEF Numbers!Init, NumbersInv
<1>0. MaxNum \in Nat /\ Garbage \subseteq Int /\ num1 \in 0..MaxNum /\ num2 \in 0..MaxNum /\ num1 \in Nat /\ num2 \in Nat
  BY NumbersAssumption
<1>1. /\ Numbers!Digits[num1] \in Seq(0..9) /\ Numbers!Digits[num2] \in Seq(0..9)
  BY <1>0, DigitsAre
<1>2. Numbers!TypeOK
  BY <1>0, <1>1 DEF Numbers!TypeOK
<1>3. Pow(10, 0) = 1 /\ Pow(2, 0) = 1 /\ Value(10, <<>>) = 0 /\ Value(2, <<>>) = 0
  <2>1. Value(10, <<>>) = 0 /\ Value(2, <<>>) = 0
    BY ValueEmpty
  <2>2. Pow(10, 0) = 1 /\ Pow(2, 0) = 1
    BY PowerIs DEF Pow
  <2> QED BY <2>1, <2>2
<1>4. AddInv
  <2>1. Len(l3) = 0 /\ Pow(10, Len(l3)) = 1 /\ Value(10, l3) = 0 /\ Carry = 0
    BY <1>3 DEF Carry
  <2>2. num1 \div 1 = num1 /\ num2 \div 1 = num2 /\ num1 % 1 = 0 /\ num2 % 1 = 0
    BY <1>0
  <2>3. l3 \in Seq(0..9)
    OBVIOUS
  <2> QED BY <2>1, <2>2, <2>3 DEF AddInv
<1>5. ToBinaryInv /\ ToDecimalInv
  BY DEF ToBinaryInv, ToDecimalInv
<1> QED BY <1>2, <1>4, <1>5 DEF Numbers!SumOfSimilar, Numbers!RoundTrip

(* One digit of a number: what stands above it, and its value. *)
LEMMA OneDigit ==
  ASSUME NEW k \in 1..MaxNum, NEW w \in Nat, w > 0, Numbers!Digits[k \div w] # <<>>
  PROVE  LET ds == Numbers!Digits[k \div w]
         IN /\ Head(ds) \in 0..9 /\ Tail(ds) = Numbers!Digits[k \div (10 * w)]
            /\ Tail(ds) \in Seq(0..9)
            /\ k % (10 * w) = Head(ds) * w + (k % w)
<1> DEFINE x == k \div w
           d == x % 10
           u == x \div 10
<1>1. MaxNum \in Nat /\ k \in Nat
  BY NumbersAssumption
<1>2. k = x * w + (k % w) /\ k % w \in 0..(w - 1) /\ x \in Nat
  BY <1>1, DivisionIs
<1>3. x <= k
  <2> HIDE DEF x
  <2>1. x * w >= x
    BY <1>2
  <2>2. x * w \in Nat /\ k % w \in Nat
    BY <1>2
  <2> QED BY <1>1, <1>2, <2>1, <2>2
<1>4. x \in 0..MaxNum /\ u \in 0..MaxNum /\ d \in 0..9 /\ x = 10 * u + d
  <2>1. x \in 0..MaxNum
    BY <1>1, <1>2, <1>3
  <2> HIDE DEF x
  <2> QED BY <2>1, <1>1
<1>5. x # 0 /\ Numbers!Digits[x] = <<d>> \o Numbers!Digits[u] /\ Numbers!Digits[u] \in Seq(0..9)
  <2> HIDE DEF d, u
  <2>1. Numbers!Digits[x] = IF x = 0 THEN <<>> ELSE <<x % 10>> \o Numbers!Digits[x \div 10]
    BY <1>4, DigitsAre
  <2>2. x # 0
    <3> HIDE DEF x
    <3>1. Numbers!Digits[x] # <<>>
      BY DEF x
    <3> QED BY <2>1, <3>1
  <2>3. Numbers!Digits[u] \in Seq(0..9)
    BY <1>4, DigitsAre
  <2> QED BY <2>1, <2>2, <2>3 DEF d, u
<1>6. u = k \div (10 * w) /\ k % (10 * w) = d * w + (k % w)
  <2> HIDE DEF u, d
  <2>1. k \div w = 10 * u + d /\ u \in Nat /\ d \in 0..9
    BY <1>4, <1>1 DEF x
  <2>2. k \in Nat
    BY <1>1
  <2> HIDE DEF x
  <2>3. \A y \in Nat : y \div w = 10 * u + d => y \div (10 * w) = u /\ y % (10 * w) = d * w + (y % w)
    BY <2>1, NextDigit, ZenonT(30)
  <2>4. k \div (10 * w) = u /\ k % (10 * w) = d * w + (k % w)
    BY <2>1, <2>2, <2>3, Zenon
  <2> QED BY <2>4
<1>7. Head(<<d>> \o Numbers!Digits[u]) = d /\ Tail(<<d>> \o Numbers!Digits[u]) = Numbers!Digits[u]
  <2> HIDE DEF u, d
  <2>1. d \in 0..9 /\ Numbers!Digits[u] \in Seq(0..9)
    BY <1>4, <1>5
  <2> QED BY <2>1, HeadTail, ZenonT(30)
<1> HIDE DEF u, d
<1> QED BY <1>4, <1>5, <1>6, <1>7

(* Two digits are added with the carry; one digit of each number goes below it. *)
LEMMA AddDigitsKeeps ==
  ASSUME NumbersInv, Numbers!AddDigits PROVE NumbersInv'
<1> USE DEF NumbersInv, Numbers!AddDigits, Numbers!binary, Numbers!TypeOK
<1> DEFINE p10 == Pow(10, Len(l3))
           dd == num' % 10
           cc == num' \div 10
<1>0. MaxNum \in Nat /\ l3 \in Seq(0..9) /\ Len(l3) \in Nat /\ l3 \in Seq(Int)
  <2>1. l3 \in Seq(0..9)
    BY DEF AddInv
  <2> QED BY <2>1, DigitLists, NumbersAssumption
<1>1. p10 \in Nat /\ p10 > 0 /\ Pow(10, Len(l3) + 1) = 10 * p10
  BY <1>0, PowerOf
<1> HIDE DEF p10
<1>2. /\ t1 = Numbers!Digits[num1 \div p10] /\ t2 = Numbers!Digits[num2 \div p10]
      /\ Value(10, l3) + Carry * p10 = (num1 % p10) + (num2 % p10)
      /\ n = num1 /\ bits = <<>>
  BY DEF AddInv, p10
<1>3. /\ Head(t1) \in 0..9 /\ Tail(t1) = Numbers!Digits[num1 \div (10 * p10)] /\ Tail(t1) \in Seq(0..9)
      /\ num1 % (10 * p10) = Head(t1) * p10 + (num1 % p10)
  BY <1>1, <1>2, OneDigit
<1>4. /\ Head(t2) \in 0..9 /\ Tail(t2) = Numbers!Digits[num2 \div (10 * p10)] /\ Tail(t2) \in Seq(0..9)
      /\ num2 % (10 * p10) = Head(t2) * p10 + (num2 % p10)
  BY <1>1, <1>2, OneDigit
<1>5. /\ num' = Head(t1) + Head(t2) + Carry /\ Carry \in 0..1
      /\ num' \in 0..19 /\ dd \in 0..9 /\ num' = 10 * cc + dd /\ cc \in 0..1
  <2>1. num \in 0..19
    OBVIOUS
  <2>2. num \div 10 \in 0..1
    BY <2>1
  <2>3. num' = Head(t1) + Head(t2) + num \div 10
    OBVIOUS
  <2> HIDE DEF Numbers!AddDigits, NumbersInv, Numbers!TypeOK
  <2>4. num' \in 0..19
    <3> DEFINE h1 == Head(t1)
               h2 == Head(t2)
               c0 == num \div 10
    <3>1. h1 \in 0..9 /\ h2 \in 0..9 /\ c0 \in 0..1 /\ num' = h1 + h2 + c0
      BY <1>3, <1>4, <2>2, <2>3
    <3> HIDE DEF h1, h2, c0
    <3> QED BY <3>1
  <2>5. num' = Head(t1) + Head(t2) + Carry /\ Carry \in 0..1
    BY <2>2, <2>3 DEF Carry
  <2>6. dd \in 0..9 /\ num' = 10 * cc + dd /\ cc \in 0..1
    <3>1. \A z \in 0..19 : z % 10 \in 0..9 /\ z = 10 * (z \div 10) + (z % 10) /\ z \div 10 \in 0..1
      OBVIOUS
    <3> QED BY <2>4, <3>1, Zenon
  <2> QED BY <2>4, <2>5, <2>6
<1>6. /\ l3' = <<dd>> \o l3 /\ l3' \in Seq(0..9) /\ Len(l3') = Len(l3) + 1
      /\ Value(10, l3) \in Int /\ Value(10, l3') = dd * p10 + Value(10, l3)
  <2>1. l3' = <<dd>> \o l3
    OBVIOUS
  <2> HIDE DEF dd
  <2>2. /\ <<dd>> \o l3 \in Seq(0..9) /\ Len(<<dd>> \o l3) = Len(l3) + 1
    BY <1>0, <1>5
  <2>3. Value(10, l3) \in Int /\ Value(10, <<dd>> \o l3) = dd * p10 + Value(10, l3)
    BY <1>0, <1>5, ConsDigit DEF p10
  <2> QED BY <2>1, <2>2, <2>3
<1>7. Value(10, l3') + Carry' * (10 * p10) = (num1 % (10 * p10)) + (num2 % (10 * p10))
  <2> DEFINE vo == Value(10, l3)
             vn == Value(10, l3')
             h1 == Head(t1)
             h2 == Head(t2)
             m1 == num1 % p10
             m2 == num2 % p10
  <2>1. m1 \in Int /\ m2 \in Int
    BY <1>1
  <2>2. Carry' = cc
    BY DEF Carry
  <2>3. /\ vn = dd * p10 + vo /\ vo + Carry * p10 = m1 + m2 /\ h1 + h2 + Carry = 10 * cc + dd
        /\ num1 % (10 * p10) = h1 * p10 + m1 /\ num2 % (10 * p10) = h2 * p10 + m2
    BY <1>2, <1>3, <1>4, <1>5, <1>6, Zenon
  <2>4. /\ vo \in Int /\ h1 \in Int /\ h2 \in Int /\ Carry \in Int /\ cc \in Int /\ dd \in Int /\ p10 \in Int
    <3> HIDE DEF Numbers!AddDigits, NumbersInv, Numbers!TypeOK, cc, dd
    <3>1. \A k \in 0..9 : k \in Int
      OBVIOUS
    <3>2. \A k \in 0..1 : k \in Int
      OBVIOUS
    <3>3. h1 \in Int /\ h2 \in Int
      BY <3>1, <1>3, <1>4
    <3>4. Carry \in Int /\ cc \in Int /\ dd \in Int
      BY <3>1, <3>2, <1>5
    <3> QED BY <3>3, <3>4, <1>1, <1>6
  <2> HIDE DEF vo, vn, h1, h2, m1, m2, cc, dd
  <2>5. (h1 + h2 + Carry) * p10 = (10 * cc + dd) * p10
    BY <2>3
  <2>6. h1 * p10 + h2 * p10 + Carry * p10 = cc * (10 * p10) + dd * p10
    BY <2>4, <2>5
  <2>7. vn + cc * (10 * p10) = (h1 * p10 + m1) + (h2 * p10 + m2)
    <3> HIDE DEF Numbers!AddDigits, NumbersInv, Numbers!TypeOK
    <3> DEFINE cw == cc * (10 * p10)
               dw == dd * p10
               w1 == h1 * p10
               w2 == h2 * p10
               wc == Carry * p10
    <3>1. cw \in Int /\ dw \in Int /\ w1 \in Int /\ w2 \in Int /\ wc \in Int
      BY <2>4
    <3>2. w1 + w2 + wc = cw + dw /\ vn = dw + vo /\ vo + wc = m1 + m2
      BY <2>3, <2>6
    <3> HIDE DEF cw, dw, w1, w2, wc
    <3>3. vn + cw = (w1 + m1) + (w2 + m2)
      BY <2>1, <2>4, <3>1, <3>2
    <3> QED BY <3>3 DEF cw, w1, w2
  <2> QED BY <2>2, <2>3, <2>7 DEF vn
<1>8. /\ phase' = phase /\ num1' = num1 /\ num2' = num2 /\ n' = n /\ bits' = bits /\ e' = e /\ val' = val /\ junk' = junk
      /\ phase = "add" /\ t1' = Tail(t1) /\ t2' = Tail(t2)
  OBVIOUS
<1>9. Numbers!TypeOK'
  <2>1. l3' \in Seq(0..10) /\ \A k \in 2..Len(l3') : l3'[k] <= 9
    <3> HIDE DEF dd, Numbers!AddDigits, NumbersInv, Numbers!TypeOK
    <3> DEFINE s == l3'
    <3>1. s \in Seq(0..9)
      BY <1>6
    <3> HIDE DEF s
    <3>2. s \in Seq(0..10) /\ \A k \in 2..Len(s) : s[k] <= 9
      BY <3>1
    <3> QED BY <3>2 DEF s
  <2>2. t1' \in Seq(0..9) /\ t2' \in Seq(0..9) /\ num' \in 0..19
    BY <1>3, <1>4, <1>5, <1>8
  <2> HIDE DEF Numbers!AddDigits
  <2> QED BY <2>1, <2>2, <1>8
<1>10. AddInv'
  <2>1. Pow(10, Len(l3))' = 10 * p10
    <3>1. Pow(10, Len(l3))' = Pow(10, Len(l3'))
      BY DEF Pow, Numbers!Power
    <3> QED BY <3>1, <1>1, <1>6
  <2>2. /\ t1' = Numbers!Digits[num1 \div (10 * p10)] /\ t2' = Numbers!Digits[num2 \div (10 * p10)]
    BY <1>3, <1>4, <1>8
  <2> HIDE DEF Numbers!AddDigits, dd
  <2>3. Value(10, l3)' = Value(10, l3')
    BY DEF Value, FoldLeft, MapThenFoldSet
  <2> QED BY <1>2, <1>6, <1>7, <1>8, <2>1, <2>2, <2>3 DEF AddInv
<1>11. ToBinaryInv' /\ ToDecimalInv'
  <2> HIDE DEF Numbers!AddDigits
  <2> QED BY <1>8 DEF ToBinaryInv, ToDecimalInv
<1>12. Numbers!SumOfSimilar' /\ Numbers!RoundTrip'
  <2> HIDE DEF Numbers!AddDigits
  <2> QED BY <1>8 DEF Numbers!SumOfSimilar, Numbers!RoundTrip
<1> QED BY <1>9, <1>10, <1>11, <1>12

(* Less than a power of ten: a number whose next digit is the last. *)
LEMMA LastDigit ==
  ASSUME NEW k \in 1..MaxNum, NEW w \in Nat, w > 0
  PROVE  LET ds == Numbers!Digits[k \div w]
         IN /\ ds \in Seq(0..9)
            /\ ds = <<>> => k = k % w
            /\ ds # <<>> /\ Tail(ds) = <<>> => k = Head(ds) * w + (k % w)
<1>0. MaxNum \in Nat /\ k \in Nat /\ k <= MaxNum
  BY NumbersAssumption
<1>1. k = (k \div w) * w + (k % w) /\ k % w \in 0..(w - 1) /\ k \div w \in Nat
  BY <1>0, DivisionIs
<1> DEFINE x == k \div w
           ds == Numbers!Digits[x]
<1>2. x \in 0..MaxNum
  <2>1. x \in Nat /\ k % w \in Nat /\ k = x * w + (k % w)
    BY <1>1
  <2> HIDE DEF x
  <2>2. x * w >= x /\ x * w \in Nat
    BY <2>1
  <2> QED BY <1>0, <2>1, <2>2
<1>3. ds \in Seq(0..9) /\ ds = IF x = 0 THEN <<>> ELSE <<x % 10>> \o Numbers!Digits[x \div 10]
  <2> HIDE DEF x
  <2> QED BY <1>2, DigitsAre
<1>4. ASSUME x # 0
      PROVE /\ ds # <<>>
            /\ Head(ds) = x % 10 /\ Tail(ds) = Numbers!Digits[x \div 10]
            /\ x \div 10 \in 0..MaxNum /\ x = 10 * (x \div 10) + (x % 10)
  <2> HIDE DEF x
  <2>1. x \div 10 \in 0..MaxNum /\ x % 10 \in 0..9 /\ x = 10 * (x \div 10) + (x % 10)
    BY <1>0, <1>2
  <2>2. Numbers!Digits[x \div 10] \in Seq(0..9)
    BY <2>1, DigitsAre
  <2>3. ds = <<x % 10>> \o Numbers!Digits[x \div 10]
    BY <1>3, <1>4
  <2>4. /\ Head(<<x % 10>> \o Numbers!Digits[x \div 10]) = x % 10
        /\ Tail(<<x % 10>> \o Numbers!Digits[x \div 10]) = Numbers!Digits[x \div 10]
        /\ <<x % 10>> \o Numbers!Digits[x \div 10] # <<>>
    BY <2>1, <2>2, HeadTail, SMTT(30)
  <2> HIDE DEF ds
  <2> QED BY <2>1, <2>3, <2>4
<1>5. ASSUME NEW y \in 0..MaxNum, Numbers!Digits[y] = <<>> PROVE y = 0
  <2>1. CASE y # 0
    <3>1. y \div 10 \in 0..MaxNum /\ y % 10 \in 0..9
      BY <1>0, <2>1
    <3>2. Numbers!Digits[y \div 10] \in Seq(0..9) /\ Numbers!Digits[y] = <<y % 10>> \o Numbers!Digits[y \div 10]
      BY <3>1, <2>1, DigitsAre
    <3>3. <<y % 10>> \o Numbers!Digits[y \div 10] # <<>>
      BY <3>1, <3>2, HeadTail
    <3> QED BY <3>2, <3>3, <1>5
  <2> QED BY <2>1
<1>6. ds = <<>> => k = k % w
  <2>1. ds = <<>> => x = 0
    <3> HIDE DEF x
    <3> QED BY <1>2, <1>5
  <2> QED BY <1>1, <2>1
<1>7. ASSUME ds # <<>>, Tail(ds) = <<>> PROVE k = Head(ds) * w + (k % w)
  <2>1. x # 0
    <3> HIDE DEF x
    <3> QED BY <1>3, <1>7
  <2>2. x \div 10 = 0
    <3> HIDE DEF x, ds
    <3>1. Tail(ds) = Numbers!Digits[x \div 10] /\ x \div 10 \in 0..MaxNum
      BY <1>4, <2>1
    <3> QED BY <3>1, <1>5, <1>7
  <2>3. Head(ds) = x
    <3> HIDE DEF x, ds
    <3>1. x = 10 * (x \div 10) + (x % 10) /\ Head(ds) = x % 10
      BY <1>4, <2>1
    <3> QED BY <3>1, <2>2, <1>2
  <2> HIDE DEF ds
  <2> QED BY <2>3, <1>1
<1> HIDE DEF x
<1>8. ds \in Seq(0..9)
  BY <1>3
<1> QED BY <1>6, <1>7, <1>8 DEF x

(* A first digit may be 10, the others are digits. *)
LEMMA TopDigit ==
  ASSUME NEW s \in Seq(0..9)
  PROVE  /\ s \in Seq(0..10) /\ \A k \in 2..Len(s) : s[k] <= 9
         /\ \A d \in 0..10 : /\ <<d>> \o s \in Seq(0..10)
                             /\ \A k \in 2..Len(<<d>> \o s) : (<<d>> \o s)[k] <= 9
<1>1. s \in Seq(0..10) /\ Len(s) \in Nat /\ \A k \in 1..Len(s) : s[k] \in 0..9
  OBVIOUS
<1>2. ASSUME NEW d \in 0..10
      PROVE  /\ <<d>> \o s \in Seq(0..10)
             /\ \A k \in 2..Len(<<d>> \o s) : (<<d>> \o s)[k] <= 9
  <2> DEFINE u == <<d>> \o s
  <2>1. u \in Seq(0..10) /\ Len(u) = Len(s) + 1 /\ \A k \in 1..Len(s) : u[k + 1] = s[k]
    BY <1>1
  <2> HIDE DEF u
  <2>2. ASSUME NEW k \in 2..Len(u) PROVE u[k] <= 9
    <3>1. k - 1 \in 1..Len(s) /\ (k - 1) + 1 = k
      BY <1>1, <2>1
    <3>2. u[(k - 1) + 1] = s[k - 1] /\ s[k - 1] \in 0..9
      BY <1>1, <2>1, <3>1
    <3> QED BY <3>1, <3>2
  <2> QED BY <2>1, <2>2 DEF u
<1>3. \A k \in 2..Len(s) : s[k] <= 9
  BY <1>1
<1> QED BY <1>1, <1>2, <1>3

(* The digit that is left, or the last carry, goes in front; it completes the sum when
   no digit more is left. *)
LEMMA AddRestKeeps ==
  ASSUME NumbersInv, Numbers!AddRest PROVE NumbersInv'
<1> DEFINE w == Pow(10, Len(l3))
<1>0. /\ MaxNum \in Nat /\ l3 \in Seq(0..9) /\ Len(l3) \in Nat /\ l3 \in Seq(Int)
      /\ num1 \in 1..MaxNum /\ num2 \in 1..MaxNum /\ num \in 0..19 /\ phase = "add"
  <2>1. l3 \in Seq(0..9) /\ num1 \in 1..MaxNum /\ num2 \in 1..MaxNum /\ num \in 0..19 /\ phase = "add"
    BY DEF NumbersInv, AddInv, Numbers!TypeOK, Numbers!AddRest
  <2> QED BY <2>1, NumbersAssumption, DigitLists
<1>1. w \in Nat /\ w > 0
  <2>1. 10 \in Nat /\ 10 > 0
    OBVIOUS
  <2>2. \A k \in Nat : Pow(10, k) \in Nat /\ Pow(10, k) > 0
    BY <2>1, PowerOf
  <2> QED BY <1>0, <2>2
<1> HIDE DEF w
<1>2. /\ t1 = Numbers!Digits[num1 \div w] /\ t2 = Numbers!Digits[num2 \div w]
      /\ Value(10, l3) + Carry * w = (num1 % w) + (num2 % w)
      /\ n = num1 /\ bits = <<>> /\ e = 0 /\ val = junk
  BY <1>0 DEF NumbersInv, AddInv, ToBinaryInv, w
<1>3. Carry \in 0..1 /\ Carry = num \div 10 /\ Value(10, l3) \in Int
  <2>1. Value(10, l3) \in Int
    BY <1>0, ValueAppend
  <2> QED BY <1>0, <2>1 DEF Carry
<1>4. /\ phase' = "toBinary" /\ num1' = num1 /\ num2' = num2 /\ t1' = t1 /\ t2' = t2 /\ num' = num
      /\ n' = n /\ bits' = bits /\ e' = e /\ val' = val /\ junk' = junk
  BY DEF Numbers!AddRest, Numbers!binary
<1>5. /\ t1 \in Seq(0..9) /\ t2 \in Seq(0..9)
      /\ t1 = <<>> => num1 = num1 % w
      /\ t2 = <<>> => num2 = num2 % w
      /\ t1 # <<>> /\ Tail(t1) = <<>> => num1 = Head(t1) * w + (num1 % w)
      /\ t2 # <<>> /\ Tail(t2) = <<>> => num2 = Head(t2) * w + (num2 % w)
  BY <1>0, <1>1, <1>2, LastDigit
<1>6. ASSUME NEW d \in 0..10, l3' = <<d>> \o l3
      PROVE  /\ l3' \in Seq(0..10) /\ \A k \in 2..Len(l3') : l3'[k] <= 9
             /\ Value(10, l3') = d * w + Value(10, l3)
  <2>1. Value(10, <<d>> \o l3) = d * w + Value(10, l3)
    BY <1>0, ConsDigit DEF w
  <2>2. <<d>> \o l3 \in Seq(0..10) /\ \A k \in 2..Len(<<d>> \o l3) : (<<d>> \o l3)[k] <= 9
    BY <1>0, TopDigit
  <2> QED BY <1>6, <2>1, <2>2
<1>7. ASSUME NEW s \in Seq(0..9), s # <<>>
      PROVE  Head(s) \in 0..9 /\ (Len(s) <= 1 => Tail(s) = <<>>)
  BY <1>7
<1>8. /\ l3' \in Seq(0..10) /\ \A k \in 2..Len(l3') : l3'[k] <= 9
      /\ Len(t1) + Len(t2) <= 1 => Value(10, l3') = num1 + num2
  <2>1. CASE t1 # <<>> /\ l3' = <<Head(t1) + num \div 10>> \o l3
    <3> DEFINE h == Head(t1)
               d == h + Carry
    <3>1. h \in 0..9 /\ d \in 0..10 /\ l3' = <<d>> \o l3 /\ t2 = <<>>
      <4>1. h \in 0..9
        BY <2>1, <1>5, <1>7
      <4> HIDE DEF h
      <4>2. d \in 0..10
        BY <4>1, <1>3
      <4>3. t2 = <<>>
        BY <2>1 DEF Numbers!AddRest
      <4> QED BY <4>1, <4>2, <4>3, <2>1, <1>3 DEF h
    <3> HIDE DEF h
    <3>2. Value(10, l3') = (h + Carry) * w + Value(10, l3)
      <4> HIDE DEF d
      <4>1. Value(10, l3') = d * w + Value(10, l3)
        BY <3>1, <1>6
      <4> QED BY <4>1 DEF d
    <3>3. Len(t1) + Len(t2) <= 1 => num1 = h * w + (num1 % w) /\ num2 = num2 % w
      <4>1. Len(t2) = 0 /\ Len(t1) \in Nat
        BY <3>1, <1>5
      <4>2. Len(t1) + Len(t2) <= 1 => Tail(t1) = <<>>
        BY <4>1, <2>1, <1>5, <1>7
      <4> QED BY <4>2, <2>1, <3>1, <1>5 DEF h
    <3>4. Len(t1) + Len(t2) <= 1 => Value(10, l3') = num1 + num2
      <4> SUFFICES ASSUME Len(t1) + Len(t2) <= 1 PROVE Value(10, l3') = num1 + num2
        OBVIOUS
      <4> DEFINE vo == Value(10, l3)
                 m1 == num1 % w
                 m2 == num2 % w
      <4>1. m1 \in Int /\ m2 \in Int /\ h \in Int /\ Carry \in Int /\ vo \in Int
        BY <1>0, <1>1, <1>3, <3>1
      <4>2. Value(10, l3') = (h + Carry) * w + vo /\ vo + Carry * w = m1 + m2 /\ num1 = h * w + m1 /\ num2 = m2
        BY <1>2, <3>2, <3>3
      <4> HIDE DEF vo, m1, m2, d
      <4>3. (h + Carry) * w = h * w + Carry * w
        BY <1>1, <4>1
      <4> DEFINE hw == h * w
                 cw == Carry * w
      <4>4. hw \in Int /\ cw \in Int
        BY <1>1, <4>1
      <4> HIDE DEF hw, cw
      <4>5. Value(10, l3') = (hw + cw) + vo /\ vo + cw = m1 + m2 /\ num1 = hw + m1 /\ num2 = m2
        BY <4>2, <4>3 DEF hw, cw
      <4> QED BY <4>1, <4>4, <4>5
    <3> QED BY <3>1, <3>4, <1>6
  <2>2. CASE t1 = <<>> /\ t2 # <<>> /\ l3' = <<Head(t2) + num \div 10>> \o l3
    <3> DEFINE h == Head(t2)
               d == h + Carry
    <3>1. h \in 0..9 /\ d \in 0..10 /\ l3' = <<d>> \o l3
      <4>1. h \in 0..9
        BY <2>2, <1>5, <1>7
      <4> HIDE DEF h
      <4>2. d \in 0..10
        BY <4>1, <1>3
      <4> QED BY <4>1, <4>2, <2>2, <1>3 DEF h
    <3> HIDE DEF h
    <3>2. Value(10, l3') = (h + Carry) * w + Value(10, l3)
      <4> HIDE DEF d
      <4>1. Value(10, l3') = d * w + Value(10, l3)
        BY <3>1, <1>6
      <4> QED BY <4>1 DEF d
    <3>3. Len(t1) + Len(t2) <= 1 => num2 = h * w + (num2 % w) /\ num1 = num1 % w
      <4>1. Len(t1) = 0 /\ Len(t2) \in Nat
        BY <2>2, <1>5
      <4>2. Len(t1) + Len(t2) <= 1 => Tail(t2) = <<>>
        BY <4>1, <2>2, <1>5, <1>7
      <4> QED BY <4>2, <2>2, <3>1, <1>5 DEF h
    <3>4. Len(t1) + Len(t2) <= 1 => Value(10, l3') = num1 + num2
      <4> SUFFICES ASSUME Len(t1) + Len(t2) <= 1 PROVE Value(10, l3') = num1 + num2
        OBVIOUS
      <4> DEFINE vo == Value(10, l3)
                 m1 == num1 % w
                 m2 == num2 % w
      <4>1. m1 \in Int /\ m2 \in Int /\ h \in Int /\ Carry \in Int /\ vo \in Int
        BY <1>0, <1>1, <1>3, <3>1
      <4>2. Value(10, l3') = (h + Carry) * w + vo /\ vo + Carry * w = m1 + m2 /\ num2 = h * w + m2 /\ num1 = m1
        BY <1>2, <3>2, <3>3
      <4> HIDE DEF vo, m1, m2, d
      <4>3. (h + Carry) * w = h * w + Carry * w
        BY <1>1, <4>1
      <4> DEFINE hw == h * w
                 cw == Carry * w
      <4>4. hw \in Int /\ cw \in Int
        BY <1>1, <4>1
      <4> HIDE DEF hw, cw
      <4>5. Value(10, l3') = (hw + cw) + vo /\ vo + cw = m1 + m2 /\ num2 = hw + m2 /\ num1 = m1
        BY <4>2, <4>3 DEF hw, cw
      <4> QED BY <4>1, <4>4, <4>5
    <3> QED BY <3>1, <3>4, <1>6
  <2>3. CASE t1 = <<>> /\ t2 = <<>> /\ l3' = (IF num \div 10 # 0 THEN <<num \div 10>> \o l3 ELSE l3)
    <3>1. num1 = num1 % w /\ num2 = num2 % w
      BY <2>3, <1>5
    <3>2. CASE Carry = 0
      <4>1. l3' = l3
        BY <3>2, <2>3, <1>3
      <4>2. l3 \in Seq(0..10) /\ \A k \in 2..Len(l3) : l3[k] <= 9
        BY <1>0, TopDigit
      <4>3. 0 * w = 0
        BY <1>1
      <4>4. Value(10, l3) = num1 + num2
        BY <1>2, <1>3, <3>1, <3>2, <4>3
      <4> QED BY <4>1, <4>2, <4>4
    <3>3. CASE Carry = 1
      <4>1. l3' = <<1>> \o l3
        BY <3>3, <2>3, <1>3
      <4>2. Value(10, l3') = 1 * w + Value(10, l3) /\ l3' \in Seq(0..10) /\ \A k \in 2..Len(l3') : l3'[k] <= 9
        BY <4>1, <1>6
      <4>3. Value(10, l3') = num1 + num2
        BY <1>1, <1>2, <1>3, <3>1, <3>3, <4>2
      <4> QED BY <4>2, <4>3
    <3> QED BY <3>2, <3>3, <1>3
  <2> QED BY <2>1, <2>2, <2>3 DEF Numbers!AddRest
<1>9. Numbers!TypeOK'
  BY <1>4, <1>8 DEF NumbersInv, Numbers!TypeOK
<1>10. Numbers!SumOfSimilar'
  <2>1. l3' \in Seq(Int)
    <3>1. \A s \in Seq(0..10) : s \in Seq(Int)
      OBVIOUS
    <3> QED BY <3>1, <1>8
  <2>2. Numbers!Shown(l3') = Value(10, l3')
    BY <2>1, ShownIs
  <2>3. Numbers!Shown(l3)' = Numbers!Shown(l3')
    BY DEF Numbers!Shown, Numbers!FoldLeft, Numbers!MapThenFoldSet
  <2> QED BY <1>4, <1>8, <2>2, <2>3 DEF Numbers!SumOfSimilar
<1>11. ToBinaryInv'
  <2>1. Pow(2, Len(bits))' = 1 /\ Value(2, bits)' = 0 /\ n' = num1'
    <3>1. Len(bits)' = 0 /\ bits' = <<>>
      BY <1>2, <1>4
    <3>2. Pow(2, 0) = 1 /\ Value(2, <<>>) = 0
      BY PowerOf, ValueEmpty
    <3>3. Pow(2, Len(bits))' = Pow(2, Len(bits')) /\ Value(2, bits)' = Value(2, bits')
      BY DEF Pow, Numbers!Power, Value, FoldLeft, MapThenFoldSet
    <3> QED BY <3>1, <3>2, <3>3, <1>2, <1>4
  <2>2. n' * 1 + 0 = n'
    BY <1>0, <1>2, <1>4
  <2> QED BY <2>1, <2>2, <1>2, <1>4 DEF ToBinaryInv
<1>12. AddInv' /\ ToDecimalInv' /\ Numbers!RoundTrip'
  BY <1>4 DEF AddInv, ToDecimalInv, Numbers!RoundTrip
<1> QED BY <1>9, <1>10, <1>11, <1>12 DEF NumbersInv

(* Bits are numbers. *)
LEMMA BitLists ==
  /\ \A s \in Seq({0, 1}) : s \in Seq(Int) /\ Len(s) \in Nat
  /\ \A d \in {0, 1} : d \in Int
  OBVIOUS

(* Halving a number. *)
LEMMA Halves ==
  ASSUME NEW x \in Nat, x <= MaxNum, x # 0
  PROVE  x = 2 * (x \div 2) + (x % 2) /\ x % 2 \in {0, 1} /\ x \div 2 \in 0..MaxNum
BY NumbersAssumption

(* The lowest bit goes in front of the bits below it. *)
LEMMA NextBitKeeps ==
  ASSUME NumbersInv, Numbers!NextBit PROVE NumbersInv'
<1> DEFINE h == n \div 2
           d == n % 2
           w == Pow(2, Len(bits))
<1>1. /\ phase = "toBinary" /\ phase' = phase /\ n \in 0..MaxNum /\ n # 0
      /\ bits \in Seq({0, 1}) /\ bits' = <<d>> \o bits /\ n' = h
      /\ num1' = num1 /\ num2' = num2 /\ t1' = t1 /\ t2' = t2 /\ num' = num /\ l3' = l3
      /\ e' = e /\ val' = val /\ junk' = junk
      /\ num1 = n * w + Value(2, bits) /\ e = 0 /\ val = junk
  BY DEF NumbersInv, Numbers!TypeOK, Numbers!NextBit, Numbers!sum, ToBinaryInv
<1>2. n = 2 * h + d /\ d \in {0, 1} /\ h \in 0..MaxNum
  <2>1. n \in Nat /\ n <= MaxNum
    BY <1>1, NumbersAssumption
  <2> QED BY <1>1, <2>1, Halves
<1>3. /\ bits \in Seq(Int) /\ Len(bits) \in Nat /\ d \in Int /\ h \in Int
  BY <1>1, <1>2, BitLists, NumbersAssumption
<1> HIDE DEF h, d
<1>4. /\ w \in Nat /\ Pow(2, Len(bits) + 1) = 2 * w
  BY <1>3, PowerOf
<1>5. /\ Value(2, bits) \in Int /\ Len(<<d>> \o bits) = Len(bits) + 1
      /\ Value(2, <<d>> \o bits) = d * w + Value(2, bits)
  BY <1>3, ConsDigit
<1>6. <<d>> \o bits \in Seq({0, 1})
  BY <1>1, <1>2
<1> HIDE DEF w
<1>7. num1 = h * (2 * w) + (d * w + Value(2, bits))
  <2> DEFINE v == Value(2, bits)
  <2>1. v \in Int /\ num1 = (2 * h + d) * w + v
    BY <1>1, <1>2, <1>5
  <2> HIDE DEF v
  <2>2. (2 * h + d) * w = h * (2 * w) + d * w
    BY <1>3, <1>4
  <2> DEFINE hw == h * (2 * w)
             dw == d * w
  <2>3. hw \in Int /\ dw \in Int /\ num1 = (hw + dw) + v
    BY <1>3, <1>4, <2>1, <2>2
  <2> HIDE DEF hw, dw
  <2>4. num1 = hw + (dw + v)
    BY <2>1, <2>3
  <2> QED BY <2>4 DEF hw, dw, v
<1>8. Numbers!TypeOK'
  BY <1>1, <1>2, <1>6 DEF NumbersInv, Numbers!TypeOK
<1>9. ToBinaryInv'
  <2>1. Pow(2, Len(bits))' = Pow(2, Len(bits')) /\ Value(2, bits)' = Value(2, bits')
    BY DEF Pow, Numbers!Power, Value, FoldLeft, MapThenFoldSet
  <2>2. Pow(2, Len(bits')) = 2 * w /\ Value(2, bits') = d * w + Value(2, bits)
    BY <1>1, <1>4, <1>5
  <2> QED BY <1>1, <1>7, <2>1, <2>2 DEF ToBinaryInv
<1>10. AddInv' /\ ToDecimalInv' /\ Numbers!RoundTrip'
  BY <1>1 DEF AddInv, ToDecimalInv, Numbers!RoundTrip
<1>11. Numbers!SumOfSimilar'
  <2>1. Numbers!Shown(l3)' = Numbers!Shown(l3')
    BY DEF Numbers!Shown, Numbers!FoldLeft, Numbers!MapThenFoldSet
  <2> QED BY <1>1, <2>1 DEF NumbersInv, Numbers!SumOfSimilar
<1> QED BY <1>8, <1>9, <1>10, <1>11 DEF NumbersInv

(* What the reverse of a list is. *)
LEMMA Reversed ==
  ASSUME NEW S, NEW s \in Seq(S)
  PROVE  /\ Numbers!Reverse(s) = Reverse(s) /\ Reverse(s) \in Seq(S) /\ Len(Reverse(s)) = Len(s)
         /\ \A k \in 1..Len(s) : Reverse(s)[k] = s[Len(s) + 1 - k]
         /\ Reverse(Reverse(s)) = s
<1>1. /\ Reverse(s) \in Seq(S) /\ Len(Reverse(s)) = Len(s) /\ Len(s) \in Nat
      /\ \A k \in 1..Len(s) : Reverse(s)[k] = s[Len(s) + 1 - k]
  BY DEF Reverse
<1>2. /\ Reverse(Reverse(s)) \in Seq(S) /\ Len(Reverse(Reverse(s))) = Len(s)
      /\ \A k \in 1..Len(s) : Reverse(Reverse(s))[k] = Reverse(s)[Len(s) + 1 - k]
  BY <1>1 DEF Reverse
<1>3. \A k \in 1..Len(s) : Reverse(Reverse(s))[k] = s[k]
  <2> TAKE k \in 1..Len(s)
  <2>1. Len(s) + 1 - k \in 1..Len(s) /\ Len(s) + 1 - (Len(s) + 1 - k) = k
    BY <1>1
  <2> QED BY <1>1, <1>2, <2>1
<1>4. Reverse(Reverse(s)) = s
  BY <1>2, <1>3, SeqEqual
<1>5. Numbers!Reverse(s) = Reverse(s)
  BY DEF Reverse, Numbers!Reverse
<1> QED BY <1>1, <1>4, <1>5

(* The reversed list has the lowest bit in front. *)
LEMMA ReverseBitsKeeps ==
  ASSUME NumbersInv, Numbers!ReverseBits PROVE NumbersInv'
<1>1. /\ phase = "toBinary" /\ phase' = "toDecimal" /\ n = 0 /\ bits \in Seq({0, 1})
      /\ bits' = Numbers!Reverse(bits) /\ n' = n
      /\ num1' = num1 /\ num2' = num2 /\ t1' = t1 /\ t2' = t2 /\ num' = num /\ l3' = l3
      /\ e' = e /\ val' = val /\ junk' = junk
      /\ num1 = n * Pow(2, Len(bits)) + Value(2, bits) /\ e = 0 /\ val = junk /\ junk \in Garbage
  BY DEF NumbersInv, Numbers!TypeOK, Numbers!ReverseBits, Numbers!sum, ToBinaryInv
<1>2. bits' = Reverse(bits) /\ bits' \in Seq({0, 1}) /\ Reverse(bits') = bits /\ Len(bits') = Len(bits)
  BY <1>1, Reversed
<1>3. Len(bits) \in Nat /\ junk \in Int /\ Value(2, bits) \in Int /\ bits \in Seq(Int)
  BY <1>1, BitLists, NumbersAssumption, ValueAppend
<1>4. Pow(2, 0) = 1 /\ Pow(2, Len(bits)) \in Nat
  BY <1>3, PowerOf
<1>5. num1 = Value(2, bits)
  BY <1>1, <1>3, <1>4
<1>6. Numbers!TypeOK'
  BY <1>1, <1>2 DEF NumbersInv, Numbers!TypeOK
<1>7. SubSeq(Reverse(bits'), 1, Len(bits') - 0) = bits
  <2>1. SubSeq(bits, 1, Len(bits)) = bits
    BY <1>3
  <2> QED BY <1>2, <1>3, <2>1
<1>8. ToDecimalInv'
  <2>1. Upper' = SubSeq(Reverse(bits'), 1, Len(bits') - e')
    BY DEF Upper, Reverse
  <2>2. Upper' = bits
    BY <1>1, <1>7, <2>1
  <2>3. Pow(2, e)' = Pow(2, e') /\ Value(2, Upper)' = Value(2, Upper')
    BY DEF Pow, Numbers!Power, Value, FoldLeft, MapThenFoldSet
  <2>4. num1 = (junk - junk) + 1 * Value(2, bits)
    BY <1>3, <1>5
  <2> QED BY <1>1, <1>2, <1>3, <1>4, <2>2, <2>3, <2>4 DEF ToDecimalInv
<1>9. AddInv' /\ ToBinaryInv' /\ Numbers!RoundTrip'
  BY <1>1 DEF AddInv, ToBinaryInv, Numbers!RoundTrip
<1>10. Numbers!SumOfSimilar'
  <2>1. Numbers!Shown(l3)' = Numbers!Shown(l3')
    BY DEF Numbers!Shown, Numbers!FoldLeft, Numbers!MapThenFoldSet
  <2> QED BY <1>1, <2>1 DEF NumbersInv, Numbers!SumOfSimilar
<1> QED BY <1>6, <1>8, <1>9, <1>10 DEF NumbersInv

(* One bit goes from the upper ones to val. *)
LEMMA AddBitKeeps ==
  ASSUME NumbersInv, Numbers!AddBit PROVE NumbersInv'
<1> DEFINE d == bits[e + 1]
           w == Pow(2, e)
           s == Reverse(bits)
           u == SubSeq(s, 1, Len(bits) - (e + 1))
<1>1. /\ phase = "toDecimal" /\ phase' = phase /\ bits \in Seq({0, 1}) /\ e \in Nat /\ e < Len(bits)
      /\ e' = e + 1 /\ val' = val + d * w /\ val \in Int
      /\ bits' = bits /\ n' = n /\ num1 \in 1..MaxNum
      /\ num1' = num1 /\ num2' = num2 /\ t1' = t1 /\ t2' = t2 /\ num' = num /\ l3' = l3
      /\ junk' = junk /\ junk \in Garbage
      /\ num1 = (val - junk) + w * Value(2, Upper)
  BY DEF NumbersInv, Numbers!TypeOK, Numbers!AddBit, Numbers!sum, ToDecimalInv, Pow
<1>2. Len(bits) \in Nat /\ junk \in Int /\ num1 \in Int /\ bits \in Seq(Int)
  BY <1>1, BitLists, NumbersAssumption
<1>3. /\ s \in Seq({0, 1}) /\ Len(s) = Len(bits)
      /\ \A k \in 1..Len(bits) : s[k] = bits[Len(bits) + 1 - k]
  BY <1>1, Reversed
<1>4. d \in {0, 1} /\ w \in Nat /\ Pow(2, e + 1) = 2 * w
  <2>1. e + 1 \in 1..Len(bits)
    BY <1>1, <1>2
  <2>2. d \in {0, 1}
    BY <1>1, <2>1
  <2> QED BY <1>1, <2>2, PowerOf
<1> HIDE DEF s
<1>5. u \in Seq({0, 1}) /\ Upper = Append(u, d)
  <2> DEFINE m == Len(bits) - e
             t == SubSeq(s, 1, m)
  <2>1. m \in Nat /\ m > 0 /\ m <= Len(s) /\ m \in 1..Len(bits) /\ Len(bits) + 1 - m = e + 1
    BY <1>1, <1>2, <1>3, SMTT(30)
  <2>2. s[m] = d
    BY <1>3, <2>1
  <2>3. Len(bits) - (e + 1) = m - 1
    BY <1>1, <1>2
  <2> HIDE DEF m
  <2>4. /\ t \in Seq({0, 1}) /\ Len(t) = m /\ \A k \in 1..m : t[k] = s[k]
    <3>1. m \in Int /\ \A k \in 1..m : s[k] \in {0, 1}
      BY <1>3, <2>1
    <3>2. /\ SubSeq(s, 1, m) \in Seq({0, 1}) /\ Len(SubSeq(s, 1, m)) = (IF 1 <= m THEN m - 1 + 1 ELSE 0)
          /\ \A k \in 1..(m - 1 + 1) : SubSeq(s, 1, m)[k] = s[1 + k - 1]
      BY <3>1, SubSeqProperties
    <3> QED BY <2>1, <3>1, <3>2
  <2>5. /\ SubSeq(s, 1, m - 1) \in Seq({0, 1}) /\ Len(SubSeq(s, 1, m - 1)) = m - 1
        /\ \A k \in 1..(m - 1) : SubSeq(s, 1, m - 1)[k] = s[k]
    <3> DEFINE c == m - 1
    <3>1. c \in Int /\ c >= 0 /\ \A k \in 1..c : s[k] \in {0, 1}
      BY <1>3, <2>1
    <3> HIDE DEF c
    <3>2. /\ SubSeq(s, 1, c) \in Seq({0, 1}) /\ Len(SubSeq(s, 1, c)) = (IF 1 <= c THEN c - 1 + 1 ELSE 0)
          /\ \A k \in 1..(c - 1 + 1) : SubSeq(s, 1, c)[k] = s[1 + k - 1]
      BY <3>1, SubSeqProperties
    <3>3. /\ SubSeq(s, 1, c) \in Seq({0, 1}) /\ Len(SubSeq(s, 1, c)) = c
          /\ \A k \in 1..c : SubSeq(s, 1, c)[k] = s[k]
      BY <3>1, <3>2
    <3> QED BY <3>3 DEF c
  <2> DEFINE v == SubSeq(s, 1, m - 1)
  <2> HIDE DEF v, t
  <2>6. t = Append(v, d)
    <3>1. v \in Seq({0, 1}) /\ Len(v) = m - 1 /\ \A k \in 1..(m - 1) : v[k] = s[k]
      BY <2>5 DEF v
    <3>2. /\ Append(v, d) \in Seq({0, 1}) /\ Len(Append(v, d)) = m
          /\ \A k \in 1..m : Append(v, d)[k] = s[k]
      BY <3>1, <1>4, <2>1, <2>2
    <3> QED BY <2>4, <3>2, SeqEqual
  <2>7. Upper = t
    BY DEF Upper, t, m, s
  <2>8. u = v
    BY <2>3 DEF v
  <2> QED BY <2>5, <2>6, <2>7, <2>8 DEF v
<1>6. Upper' = u
  <2>1. Upper' = SubSeq(Reverse(bits'), 1, Len(bits') - e')
    BY DEF Upper, Reverse
  <2> QED BY <1>1, <2>1 DEF s
<1> HIDE DEF u, d, w
<1>7. /\ Value(2, u) \in Int /\ Value(2, Upper) = 2 * Value(2, u) + d /\ d \in Int
  <2>1. u \in Seq(Int) /\ d \in Int
    BY <1>4, <1>5, BitLists
  <2> QED BY <1>5, <2>1, ValueAppend
<1>8. num1 = ((val + d * w) - junk) + (2 * w) * Value(2, u)
  <2> DEFINE x == Value(2, u)
             wx == (2 * w) * x
             dw == d * w
  <2>1. x \in Int /\ num1 = (val - junk) + w * (2 * x + d)
    BY <1>1, <1>7
  <2> HIDE DEF x
  <2>2. w * (2 * x + d) = wx + dw /\ wx \in Int /\ dw \in Int
    BY <1>4, <1>7, <2>1
  <2> HIDE DEF wx, dw
  <2>3. num1 = ((val + dw) - junk) + wx
    BY <1>1, <1>2, <2>1, <2>2
  <2> QED BY <2>3 DEF wx, dw, x
<1>9. Numbers!TypeOK'
  <2>1. val' \in Int /\ e' \in Nat
    BY <1>1, <1>4, <1>7
  <2> QED BY <1>1, <2>1 DEF NumbersInv, Numbers!TypeOK
<1>10. ToDecimalInv'
  <2>1. Pow(2, e)' = Pow(2, e') /\ Value(2, Upper)' = Value(2, Upper')
    BY DEF Pow, Numbers!Power, Value, FoldLeft, MapThenFoldSet
  <2>2. Pow(2, e') = 2 * w /\ Value(2, Upper') = Value(2, u)
    BY <1>1, <1>4, <1>6
  <2>3. e' <= Len(bits')
    BY <1>1, <1>2
  <2> QED BY <1>1, <1>8, <2>1, <2>2, <2>3 DEF ToDecimalInv
<1>11. AddInv' /\ ToBinaryInv' /\ Numbers!RoundTrip'
  BY <1>1 DEF AddInv, ToBinaryInv, Numbers!RoundTrip
<1>12. Numbers!SumOfSimilar'
  <2>1. Numbers!Shown(l3)' = Numbers!Shown(l3')
    BY DEF Numbers!Shown, Numbers!FoldLeft, Numbers!MapThenFoldSet
  <2> QED BY <1>1, <2>1 DEF NumbersInv, Numbers!SumOfSimilar
<1> QED BY <1>9, <1>10, <1>11, <1>12 DEF NumbersInv

(* When no bit is left, val has the number. *)
LEMMA FinishKeeps ==
  ASSUME NumbersInv, Numbers!Finish PROVE NumbersInv'
<1>1. /\ phase = "toDecimal" /\ phase' = "done" /\ bits \in Seq({0, 1}) /\ e = Len(bits)
      /\ e' = e /\ val' = val /\ val \in Int /\ bits' = bits /\ n' = n
      /\ num1' = num1 /\ num2' = num2 /\ t1' = t1 /\ t2' = t2 /\ num' = num /\ l3' = l3
      /\ junk' = junk /\ junk \in Garbage
      /\ num1 = (val - junk) + Pow(2, e) * Value(2, Upper)
  BY DEF NumbersInv, Numbers!TypeOK, Numbers!Finish, Numbers!sum, Numbers!binary, ToDecimalInv
<1>2. Len(bits) \in Nat /\ junk \in Int /\ Len(bits) - e = 0 /\ Reverse(bits) \in Seq({0, 1})
  BY <1>1, BitLists, NumbersAssumption, Reversed
<1>3. Upper = <<>>
  BY <1>2 DEF Upper
<1>4. Value(2, Upper) = 0 /\ Pow(2, e) \in Nat
  BY <1>1, <1>2, <1>3, ValueEmpty, PowerOf
<1>5. num1 = val - junk
  BY <1>1, <1>2, <1>4
<1>6. val = num1 + junk
  BY <1>1, <1>2, <1>5
<1>7. Numbers!TypeOK' /\ Numbers!RoundTrip'
  BY <1>1, <1>6 DEF NumbersInv, Numbers!TypeOK, Numbers!RoundTrip
<1>8. AddInv' /\ ToBinaryInv' /\ ToDecimalInv'
  BY <1>1 DEF AddInv, ToBinaryInv, ToDecimalInv
<1>9. Numbers!SumOfSimilar'
  <2>1. Numbers!Shown(l3)' = Numbers!Shown(l3')
    BY DEF Numbers!Shown, Numbers!FoldLeft, Numbers!MapThenFoldSet
  <2> QED BY <1>1, <2>1 DEF NumbersInv, Numbers!SumOfSimilar
<1> QED BY <1>7, <1>8, <1>9 DEF NumbersInv

(* The other programs leave these lists alone. *)
LEMMA NumbersUnchanged ==
  ASSUME NumbersInv, UNCHANGED numberVars PROVE NumbersInv'
<1>1. Numbers!Shown(l3)' = Numbers!Shown(l3') /\ l3' = l3
  BY DEF Numbers!Shown, Numbers!FoldLeft, Numbers!MapThenFoldSet, numberVars
<1>2. /\ \A b, k : Pow(b, k)' = Pow(b, k)
  BY DEF Pow, Numbers!Power
<1> QED BY <1>1, <1>2 DEF NumbersInv, AddInv, ToBinaryInv, ToDecimalInv, Upper, Carry,
      Numbers!TypeOK, Numbers!SumOfSimilar, Numbers!RoundTrip, numberVars

(* The invariant of getSum's loop follows. *)
LEMMA PartialSumOf == NumbersInv => Numbers!PartialSum
<1> SUFFICES ASSUME NumbersInv, phase = "add"
             PROVE  Numbers!Shown(l3) + (num \div 10) * Pow(10, Len(l3))
                      = (num1 % Pow(10, Len(l3))) + (num2 % Pow(10, Len(l3)))
  BY DEF Numbers!PartialSum, Pow
<1>1. l3 \in Seq(0..9)
  BY DEF NumbersInv, AddInv
<1>2. Numbers!Shown(l3) = Value(10, l3)
  BY <1>1, DigitLists, ShownIs
<1> QED BY <1>2 DEF NumbersInv, AddInv, Carry

(* The arithmetic on lists is right: TypeOK, PartialSum, SumOfSimilar and
   RoundTrip of ListNumbers. *)
THEOREM NumbersAlwaysRight == MCSpec => []NumbersRight
<1>1. MCInit => NumbersInv
  BY NumbersInit DEF MCInit
<1>2. NumbersInv /\ [MCNext]_<<part, vars, numberVars, linkVars>> => NumbersInv'
  <2> SUFFICES ASSUME NumbersInv, [MCNext]_<<part, vars, numberVars, linkVars>>
               PROVE  NumbersInv'
    OBVIOUS
  <2>1. CASE Numbers!Next
    BY <2>1, AddDigitsKeeps, AddRestKeeps, NextBitKeeps, ReverseBitsKeeps, AddBitKeeps, FinishKeeps
       DEF Numbers!Next
  <2>2. CASE UNCHANGED numberVars
    BY <2>2, NumbersUnchanged
  <2> QED BY <2>1, <2>2 DEF MCNext
<1>3. NumbersInv => NumbersRight
  BY PartialSumOf DEF NumbersInv, NumbersRight, Numbers!NumbersRight
<1> QED BY <1>1, <1>2, <1>3, PTL DEF MCSpec

-----------------------------------------------------------------------------
(* The types, order and misused included. *)
LinkTypes ==
  /\ start \in [Starts -> Nodes \cup {NULL}]
  /\ before \in [Nodes -> Nodes \cup {NULL}] /\ behind \in [Nodes -> Nodes \cup {NULL}]
  /\ order \in [Starts -> Seq(Nodes)] /\ owner \in [Nodes -> Starts \cup {NULL}]
  /\ misused \in BOOLEAN

(* A node is at most once in one list. *)
Once ==
  \A l, m \in Starts : \A j \in 1..Len(order[l]), k \in 1..Len(order[m]) :
    order[l][j] = order[m][k] => l = m /\ j = k

(* A node that should be in a list is. *)
Listed ==
  \A x \in Nodes : owner[x] # NULL =>
    \E k \in 1..Len(order[owner[x]]) : order[owner[x]][k] = x

(* The lists are listed once whatever is called; what they say of the pointers holds
   up to the first misuse. *)
LinksInv == LinkTypes /\ Once /\ (misused \/ (Links!Linked /\ Links!Ordered /\ Listed))

(* The elements of a sequence without its k-th. *)
LEMMA RemoveAtIs ==
  ASSUME NEW S, NEW s \in Seq(S), NEW k \in 1..Len(s)
  PROVE  /\ Links!RemoveAt(s, k) \in Seq(S)
         /\ Len(Links!RemoveAt(s, k)) = Len(s) - 1
         /\ \A j \in 1..(Len(s) - 1) : Links!RemoveAt(s, k)[j] = IF j < k THEN s[j] ELSE s[j + 1]
<1> DEFINE a == SubSeq(s, 1, k - 1)
           b == SubSeq(s, k + 1, Len(s))
<1>1. Len(s) \in Nat /\ \A j \in 1..Len(s) : s[j] \in S
  OBVIOUS
<1>2. /\ a \in Seq(S) /\ Len(a) = k - 1
      /\ \A j \in 1..(k - 1) : a[j] = s[j]
  <2>1. \A j \in 1..(k - 1) : s[j] \in S
    BY <1>1
  <2>2. 1 \in Int /\ k - 1 \in Int
    BY <1>1
  <2> QED
    BY <1>1, <2>1, <2>2, SubSeqProperties
<1>3. /\ b \in Seq(S) /\ Len(b) = Len(s) - k
      /\ \A j \in 1..(Len(s) - k) : b[j] = s[k + j]
  <2>1. \A j \in (k + 1)..Len(s) : s[j] \in S
    BY <1>1
  <2>2. k + 1 \in Int /\ Len(s) \in Int
    BY <1>1
  <2> QED
    BY <1>1, <2>1, <2>2, SubSeqProperties
<1> HIDE DEF a, b
<1>4. /\ a \o b \in Seq(S) /\ Len(a \o b) = Len(a) + Len(b)
      /\ \A j \in 1..(Len(a) + Len(b)) : (a \o b)[j] = IF j <= Len(a) THEN a[j] ELSE b[j - Len(a)]
  BY <1>2, <1>3, ConcatProperties
<1>5. Links!RemoveAt(s, k) = a \o b
  BY DEF Links!RemoveAt, a, b
<1>6. Len(a \o b) = Len(s) - 1
  BY <1>1, <1>2, <1>3, <1>4
<1>7. ASSUME NEW j \in 1..(Len(s) - 1)
      PROVE  (a \o b)[j] = IF j < k THEN s[j] ELSE s[j + 1]
  <2>1. CASE j < k
    BY <2>1, <1>1, <1>2, <1>3, <1>4
  <2>2. CASE ~(j < k)
    <3>1. j - (k - 1) \in 1..(Len(s) - k) /\ k + (j - (k - 1)) = j + 1
      BY <2>2, <1>1
    <3>2. (a \o b)[j] = b[j - (k - 1)]
      BY <2>2, <1>1, <1>2, <1>3, <1>4
    <3> QED
      BY <2>2, <3>1, <3>2, <1>3
  <2> QED
    BY <2>1, <2>2
<1> QED
  BY <1>4, <1>5, <1>6, <1>7

(* Removing the first of an element that occurs once is removing it. *)
LEMMA RemoveFirstIs ==
  ASSUME NEW S, NEW s \in Seq(S), NEW k \in 1..Len(s),
         \A j \in 1..Len(s) : s[j] = s[k] => j = k
  PROVE  Links!RemoveFirst(s, s[k]) = Links!RemoveAt(s, k)
<1>1. {j \in 1..Len(s) : s[j] = s[k]} = {k}
  OBVIOUS
<1>2. (CHOOSE x \in {k} : \A y \in {k} : x <= y) = k
  OBVIOUS
<1>3. Links!SelectInSeq(s, LAMBDA v : v = s[k]) = k
  BY <1>1, <1>2 DEF Links!SelectInSeq, Links!Min
<1>4. \E g \in 1..Len(s) : s[g] = s[k]
  OBVIOUS
<1> QED
  BY <1>3, <1>4 DEF Links!RemoveFirst

(* What Without leaves of the lists: the one with the node is a node shorter. *)
LEMMA WithoutIs ==
  ASSUME LinkTypes, Once, NEW node \in Nodes
  PROVE  /\ Links!Without(node) \in [Starts -> Seq(Nodes)]
         /\ \A l \in Starts :
              \/ (\A k \in 1..Len(order[l]) : order[l][k] # node) /\ Links!Without(node)[l] = order[l]
              \/ \E k \in 1..Len(order[l]) :
                   /\ order[l][k] = node
                   /\ Len(Links!Without(node)[l]) = Len(order[l]) - 1
                   /\ \A j \in 1..(Len(order[l]) - 1) :
                        Links!Without(node)[l][j] = IF j < k THEN order[l][j] ELSE order[l][j + 1]
<1>1. ASSUME NEW l \in Starts
      PROVE  /\ Links!Without(node)[l] \in Seq(Nodes)
             /\ \/ (\A k \in 1..Len(order[l]) : order[l][k] # node) /\ Links!Without(node)[l] = order[l]
                \/ \E k \in 1..Len(order[l]) :
                     /\ order[l][k] = node
                     /\ Len(Links!Without(node)[l]) = Len(order[l]) - 1
                     /\ \A j \in 1..(Len(order[l]) - 1) :
                          Links!Without(node)[l][j] = IF j < k THEN order[l][j] ELSE order[l][j + 1]
  <2> DEFINE s == order[l]
  <2>1. s \in Seq(Nodes)
    BY DEF LinkTypes
  <2>2. Links!Without(node)[l] = Links!RemoveFirst(s, node)
    BY DEF Links!Without
  <2>3. CASE \A k \in 1..Len(s) : s[k] # node
    <3>1. Links!RemoveFirst(s, node) = s
      BY <2>3 DEF Links!RemoveFirst
    <3> QED
      BY <2>1, <2>2, <2>3, <3>1
  <2>4. ASSUME NEW k \in 1..Len(s), s[k] = node
        PROVE  /\ Links!Without(node)[l] \in Seq(Nodes)
               /\ Len(Links!Without(node)[l]) = Len(s) - 1
               /\ \A j \in 1..(Len(s) - 1) :
                    Links!Without(node)[l][j] = IF j < k THEN s[j] ELSE s[j + 1]
    <3>1. \A j \in 1..Len(s) : s[j] = s[k] => j = k
      BY DEF Once
    <3> HIDE DEF s
    <3>2. Links!RemoveFirst(s, s[k]) = Links!RemoveAt(s, k)
      BY <2>1, <3>1, RemoveFirstIs
    <3>3. /\ Links!RemoveAt(s, k) \in Seq(Nodes)
          /\ Len(Links!RemoveAt(s, k)) = Len(s) - 1
          /\ \A j \in 1..(Len(s) - 1) : Links!RemoveAt(s, k)[j] = IF j < k THEN s[j] ELSE s[j + 1]
      BY <2>1, RemoveAtIs
    <3> QED
      BY <2>2, <2>4, <3>2, <3>3
  <2> QED
    BY <2>3, <2>4
<1>2. Links!Without(node) = [l \in Starts |-> Links!Without(node)[l]]
  BY DEF Links!Without
<1>3. \A l \in Starts : Links!Without(node)[l] \in Seq(Nodes)
  BY <1>1
<1>4. Links!Without(node) \in [Starts -> Seq(Nodes)]
  BY <1>2, <1>3
<1> QED
  BY <1>1, <1>4

(* What is left is still listed once, without the node. *)
LEMMA WithoutKeepsOnce ==
  ASSUME LinkTypes, Once, NEW node \in Nodes
  PROVE  \A l, m \in Starts : \A j \in 1..Len(Links!Without(node)[l]), k \in 1..Len(Links!Without(node)[m]) :
           /\ Links!Without(node)[l][j] # node
           /\ Links!Without(node)[l][j] = Links!Without(node)[m][k] => l = m /\ j = k
<1> DEFINE w == Links!Without(node)
           Place(c, j) == IF j < c THEN j ELSE j + 1
<1>1. ASSUME NEW l \in Starts
      PROVE  \E c \in Nat : \A j \in 1..Len(w[l]) :
               /\ Place(c, j) \in 1..Len(order[l])
               /\ w[l][j] = order[l][Place(c, j)] /\ w[l][j] # node
  <2>1. order[l] \in Seq(Nodes) /\ Len(order[l]) \in Nat
    BY DEF LinkTypes
  <2>2. CASE (\A k \in 1..Len(order[l]) : order[l][k] # node) /\ w[l] = order[l]
    <3>1. \A j \in 1..Len(w[l]) : Place(Len(order[l]) + 1, j) = j
      BY <2>1, <2>2
    <3>2. \A j \in 1..Len(w[l]) :
            /\ Place(Len(order[l]) + 1, j) \in 1..Len(order[l])
            /\ w[l][j] = order[l][Place(Len(order[l]) + 1, j)] /\ w[l][j] # node
      BY <2>2, <3>1
    <3>3. Len(order[l]) + 1 \in Nat
      BY <2>1
    <3> HIDE DEF w, Place
    <3> QED
      BY <3>2, <3>3
  <2>3. CASE ~((\A k \in 1..Len(order[l]) : order[l][k] # node) /\ w[l] = order[l])
    <3>1. PICK k \in 1..Len(order[l]) :
            /\ order[l][k] = node
            /\ Len(w[l]) = Len(order[l]) - 1
            /\ \A g \in 1..(Len(order[l]) - 1) :
                 w[l][g] = IF g < k THEN order[l][g] ELSE order[l][g + 1]
      BY <2>3, WithoutIs
    <3>2. \A g \in 1..Len(order[l]) : order[l][g] = node => g = k
      BY <3>1 DEF Once
    <3> HIDE DEF w
    <3>3. \A j \in 1..Len(w[l]) : Place(k, j) \in 1..Len(order[l]) /\ Place(k, j) # k
      BY <2>1, <3>1
    <3>4. \A j \in 1..Len(w[l]) : w[l][j] = order[l][Place(k, j)]
      BY <2>1, <3>1
    <3>5. k \in Nat
      BY <2>1
    <3> HIDE DEF Place
    <3> QED
      BY <3>2, <3>3, <3>4, <3>5
  <2> QED
    BY <2>2, <2>3
<1> HIDE DEF w
<1>2. ASSUME NEW l \in Starts, NEW m \in Starts,
             NEW j \in 1..Len(w[l]), NEW k \in 1..Len(w[m]), w[l][j] = w[m][k]
      PROVE  l = m /\ j = k
  <2>1. PICK c \in Nat : \A g \in 1..Len(w[l]) :
               /\ Place(c, g) \in 1..Len(order[l])
               /\ w[l][g] = order[l][Place(c, g)] /\ w[l][g] # node
    BY <1>1
  <2>2. PICK d \in Nat : \A g \in 1..Len(w[m]) :
               /\ Place(d, g) \in 1..Len(order[m])
               /\ w[m][g] = order[m][Place(d, g)] /\ w[m][g] # node
    BY <1>1
  <2> HIDE DEF Place
  <2>3. l = m
    <3>1. order[l][Place(c, j)] = order[m][Place(d, k)]
      BY <1>2, <2>1, <2>2
    <3>2. Place(c, j) \in 1..Len(order[l]) /\ Place(d, k) \in 1..Len(order[m])
      BY <2>1, <2>2
    <3> QED
      BY <3>1, <3>2 DEF Once
  <2>4. Place(c, j) = Place(c, k)
    BY <1>2, <2>1, <2>3, SMTT(30) DEF Once
  <2>5. j = k
    BY <2>4 DEF Place
  <2> QED
    BY <2>3, <2>5
<1>3. \A l \in Starts : \A j \in 1..Len(w[l]) : w[l][j] # node
  BY <1>1
<1> QED
  BY <1>2, <1>3 DEF w

(* A node that the test takes for one in no list is in none, if it is used right. *)
LEMMA InsertKeeps ==
  ASSUME NULL \notin Nodes, NULL \notin Starts, LinksInv,
         NEW l \in Starts, NEW node \in Nodes, Links!DLinkInsert(l, node)
  PROVE  LinksInv'
<1>1. /\ Links!Without(node) \in [Starts -> Seq(Nodes)]
      /\ order' \in [Starts -> Seq(Nodes)]
      /\ \A m \in Starts \ {l} : order'[m] = Links!Without(node)[m]
      /\ Len(order'[l]) = Len(Links!Without(node)[l]) + 1
      /\ Len(Links!Without(node)[l]) \in Nat
      /\ \A j \in 1..Len(order'[l]) : order'[l][j] = IF j = 1 THEN node ELSE Links!Without(node)[l][j - 1]
  <2>1. Links!Without(node) \in [Starts -> Seq(Nodes)]
    BY WithoutIs DEF LinksInv
  <2>2. order' = [Links!Without(node) EXCEPT ![l] = <<node>> \o @]
    BY DEF Links!DLinkInsert
  <2>3. <<node>> \in Seq(Nodes) /\ Len(<<node>>) = 1 /\ <<node>>[1] = node /\ Links!Without(node)[l] \in Seq(Nodes)
    BY <2>1
  <2>4. /\ <<node>> \o Links!Without(node)[l] \in Seq(Nodes)
        /\ Len(<<node>> \o Links!Without(node)[l]) = Len(<<node>>) + Len(Links!Without(node)[l])
        /\ \A j \in 1..(Len(<<node>>) + Len(Links!Without(node)[l])) :
             (<<node>> \o Links!Without(node)[l])[j] =
               IF j <= Len(<<node>>) THEN <<node>>[j] ELSE Links!Without(node)[l][j - Len(<<node>>)]
    BY <2>3, ConcatProperties
  <2>5. Len(Links!Without(node)[l]) \in Nat
    BY <2>3
  <2> HIDE DEF Links!Without
  <2>6. order'[l] = <<node>> \o Links!Without(node)[l]
    BY <2>1, <2>2
  <2>7. order' \in [Starts -> Seq(Nodes)] /\ \A m \in Starts \ {l} : order'[m] = Links!Without(node)[m]
    BY <2>1, <2>2, <2>4
  <2> QED
    BY <2>1, <2>3, <2>4, <2>5, <2>6, <2>7
<1>2. LinkTypes'
  BY <1>1 DEF LinksInv, LinkTypes, Links!DLinkInsert
<1>3. Once'
  <2>1. /\ \A k \in Starts : \A g \in 1..Len(Links!Without(node)[k]) : Links!Without(node)[k][g] # node
        /\ \A k, m \in Starts : \A g \in 1..Len(Links!Without(node)[k]), j \in 1..Len(Links!Without(node)[m]) :
             Links!Without(node)[k][g] = Links!Without(node)[m][j] => k = m /\ g = j
    BY WithoutKeepsOnce DEF LinksInv
  <2>2. ASSUME NEW k \in Starts, NEW j \in 1..Len(order'[k])
        PROVE  \/ k = l /\ j = 1 /\ order'[k][j] = node
               \/ k = l /\ j - 1 \in 1..Len(Links!Without(node)[k]) /\ order'[k][j] = Links!Without(node)[k][j - 1]
               \/ k # l /\ j \in 1..Len(Links!Without(node)[k]) /\ order'[k][j] = Links!Without(node)[k][j]
    BY <1>1
  <2> HIDE DEF Links!Without
  <2>3. ASSUME NEW k \in Starts, NEW m \in Starts,
               NEW g \in 1..Len(order'[k]), NEW j \in 1..Len(order'[m]),
               order'[k][g] = order'[m][j]
        PROVE  k = m /\ g = j
    <3> DEFINE v == Links!Without(node)[k]
               w == Links!Without(node)[m]
    <3>a. /\ \A a \in 1..Len(v) : v[a] # node
          /\ \A b \in 1..Len(w) : w[b] # node
          /\ \A a \in 1..Len(v), b \in 1..Len(w) : v[a] = w[b] => k = m /\ a = b
      BY <2>1
    <3>b. \/ m = l /\ j = 1 /\ order'[m][j] = node
          \/ m = l /\ j - 1 \in 1..Len(w) /\ order'[m][j] = w[j - 1]
          \/ m # l /\ j \in 1..Len(w) /\ order'[m][j] = w[j]
      BY <2>2
    <3>c. \/ k = l /\ g = 1 /\ order'[k][g] = node
          \/ k = l /\ g - 1 \in 1..Len(v) /\ order'[k][g] = v[g - 1]
          \/ k # l /\ g \in 1..Len(v) /\ order'[k][g] = v[g]
      BY <2>2
    <3> HIDE DEF v, w
    <3> QED
      BY <2>3, <3>a, <3>b, <3>c
  <2> QED
    BY <2>3 DEF Once
<1>4. ASSUME ~misused' PROVE (Links!Linked /\ Links!Ordered /\ Listed)'
  <2>1. Links!Linked /\ Links!Ordered /\ Listed /\ owner[node] = NULL /\ before[node] = NULL /\ behind[node] = NULL
    BY <1>4 DEF LinksInv, Links!DLinkInsert, Links!InList
  <2>2. \A k \in Nodes : start[l] # node /\ behind[k] # node /\ before[k] # node
    <3>1. start[l] # node
      BY DEF Links!DLinkInsert, Links!InList
    <3>2. \A k \in Nodes : behind[k] # node /\ before[k] # node
      BY <2>1 DEF LinksInv, LinkTypes, Links!Linked
    <3> QED
      BY <3>1, <3>2
  <2>3. Links!Linked'
    BY <2>1, <2>2 DEF LinksInv, LinkTypes, Links!Linked, Links!DLinkInsert
  <2>4. \A m \in Starts : Len(order[m]) \in Nat /\ \A k \in 1..Len(order[m]) : order[m][k] # node /\ order[m][k] \in Nodes /\ owner[order[m][k]] = m
    BY <2>1 DEF Links!Ordered, LinksInv, LinkTypes
  <2>5. \A m \in Starts : Links!Without(node)[m] = order[m]
    <3> TAKE m \in Starts
    <3>1. \A k \in 1..Len(order[m]) : order[m][k] # node
      BY <2>4
    <3>2. \/ Links!Without(node)[m] = order[m]
          \/ \E k \in 1..Len(order[m]) : order[m][k] = node
      BY WithoutIs DEF LinksInv
    <3> QED
      BY <3>1, <3>2
  <2>6. Links!Ordered'
    <3>1. ASSUME NEW m \in Starts, m # l
          PROVE  /\ start'[m] = IF order'[m] = <<>> THEN NULL ELSE order'[m][1]
                 /\ \A k \in DOMAIN order'[m] :
                      /\ owner'[order'[m][k]] = m
                      /\ behind'[order'[m][k]] = IF k = Len(order'[m]) THEN NULL ELSE order'[m][k + 1]
                      /\ before'[order'[m][k]] = IF k = 1 THEN NULL ELSE order'[m][k - 1]
      <4>1. order'[m] = order[m] /\ start'[m] = start[m]
        BY <1>1, <2>5, <3>1 DEF Links!DLinkInsert, LinksInv, LinkTypes
      <4>2. \A k \in 1..Len(order[m]) : order[m][k] # start[l]
        BY <2>1, <2>4, <3>1 DEF Links!Linked
      <4> QED
        BY <2>1, <2>4, <4>1, <4>2 DEF Links!Ordered, LinksInv, LinkTypes, Links!DLinkInsert
    <3>2. /\ start'[l] = order'[l][1] /\ order'[l] # <<>>
          /\ \A k \in DOMAIN order'[l] :
                      /\ owner'[order'[l][k]] = l
                      /\ behind'[order'[l][k]] = IF k = Len(order'[l]) THEN NULL ELSE order'[l][k + 1]
                      /\ before'[order'[l][k]] = IF k = 1 THEN NULL ELSE order'[l][k - 1]
      <4>1. /\ Len(order'[l]) = Len(order[l]) + 1 /\ DOMAIN order'[l] = 1..Len(order'[l])
            /\ \A j \in 1..Len(order'[l]) : order'[l][j] = IF j = 1 THEN node ELSE order[l][j - 1]
        BY <1>1, <2>5
      <4>2. start'[l] = node /\ order'[l] # <<>>
        BY <4>1, <2>4 DEF LinksInv, LinkTypes, Links!DLinkInsert
      <4>3. ASSUME NEW k \in 1..Len(order'[l]), k = 1
            PROVE  /\ owner'[node] = l /\ before'[node] = NULL
                   /\ behind'[node] = IF k = Len(order'[l]) THEN NULL ELSE order'[l][k + 1]
        <5>1. owner'[node] = l /\ before'[node] = NULL /\ behind'[node] = start[l]
          BY <2>1, <2>2 DEF LinksInv, LinkTypes, Links!DLinkInsert
        <5>2. start[l] = IF order[l] = <<>> THEN NULL ELSE order[l][1]
          BY <2>1 DEF Links!Ordered
        <5>3. order[l] = <<>> <=> Len(order[l]) = 0
          BY DEF LinksInv, LinkTypes
        <5>4. Len(order[l]) \in Nat /\ Len(order'[l]) = Len(order[l]) + 1
          BY <2>4, <4>1
        <5>5. CASE order[l] = <<>>
          BY <4>3, <5>1, <5>2, <5>3, <5>4, <5>5
        <5>6. CASE order[l] # <<>>
          <6>1. 2 \in 1..Len(order'[l]) /\ order'[l][2] = order[l][1] /\ k # Len(order'[l])
            BY <4>1, <4>3, <5>3, <5>4, <5>6
          <6> QED
            BY <4>3, <5>1, <5>2, <5>6, <6>1
        <5> QED
          BY <5>5, <5>6
      <4>4. ASSUME NEW k \in 1..Len(order'[l]), k # 1
            PROVE  /\ owner'[order'[l][k]] = l
                   /\ behind'[order'[l][k]] = IF k = Len(order'[l]) THEN NULL ELSE order'[l][k + 1]
                   /\ before'[order'[l][k]] = order'[l][k - 1]
        <5>1. k - 1 \in 1..Len(order[l]) /\ order'[l][k] = order[l][k - 1]
          BY <2>4, <4>1, <4>4
        <5>2. /\ owner[order[l][k - 1]] = l
              /\ behind[order[l][k - 1]] = IF k - 1 = Len(order[l]) THEN NULL ELSE order[l][k]
              /\ before[order[l][k - 1]] = IF k - 1 = 1 THEN NULL ELSE order[l][k - 2]
              /\ order[l][k - 1] \in Nodes /\ order[l][k - 1] # node
          <6>1. /\ order[l][k - 1] \in Nodes /\ order[l][k - 1] # node /\ owner[order[l][k - 1]] = l
            BY <2>4, <5>1
          <6>2. DOMAIN order[l] = 1..Len(order[l])
            BY DEF LinksInv, LinkTypes
          <6>3. /\ behind[order[l][k - 1]] = IF k - 1 = Len(order[l]) THEN NULL ELSE order[l][k - 1 + 1]
                /\ before[order[l][k - 1]] = IF k - 1 = 1 THEN NULL ELSE order[l][k - 1 - 1]
            <7>1. \A h \in 1..Len(order[l]) :
                    /\ behind[order[l][h]] = IF h = Len(order[l]) THEN NULL ELSE order[l][h + 1]
                    /\ before[order[l][h]] = IF h = 1 THEN NULL ELSE order[l][h - 1]
              BY <2>1, <6>2 DEF Links!Ordered
            <7> QED
              BY <5>1, <7>1
          <6>4. k - 1 + 1 = k /\ k - 1 - 1 = k - 2
            BY <4>4
          <6> QED
            BY <6>1, <6>3, <6>4
        <5>3. start[l] = order[l][1] /\ 1 \in 1..Len(order[l])
          <6>1. order[l] # <<>>
            BY <2>4, <5>1
          <6> QED
            BY <2>1, <2>4, <5>1, <6>1 DEF Links!Ordered
        <5>4. order[l][k - 1] = start[l] <=> k - 1 = 1
          BY <5>1, <5>3 DEF Once, LinksInv
        <5>5. /\ owner'[order'[l][k]] = l /\ behind'[order'[l][k]] = behind[order[l][k - 1]]
              /\ before'[order'[l][k]] = IF k - 1 = 1 THEN node ELSE before[order[l][k - 1]]
          BY <5>1, <5>2, <5>4 DEF LinksInv, LinkTypes, Links!DLinkInsert
        <5>6. /\ Len(order'[l]) = Len(order[l]) + 1 /\ Len(order[l]) \in Nat
              /\ \A j \in 1..Len(order'[l]) : order'[l][j] = IF j = 1 THEN node ELSE order[l][j - 1]
          BY <2>4, <4>1
        <5>7. k # Len(order'[l]) => order'[l][k + 1] = order[l][k]
          <6>1. k # Len(order'[l]) => k + 1 \in 1..Len(order'[l]) /\ k + 1 # 1 /\ k + 1 - 1 = k
            BY <4>4, <5>6
          <6> QED
            BY <5>6, <6>1
        <5>8. order'[l][k - 1] = IF k = 2 THEN node ELSE order[l][k - 2]
          <6>1. k - 1 \in 1..Len(order'[l]) /\ (k - 1 = 1 <=> k = 2) /\ k - 1 - 1 = k - 2
            BY <4>4, <5>6
          <6> QED
            BY <5>6, <6>1
        <5>9. (k - 1 = Len(order[l]) <=> k = Len(order'[l])) /\ (k - 1 = 1 <=> k = 2)
          BY <4>4, <5>6
        <5> QED
          BY <5>2, <5>5, <5>7, <5>8, <5>9
      <4> QED
        BY <4>1, <4>2, <4>3, <4>4
    <3> QED
      BY <3>1, <3>2 DEF Links!Ordered
  <2>7. Listed'
    <3>1. owner' = [owner EXCEPT ![node] = l]
      BY DEF Links!DLinkInsert
    <3>2. ASSUME NEW x \in Nodes, x # node, owner[x] # NULL
          PROVE  \E k \in 1..Len(order'[owner[x]]) : order'[owner[x]][k] = x
      <4>1. PICK k \in 1..Len(order[owner[x]]) : order[owner[x]][k] = x
        BY <2>1, <3>2 DEF Listed
      <4>2. owner[x] \in Starts
        BY <3>2 DEF LinksInv, LinkTypes
      <4>3. CASE owner[x] = l
        <5>1. k + 1 \in 1..Len(order'[l]) /\ order'[l][k + 1] = x
          <6>1. k \in 1..Len(order[l]) /\ order[l][k] = x /\ Len(order[l]) \in Nat
            BY <2>4, <4>1, <4>3
          <6>2. /\ Len(order'[l]) = Len(order[l]) + 1
                /\ \A j \in 1..Len(order'[l]) : order'[l][j] = IF j = 1 THEN node ELSE order[l][j - 1]
            BY <1>1, <2>5
          <6>3. k + 1 \in 1..Len(order'[l]) /\ k + 1 # 1 /\ k + 1 - 1 = k
            BY <6>1, <6>2
          <6> QED
            BY <6>1, <6>2, <6>3
        <5> QED
          BY <4>3, <5>1
      <4>4. CASE owner[x] # l
        BY <1>1, <2>5, <4>1, <4>2, <4>4
      <4> QED
        BY <4>3, <4>4
    <3>3. 1 \in 1..Len(order'[l]) /\ order'[l][1] = node
      BY <1>1
    <3> QED
      BY <3>1, <3>2, <3>3 DEF Listed, LinksInv, LinkTypes
  <2> QED
    BY <2>3, <2>6, <2>7
<1> QED
  BY <1>2, <1>3, <1>4 DEF LinksInv

(* Unless it is the first node of another list, its neighbours or the start of its
   own list close over it. *)
LEMMA RemoveKeeps ==
  ASSUME NULL \notin Nodes, NULL \notin Starts, LinksInv,
         NEW l \in Starts, NEW node \in Nodes, Links!DLinkRemove(l, node)
  PROVE  LinksInv'
<1>1. LinkTypes'
  <2>1. Links!Without(node) \in [Starts -> Seq(Nodes)]
    BY WithoutIs DEF LinksInv
  <2> QED
    BY <2>1 DEF LinksInv, LinkTypes, Links!DLinkRemove
<1>2. Once'
  <2>1. \A k, m \in Starts : \A g \in 1..Len(Links!Without(node)[k]), j \in 1..Len(Links!Without(node)[m]) :
          Links!Without(node)[k][g] = Links!Without(node)[m][j] => k = m /\ g = j
    BY WithoutKeepsOnce DEF LinksInv
  <2>2. order' = Links!Without(node)
    BY DEF Links!DLinkRemove
  <2> QED
    BY <2>1, <2>2 DEF Once
<1>3. ASSUME ~misused' PROVE (Links!Linked /\ Links!Ordered /\ Listed)'
  <2>1. Links!Linked /\ Links!Ordered /\ Listed /\ (owner[node] = l \/ before[node] # NULL)
    BY <1>3 DEF LinksInv, Links!DLinkRemove
  <2>2. owner[node] # NULL /\ owner[node] \in Starts
    BY <2>1 DEF LinksInv, LinkTypes, Links!Linked
  <2>3. \A k \in Nodes : /\ behind[k] = node <=> before[node] = k
                         /\ before[k] = node <=> behind[node] = k
    BY <2>1 DEF LinksInv, LinkTypes, Links!Linked
  <2>4. Links!Linked'
    BY <2>1, <2>2, <2>3 DEF LinksInv, LinkTypes, Links!Linked, Links!DLinkRemove
  <2> DEFINE o == owner[node]
             s == order[o]
             w == Links!Without(node)[o]
  <2>5. PICK c \in 1..Len(s) : s[c] = node
    BY <2>1, <2>2 DEF Listed
  <2>6. /\ Len(s) \in Nat
        /\ \A k \in 1..Len(s) : s[k] \in Nodes /\ owner[s[k]] = o /\ (s[k] = node => k = c)
        /\ \A k \in 1..Len(s) : /\ behind[s[k]] = IF k = Len(s) THEN NULL ELSE s[k + 1]
                                /\ before[s[k]] = IF k = 1 THEN NULL ELSE s[k - 1]
        /\ start[o] = s[1]
    <3>1. s \in Seq(Nodes)
      BY <2>2 DEF LinksInv, LinkTypes
    <3>2. DOMAIN s = 1..Len(s) /\ s # <<>> /\ Len(s) \in Nat /\ \A k \in 1..Len(s) : s[k] \in Nodes
      BY <2>5, <3>1
    <3>3. \A k \in 1..Len(s) : s[k] = node => k = c
      BY <2>2, <2>5 DEF Once, LinksInv
    <3> QED
      <4>1. /\ start[o] = IF s = <<>> THEN NULL ELSE s[1]
            /\ \A k \in 1..Len(s) :
                 /\ owner[s[k]] = o
                 /\ behind[s[k]] = IF k = Len(s) THEN NULL ELSE s[k + 1]
                 /\ before[s[k]] = IF k = 1 THEN NULL ELSE s[k - 1]
        <5>1. /\ start[o] = IF s = <<>> THEN NULL ELSE s[1]
              /\ \A k \in DOMAIN s :
                   /\ owner[s[k]] = o
                   /\ behind[s[k]] = IF k = Len(s) THEN NULL ELSE s[k + 1]
                   /\ before[s[k]] = IF k = 1 THEN NULL ELSE s[k - 1]
          BY <2>1, <2>2 DEF Links!Ordered
        <5> HIDE DEF s, o
        <5> QED
          BY <3>2, <5>1
      <4> HIDE DEF s, o
      <4> QED
        BY <3>2, <3>3, <4>1, ZenonT(40)
  <2>7. /\ w \in Seq(Nodes) /\ Len(w) = Len(s) - 1
        /\ \A j \in 1..Len(w) : w[j] = IF j < c THEN s[j] ELSE s[j + 1]
    <3>1. PICK d \in 1..Len(s) :
            /\ s[d] = node
            /\ Len(w) = Len(s) - 1
            /\ \A j \in 1..(Len(s) - 1) : w[j] = IF j < d THEN s[j] ELSE s[j + 1]
      <4>1. LinkTypes /\ Once /\ o \in Starts
        BY <2>2 DEF LinksInv
      <4>2. \A x \in Starts :
              \/ \A k \in 1..Len(order[x]) : order[x][k] # node
              \/ \E k \in 1..Len(order[x]) :
                   /\ order[x][k] = node
                   /\ Len(Links!Without(node)[x]) = Len(order[x]) - 1
                   /\ \A j \in 1..(Len(order[x]) - 1) :
                        Links!Without(node)[x][j] = IF j < k THEN order[x][j] ELSE order[x][j + 1]
        BY <4>1, WithoutIs
      <4> HIDE DEF o
      <4> QED
        BY <4>1, <4>2, <2>5
    <3>2. d = c
      BY <2>6, <3>1
    <3>3. w \in Seq(Nodes)
      BY <2>2, WithoutIs DEF LinksInv
    <3> QED
      BY <3>1, <3>2, <3>3
  <2>8. ASSUME NEW m \in Starts, m # o
        PROVE  /\ Links!Without(node)[m] = order[m]
               /\ \A k \in 1..Len(order[m]) :
                    order[m][k] \in Nodes /\ order[m][k] # node /\ owner[order[m][k]] = m
               /\ DOMAIN order[m] = 1..Len(order[m]) /\ Len(order[m]) \in Nat
    <3>1. order[m] \in Seq(Nodes)
      BY DEF LinksInv, LinkTypes
    <3>2. DOMAIN order[m] = 1..Len(order[m]) /\ Len(order[m]) \in Nat
      BY <3>1
    <3>3. \A k \in 1..Len(order[m]) : order[m][k] \in Nodes /\ owner[order[m][k]] = m
      BY <2>1, <3>1, <3>2 DEF Links!Ordered
    <3>4. \/ Links!Without(node)[m] = order[m]
          \/ \E k \in 1..Len(order[m]) : order[m][k] = node
      BY WithoutIs DEF LinksInv
    <3> QED
      BY <2>8, <3>2, <3>3, <3>4
  <2>9. order' = Links!Without(node) /\ owner' = [owner EXCEPT ![node] = NULL]
    BY DEF Links!DLinkRemove
  <2>10. ASSUME NEW m \in Starts, m # o
         PROVE  /\ start'[m] = IF order'[m] = <<>> THEN NULL ELSE order'[m][1]
                /\ \A k \in DOMAIN order'[m] :
                     /\ owner'[order'[m][k]] = m
                     /\ behind'[order'[m][k]] = IF k = Len(order'[m]) THEN NULL ELSE order'[m][k + 1]
                     /\ before'[order'[m][k]] = IF k = 1 THEN NULL ELSE order'[m][k - 1]
    <3>1. order'[m] = order[m]
      BY <2>8, <2>9, <2>10
    <3>2. start'[m] = start[m]
      BY <2>1, <2>10 DEF Links!DLinkRemove, LinksInv, LinkTypes
    <3>3. ASSUME NEW x \in Nodes, owner[x] = m
          PROVE  owner'[x] = m /\ behind'[x] = behind[x] /\ before'[x] = before[x]
      <4>1. x # node /\ x # behind[node] /\ x # before[node]
        BY <2>1, <2>10, <3>3, SMTT(30) DEF Links!Linked, LinksInv, LinkTypes
      <4> QED
        BY <3>3, <4>1 DEF Links!DLinkRemove, LinksInv, LinkTypes
    <3> QED
      <4>1. DOMAIN order[m] = 1..Len(order[m])
        BY <2>8, <2>10
      <4>2. /\ start[m] = IF order[m] = <<>> THEN NULL ELSE order[m][1]
            /\ \A k \in 1..Len(order[m]) :
                 /\ owner[order[m][k]] = m
                 /\ behind[order[m][k]] = IF k = Len(order[m]) THEN NULL ELSE order[m][k + 1]
                 /\ before[order[m][k]] = IF k = 1 THEN NULL ELSE order[m][k - 1]
        <5>1. /\ start[m] = IF order[m] = <<>> THEN NULL ELSE order[m][1]
              /\ \A k \in DOMAIN order[m] :
                   /\ owner[order[m][k]] = m
                   /\ behind[order[m][k]] = IF k = Len(order[m]) THEN NULL ELSE order[m][k + 1]
                   /\ before[order[m][k]] = IF k = 1 THEN NULL ELSE order[m][k - 1]
          BY <2>1 DEF Links!Ordered
        <5> QED
          BY <4>1, <5>1
      <4>3. \A k \in 1..Len(order[m]) : order[m][k] \in Nodes /\ owner[order[m][k]] = m
        BY <2>8, <2>10
      <4> QED
        BY <3>1, <3>2, <3>3, <4>1, <4>2, <4>3
  <2>11. /\ start'[o] = IF order'[o] = <<>> THEN NULL ELSE order'[o][1]
         /\ \A k \in DOMAIN order'[o] :
              /\ owner'[order'[o][k]] = o
              /\ behind'[order'[o][k]] = IF k = Len(order'[o]) THEN NULL ELSE order'[o][k + 1]
              /\ before'[order'[o][k]] = IF k = 1 THEN NULL ELSE order'[o][k - 1]
    <3>1. order'[o] = w
      BY <2>9
    <3>2. /\ before[node] = IF c = 1 THEN NULL ELSE s[c - 1]
          /\ behind[node] = IF c = Len(s) THEN NULL ELSE s[c + 1]
      BY <2>5, <2>6
    <3>3. \A g, j \in 1..Len(s) : s[g] = s[j] => g = j
      BY <2>2 DEF Once, LinksInv
    <3>4. /\ start' = IF before[node] = NULL THEN [start EXCEPT ![l] = behind[node]] ELSE start
          /\ behind' = [k \in Nodes |-> IF k = node THEN NULL ELSE IF k = before[node] THEN behind[node] ELSE behind[k]]
          /\ before' = [k \in Nodes |-> IF k = node THEN NULL ELSE IF k = behind[node] THEN before[node] ELSE before[k]]
      BY DEF Links!DLinkRemove
    <3>5. start \in [Starts -> Nodes \cup {NULL}] /\ owner \in [Nodes -> Starts \cup {NULL}]
      BY DEF LinksInv, LinkTypes
    <3>6. (before[node] = NULL => l = o) /\ o \in Starts
      BY <2>1, <2>2
    <3> HIDE DEF s, w, o
    <3>7. \A k \in 1..Len(w) : w[k] \in Nodes /\ w[k] # node
      <4> TAKE k \in 1..Len(w)
      <4> DEFINE g == IF k < c THEN k ELSE k + 1
      <4>1. g \in 1..Len(s) /\ g # c /\ w[k] = s[g]
        BY <2>6, <2>7
      <4> QED
        BY <2>6, <4>1
    <3>8. DOMAIN w = 1..Len(w) /\ (w = <<>> <=> Len(w) = 0)
      BY <2>7
    <3>9. start'[o] = IF w = <<>> THEN NULL ELSE w[1]
      <4>1. CASE c = 1
        BY <2>6, <2>7, <3>2, <3>4, <3>5, <3>8, <3>6, <4>1
      <4>2. CASE c # 1
        <5>1. before[node] # NULL /\ w # <<>> /\ w[1] = s[1]
          BY <2>6, <2>7, <3>2, <3>8, <4>2
        <5> QED
          BY <2>6, <3>4, <5>1
      <4> QED
        BY <4>1, <4>2
    <3>10. ASSUME NEW k \in 1..Len(w)
           PROVE  /\ owner'[w[k]] = o
                  /\ behind'[w[k]] = IF k = Len(w) THEN NULL ELSE w[k + 1]
                  /\ before'[w[k]] = IF k = 1 THEN NULL ELSE w[k - 1]
      <4>1. owner'[w[k]] = o
        BY <2>6, <2>7, <2>9, <3>5, <3>7
      <4> DEFINE g == IF k < c THEN k ELSE k + 1
      <4>2. g \in 1..Len(s) /\ g # c /\ w[k] = s[g]
        BY <2>6, <2>7
      <4>3. behind'[w[k]] = IF c # 1 /\ g = c - 1 THEN behind[node] ELSE behind[s[g]]
        BY <2>6, <3>2, <3>3, <3>4, <3>7, <4>2
      <4>4. before'[w[k]] = IF c # Len(s) /\ g = c + 1 THEN before[node] ELSE before[s[g]]
        BY <2>6, <3>2, <3>3, <3>4, <3>7, <4>2
      <4>5. /\ behind[s[g]] = IF g = Len(s) THEN NULL ELSE s[g + 1]
            /\ before[s[g]] = IF g = 1 THEN NULL ELSE s[g - 1]
        BY <2>6, <4>2
      <4>6. /\ k < Len(w) => w[k + 1] = IF k + 1 < c THEN s[k + 1] ELSE s[k + 2]
            /\ k > 1 => w[k - 1] = IF k - 1 < c THEN s[k - 1] ELSE s[k]
        <5>1. /\ Len(w) \in Nat /\ k + 1 + 1 = k + 2 /\ k - 1 + 1 = k
              /\ \A j \in 1..Len(w) : w[j] = IF j < c THEN s[j] ELSE s[j + 1]
          BY <2>6, <2>7
        <5>2. k < Len(w) => k + 1 \in 1..Len(w)
          BY <5>1
        <5>3. k > 1 => k - 1 \in 1..Len(w)
          BY <5>1
        <5> QED
          BY <5>1, <5>2, <5>3
      <4>7. behind'[w[k]] = IF k = Len(w) THEN NULL ELSE w[k + 1]
        BY <2>6, <2>7, <3>2, <4>3, <4>5, <4>6
      <4>8. before'[w[k]] = IF k = 1 THEN NULL ELSE w[k - 1]
        BY <2>6, <2>7, <3>2, <4>4, <4>5, <4>6
      <4> QED
        BY <4>1, <4>7, <4>8
    <3> QED
      BY <3>1, <3>8, <3>9, <3>10
  <2>12. Links!Ordered'
    BY <2>10, <2>11 DEF Links!Ordered
  <2>13. Listed'
    <3> SUFFICES ASSUME NEW x \in Nodes, owner'[x] # NULL
                 PROVE  \E k \in 1..Len(order'[owner'[x]]) : order'[owner'[x]][k] = x
      BY DEF Listed
    <3>1. x # node /\ owner'[x] = owner[x] /\ owner[x] \in Starts
      BY <2>9 DEF LinksInv, LinkTypes
    <3>2. PICK k \in 1..Len(order[owner[x]]) : order[owner[x]][k] = x
      BY <2>1, <3>1 DEF Listed
    <3>3. CASE owner[x] = o
      <4>1. k # c /\ k \in 1..Len(s) /\ s[k] = x
        BY <2>5, <3>1, <3>2, <3>3
      <4> DEFINE j == IF k < c THEN k ELSE k - 1
      <4> HIDE DEF s, w
      <4>2. j \in 1..Len(w) /\ w[j] = x
        BY <2>6, <2>7, <4>1
      <4>3. order'[owner'[x]] = w
        BY <2>9, <3>1, <3>3 DEF w
      <4> HIDE DEF j
      <4> QED
        BY <4>2, <4>3
    <3>4. CASE owner[x] # o
      BY <2>8, <2>9, <3>1, <3>2, <3>4
    <3> QED
      BY <3>3, <3>4
  <2> QED
    BY <2>4, <2>12, <2>13
<1> QED
  BY <1>1, <1>2, <1>3 DEF LinksInv

(* Used right, a reset changes nothing. *)
LEMMA ResetKeeps ==
  ASSUME LinksInv, NEW node \in Nodes, Links!DLinkReset(node)
  PROVE  LinksInv'
<1>1. LinkTypes' /\ Once'
  BY DEF LinksInv, LinkTypes, Once, Links!DLinkReset
<1>2. ASSUME ~misused' PROVE (Links!Linked /\ Links!Ordered /\ Listed)'
  <2>1. Links!Linked /\ Links!Ordered /\ Listed /\ before' = before /\ behind' = behind
    BY <1>2 DEF LinksInv, LinkTypes, Links!Linked, Links!DLinkReset
  <2> QED
    BY <2>1 DEF Links!Linked, Links!Ordered, Listed, Links!DLinkReset
<1> QED
  BY <1>1, <1>2 DEF LinksInv


(* In any run of the three programs, every doubly linked list is forwards and
   backwards what the calls made of it, for any nodes, lists and order of calls,
   until a call does one of the three things DLink names. *)
THEOREM DLinkAlwaysRight == MCSpec => []DLinkRight
<1>1. MCInit => LinksInv
  <2> SUFFICES ASSUME Links!Init PROVE LinksInv
    BY DEF MCInit
  <2>1. LinkTypes /\ Links!Linked /\ \A x \in Nodes : owner[x] = NULL
    <3>1. <<>> \in Seq(Nodes)
      OBVIOUS
    <3>2. LinkTypes
      BY <3>1 DEF Links!Init, LinkTypes
    <3> QED
      BY <3>2 DEF Links!Init, Links!Linked
  <2>2. \A l \in Starts : order[l] = <<>> /\ Len(order[l]) = 0 /\ DOMAIN order[l] = {} /\ start[l] = NULL
    BY DEF Links!Init
  <2>3. Once
    BY <2>2 DEF Once
  <2>4. Links!Ordered
    BY <2>2 DEF Links!Ordered
  <2> QED
    BY <2>1, <2>3, <2>4 DEF LinksInv, Listed
<1>2. LinksInv /\ [MCNext]_<<part, vars, numberVars, linkVars>> => LinksInv'
  <2> SUFFICES ASSUME LinksInv, [MCNext]_<<part, vars, numberVars, linkVars>> PROVE LinksInv'
    OBVIOUS
  <2>1. ASSUME NEW l \in Starts, NEW node \in Nodes, Links!DLinkInsert(l, node) PROVE LinksInv'
    BY <2>1, InsertKeeps, LinksAssumption
  <2>2. ASSUME NEW l \in Starts, NEW node \in Nodes, Links!DLinkRemove(l, node) PROVE LinksInv'
    BY <2>2, RemoveKeeps, LinksAssumption
  <2>3. ASSUME NEW node \in Nodes, Links!DLinkReset(node) PROVE LinksInv'
    BY <2>3, ResetKeeps
  <2>4. CASE UNCHANGED linkVars
    BY <2>4 DEF linkVars, LinksInv, LinkTypes, Once, Links!Linked, Links!Ordered, Listed
  <2>5. Links!Next \/ UNCHANGED linkVars
    BY DEF MCNext
  <2> QED
    BY <2>1, <2>2, <2>3, <2>4, <2>5 DEF Links!Next
<1>3. LinksInv => DLinkRight
  BY DEF LinksInv, LinkTypes, DLinkRight, Links!DLinkRight, Links!TypeOK
<1> QED
  BY <1>1, <1>2, <1>3, PTL DEF MCSpec
=============================================================================
