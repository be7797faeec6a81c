------------------------------ MODULE ListProofs ------------------------------
(* What Filter of Lists computes.  The provers have no induction rule they   *)
(* can instantiate, so each induction over the length is spelled out: a      *)
(* statement that fails somewhere has a least place where it fails.          *)
EXTENDS Lists, WellFoundedInduction, TLAPS

\* Every non-empty set of naturals has a least element.
LEMMA LeastNat ==
  ASSUME NEW S \in SUBSET Nat, S # {}
  PROVE  \E i \in S : \A k \in S : i <= k
<1>1. PICK i \in S : \A k \in S : ~(<<k, i>> \in OpToRel(<, Nat))
  BY WFMin, NatLessThanWellFounded
<1>2. \A k \in S : ~(k < i)
  BY <1>1 DEF OpToRel
<1> QED
  BY <1>2

\* A set that holds 0 and the successor of each of its members up to n holds
\* all of 0..n.
LEMMA UpTo ==
  ASSUME NEW n \in Nat, NEW P, 0 \in P,
         \A k \in 1..n : k - 1 \in P => k \in P
  PROVE  \A k \in 0..n : k \in P
<1> DEFINE Bad == {k \in 0..n : k \notin P}
<1>1. SUFFICES ASSUME Bad # {} PROVE FALSE
  OBVIOUS
<1>2. Bad \in SUBSET Nat
  OBVIOUS
<1>3. PICK m \in Bad : \A k \in Bad : m <= k
  BY <1>1, <1>2, LeastNat
<1>4. m \in 0..n /\ m \notin P
  BY <1>3
<1>5. m \in 1..n
  BY <1>4
<1>6. m - 1 \in 0..n /\ ~(m <= m - 1)
  BY <1>5
<1>7. m - 1 \in P
  BY <1>3, <1>6
<1> QED
  BY <1>4, <1>5, <1>7

\* g holds the value of a loop over 1..n that starts with a, after every turn.
Turns(g, n, S, a, F) ==
  g \in [0..n -> S] /\ g[0] = a /\ \A i \in 1..n : g[i] = F[i][g[i - 1]]

\* A loop over 1..n with a result in S at every turn exists as a function.
LEMMA LoopExists ==
  ASSUME NEW n \in Nat, NEW S, NEW a \in S, NEW F \in [1..n -> [S -> S]]
  PROVE  \E g : Turns(g, n, S, a, F)
<1> DEFINE Loop(m) == \E g \in [0..m -> S] :
                        g[0] = a /\ \A i \in 1..m : g[i] = F[i][g[i - 1]]
           P == {m \in 0..n : Loop(m)}
<1>1. 0 \in P
  <2> DEFINE g == [i \in 0..0 |-> a]
  <2>1. g \in [0..0 -> S] /\ g[0] = a /\ \A i \in 1..0 : g[i] = F[i][g[i - 1]]
    OBVIOUS
  <2>2. Loop(0)
    BY <2>1
  <2> QED
    BY <2>2
<1>2. ASSUME NEW m \in 1..n, m - 1 \in P PROVE m \in P
  <2>1. PICK g \in [0..(m - 1) -> S] :
          g[0] = a /\ \A i \in 1..(m - 1) : g[i] = F[i][g[i - 1]]
    BY <1>2
  <2>2. g[m - 1] \in S /\ F[m][g[m - 1]] \in S
    OBVIOUS
  <2> DEFINE h == [i \in 0..m |-> IF i = m THEN F[m][g[m - 1]] ELSE g[i]]
  <2>3. h \in [0..m -> S]
    BY <2>2
  <2>4. h[0] = a /\ h[m] = F[m][g[m - 1]] /\ \A i \in 0..(m - 1) : h[i] = g[i]
    BY <2>1
  <2> HIDE DEF h
  <2>5. ASSUME NEW i \in 1..m PROVE h[i] = F[i][h[i - 1]]
    <3>1. CASE i = m
      <4>1. m - 1 \in 0..(m - 1)
        OBVIOUS
      <4> QED
        BY <2>4, <3>1, <4>1
    <3>2. CASE i # m
      <4>1. i \in 1..(m - 1) /\ i \in 0..(m - 1) /\ i - 1 \in 0..(m - 1)
        BY <3>2
      <4> QED
        BY <2>1, <2>4, <4>1
    <3> QED
      BY <3>1, <3>2
  <2>6. \E f \in [0..m -> S] : f[0] = a /\ \A i \in 1..m : f[i] = F[i][f[i - 1]]
    BY <2>3, <2>4, <2>5
  <2>7. Loop(m)
    BY <2>6
  <2> HIDE DEF Loop
  <2> QED
    BY <2>7
<1>3. Loop(n)
  <2> HIDE DEF P
  <2>1. \A m \in 0..n : m \in P
    BY <1>1, <1>2, UpTo
  <2> QED
    BY <2>1 DEF P
<1> QED
  BY <1>3 DEF Turns

\* The loop's rule for the list kept after n elements.
Keeps(g, s, T, n) ==
  g[n] = IF n = 0 THEN <<>>
         ELSE IF s[n] \in T THEN Append(g[n - 1], s[n]) ELSE g[n - 1]

\* Some function follows the rule over the whole list, so Filter is its value
\* at the end.
LEMMA FilterLoop ==
  ASSUME NEW S, NEW s \in Seq(S), NEW T
  PROVE  \E g : /\ g = [n \in 0..Len(s) |-> g[n]]
                /\ \A n \in 0..Len(s) : Keeps(g, s, T, n)
                /\ Filter(s, T) = g[Len(s)]
<1> DEFINE Loop(m) == \E g : g = [n \in 0..m |-> g[n]] /\ \A n \in 0..m : Keeps(g, s, T, n)
           P == {m \in 0..Len(s) : Loop(m)}
<1>1. Len(s) \in Nat
  OBVIOUS
<1>2. 0 \in P
  <2> DEFINE g == [n \in 0..0 |-> <<>>]
  <2>1. g = [n \in 0..0 |-> g[n]] /\ \A n \in 0..0 : Keeps(g, s, T, n)
    BY DEF Keeps
  <2>2. Loop(0)
    BY <2>1
  <2> QED
    BY <1>1, <2>2
<1>3. ASSUME NEW m \in 1..Len(s), m - 1 \in P PROVE m \in P
  <2>1. PICK g : g = [n \in 0..(m - 1) |-> g[n]] /\ \A n \in 0..(m - 1) : Keeps(g, s, T, n)
    BY <1>3
  <2> DEFINE last == IF s[m] \in T THEN Append(g[m - 1], s[m]) ELSE g[m - 1]
             h == [n \in 0..m |-> IF n = m THEN last ELSE g[n]]
  <2>2. h = [n \in 0..m |-> h[n]]
    OBVIOUS
  <2>3. ASSUME NEW n \in 0..m PROVE Keeps(h, s, T, n)
    <3>1. CASE n = m
      <4>1. h[m] = last /\ h[m - 1] = g[m - 1] /\ m # 0
        OBVIOUS
      <4> QED
        BY <3>1, <4>1 DEF Keeps
    <3>2. CASE n # m
      <4>1. n \in 0..(m - 1) /\ h[n] = g[n] /\ (n # 0 => h[n - 1] = g[n - 1])
        BY <3>2
      <4>2. Keeps(g, s, T, n)
        BY <2>1, <4>1
      <4> QED
        BY <4>1, <4>2 DEF Keeps
    <3> QED
      BY <3>1, <3>2
  <2>4. Loop(m)
    <3> HIDE DEF h
    <3> QED
      BY <2>2, <2>3
  <2> QED
    BY <2>4
<1>4. Loop(Len(s))
  <2> HIDE DEF P
  <2>1. \A m \in 0..Len(s) : m \in P
    BY <1>1, <1>2, <1>3, UpTo
  <2> QED
    BY <1>1, <2>1 DEF P
<1>5. PICK g : g = [n \in 0..Len(s) |-> g[n]] /\ \A n \in 0..Len(s) : Keeps(g, s, T, n)
  BY <1>4
<1> DEFINE Rule(f) == f = [n \in 0..Len(s) |->
              IF n = 0 THEN <<>>
              ELSE IF s[n] \in T THEN Append(f[n - 1], s[n]) ELSE f[n - 1]]
<1>6. Rule(g)
  <2>1. \A n \in 0..Len(s) : g[n] = IF n = 0 THEN <<>>
          ELSE IF s[n] \in T THEN Append(g[n - 1], s[n]) ELSE g[n - 1]
    BY <1>5 DEF Keeps
  <2> QED
    BY <1>5, <2>1
<1>7. Filter(s, T) = (CHOOSE f : Rule(f))[Len(s)]
  BY DEF Filter
<1>8. PICK f : Rule(f) /\ Filter(s, T) = f[Len(s)]
  <2> HIDE DEF Rule
  <2> QED
    BY <1>6, <1>7
<1>9. f = [n \in 0..Len(s) |-> f[n]] /\ \A n \in 0..Len(s) : Keeps(f, s, T, n)
  BY <1>8 DEF Keeps
<1> QED
  BY <1>8, <1>9
\* What the kept list q is after n elements of s.
Kept(q, s, T, n) ==
  /\ Len(q) <= n
  /\ \A i \in 1..Len(q) : \E a \in 1..n : q[i] = s[a] /\ s[a] \in T
  /\ \A a \in 1..n : s[a] \in T => \E i \in 1..Len(q) : q[i] = s[a]
  /\ \A i, k \in 1..Len(q) : i < k =>
       \E a, b \in 1..n : a < b /\ q[i] = s[a] /\ q[k] = s[b]

\* One turn of the loop of Filter extends what is kept by the n-th element.
LEMMA KeptStep ==
  ASSUME NEW S, NEW s \in Seq(S), NEW T, NEW n \in 1..Len(s),
         NEW q \in Seq(S), Kept(q, s, T, n - 1)
  PROVE  LET r == IF s[n] \in T THEN Append(q, s[n]) ELSE q
         IN  r \in Seq(S) /\ Kept(r, s, T, n)
<1>0. Len(q) \in Nat /\ Len(s) \in Nat /\ s[n] \in S /\ n - 1 \in Nat /\ n \in 1..n
      /\ \A a \in 1..(n - 1) : a \in 1..n /\ a < n
  OBVIOUS
<1>1. CASE s[n] \notin T
  <2>1. \A a \in 1..n : a = n \/ a \in 1..(n - 1)
    BY <1>0
  <2>2. q \in Seq(S) /\ Len(q) <= n
    BY <1>0 DEF Kept
  <2>3. \A i \in 1..Len(q) : \E a \in 1..n : q[i] = s[a] /\ s[a] \in T
    BY <1>0 DEF Kept
  <2>4. \A a \in 1..n : s[a] \in T => \E i \in 1..Len(q) : q[i] = s[a]
    BY <1>1, <2>1 DEF Kept
  <2>5. \A i, k \in 1..Len(q) : i < k =>
          \E a, b \in 1..n : a < b /\ q[i] = s[a] /\ q[k] = s[b]
    BY <1>0 DEF Kept
  <2>6. Kept(q, s, T, n)
    BY <2>2, <2>3, <2>4, <2>5 DEF Kept
  <2> QED
    BY <1>1, <2>6
<1>2. CASE s[n] \in T
  <2> DEFINE r == Append(q, s[n])
  <2>1. /\ r \in Seq(S) /\ Len(r) = Len(q) + 1 /\ r[Len(q) + 1] = s[n]
        /\ \A i \in 1..Len(q) : r[i] = q[i]
    BY <1>0
  <2> HIDE DEF r
  <2>2. \A i \in 1..Len(r) : i \in 1..Len(q) \/ i = Len(q) + 1
    BY <1>0, <2>1
  <2>2a. /\ \A i \in 1..Len(q) : i \in 1..Len(r)
         /\ Len(q) + 1 \in 1..Len(r)
         /\ \A a \in 1..n : a = n \/ a \in 1..(n - 1)
    BY <1>0, <2>1
  <2>3. \A i \in 1..Len(r) : \E a \in 1..n : r[i] = s[a] /\ s[a] \in T
    <3>1. SUFFICES ASSUME NEW i \in 1..Len(r)
                   PROVE  \E a \in 1..n : r[i] = s[a] /\ s[a] \in T
      OBVIOUS
    <3>2. CASE i \in 1..Len(q)
      BY <1>0, <2>1, <3>2 DEF Kept
    <3>3. CASE i = Len(q) + 1
      BY <1>0, <1>2, <2>1, <3>3
    <3> QED
      BY <2>2, <3>2, <3>3
  <2>4. \A a \in 1..n : s[a] \in T => \E i \in 1..Len(r) : r[i] = s[a]
    <3>1. SUFFICES ASSUME NEW a \in 1..n, s[a] \in T
                   PROVE  \E i \in 1..Len(r) : r[i] = s[a]
      OBVIOUS
    <3>2. CASE a = n
      BY <2>1, <2>2a, <3>2
    <3>3. CASE a \in 1..(n - 1)
      <4>1. PICK i \in 1..Len(q) : q[i] = s[a]
        BY <3>1, <3>3 DEF Kept
      <4> QED
        BY <2>1, <2>2a, <4>1
    <3> QED
      BY <2>2a, <3>2, <3>3
  <2>5. \A i, k \in 1..Len(r) : i < k =>
          \E a, b \in 1..n : a < b /\ r[i] = s[a] /\ r[k] = s[b]
    <3>1. SUFFICES ASSUME NEW i \in 1..Len(r), NEW k \in 1..Len(r), i < k
                   PROVE  \E a, b \in 1..n : a < b /\ r[i] = s[a] /\ r[k] = s[b]
      OBVIOUS
    <3>2. i \in 1..Len(q)
      BY <1>0, <2>1, <3>1
    <3>3. CASE k \in 1..Len(q)
      <4>1. PICK a \in 1..(n - 1), b \in 1..(n - 1) :
              a < b /\ q[i] = s[a] /\ q[k] = s[b]
        BY <3>1, <3>2, <3>3 DEF Kept
      <4> QED
        BY <1>0, <2>1, <3>2, <3>3, <4>1
    <3>4. CASE k = Len(q) + 1
      <4>1. PICK a \in 1..(n - 1) : q[i] = s[a]
        BY <3>2 DEF Kept
      <4> QED
        BY <1>0, <2>1, <3>2, <3>4, <4>1
    <3> QED
      BY <2>2, <3>3, <3>4
  <2>6. Len(r) <= n
    BY <1>0, <2>1 DEF Kept
  <2>7. r \in Seq(S) /\ Kept(r, s, T, n)
    BY <2>1, <2>3, <2>4, <2>5, <2>6 DEF Kept
  <2> QED
    BY <1>2, <2>7 DEF r
<1> QED
  BY <1>1, <1>2

\* Filter gives a list of elements of s, no longer than s, that holds exactly
\* those in T, each two of them in the order they have in s.
LEMMA FilterFacts ==
  ASSUME NEW S, NEW s \in Seq(S), NEW T
  PROVE  Filter(s, T) \in Seq(S) /\ Kept(Filter(s, T), s, T, Len(s))
<1>1. PICK g : /\ \A n \in 0..Len(s) : Keeps(g, s, T, n)
               /\ Filter(s, T) = g[Len(s)]
  BY FilterLoop
<1>2. Len(s) \in Nat
  OBVIOUS
<1> DEFINE P == {n \in 0..Len(s) : g[n] \in Seq(S) /\ Kept(g[n], s, T, n)}
<1>3. 0 \in P
  <2>1. g[0] = <<>>
    BY <1>1, <1>2 DEF Keeps
  <2>2. <<>> \in Seq(S) /\ Kept(<<>>, s, T, 0)
    BY DEF Kept
  <2>3. g[0] \in Seq(S) /\ Kept(g[0], s, T, 0)
    BY <2>1, <2>2, Zenon
  <2> QED
    BY <1>2, <2>3
<1>4. ASSUME NEW n \in 1..Len(s), n - 1 \in P PROVE n \in P
  <2>1. g[n - 1] \in Seq(S) /\ Kept(g[n - 1], s, T, n - 1)
    BY <1>4
  <2>2. g[n] = IF s[n] \in T THEN Append(g[n - 1], s[n]) ELSE g[n - 1]
    <3>1. n \in 0..Len(s) /\ n # 0
      BY <1>2
    <3> QED
      BY <1>1, <3>1 DEF Keeps
  <2>3. g[n] \in Seq(S) /\ Kept(g[n], s, T, n)
    BY <2>1, <2>2, KeptStep
  <2> QED
    BY <1>2, <2>3
<1>5. Len(s) \in P
  <2> HIDE DEF P
  <2>1. \A n \in 0..Len(s) : n \in P
    BY <1>2, <1>3, <1>4, UpTo
  <2> QED
    BY <1>2, <2>1
<1> QED
  BY <1>1, <1>5
-----------------------------------------------------------------------------
(* The operators on sequences, by the elements they leave.                   *)

\* What Append, Head and Tail do to the elements of a list.
LEMMA ListFacts ==
  ASSUME NEW S, NEW q \in Seq(S)
  PROVE  /\ Len(q) \in Nat /\ Elements(q) \subseteq S
         /\ \A i \in 1..Len(q) : q[i] \in Elements(q)
         /\ q = <<>> <=> Elements(q) = {}
         /\ \A e \in S : /\ Append(q, e) \in Seq(S)
                         /\ Len(Append(q, e)) = Len(q) + 1
                         /\ Elements(Append(q, e)) = Elements(q) \cup {e}
         /\ q # <<>> => /\ Head(q) \in Elements(q) /\ Tail(q) \in Seq(S)
                        /\ Len(Tail(q)) = Len(q) - 1
                        /\ Elements(q) = {Head(q)} \cup Elements(Tail(q))
<1>1. /\ Len(q) \in Nat /\ \A i \in 1..Len(q) : q[i] \in S
      /\ q = <<>> <=> Len(q) = 0
  OBVIOUS
<1>2. Elements(q) \subseteq S /\ \A i \in 1..Len(q) : q[i] \in Elements(q)
  BY <1>1 DEF Elements
<1>3. q = <<>> <=> Elements(q) = {}
  <2>1. CASE Len(q) = 0
    BY <1>1, <2>1 DEF Elements
  <2>2. CASE Len(q) # 0
    <3>1. q[1] \in Elements(q)
      BY <1>1, <1>2, <2>2
    <3> QED
      BY <1>1, <2>2, <3>1
  <2> QED
    BY <2>1, <2>2
<1>4. ASSUME NEW e \in S
      PROVE  /\ Append(q, e) \in Seq(S) /\ Len(Append(q, e)) = Len(q) + 1
             /\ Elements(Append(q, e)) = Elements(q) \cup {e}
  <2> DEFINE a == Append(q, e)
  <2>1. /\ a \in Seq(S) /\ Len(a) = Len(q) + 1 /\ a[Len(q) + 1] = e
        /\ \A i \in 1..Len(q) : a[i] = q[i]
    BY <1>1
  <2> HIDE DEF a
  <2>2. \A x \in Elements(a) : x \in Elements(q) \cup {e}
    BY <1>1, <2>1 DEF Elements
  <2>3. \A x \in Elements(q) : x \in Elements(a)
    BY <1>1, <2>1 DEF Elements
  <2>4. e \in Elements(a)
    BY <1>1, <2>1 DEF Elements
  <2> QED
    BY <2>1, <2>2, <2>3, <2>4 DEF a
<1>5. ASSUME q # <<>>
      PROVE  /\ Head(q) \in Elements(q) /\ Tail(q) \in Seq(S)
             /\ Len(Tail(q)) = Len(q) - 1
             /\ Elements(q) = {Head(q)} \cup Elements(Tail(q))
  <2> DEFINE b == Tail(q)
  <2>1. /\ b \in Seq(S) /\ Len(b) = Len(q) - 1 /\ Head(q) = q[1] /\ Len(q) >= 1
        /\ \A i \in 1..Len(b) : b[i] = q[i + 1]
    BY <1>1, <1>5
  <2> HIDE DEF b
  <2>2. q[1] \in Elements(q)
    BY <1>1, <1>2, <2>1
  <2>3. \A x \in Elements(b) : x \in Elements(q)
    BY <1>1, <2>1 DEF Elements
  <2>4. ASSUME NEW x \in Elements(q), x # q[1] PROVE x \in Elements(b)
    <3>1. PICK i \in 1..Len(q) : x = q[i]
      BY DEF Elements
    <3>2. i - 1 \in 1..Len(b) /\ b[i - 1] = x
      BY <1>1, <2>1, <2>4, <3>1
    <3> QED
      BY <3>2 DEF Elements
  <2> QED
    BY <2>1, <2>2, <2>3, <2>4 DEF b
<1> QED
  BY <1>1, <1>2, <1>3, <1>4, <1>5

\* What a concatenation does to them.
LEMMA ConcatFacts ==
  ASSUME NEW S, NEW a \in Seq(S), NEW b \in Seq(S)
  PROVE  /\ a \o b \in Seq(S) /\ Len(a \o b) = Len(a) + Len(b)
         /\ Elements(a \o b) = Elements(a) \cup Elements(b)
<1> DEFINE c == a \o b
<1>1. /\ Len(a) \in Nat /\ Len(b) \in Nat /\ c \in Seq(S) /\ Len(c) = Len(a) + Len(b)
      /\ \A i \in 1..Len(a) : c[i] = a[i] /\ i \in 1..Len(c)
      /\ \A i \in 1..Len(b) : c[Len(a) + i] = b[i] /\ Len(a) + i \in 1..Len(c)
  OBVIOUS
<1> HIDE DEF c
<1>2. \A x \in Elements(a) \cup Elements(b) : x \in Elements(c)
  BY <1>1 DEF Elements
<1>3. ASSUME NEW x \in Elements(c) PROVE x \in Elements(a) \cup Elements(b)
  <2>1. PICK i \in 1..Len(c) : x = c[i]
    BY DEF Elements
  <2>2. CASE i <= Len(a)
    BY <1>1, <2>1, <2>2 DEF Elements
  <2>3. CASE i > Len(a)
    <3>1. i - Len(a) \in 1..Len(b) /\ Len(a) + (i - Len(a)) = i
      BY <1>1, <2>1, <2>3
    <3>2. x = b[i - Len(a)]
      BY <1>1, <2>1, <3>1
    <3> QED
      BY <3>1, <3>2 DEF Elements
  <2> QED
    BY <1>1, <2>1, <2>2, <2>3
<1> QED
  BY <1>1, <1>2, <1>3 DEF c

\* Filter keeps the elements that are in T.
LEMMA FilterElements ==
  ASSUME NEW S, NEW s \in Seq(S), NEW T
  PROVE  /\ Filter(s, T) \in Seq(S) /\ Len(Filter(s, T)) <= Len(s)
         /\ Elements(Filter(s, T)) = Elements(s) \cap T
<1> DEFINE q == Filter(s, T)
<1>1. q \in Seq(S) /\ Kept(q, s, T, Len(s))
  BY FilterFacts
<1> HIDE DEF q
<1>2. ASSUME NEW x \in Elements(q) PROVE x \in Elements(s) /\ x \in T
  <2>1. PICK i \in 1..Len(q) : x = q[i]
    BY DEF Elements
  <2>2. PICK a \in 1..Len(s) : q[i] = s[a] /\ s[a] \in T
    BY <1>1 DEF Kept
  <2> QED
    BY <2>1, <2>2 DEF Elements
<1>3. ASSUME NEW x \in Elements(s), x \in T PROVE x \in Elements(q)
  <2>1. PICK a \in 1..Len(s) : x = s[a]
    BY DEF Elements
  <2>2. PICK i \in 1..Len(q) : q[i] = s[a]
    BY <1>1, <1>3, <2>1 DEF Kept
  <2> QED
    BY <2>1, <2>2 DEF Elements
<1>4. Len(q) <= Len(s)
  BY <1>1 DEF Kept
<1>5. Elements(q) = Elements(s) \cap T
  BY <1>2, <1>3
<1> QED
  BY <1>1, <1>4, <1>5 DEF q

\* A strictly increasing list of numbers.
Increasing(s) == \A i, k \in 1..Len(s) : i < k => s[i] < s[k]

\* Every number of a is smaller than every one of b.
Precedes(a, b) == \A x \in Elements(a), y \in Elements(b) : x < y

\* Two increasing lists, the first below the second, make one.
LEMMA ConcatIncreasing ==
  ASSUME NEW a \in Seq(Nat), NEW b \in Seq(Nat), Increasing(a), Increasing(b), Precedes(a, b)
  PROVE  Increasing(a \o b)
<1> DEFINE c == a \o b
<1>1. /\ Len(a) \in Nat /\ Len(b) \in Nat /\ c \in Seq(Nat) /\ Len(c) = Len(a) + Len(b)
      /\ \A i \in 1..Len(a) : c[i] = a[i]
      /\ \A i \in 1..Len(b) : c[Len(a) + i] = b[i]
  OBVIOUS
<1> HIDE DEF c
<1>2. \A i \in 1..Len(c) : i > Len(a) =>
        i - Len(a) \in 1..Len(b) /\ Len(a) + (i - Len(a)) = i
  BY <1>1
<1>3. \A i \in 1..Len(c) : i > Len(a) => i - Len(a) \in 1..Len(b) /\ c[i] = b[i - Len(a)]
  BY <1>1, <1>2
<1>4. ASSUME NEW i \in 1..Len(c), NEW k \in 1..Len(c), i < k PROVE c[i] < c[k]
  <2>1. i \in Nat /\ k \in Nat /\ 1 <= i /\ 1 <= k /\ i < k
    BY <1>1, <1>4
  <2>2. CASE k <= Len(a)
    <3>1. i \in 1..Len(a) /\ k \in 1..Len(a)
      BY <1>1, <2>1, <2>2
    <3>2. a[i] < a[k]
      BY <2>1, <3>1 DEF Increasing
    <3> QED
      BY <1>1, <3>1, <3>2
  <2>3. CASE i > Len(a)
    <3>1. i - Len(a) < k - Len(a) /\ k > Len(a)
      BY <1>1, <2>1, <2>3
    <3>2. /\ i - Len(a) \in 1..Len(b) /\ c[i] = b[i - Len(a)]
          /\ k - Len(a) \in 1..Len(b) /\ c[k] = b[k - Len(a)]
      BY <1>3, <2>3, <3>1
    <3> QED
      BY <3>1, <3>2 DEF Increasing
  <2>4. CASE i <= Len(a) /\ k > Len(a)
    <3>1. i \in 1..Len(a) /\ c[i] = a[i]
      BY <1>1, <2>1, <2>4
    <3>2. c[k] = b[k - Len(a)] /\ k - Len(a) \in 1..Len(b)
      BY <1>3, <2>4
    <3>3. a[i] \in Elements(a) /\ b[k - Len(a)] \in Elements(b)
      BY <3>1, <3>2 DEF Elements
    <3> QED
      BY <3>1, <3>2, <3>3 DEF Precedes
  <2> QED
    BY <1>1, <2>1, <2>2, <2>3, <2>4
<1> QED
  BY <1>4 DEF Increasing, c

\* The rest of an increasing list is increasing and above its head.
LEMMA TailIncreasing ==
  ASSUME NEW s \in Seq(Nat), Increasing(s), s # <<>>
  PROVE  Increasing(Tail(s)) /\ \A y \in Elements(Tail(s)) : Head(s) < y
<1> DEFINE b == Tail(s)
<1>1. /\ Len(s) \in Nat /\ Len(s) >= 1 /\ Len(b) = Len(s) - 1 /\ Head(s) = s[1]
      /\ \A i \in 1..Len(b) : b[i] = s[i + 1]
  OBVIOUS
<1> HIDE DEF b
<1>2. \A i \in 1..Len(b) : i + 1 \in 1..Len(s) /\ 1 \in 1..Len(s) /\ 1 < i + 1
  BY <1>1
<1>3. ASSUME NEW i \in 1..Len(b), NEW k \in 1..Len(b), i < k PROVE b[i] < b[k]
  <2>1. i + 1 < k + 1
    BY <1>1, <1>3
  <2>2. i + 1 \in 1..Len(s) /\ k + 1 \in 1..Len(s)
    BY <1>2
  <2>3. s[i + 1] < s[k + 1]
    BY <2>1, <2>2 DEF Increasing
  <2> QED
    BY <1>1, <2>3
<1>4. \A y \in Elements(b) : Head(s) < y
  BY <1>1, <1>2 DEF Elements, Increasing
<1>5. Increasing(b)
  BY <1>3 DEF Increasing
<1> QED
  BY <1>4, <1>5 DEF b

\* Filtering keeps a list increasing.
LEMMA FilterIncreasing ==
  ASSUME NEW s \in Seq(Nat), Increasing(s), NEW T
  PROVE  Increasing(Filter(s, T))
<1>1. Kept(Filter(s, T), s, T, Len(s))
  BY FilterFacts
<1> QED
  BY <1>1 DEF Kept, Increasing

=============================================================================
