---------------------------- MODULE MCModelsProofs ----------------------------
(* Proofs about the models of lists, menus and status icons. *)
EXTENDS MCModels, SequenceTheorems, FiniteSetTheorems, NaturalsInduction,
        WellFoundedInduction, TLAPS

-----------------------------------------------------------------------------
(* Parts of sequences, and what inserting and taking out do.               *)
LEMMA PartOf ==
  ASSUME NEW S, NEW q \in Seq(S), NEW m \in Nat, NEW n \in Nat, 1 <= m, n <= Len(q), m <= n + 1
  PROVE  /\ SubSeq(q, m, n) \in Seq(S) /\ Len(SubSeq(q, m, n)) = n - m + 1
         /\ \A i \in 1 .. n - m + 1 : SubSeq(q, m, n)[i] = q[m + i - 1]
<1>1. Len(q) \in Nat /\ \A i \in 1 .. Len(q) : q[i] \in S
  BY LenProperties, ElementOfSeq
<1>2. \A i \in m .. n : q[i] \in S
  BY <1>1
<1>3. /\ SubSeq(q, m, n) \in Seq(S)
      /\ Len(SubSeq(q, m, n)) = IF m <= n THEN n - m + 1 ELSE 0
      /\ \A i \in 1 .. n - m + 1 : SubSeq(q, m, n)[i] = q[m + i - 1]
  BY <1>1, <1>2, SubSeqProperties
<1>. QED BY <1>3

LEMMA ThreeParts ==
  ASSUME NEW S, NEW x \in Seq(S), NEW y \in Seq(S), NEW z \in Seq(S)
  PROVE  /\ x \o y \o z \in Seq(S) /\ Len(x \o y \o z) = Len(x) + Len(y) + Len(z)
         /\ \A n \in 1 .. Len(x) : (x \o y \o z)[n] = x[n]
         /\ \A n \in 1 .. Len(y) : (x \o y \o z)[Len(x) + n] = y[n]
         /\ \A n \in 1 .. Len(z) : (x \o y \o z)[Len(x) + Len(y) + n] = z[n]
<1>0. Len(x) \in Nat /\ Len(y) \in Nat /\ Len(z) \in Nat
  BY LenProperties
<1>1. PICK w : w = x \o y
  OBVIOUS
<1>2. /\ w \in Seq(S) /\ Len(w) = Len(x) + Len(y)
      /\ \A n \in 1 .. Len(x) + Len(y) : w[n] = IF n <= Len(x) THEN x[n] ELSE y[n - Len(x)]
  BY <1>1, ConcatProperties
<1>3. PICK e : e = w \o z
  OBVIOUS
<1>8. w \in Seq(S)
  BY <1>2
<1>4. /\ e \in Seq(S) /\ Len(e) = Len(w) + Len(z)
      /\ \A n \in 1 .. Len(w) + Len(z) : e[n] = IF n <= Len(w) THEN w[n] ELSE z[n - Len(w)]
  BY <1>3, <1>8, ConcatProperties
<1>5. \A n \in 1 .. Len(x) : e[n] = x[n]
  BY <1>0, <1>2, <1>4
<1>6. ASSUME NEW n \in 1 .. Len(y) PROVE e[Len(x) + n] = y[n]
  <2>1. /\ Len(x) + n \in 1 .. Len(x) + Len(y) /\ Len(x) + n \in 1 .. Len(w) + Len(z)
        /\ Len(x) + n <= Len(w) /\ ~(Len(x) + n <= Len(x)) /\ Len(x) + n - Len(x) = n
    BY <1>0, <1>2
  <2>. QED BY <1>2, <1>4, <2>1
<1>7. ASSUME NEW n \in 1 .. Len(z) PROVE e[Len(x) + Len(y) + n] = z[n]
  <2>1. /\ Len(x) + Len(y) + n \in 1 .. Len(w) + Len(z)
        /\ ~(Len(x) + Len(y) + n <= Len(w)) /\ Len(x) + Len(y) + n - Len(w) = n
    BY <1>0, <1>2
  <2>. QED BY <1>4, <2>1
<1>. QED BY <1>1, <1>2, <1>3, <1>4, <1>5, <1>6, <1>7

LEMMA FirstPart ==
  ASSUME NEW S, NEW q \in Seq(S), NEW c \in Nat, c <= Len(q)
  PROVE  /\ SubSeq(q, 1, c) \in Seq(S) /\ Len(SubSeq(q, 1, c)) = c
         /\ \A n \in 1 .. c : SubSeq(q, 1, c)[n] = q[n]
<1>1. Len(q) \in Nat /\ 1 <= c + 1
  BY LenProperties
<1>2. PICK x : x = SubSeq(q, 1, c)
  OBVIOUS
<1>3. /\ x \in Seq(S) /\ Len(x) = c - 1 + 1 /\ \A n \in 1 .. c - 1 + 1 : x[n] = q[1 + n - 1]
  BY <1>1, <1>2, PartOf
<1>4. c - 1 + 1 = c /\ \A n \in 1 .. c : 1 + n - 1 = n
  OBVIOUS
<1>. QED BY <1>2, <1>3, <1>4

LEMMA MiddlePart ==
  ASSUME NEW S, NEW q \in Seq(S), NEW c \in Nat, NEW j \in Nat, c + j <= Len(q)
  PROVE  /\ SubSeq(q, c + 1, c + j) \in Seq(S) /\ Len(SubSeq(q, c + 1, c + j)) = j
         /\ \A n \in 1 .. j : SubSeq(q, c + 1, c + j)[n] = q[c + n]
<1>1. PICK m, k : m = c + 1 /\ k = c + j
  OBVIOUS
<1>2. m \in Nat /\ k \in Nat /\ 1 <= m /\ k <= Len(q) /\ m <= k + 1
  BY <1>1
<1>3. PICK x : x = SubSeq(q, m, k)
  OBVIOUS
<1>4. /\ x \in Seq(S) /\ Len(x) = k - m + 1 /\ \A n \in 1 .. k - m + 1 : x[n] = q[m + n - 1]
  BY <1>2, <1>3, PartOf
<1>5. k - m + 1 = j /\ \A n \in 1 .. j : m + n - 1 = c + n
  BY <1>1
<1>. QED BY <1>1, <1>3, <1>4, <1>5

LEMMA LastPart ==
  ASSUME NEW S, NEW q \in Seq(S), NEW c \in Nat, c <= Len(q)
  PROVE  /\ SubSeq(q, c + 1, Len(q)) \in Seq(S) /\ Len(SubSeq(q, c + 1, Len(q))) = Len(q) - c
         /\ \A n \in 1 .. Len(q) - c : SubSeq(q, c + 1, Len(q))[n] = q[c + n]
<1>1. PICK j : j = Len(q) - c
  OBVIOUS
<1>2. Len(q) \in Nat
  BY LenProperties
<1>3. j \in Nat /\ c + j = Len(q) /\ c + j <= Len(q)
  BY <1>1, <1>2
<1>4. /\ SubSeq(q, c + 1, c + j) \in Seq(S) /\ Len(SubSeq(q, c + 1, c + j)) = j
      /\ \A n \in 1 .. j : SubSeq(q, c + 1, c + j)[n] = q[c + n]
  BY <1>3, MiddlePart
<1>. QED BY <1>1, <1>3, <1>4

HasPutIn(e, w, c, x) ==
    /\ Len(e) = Len(w) + 1 /\ \A n \in 1 .. c : e[n] = w[n]
    /\ e[c + 1] = x
    /\ \A n \in 1 .. Len(w) - c : e[c + 1 + n] = w[c + n]

LEMMA PutIn ==
  ASSUME NEW S, NEW w \in Seq(S), NEW c \in Nat, c <= Len(w), NEW x \in S
  PROVE  InsertAt(w, c + 1, x) \in Seq(S) /\ HasPutIn(InsertAt(w, c + 1, x), w, c, x)
<1>1. PICK a, b, z : a = SubSeq(w, 1, c) /\ b = <<x>> /\ z = SubSeq(w, c + 1, Len(w))
  OBVIOUS
<1>2. a \in Seq(S) /\ Len(a) = c /\ \A n \in 1 .. c : a[n] = w[n]
  BY <1>1, FirstPart
<1>3. b \in Seq(S) /\ Len(b) = 1 /\ b[1] = x
  BY <1>1
<1>4. z \in Seq(S) /\ Len(z) = Len(w) - c /\ \A n \in 1 .. Len(w) - c : z[n] = w[c + n]
  BY <1>1, LastPart
<1>5. PICK e : e = a \o b \o z
  OBVIOUS
<1>6. /\ e \in Seq(S) /\ Len(e) = Len(a) + Len(b) + Len(z)
      /\ \A n \in 1 .. Len(a) : e[n] = a[n]
      /\ \A n \in 1 .. Len(b) : e[Len(a) + n] = b[n]
      /\ \A n \in 1 .. Len(z) : e[Len(a) + Len(b) + n] = z[n]
  <2>1. a \in Seq(S) /\ b \in Seq(S) /\ z \in Seq(S)
    BY <1>2, <1>3, <1>4
  <2>. QED BY <1>5, <2>1, ThreeParts
<1>7. e = InsertAt(w, c + 1, x)
  <2>1. PICK d : d = c + 1
    OBVIOUS
  <2>2. d - 1 = c
    BY <2>1
  <2>3. InsertAt(w, d, x) = a \o b \o z
    BY <1>1, <2>1, <2>2 DEF InsertAt
  <2>. QED BY <1>5, <2>1, <2>3
<1>8. Len(w) \in Nat
  BY LenProperties
<1>9. Len(e) = Len(w) + 1 /\ \A n \in 1 .. c : e[n] = w[n]
  BY <1>2, <1>3, <1>4, <1>6, <1>8
<1>10. e[c + 1] = x
  <2>1. 1 \in 1 .. Len(b)
    BY <1>3
  <2>. QED BY <1>2, <1>3, <1>6, <2>1
<1>11. \A n \in 1 .. Len(w) - c : e[c + 1 + n] = w[c + n]
  BY <1>2, <1>3, <1>4, <1>6
<1>. QED BY <1>6, <1>7, <1>9, <1>10, <1>11 DEF HasPutIn

HasTakenOut(r, w, k) ==
    /\ Len(r) = Len(w) - 1 /\ \A n \in 1 .. k - 1 : r[n] = w[n]
    /\ \A n \in k .. Len(w) - 1 : r[n] = w[n + 1]

LEMMA TakenOut ==
  ASSUME NEW S, NEW w \in Seq(S), NEW k \in 1 .. Len(w)
  PROVE  RemoveAt(w, k) \in Seq(S) /\ HasTakenOut(RemoveAt(w, k), w, k)
<1>0. Len(w) \in Nat /\ k \in Nat /\ k <= Len(w)
  BY LenProperties
<1>1. PICK c \in Nat : c = k - 1
  BY <1>0
<1>2. PICK a, z : a = SubSeq(w, 1, c) /\ z = SubSeq(w, k + 1, Len(w))
  OBVIOUS
<1>3. a \in Seq(S) /\ Len(a) = c /\ \A n \in 1 .. c : a[n] = w[n]
  BY <1>0, <1>1, <1>2, FirstPart
<1>4. z \in Seq(S) /\ Len(z) = Len(w) - k /\ \A n \in 1 .. Len(w) - k : z[n] = w[k + n]
  BY <1>0, <1>2, LastPart
<1>5. PICK e : e = a \o z
  OBVIOUS
<1>6. /\ e \in Seq(S) /\ Len(e) = Len(a) + Len(z)
      /\ \A n \in 1 .. Len(a) + Len(z) : e[n] = IF n <= Len(a) THEN a[n] ELSE z[n - Len(a)]
  <2>1. a \in Seq(S) /\ z \in Seq(S)
    BY <1>3, <1>4
  <2>. QED BY <1>5, <2>1, ConcatProperties
<1>7. e = RemoveAt(w, k)
  BY <1>1, <1>2, <1>5 DEF RemoveAt
<1>8. Len(e) = Len(w) - 1 /\ \A n \in 1 .. k - 1 : e[n] = w[n]
  <2>1. Len(e) = Len(w) - 1
    BY <1>0, <1>1, <1>3, <1>4, <1>6
  <2>2. ASSUME NEW n \in 1 .. k - 1 PROVE e[n] = w[n]
    <3>1. n \in 1 .. c /\ n \in 1 .. Len(a) + Len(z) /\ n <= Len(a)
      BY <1>0, <1>1, <1>3, <1>4
    <3>. QED BY <1>3, <1>6, <3>1
  <2>. QED BY <2>1, <2>2
<1>9. ASSUME NEW n \in k .. Len(w) - 1 PROVE e[n] = w[n + 1]
  <2>1. n \in 1 .. Len(a) + Len(z) /\ ~(n <= Len(a)) /\ n - Len(a) = n + 1 - k
    BY <1>0, <1>1, <1>3, <1>4
  <2>2. e[n] = z[n + 1 - k]
    BY <1>6, <2>1
  <2>3. n + 1 - k \in 1 .. Len(w) - k /\ k + (n + 1 - k) = n + 1
    BY <1>0
  <2>. QED BY <1>4, <2>2, <2>3
<1>. QED BY <1>6, <1>7, <1>8, <1>9 DEF HasTakenOut

-----------------------------------------------------------------------------
(* Counting.  A recursive function is what follows from its start by its     *)
(* step; such a function there is, and what holds at its start and from one  *)
(* value to the next holds at its end.                                       *)
LEMMA LeastOf ==
  ASSUME NEW T \in SUBSET Nat, T # {}
  PROVE  \E x \in T : \A y \in T : x <= y
<1>. DEFINE R == {p \in Nat \X Nat : p[1] < p[2]}
<1>3. IsWellFoundedOn(R, Nat)
  BY NatLessThanWellFounded DEF OpToRel
<1>4. \E x \in T : \A y \in T : ~(<<y, x>> \in R)
  <2>. HIDE DEF R
  <2>. QED BY <1>3, WFMin
<1>5. PICK x \in T : \A y \in T : ~(<<y, x>> \in R)
  BY <1>4
<1>6. \A y \in T : ~(y < x) /\ y \in Nat /\ x \in Nat
  BY <1>5
<1>7. \A y \in T : x <= y
  BY <1>6
<1>. QED BY <1>7

LEMMA CountedUp ==
  ASSUME NEW k \in Nat, NEW T, 0 \in T, \A n \in 1 .. k : n - 1 \in T => n \in T
  PROVE  0 .. k \subseteq T
<1>. DEFINE U == (0 .. k) \ T
<1>1. SUFFICES ASSUME U # {} PROVE FALSE
  OBVIOUS
<1>2. U \in SUBSET Nat
  OBVIOUS
<1>3. PICK x \in U : \A y \in U : x <= y
  <2>. HIDE DEF U
  <2>. QED BY <1>1, <1>2, LeastOf
<1>4. x \in 1 .. k /\ x \notin T
  BY <1>3
<1>5. x - 1 \in 0 .. k /\ ~(x <= x - 1)
  BY <1>4
<1>6. x - 1 \in T
  BY <1>3, <1>5
<1>. QED BY <1>4, <1>6

Follows(f, b, k, G) == f[0] = b /\ \A n \in 1 .. k : f[n] = G[<<f[n - 1], n>>]

LEMMA Iterated ==
  ASSUME NEW S, NEW k \in Nat, NEW b \in S, NEW G \in [S \X (1 .. k) -> S]
  PROVE  \E f \in [0 .. k -> S] : Follows(f, b, k, G)
<1>. DEFINE T == {n \in 0 .. k : \E f \in [0 .. n -> S] : Follows(f, b, n, G)}
<1>1. 0 \in T
  <2>1. [n \in 0 .. 0 |-> b] \in [0 .. 0 -> S] /\ Follows([n \in 0 .. 0 |-> b], b, 0, G)
    BY DEF Follows
  <2>. QED BY <2>1
<1>2. ASSUME NEW n \in 1 .. k, n - 1 \in T PROVE n \in T
  <2>0. n \in Nat /\ n - 1 \in Nat /\ n - 1 \in 0 .. n - 1
    OBVIOUS
  <2>1. PICK f \in [0 .. n - 1 -> S] : Follows(f, b, n - 1, G)
    BY <1>2
  <2>2. PICK z \in S : z = G[<<f[n - 1], n>>]
    <3>1. f[n - 1] \in S
      BY <2>1
    <3>2. G[<<f[n - 1], n>>] \in S
      BY <3>1
    <3>. QED BY <3>2
  <2>3. PICK g : g = [i \in 0 .. n |-> IF i = n THEN z ELSE f[i]]
    OBVIOUS
  <2>4. g \in [0 .. n -> S]
    BY <2>3
  <2>5. g[0] = b /\ g[n] = G[<<g[n - 1], n>>]
    <3>1. g[0] = f[0] /\ g[n] = z /\ g[n - 1] = f[n - 1]
      BY <2>3
    <3>. QED BY <2>1, <2>2, <3>1 DEF Follows
  <2>6. ASSUME NEW i \in 1 .. n - 1 PROVE g[i] = G[<<g[i - 1], i>>]
    <3>1. g[i] = f[i] /\ g[i - 1] = f[i - 1]
      BY <2>3
    <3>2. f[i] = G[<<f[i - 1], i>>]
      BY <2>1 DEF Follows
    <3>. QED BY <3>1, <3>2
  <2>7. Follows(g, b, n, G)
    <3>1. \A i \in 1 .. n : i = n \/ i \in 1 .. n - 1
      OBVIOUS
    <3>. QED BY <2>5, <2>6, <3>1 DEF Follows
  <2>. QED BY <2>4, <2>7
<1>3. 0 .. k \subseteq T
  <2>. HIDE DEF T
  <2>. QED BY <1>1, <1>2, CountedUp
<1>4. k \in T
  BY <1>3
<1>. QED BY <1>4

-----------------------------------------------------------------------------
(* The launchers' watcher.  After some of the paths, the rows in place are   *)
(* those of the valid ones, and what is behind them are valid ones too.      *)
Valid(paths) ==
    {n \in DOMAIN paths : Watcher!IsFirst(paths, n) /\ paths[n] \in present \ Invalid}

RowsOf(rows, last, paths, seen) ==
    \E at \in [1 .. last -> Valid(paths) \cap seen] :
       /\ \A k, l \in 1 .. last : k < l => at[k] < at[l]
       /\ \A n \in Valid(paths) \cap seen : \E k \in 1 .. last : at[k] = n
       /\ \A k \in 1 .. last : rows[k] = paths[at[k]]

Placings == {m \in [rows : Seq(Paths), index : Nat] : m.index <= Len(m.rows)}

Behind(m) == {m.rows[i] : i \in m.index + 1 .. Len(m.rows)}

(* What is done with a path: nothing, or it is the next row.                 *)
Placed(m, path, r) ==
    \/ r = m /\ (path \notin present \/ (path \in Invalid /\ path \notin Behind(m)))
    \/ /\ path \in present /\ (path \notin Invalid \/ path \in Behind(m))
       /\ r.index = m.index + 1 /\ r.rows[m.index + 1] = path
       /\ \A i \in 1 .. m.index : r.rows[i] = m.rows[i]
       /\ Behind(r) \subseteq Behind(m)

LEMMA PlacedWell ==
  ASSUME present \subseteq Paths, NEW m \in Placings, NEW path
  PROVE  Watcher!Place(m, path) \in Placings /\ Placed(m, path, Watcher!Place(m, path))
<1>1. PICK w, c : w = m.rows /\ c = m.index
  OBVIOUS
<1>2. w \in Seq(Paths) /\ c \in Nat /\ c <= Len(w) /\ Len(w) \in Nat
  BY <1>1, LenProperties DEF Placings
<1>3. PICK behind : behind = {k \in c + 1 .. Len(w) : w[k] = path}
  OBVIOUS
<1>4. (path \in Behind(m)) <=> behind # {}
  BY <1>1, <1>3 DEF Behind
<1>5. PICK r : r = Watcher!Place(m, path)
  OBVIOUS
<1>6. CASE path \notin present \/ (behind = {} /\ path \in Invalid)
  <2>1. r = m
    BY <1>1, <1>3, <1>5, <1>6 DEF Watcher!Place
  <2>. QED BY <1>4, <1>5, <1>6, <2>1 DEF Placed
<1>7. CASE path \in present /\ behind = {} /\ path \notin Invalid
  <2>1. path \in Paths
    BY <1>7
  <2>2. r = [rows |-> InsertAt(w, c + 1, path), index |-> c + 1]
    BY <1>1, <1>3, <1>5, <1>7 DEF Watcher!Place, Watcher!InsertAt, InsertAt
  <2>3. PICK e : e = InsertAt(w, c + 1, path)
    OBVIOUS
  <2>4. e \in Seq(Paths) /\ HasPutIn(e, w, c, path)
    BY <1>2, <2>1, <2>3, PutIn
  <2>5. r.rows = e /\ r.index = c + 1 /\ r = [rows |-> e, index |-> c + 1]
    BY <2>2, <2>3
  <2>6. r \in Placings
    BY <1>2, <2>4, <2>5 DEF Placings, HasPutIn
  <2>7. Behind(r) \subseteq Behind(m)
    <3>1. ASSUME NEW i \in c + 1 + 1 .. Len(e) PROVE e[i] \in Behind(m)
      <4>1. PICK n \in 1 .. Len(w) - c : i = c + 1 + n
        <5>1. i - c - 1 \in 1 .. Len(w) - c /\ i = c + 1 + (i - c - 1)
          BY <1>2, <2>4 DEF HasPutIn
        <5>. QED BY <5>1
      <4>2. e[i] = w[c + n] /\ c + n \in c + 1 .. Len(w)
        BY <1>2, <2>4, <4>1 DEF HasPutIn
      <4>. QED BY <1>1, <4>2 DEF Behind
    <3>. QED BY <2>5, <3>1 DEF Behind
  <2>8. Placed(m, path, r)
    BY <1>1, <1>4, <1>7, <2>4, <2>5, <2>7 DEF Placed, HasPutIn
  <2>. QED BY <1>5, <2>6, <2>8
<1>8. CASE path \in present /\ behind # {}
  <2>0. behind \in SUBSET Nat
    BY <1>2, <1>3
  <2>1. \E n \in behind : \A l \in behind : n <= l
    BY <1>8, <2>0, LeastOf
  <2>2. PICK k : k = CHOOSE n \in behind : \A l \in behind : n <= l
    OBVIOUS
  <2>3. k \in behind
    BY <2>1, <2>2
  <2>4. k \in Nat /\ c + 1 <= k /\ k <= Len(w) /\ w[k] = path /\ k \in 1 .. Len(w)
    BY <1>2, <1>3, <2>3
  <2>5. PICK v : v = RemoveAt(w, k)
    OBVIOUS
  <2>6. v \in Seq(Paths) /\ HasTakenOut(v, w, k)
    BY <1>2, <2>4, <2>5, TakenOut
  <2>7. path \in Paths /\ Len(v) = Len(w) - 1 /\ c <= Len(v)
    BY <1>2, <1>8, <2>4, <2>6 DEF HasTakenOut
  <2>8. PICK e : e = InsertAt(v, c + 1, path)
    OBVIOUS
  <2>9. e \in Seq(Paths) /\ HasPutIn(e, v, c, path)
    BY <1>2, <2>6, <2>7, <2>8, PutIn
  <2>10. r = [rows |-> e, index |-> c + 1]
    BY <1>1, <1>3, <1>5, <1>8, <2>2, <2>5, <2>8
       DEF Watcher!Place, Watcher!InsertAt, InsertAt, Watcher!RemoveAt, RemoveAt
  <2>11. r.rows = e /\ r.index = c + 1
    BY <2>10
  <2>12. r \in Placings
    BY <1>2, <2>7, <2>9, <2>10 DEF Placings, HasPutIn
  <2>13. \A i \in 1 .. c : e[i] = w[i]
    <3>1. \A i \in 1 .. c : i \in 1 .. k - 1
      BY <1>2, <2>4
    <3>. QED BY <2>6, <2>9, <3>1 DEF HasPutIn, HasTakenOut
  <2>14. Behind(r) \subseteq Behind(m)
    <3>1. ASSUME NEW i \in c + 1 + 1 .. Len(e) PROVE e[i] \in Behind(m)
      <4>1. PICK n \in 1 .. Len(v) - c : i = c + 1 + n
        <5>1. i - c - 1 \in 1 .. Len(v) - c /\ i = c + 1 + (i - c - 1)
          BY <1>2, <2>7, <2>9 DEF HasPutIn
        <5>. QED BY <5>1
      <4>2. e[i] = v[c + n] /\ c + n \in c + 1 .. Len(w) - 1 /\ c + n \in Nat
        <5>1. e[c + 1 + n] = v[c + n]
          BY <2>9, <4>1 DEF HasPutIn
        <5>2. c + n \in c + 1 .. Len(w) - 1 /\ c + n \in Nat
          BY <1>2, <2>7, <4>1
        <5>. QED BY <4>1, <5>1, <5>2
      <4>3. PICK j \in c + 1 .. Len(w) : v[c + n] = w[j]
        <5>1. CASE c + n < k
          <6>1. c + n \in 1 .. k - 1 /\ c + n \in c + 1 .. Len(w)
            BY <1>2, <2>4, <4>2, <5>1
          <6>. QED BY <2>6, <6>1 DEF HasTakenOut
        <5>2. CASE ~(c + n < k)
          <6>1. c + n \in k .. Len(w) - 1 /\ c + n + 1 \in c + 1 .. Len(w)
            BY <1>2, <2>4, <4>2, <5>2
          <6>. QED BY <2>6, <6>1 DEF HasTakenOut
        <5>. QED BY <5>1, <5>2
      <4>. QED BY <1>1, <4>2, <4>3 DEF Behind
    <3>. QED BY <2>11, <3>1 DEF Behind
  <2>15. Placed(m, path, r)
    BY <1>1, <1>4, <1>8, <2>9, <2>11, <2>13, <2>14 DEF Placed, HasPutIn
  <2>. QED BY <1>5, <2>12, <2>15
<1>. QED BY <1>6, <1>7, <1>8

(* The rows in place after one path more.                                    *)
Through(m, paths, n) ==
    /\ RowsOf(m.rows, m.index, paths, 1 .. n)
    /\ Behind(m) \cap Invalid = {}

LEMMA ThroughOneMore ==
  ASSUME NEW paths \in Seq(Paths), NEW n \in DOMAIN paths, NEW m \in Placings, NEW r \in Placings,
         Through(m, paths, n - 1),
         IF Watcher!IsFirst(paths, n) THEN Placed(m, paths[n], r) ELSE r = m
  PROVE  Through(r, paths, n)
<1>0. n \in Nat /\ n >= 1 /\ DOMAIN paths \subseteq Nat /\ Valid(paths) \subseteq DOMAIN paths
      /\ Valid(paths) \subseteq Nat
  BY LenProperties DEF Valid
<1>1. PICK at \in [1 .. m.index -> Valid(paths) \cap 1 .. n - 1] :
        /\ \A k, l \in 1 .. m.index : k < l => at[k] < at[l]
        /\ \A i \in Valid(paths) \cap 1 .. n - 1 : \E k \in 1 .. m.index : at[k] = i
        /\ \A k \in 1 .. m.index : m.rows[k] = paths[at[k]]
  BY DEF Through, RowsOf
<1>2. CASE n \notin Valid(paths) /\ r = m
  <2>1. Valid(paths) \cap (1 .. n) = Valid(paths) \cap (1 .. n - 1)
    BY <1>0, <1>2
  <2>. QED BY <1>2, <2>1 DEF Through, RowsOf
<1>3. CASE n \in Valid(paths) /\ Placed(m, paths[n], r) /\ r # m
  <2>1. PICK c \in Nat : c = m.index
    BY DEF Placings
  <2>2. /\ r.index = c + 1 /\ r.rows[c + 1] = paths[n]
        /\ \A i \in 1 .. c : r.rows[i] = m.rows[i]
        /\ Behind(r) \subseteq Behind(m)
    BY <1>3, <2>1 DEF Placed
  <2>3. PICK q : q = [k \in 1 .. c + 1 |-> IF k = c + 1 THEN n ELSE at[k]]
    OBVIOUS
  <2>4. /\ \A k \in 1 .. c : k \in 1 .. c + 1 /\ q[k] = at[k]
        /\ q[c + 1] = n /\ \A k \in 1 .. c + 1 : k = c + 1 \/ k \in 1 .. c
    BY <2>3
  <2>5. \A k \in 1 .. c : at[k] \in Valid(paths) /\ at[k] \in 1 .. n - 1
    BY <1>1, <2>1
  <2>6. q \in [1 .. c + 1 -> Valid(paths) \cap (1 .. n)]
    <3>1. \A k \in 1 .. c + 1 : q[k] \in Valid(paths) \cap (1 .. n)
      BY <1>0, <1>3, <2>4, <2>5
    <3>. QED BY <2>3, <3>1
  <2>7. ASSUME NEW k \in 1 .. c + 1, NEW l \in 1 .. c + 1, k < l PROVE q[k] < q[l]
    <3>1. k \in 1 .. c
      BY <2>7
    <3>2. CASE l = c + 1
      BY <1>0, <2>4, <2>5, <3>1, <3>2
    <3>3. CASE l \in 1 .. c
      BY <1>1, <2>1, <2>4, <2>7, <3>1, <3>3
    <3>. QED BY <2>4, <3>2, <3>3
  <2>8. ASSUME NEW i \in Valid(paths) \cap (1 .. n) PROVE \E k \in 1 .. c + 1 : q[k] = i
    <3>1. CASE i = n
      BY <2>4, <3>1
    <3>2. CASE i # n
      <4>1. i \in Valid(paths) \cap (1 .. n - 1)
        BY <1>0, <3>2
      <4>2. PICK k \in 1 .. c : at[k] = i
        BY <1>1, <2>1, <4>1
      <4>. QED BY <2>4, <4>2
    <3>. QED BY <3>1, <3>2
  <2>9. \A k \in 1 .. c + 1 : r.rows[k] = paths[q[k]]
    BY <1>1, <2>1, <2>2, <2>4
  <2>10. RowsOf(r.rows, c + 1, paths, 1 .. n)
    BY <2>6, <2>7, <2>8, <2>9 DEF RowsOf
  <2>. QED BY <2>2, <2>10 DEF Through
<1>4. CASE ~Watcher!IsFirst(paths, n)
  BY <1>2, <1>4 DEF Valid
<1>5. CASE Watcher!IsFirst(paths, n) /\ Placed(m, paths[n], r)
  <2>1. paths[n] \in Invalid => paths[n] \notin Behind(m)
    BY DEF Through
  <2>2. (r = m /\ n \notin Valid(paths)) \/ (n \in Valid(paths) /\ r.index = m.index + 1)
    BY <1>5, <2>1 DEF Placed, Valid
  <2>3. r.index = m.index + 1 => r # m
    BY DEF Placings
  <2>. QED BY <1>2, <1>3, <1>5, <2>2, <2>3
<1>. QED BY <1>4, <1>5

(* updateItems: one path after the other, and then what is left over goes.   *)
LEMMA UpdatedItems ==
  ASSUME present \subseteq Paths, NEW rows \in Seq(Paths), NEW paths \in Seq(Paths),
         \A i \in 1 .. Len(rows) : rows[i] \notin Invalid
  PROVE  LET r == Watcher!UpdateItems(rows, paths)
         IN  /\ r \in Seq(Paths) /\ Watcher!Expected(r, paths, present)
             /\ \A i \in 1 .. Len(r) : r[i] \notin Invalid
<1>1. PICK k \in Nat : k = Len(paths)
  BY LenProperties
<1>2. DOMAIN paths = 1 .. k
  BY <1>1, LenProperties
<1>. DEFINE b == [rows |-> rows, index |-> 0]
            Rest(p, n) == IF Watcher!IsFirst(paths, n) THEN Watcher!Place(p, paths[n]) ELSE p
            G == [x \in Placings \X (1 .. k) |-> Rest(x[1], x[2])]
<1>3. b \in Placings
  BY LenProperties DEF Placings
<1>4. G \in [Placings \X (1 .. k) -> Placings]
  <2>1. \A p \in Placings, n \in 1 .. k : Rest(p, n) \in Placings
    BY PlacedWell
  <2>. QED BY <2>1
<1>5. PICK f \in [0 .. k -> Placings] : Follows(f, b, k, G)
  <2>. HIDE DEF b, G
  <2>. QED BY <1>3, <1>4, Iterated
<1>6. f = [n \in 0 .. k |-> IF n = 0 THEN b ELSE Rest(f[n - 1], n)]
  <2>1. \A n \in 0 .. k : f[n] = IF n = 0 THEN b ELSE Rest(f[n - 1], n)
    <3>. SUFFICES ASSUME NEW n \in 0 .. k, n # 0 PROVE f[n] = Rest(f[n - 1], n)
      BY <1>5 DEF Follows
    <3>1. n \in 1 .. k /\ f[n - 1] \in Placings
      BY <1>5
    <3>2. f[n] = G[<<f[n - 1], n>>]
      BY <1>5, <3>1 DEF Follows
    <3>. QED BY <3>1, <3>2
  <2>. QED BY <1>5, <2>1
<1>. DEFINE g == CHOOSE h : h = [n \in 0 .. k |-> IF n = 0 THEN b ELSE Rest(h[n - 1], n)]
<1>7. g = [n \in 0 .. k |-> IF n = 0 THEN b ELSE Rest(g[n - 1], n)]
  BY <1>6
<1>8. Watcher!PlacedAll(rows, paths) = g[k]
  BY <1>1 DEF Watcher!PlacedAll
<1>. HIDE DEF g
<1>. DEFINE T == {n \in 0 .. k : g[n] \in Placings /\ Through(g[n], paths, n)}
<1>9. 0 \in T
  <2>1. g[0] = b
    BY <1>7
  <2>2. Behind(b) \cap Invalid = {}
    BY LenProperties DEF Behind
  <2>3. RowsOf(rows, 0, paths, 1 .. 0)
    <3>1. PICK e : e = [i \in {} |-> 0]
      OBVIOUS
    <3>2. 1 .. 0 = {}
      OBVIOUS
    <3>3. e \in [{} -> Valid(paths) \cap {}]
      BY <3>1
    <3>. QED BY <3>2, <3>3 DEF RowsOf
  <2>4. Through(b, paths, 0)
    BY <2>2, <2>3 DEF Through
  <2>. QED BY <1>3, <2>1, <2>4
<1>10. ASSUME NEW n \in 1 .. k, n - 1 \in T PROVE n \in T
  <2>1. PICK m \in Placings : m = g[n - 1]
    BY <1>10
  <2>2. Through(m, paths, n - 1)
    BY <1>10, <2>1
  <2>3. PICK r : r = g[n]
    OBVIOUS
  <2>4. r = Rest(m, n)
    BY <1>7, <2>1, <2>3
  <2>5. r \in Placings /\ IF Watcher!IsFirst(paths, n) THEN Placed(m, paths[n], r) ELSE r = m
    BY <2>4, PlacedWell
  <2>6. Through(r, paths, n)
    <3>1. n \in DOMAIN paths
      BY <1>2
    <3>. QED BY <2>2, <2>5, <3>1, ThroughOneMore
  <2>. QED BY <2>3, <2>5, <2>6
<1>11. k \in T
  <2>1. 0 .. k \subseteq T
    <3>. HIDE DEF T
    <3>. QED BY <1>9, <1>10, CountedUp
  <2>. QED BY <2>1
<1>12. PICK m \in Placings : m = g[k] /\ Through(m, paths, k)
  BY <1>11
<1>13. PICK c \in Nat : c = m.index /\ c <= Len(m.rows) /\ m.rows \in Seq(Paths)
  BY DEF Placings
<1>14. PICK r : r = SubSeq(m.rows, 1, c)
  OBVIOUS
<1>15. r \in Seq(Paths) /\ Len(r) = c /\ \A n \in 1 .. c : r[n] = m.rows[n]
  BY <1>13, <1>14, FirstPart
<1>16. DOMAIN r = 1 .. c
  BY <1>15, LenProperties
<1>17. PICK at \in [1 .. c -> Valid(paths) \cap (1 .. k)] :
         /\ \A i, j \in 1 .. c : i < j => at[i] < at[j]
         /\ \A n \in Valid(paths) \cap (1 .. k) : \E i \in 1 .. c : at[i] = n
         /\ \A i \in 1 .. c : m.rows[i] = paths[at[i]]
  <2>1. RowsOf(m.rows, c, paths, 1 .. k)
    BY <1>12, <1>13 DEF Through
  <2>. QED BY <2>1 DEF RowsOf
<1>18. Valid(paths) \cap (1 .. k) = Valid(paths)
  BY <1>2 DEF Valid
<1>19. Watcher!Expected(r, paths, present)
  <2>1. at \in [DOMAIN r -> Valid(paths)]
    BY <1>16, <1>17, <1>18
  <2>2. /\ \A i, j \in DOMAIN r : i < j => at[i] < at[j]
        /\ \A n \in Valid(paths) : \E i \in DOMAIN r : at[i] = n
        /\ \A i \in DOMAIN r : r[i] = paths[at[i]]
    BY <1>15, <1>16, <1>17, <1>18
  <2>. QED BY <2>1, <2>2 DEF Watcher!Expected, Valid
<1>20. \A i \in 1 .. Len(r) : r[i] \notin Invalid
  <2>. SUFFICES ASSUME NEW i \in 1 .. c PROVE r[i] \notin Invalid
    BY <1>15
  <2>1. at[i] \in Valid(paths) /\ r[i] = paths[at[i]]
    BY <1>15, <1>17
  <2>. QED BY <2>1 DEF Valid
<1>21. r = Watcher!UpdateItems(rows, paths)
  BY <1>8, <1>12, <1>13, <1>14 DEF Watcher!UpdateItems
<1>. QED BY <1>15, <1>19, <1>20, <1>21

(* The files that the last look, and the reports since, make known.          *)
Seen == (present \ overlooked) \cup (overlooked \ present)

WatcherInv ==
    /\ present \subseteq Paths /\ filePaths \in Seq(Paths) /\ items \in Seq(Paths)
    /\ \A i \in 1 .. Len(items) : items[i] \notin Invalid
    /\ pending \cap Watcher!DirectoriesOf(filePaths) = {}
         => Watcher!Expected(items, filePaths, Seen)

LEMMA ExpectedAlike ==
  ASSUME NEW rows, NEW paths, NEW S, NEW T, Watcher!Expected(rows, paths, S),
         \A n \in DOMAIN paths : paths[n] \in S <=> paths[n] \in T
  PROVE  Watcher!Expected(rows, paths, T)
<1>1. {n \in DOMAIN paths : Watcher!IsFirst(paths, n) /\ paths[n] \in S \ Invalid}
        = {n \in DOMAIN paths : Watcher!IsFirst(paths, n) /\ paths[n] \in T \ Invalid}
  OBVIOUS
<1>. QED BY <1>1 DEF Watcher!Expected

(* A look at the files leaves nothing overlooked.                            *)
LEMMA LookedAt ==
  ASSUME WatcherInv, NEW paths \in Seq(Paths), filePaths' = paths,
         items' = Watcher!UpdateItems(items, paths), present' = present, overlooked' = {}
  PROVE  WatcherInv'
<1>1. /\ items' \in Seq(Paths) /\ Watcher!Expected(items', paths, present)
      /\ \A i \in 1 .. Len(items') : items'[i] \notin Invalid
  BY UpdatedItems DEF WatcherInv
<1>2. Seen' = present
  BY DEF Seen
<1>3. Watcher!Expected(items, filePaths, Seen)'
  BY <1>1, <1>2
<1>. QED BY <1>1, <1>3 DEF WatcherInv

LEMMA WatcherStep ==
  ASSUME WatcherInv, Watcher!Next
  PROVE  WatcherInv'
<1>1. ASSUME NEW paths \in Requests, Watcher!SetFilePaths(paths) PROVE WatcherInv'
  <2>1. paths \in Seq(Paths)
    BY ModelsAssumption
  <2>. QED BY <1>1, <2>1, LookedAt DEF Watcher!SetFilePaths
<1>2. CASE Watcher!WatchDirectories
  <2>1. /\ present' = present /\ filePaths' = filePaths /\ items' = items
        /\ overlooked' = overlooked /\ pending' = pending \cap Watcher!DirectoriesOf(filePaths)
    BY <1>2 DEF Watcher!WatchDirectories
  <2>2. Watcher!DirectoriesOf(filePaths)' = Watcher!DirectoriesOf(filePaths) /\ Seen' = Seen
    BY <2>1 DEF Watcher!DirectoriesOf, Seen
  <2>3. Watcher!Expected(items, filePaths, Seen)' <=> Watcher!Expected(items, filePaths, Seen)
    BY <2>1, <2>2 DEF Watcher!Expected, Watcher!IsFirst
  <2>. QED BY <2>1, <2>2, <2>3 DEF WatcherInv
<1>3. ASSUME NEW dir \in pending, Watcher!DirectoryChanged(dir) PROVE WatcherInv'
  <2>1. filePaths \in Seq(Paths)
    BY DEF WatcherInv
  <2>. QED BY <1>3, <2>1, LookedAt DEF Watcher!DirectoryChanged
<1>4. ASSUME NEW path \in Paths, Watcher!FileChanges(path) PROVE WatcherInv'
  <2>1. /\ filePaths' = filePaths /\ items' = items
        /\ present' = Watcher!Toggled(path, present)
        /\ IF Directory[path] \in watched
             THEN pending' = pending \cup {Directory[path]} /\ overlooked' = overlooked
             ELSE pending' = pending /\ overlooked' = Watcher!Toggled(path, overlooked)
    BY <1>4 DEF Watcher!FileChanges
  <2>2. (present \subseteq Paths)'
    BY <2>1 DEF WatcherInv, Watcher!Toggled
  <2>3. Watcher!DirectoriesOf(filePaths)' = Watcher!DirectoriesOf(filePaths)
    BY <2>1 DEF Watcher!DirectoriesOf
  <2>4. ASSUME pending' \cap Watcher!DirectoriesOf(filePaths) = {}
        PROVE  Watcher!Expected(items, filePaths, Seen)'
    <3>1. Watcher!Expected(items, filePaths, Seen)
      BY <2>1, <2>4 DEF WatcherInv
    <3>2. CASE Directory[path] \in watched
      <4>1. \A n \in DOMAIN filePaths : filePaths[n] # path
        BY <2>1, <2>4, <3>2 DEF Watcher!DirectoriesOf
      <4>2. \A n \in DOMAIN filePaths : filePaths[n] \in Seen <=> filePaths[n] \in Seen'
        BY <2>1, <3>2, <4>1 DEF Seen, Watcher!Toggled
      <4>3. Watcher!Expected(items, filePaths, Seen')
        BY <3>1, <4>2, ExpectedAlike
      <4>. QED BY <2>1, <4>3 DEF Watcher!Expected, Watcher!IsFirst
    <3>3. CASE Directory[path] \notin watched
      <4>1. Seen' = Seen
        BY <2>1, <3>3 DEF Seen, Watcher!Toggled
      <4>. QED BY <2>1, <3>1, <4>1 DEF Watcher!Expected, Watcher!IsFirst
    <3>. QED BY <3>2, <3>3
  <2>. QED BY <2>1, <2>2, <2>3, <2>4 DEF WatcherInv
<1>5. ASSUME NEW dir \in Watcher!Folders, Watcher!FolderChanges(dir) PROVE WatcherInv'
  <2>1. /\ present' = present /\ filePaths' = filePaths /\ items' = items
        /\ overlooked' = overlooked /\ pending \subseteq pending'
    BY <1>5 DEF Watcher!FolderChanges
  <2>2. Watcher!DirectoriesOf(filePaths)' = Watcher!DirectoriesOf(filePaths) /\ Seen' = Seen
    BY <2>1 DEF Watcher!DirectoriesOf, Seen
  <2>3. Watcher!Expected(items, filePaths, Seen)' <=> Watcher!Expected(items, filePaths, Seen)
    BY <2>1, <2>2 DEF Watcher!Expected, Watcher!IsFirst
  <2>. QED BY <2>1, <2>2, <2>3 DEF WatcherInv
<1>. QED BY <1>1, <1>2, <1>3, <1>4, <1>5 DEF Watcher!Next

(* For all paths, directories and lists that are set, with directories that  *)
(* come and go, and changes while setFilePaths runs: once no change of a     *)
(* directory is on its way, moving, inserting and dropping rows has produced *)
(* the valid files there are, each once, in the order of the paths, although *)
(* a list names files twice; only a file that changed unwatched since the    *)
(* last look is shown as it was then: setFilePaths(), updateItems().         *)
THEOREM RowsAreInStep == Spec => []InStep
<1>1. Init => WatcherInv
  <2>. SUFFICES ASSUME Init PROVE WatcherInv
    OBVIOUS
  <2>1. present \subseteq Paths /\ filePaths = <<>> /\ items = <<>>
    BY DEF Init, Watcher!Init
  <2>2. <<>> \in Seq(Paths) /\ Len(<<>>) = 0 /\ DOMAIN <<>> = {}
    BY EmptySeq
  <2>3. Watcher!Expected(items, filePaths, Seen)
    <3>1. [i \in {} |-> 0] \in [{} -> {}]
      OBVIOUS
    <3>. QED BY <2>1, <2>2, <3>1 DEF Watcher!Expected
  <2>. QED BY <2>1, <2>2, <2>3 DEF WatcherInv
<1>2. WatcherInv /\ [Next]_<<folderVars, watcherVars, notificationVars, objectVars, categoryVars,
                             serviceVars, part>> => WatcherInv'
  <2>. SUFFICES ASSUME WatcherInv,
                       Next \/ UNCHANGED <<folderVars, watcherVars, notificationVars, objectVars,
                                           categoryVars, serviceVars, part>>
                PROVE  WatcherInv'
    OBVIOUS
  <2>1. CASE UNCHANGED watcherVars
    <3>1. present' = present /\ filePaths' = filePaths /\ items' = items
          /\ pending' = pending /\ overlooked' = overlooked
      BY <2>1 DEF watcherVars
    <3>2. Watcher!DirectoriesOf(filePaths)' = Watcher!DirectoriesOf(filePaths) /\ Seen' = Seen
      BY <3>1 DEF Watcher!DirectoriesOf, Seen
    <3>3. Watcher!Expected(items, filePaths, Seen)' <=> Watcher!Expected(items, filePaths, Seen)
      BY <3>1, <3>2 DEF Watcher!Expected, Watcher!IsFirst
    <3>. QED BY <3>1, <3>2, <3>3 DEF WatcherInv
  <2>2. CASE Watcher!Next
    BY <2>2, WatcherStep
  <2>. QED BY <2>1, <2>2 DEF Next
<1>3. WatcherInv => InStep
  BY DEF WatcherInv, InStep, Watcher!InStep, Seen
<1>. QED BY <1>1, <1>2, <1>3, PTL DEF Spec

-----------------------------------------------------------------------------
(* Notification categories.  A definition in memory whose file is gone is   *)
(* one of a file that was known, so the change of the directory, which is   *)
(* still to be handled, forgets it; a definition that is not that of its    *)
(* file has a change of the file still to be handled.  What changed          *)
(* unwatched since it was read is left aside.                               *)
StoreInv ==
    /\ watchedFiles \subseteq knownFiles
    /\ \A c \in DOMAIN definitions \ stale :
          /\ c \notin DOMAIN files => listChanged = TRUE /\ c \in knownFiles
          /\ c \in DOMAIN files /\ files[c].usable
                => definitions[c] = files[c].version \/ c \in fileChanged

(* What is in memory of a category is dropped, or its file is read.         *)
DroppedOrRead(loaded) ==
    \A c \in DOMAIN loaded :
       \/ c \in DOMAIN definitions /\ loaded[c] = definitions[c]
       \/ c \in DOMAIN files /\ loaded[c] = files[c].version

LEMMA DroppedOrReadKeeps ==
  ASSUME StoreInv, DroppedOrRead(definitions'), files' = files, listChanged' = listChanged,
         watchedFiles' = watchedFiles, knownFiles' = knownFiles, fileChanged' = fileChanged,
         stale' = stale \cap DOMAIN definitions'
  PROVE  StoreInv'
BY DEF StoreInv, DroppedOrRead

LEMMA LoadSettingsReads ==
  ASSUME NEW c
  PROVE  /\ DroppedOrRead(Store!LoadSettings(c))
         /\ c \in DOMAIN files /\ files[c].usable
              => c \in DOMAIN Store!LoadSettings(c) /\ Store!LoadSettings(c)[c] = files[c].version
         /\ \A d \in DOMAIN Store!LoadSettings(c) :
              d # c => d \in DOMAIN definitions /\ Store!LoadSettings(c)[d] = definitions[d]
BY DEF DroppedOrRead, Store!LoadSettings, Store!Put

LEMMA StoreStep ==
  ASSUME StoreInv, Store!Next
  PROVE  StoreInv'
<1>1. CASE Store!UpdateCategoryDefinitionFileList
  <2>1. /\ knownFiles' = DOMAIN files /\ watchedFiles' = DOMAIN files \ endedFiles
        /\ files' = files /\ fileChanged' = fileChanged \ (knownFiles \ DOMAIN files)
        /\ stale' = stale \cap DOMAIN definitions'
        /\ DOMAIN definitions' = DOMAIN definitions \ (knownFiles \ DOMAIN files)
        /\ \A c \in DOMAIN definitions' : definitions'[c] = definitions[c]
    BY <1>1 DEF Store!UpdateCategoryDefinitionFileList, Store!Without
  <2>2. DOMAIN definitions' \ stale' \subseteq DOMAIN files
    BY <2>1 DEF StoreInv
  <2>. QED BY <2>1, <2>2 DEF StoreInv
<1>2. ASSUME NEW c \in Categories, NEW usable \in BOOLEAN, Store!WriteFile(c, usable)
      PROVE  StoreInv'
  <2>2. /\ DOMAIN files' = DOMAIN files \cup {c}
        /\ \A d \in DOMAIN files : d # c => files'[d] = files[d]
        /\ fileChanged' = fileChanged \cup ({c} \cap watchedFiles)
        /\ stale' = stale \cup (({c} \cap DOMAIN definitions) \ watchedFiles)
        /\ listChanged = TRUE => listChanged' = TRUE
        /\ watchedFiles' = watchedFiles /\ knownFiles' = knownFiles /\ definitions' = definitions
    BY <1>2 DEF Store!WriteFile, Store!Put
  <2>3. ASSUME NEW d \in DOMAIN definitions \ stale' PROVE d = c => d \in fileChanged'
    BY <2>2
  <2>. QED BY <2>2, <2>3 DEF StoreInv
<1>3. ASSUME NEW c \in Categories, Store!DeleteFile(c) PROVE StoreInv'
  <2>2. /\ DOMAIN files' = DOMAIN files \ {c}
        /\ \A d \in DOMAIN files' : files'[d] = files[d]
        /\ fileChanged \subseteq fileChanged'
        /\ stale' = stale \cup (({c} \cap DOMAIN definitions) \ knownFiles)
        /\ listChanged' = TRUE /\ watchedFiles' = watchedFiles \ {c}
        /\ knownFiles' = knownFiles /\ definitions' = definitions
    BY <1>3 DEF Store!DeleteFile, Store!Without
  <2>. QED BY <2>2 DEF StoreInv
<1>4. ASSUME NEW c \in Categories, Store!UpdateCategoryDefinitionFile(c) PROVE StoreInv'
  <2>1. /\ fileChanged' = fileChanged \ {c} /\ files' = files /\ listChanged' = listChanged
        /\ watchedFiles' = watchedFiles /\ knownFiles' = knownFiles
        /\ definitions' = IF c \in DOMAIN files THEN Store!LoadSettings(c) ELSE definitions
        /\ stale' = IF c \in DOMAIN files /\ files[c].usable THEN stale \ {c} ELSE stale
    BY <1>4 DEF Store!UpdateCategoryDefinitionFile
  <2>2. CASE c \in DOMAIN files
    BY <2>1, <2>2, LoadSettingsReads DEF StoreInv, DroppedOrRead
  <2>3. CASE c \notin DOMAIN files
    BY <2>1, <2>3 DEF StoreInv
  <2>. QED BY <2>2, <2>3
<1>5. ASSUME NEW c \in Categories, Store!Ask(c) PROVE StoreInv'
  <2>. DEFINE loaded == Store!CategoryDefinitionExists(c)
  <2>1. DroppedOrRead(loaded)
    BY LoadSettingsReads DEF Store!CategoryDefinitionExists, DroppedOrRead
  <2>2. /\ \/ definitions' = definitions
           \/ Store!CategoryDefinitionAccessed(c, loaded)
        /\ files' = files /\ listChanged' = listChanged /\ fileChanged' = fileChanged
        /\ watchedFiles' = watchedFiles /\ knownFiles' = knownFiles
        /\ stale' = stale \cap DOMAIN definitions'
    BY <1>5 DEF Store!Ask
  <2>. HIDE DEF loaded
  <2>3. DroppedOrRead(definitions')
    <3>1. CASE definitions' = definitions
      BY <3>1 DEF DroppedOrRead
    <3>2. CASE Store!CategoryDefinitionAccessed(c, loaded)
      <4>1. PICK dropped : definitions' = Store!Without(loaded, dropped)
        BY <3>2 DEF Store!CategoryDefinitionAccessed
      <4>. QED BY <2>1, <4>1 DEF Store!Without, DroppedOrRead
    <3>. QED BY <2>2, <3>1, <3>2
  <2>. QED BY <2>2, <2>3, DroppedOrReadKeeps
<1>. QED BY <1>1, <1>2, <1>3, <1>4, <1>5 DEF Store!Next

(* For all categories and every maximum of definitions in memory, with files *)
(* that are rewritten, removed and created again at any time: once the       *)
(* watcher's signals are handled, in whatever order, a definition in memory  *)
(* is that of its file, unless the file cannot be used any more or has       *)
(* changed since it was read while nothing watched it:                       *)
(* updateCategoryDefinitionFileList(), updateCategoryDefinitionFile().       *)
THEOREM DefinitionsAreFresh == Spec => []DefinitionsFresh
<1>1. Init => StoreInv
  BY DEF Init, Store!Init, StoreInv
<1>2. StoreInv /\ [Next]_<<folderVars, watcherVars, notificationVars, objectVars, categoryVars,
                           serviceVars, part>> => StoreInv'
  <2>. SUFFICES ASSUME StoreInv,
                       \/ Next
                       \/ UNCHANGED <<folderVars, watcherVars, notificationVars, objectVars,
                                      categoryVars, serviceVars, part>>
                PROVE  StoreInv'
    OBVIOUS
  <2>1. CASE Store!Next
    BY <2>1, StoreStep
  <2>2. CASE UNCHANGED categoryVars
    BY <2>2 DEF categoryVars, StoreInv
  <2>. QED BY <2>1, <2>2 DEF Next
<1>3. StoreInv => DefinitionsFresh
  BY DEF StoreInv, DefinitionsFresh, Store!DefinitionsFresh
<1>. QED BY <1>1, <1>2, <1>3, PTL DEF Spec

-----------------------------------------------------------------------------
(* Connections.  ConnMan's messages are handled in the order they are sent, *)
(* so what the monitor will have proxies for (p) and hold for active (a)    *)
(* after each of them is settled: a plan, which each message on its way     *)
(* continues.                                                               *)
Known == UNION {[D -> BOOLEAN] : D \in SUBSET Services}

ConnManMessages ==
    [kind : {"services"}, services : Known]
      \cup [kind : {"changed"}, services : Known, removed : SUBSET Services]
      \cup [kind : {"state"}, path : Services, online : BOOLEAN]

MonitorTypes ==
    /\ asked \in BOOLEAN
    /\ DOMAIN services \subseteq Services /\ services \in [DOMAIN services -> BOOLEAN]
    /\ messages \in Seq(ConnManMessages)
    /\ proxied \subseteq Monitor!Watched /\ activeServices \subseteq Monitor!Watched

Handled(m, p, a, p2, a2) ==
    \/ /\ m.kind = "services"
       /\ a2 = a \cup (Monitor!Online(m.services) \cap Monitor!Watched)
       /\ p2 = p \cup (DOMAIN m.services \cap Monitor!Watched)
    \/ /\ m.kind = "changed"
       /\ a2 = (a \ (m.removed \cup (DOMAIN m.services \cap Monitor!Watched)))
                  \cup (Monitor!Online(m.services) \cap Monitor!Watched)
       /\ p2 = (p \ m.removed) \cup (DOMAIN m.services \cap Monitor!Watched)
    \/ /\ m.kind = "state"
       /\ p2 = p
       /\ a2 = IF m.path \notin p THEN a
               ELSE IF m.online THEN a \cup {m.path} ELSE a \ {m.path}

Plan(p, a) ==
    /\ p \in [0 .. Len(messages) -> SUBSET Monitor!Watched]
    /\ a \in [0 .. Len(messages) -> SUBSET Monitor!Watched]
    /\ p[0] = proxied /\ a[0] = activeServices
    /\ \A i \in 1 .. Len(messages) : Handled(messages[i], p[i - 1], a[i - 1], p[i], a[i])

(* In the end the active services are those online, but for those whose     *)
(* change was missed and those that only the answer will mention.           *)
EndsWell(P, A) ==
    \A s \in Monitor!Watched \ missed :
       s \in A <=> s \in Monitor!Online(services) /\ (s \in P \/ asked = FALSE)

(* A service that there is does not lose its proxy any more.                *)
ProxiesStay(p, P) ==
    \A i \in 0 .. Len(messages) : p[i] \cap DOMAIN services \subseteq P

Planned ==
    \E p, a \in [0 .. Len(messages) -> SUBSET Monitor!Watched] :
       /\ Plan(p, a)
       /\ EndsWell(p[Len(messages)], a[Len(messages)])
       /\ ProxiesStay(p, p[Len(messages)])

MonitorInv == MonitorTypes /\ Planned /\ Monitor!AnnouncedIsActive

(* A message that is sent continues the plan.                               *)
LEMMA PlanContinues ==
  ASSUME messages \in Seq(ConnManMessages),
         NEW m \in ConnManMessages, messages' = Append(messages, m),
         NEW p, NEW a, Plan(p, a),
         proxied' = proxied, activeServices' = activeServices,
         NEW p2 \in SUBSET Monitor!Watched, NEW a2 \in SUBSET Monitor!Watched,
         Handled(m, p[Len(messages)], a[Len(messages)], p2, a2),
         EndsWell(p2, a2)',
         \A i \in 0 .. Len(messages) : p[i] \cap DOMAIN services' \subseteq p2
  PROVE  Planned'
<1>0. PICK n \in Nat : n = Len(messages)
  BY LenProperties
<1>1. /\ n \in Nat /\ Len(messages') = n + 1 /\ messages'[n + 1] = m
      /\ \A i \in 1 .. n : messages'[i] = messages[i]
  BY <1>0, AppendProperties
<1>2. PICK q, b : /\ q \in [0 .. n + 1 -> SUBSET Monitor!Watched] /\ b \in [0 .. n + 1 -> SUBSET Monitor!Watched]
                  /\ q[n + 1] = p2 /\ b[n + 1] = a2
                  /\ \A i \in 0 .. n : q[i] = p[i] /\ b[i] = a[i]
  <2>. DEFINE extended(f, x) == [i \in 0 .. n + 1 |-> IF i <= n THEN f[i] ELSE x]
  <2>1. p \in [0 .. n -> SUBSET Monitor!Watched] /\ a \in [0 .. n -> SUBSET Monitor!Watched]
    BY <1>0 DEF Plan
  <2>2. ASSUME NEW f \in [0 .. n -> SUBSET Monitor!Watched], NEW x \in SUBSET Monitor!Watched
        PROVE  /\ extended(f, x) \in [0 .. n + 1 -> SUBSET Monitor!Watched] /\ extended(f, x)[n + 1] = x
               /\ \A i \in 0 .. n : extended(f, x)[i] = f[i]
    OBVIOUS
  <2>3. /\ extended(p, p2) \in [0 .. n + 1 -> SUBSET Monitor!Watched] /\ extended(p, p2)[n + 1] = p2
        /\ \A i \in 0 .. n : extended(p, p2)[i] = p[i]
    BY <2>1, <2>2
  <2>4. /\ extended(a, a2) \in [0 .. n + 1 -> SUBSET Monitor!Watched] /\ extended(a, a2)[n + 1] = a2
        /\ \A i \in 0 .. n : extended(a, a2)[i] = a[i]
    BY <2>1, <2>2
  <2>. HIDE DEF extended
  <2>. QED BY <2>3, <2>4
<1>3. \A i \in 1 .. n : Handled(messages[i], p[i - 1], a[i - 1], p[i], a[i])
  BY <1>0 DEF Plan
<1>4. p[0] = proxied /\ a[0] = activeServices
  BY DEF Plan
<1>5. Handled(m, p[n], a[n], p2, a2)
  BY <1>0
<1>6. q[0] = proxied' /\ b[0] = activeServices'
  BY <1>1, <1>2, <1>4
<1>7. ASSUME NEW i \in 1 .. n + 1 PROVE Handled(messages'[i], q[i - 1], b[i - 1], q[i], b[i])
  <2>1. CASE i = n + 1
    <3>1. q[i - 1] = p[n] /\ b[i - 1] = a[n] /\ q[i] = p2 /\ b[i] = a2 /\ messages'[i] = m
      BY <1>1, <1>2, <2>1
    <3>. QED BY <1>5, <3>1
  <2>2. CASE i # n + 1
    <3>1. i \in 1 .. n /\ i - 1 \in 0 .. n /\ i \in 0 .. n
      BY <1>1, <2>2
    <3>2. q[i - 1] = p[i - 1] /\ b[i - 1] = a[i - 1] /\ q[i] = p[i] /\ b[i] = a[i]
          /\ messages'[i] = messages[i]
      BY <1>1, <1>2, <3>1
    <3>. QED BY <1>3, <3>1, <3>2
  <2>. QED BY <2>1, <2>2
<1>8. Plan(q, b)'
  BY <1>1, <1>2, <1>6, <1>7 DEF Plan
<1>9. ProxiesStay(q, p2)'
  <2>. SUFFICES ASSUME NEW i \in 0 .. n + 1 PROVE q[i] \cap DOMAIN services' \subseteq p2
    BY <1>1 DEF ProxiesStay
  <2>1. i \in 0 .. n \/ i = n + 1
    BY <1>1
  <2>. QED BY <1>0, <1>2, <2>1
<1>. QED BY <1>1, <1>2, <1>8, <1>9 DEF Planned

(* The message that is handled is the first of the plan.                    *)
LEMMA PlanFollowed ==
  ASSUME messages \in Seq(ConnManMessages), messages # <<>>, messages' = Tail(messages),
         Planned, Handled(Head(messages), proxied, activeServices, proxied', activeServices'),
         services' = services, missed' = missed, asked' = asked
  PROVE  Planned'
<1>0. PICK n \in Nat : n = Len(messages)
  BY LenProperties
<1>1. PICK p, a : /\ Plan(p, a) /\ EndsWell(p[n], a[n]) /\ ProxiesStay(p, p[n])
  BY <1>0 DEF Planned
<1>2. /\ n \in Nat /\ n > 0 /\ Len(messages') = n - 1 /\ Head(messages) = messages[1]
      /\ \A i \in 1 .. n - 1 : messages'[i] = messages[i + 1]
  BY <1>0, HeadTailProperties, EmptySeq
<1>3. /\ p \in [0 .. n -> SUBSET Monitor!Watched] /\ a \in [0 .. n -> SUBSET Monitor!Watched]
      /\ p[0] = proxied /\ a[0] = activeServices
      /\ \A i \in 1 .. n : Handled(messages[i], p[i - 1], a[i - 1], p[i], a[i])
  BY <1>0, <1>1 DEF Plan
<1>4. ProxiesStay(p, p[n]) /\ EndsWell(p[n], a[n])
  BY <1>1
<1>5. PICK q, b : /\ q \in [0 .. n - 1 -> SUBSET Monitor!Watched] /\ b \in [0 .. n - 1 -> SUBSET Monitor!Watched]
                  /\ \A i \in 0 .. n - 1 : q[i] = p[i + 1] /\ b[i] = a[i + 1]
                  /\ q[n - 1] = p[n] /\ b[n - 1] = a[n]
  <2>. DEFINE shifted(f) == [i \in 0 .. n - 1 |-> f[i + 1]]
  <2>1. ASSUME NEW f \in [0 .. n -> SUBSET Monitor!Watched]
        PROVE  /\ shifted(f) \in [0 .. n - 1 -> SUBSET Monitor!Watched] /\ shifted(f)[n - 1] = f[n]
               /\ \A i \in 0 .. n - 1 : shifted(f)[i] = f[i + 1]
    BY <1>2
  <2>. HIDE DEF shifted
  <2>. QED BY <1>3, <2>1
<1>6. p[1] = proxied' /\ a[1] = activeServices'
  <2>1. Handled(messages[1], p[0], a[0], p[1], a[1])
    <3>1. 1 \in 1 .. n /\ 1 - 1 = 0
      BY <1>2
    <3>. QED BY <1>3, <3>1
  <2>. QED BY <1>2, <1>3, <2>1 DEF Handled
<1>7. q[0] = proxied' /\ b[0] = activeServices'
  BY <1>2, <1>5, <1>6
<1>8. ASSUME NEW i \in 1 .. n - 1 PROVE Handled(messages'[i], q[i - 1], b[i - 1], q[i], b[i])
  <2>1. i + 1 \in 1 .. n /\ i - 1 \in 0 .. n - 1 /\ i \in 0 .. n - 1
        /\ (i + 1) - 1 = i /\ (i - 1) + 1 = i
    BY <1>2
  <2>2. q[i - 1] = p[i] /\ b[i - 1] = a[i] /\ q[i] = p[i + 1] /\ b[i] = a[i + 1]
        /\ messages'[i] = messages[i + 1]
    BY <1>2, <1>5, <2>1
  <2>3. Handled(messages[i + 1], p[i], a[i], p[i + 1], a[i + 1])
    BY <1>3, <2>1
  <2>. QED BY <2>2, <2>3
<1>9. Plan(q, b)'
  BY <1>2, <1>5, <1>7, <1>8 DEF Plan
<1>10. ProxiesStay(q, q[n - 1])'
  <2>. SUFFICES ASSUME NEW i \in 0 .. n - 1 PROVE q[i] \cap DOMAIN services \subseteq q[n - 1]
    BY <1>2 DEF ProxiesStay
  <2>1. i + 1 \in 0 .. n
    BY <1>2
  <2>. QED BY <1>0, <1>4, <1>5, <2>1 DEF ProxiesStay
<1>11. EndsWell(q[n - 1], b[n - 1])'
  BY <1>4, <1>5 DEF EndsWell, Monitor!Online
<1>. QED BY <1>2, <1>5, <1>9, <1>10, <1>11 DEF Planned

(* Where the plan leads, as it is now.                                      *)
LEMMA PlanNow ==
  ASSUME MonitorInv
  PROVE  \E p, a : /\ Plan(p, a)
                   /\ p[Len(messages)] \in SUBSET Monitor!Watched /\ a[Len(messages)] \in SUBSET Monitor!Watched
                   /\ EndsWell(p[Len(messages)], a[Len(messages)])
                   /\ ProxiesStay(p, p[Len(messages)])
                   /\ p[0] = proxied
                   /\ proxied \cap DOMAIN services \subseteq p[Len(messages)]
<1>1. Len(messages) \in Nat
  BY LenProperties DEF MonitorInv, MonitorTypes
<1>2. PICK p, a : /\ Plan(p, a) /\ EndsWell(p[Len(messages)], a[Len(messages)])
                  /\ ProxiesStay(p, p[Len(messages)])
  BY DEF MonitorInv, Planned
<1>3. /\ p[Len(messages)] \in SUBSET Monitor!Watched /\ a[Len(messages)] \in SUBSET Monitor!Watched
      /\ p[0] = proxied
  BY <1>1, <1>2 DEF Plan
<1>4. proxied \cap DOMAIN services \subseteq p[Len(messages)]
  BY <1>1, <1>2, <1>3 DEF ProxiesStay
<1>. QED BY <1>2, <1>3, <1>4

(* What no message is sent of leaves the plan as it is.                     *)
LEMMA PlanKept ==
  ASSUME MonitorInv, messages' = messages, proxied' = proxied, activeServices' = activeServices,
         DOMAIN services' \subseteq DOMAIN services,
         \A s \in Monitor!Watched \ missed' :
            /\ s \notin missed
            /\ s \in Monitor!Online(services') <=> s \in Monitor!Online(services),
         asked' = asked \/ (asked' = FALSE /\ Monitor!Online(services) = {})
  PROVE  Planned'
<1>1. PICK p, a : /\ Plan(p, a) /\ EndsWell(p[Len(messages)], a[Len(messages)])
                  /\ ProxiesStay(p, p[Len(messages)])
  BY DEF MonitorInv, Planned
<1>2. Plan(p, a)'
  BY <1>1 DEF Plan
<1>3. EndsWell(p[Len(messages)], a[Len(messages)])'
  BY <1>1 DEF EndsWell
<1>4. ProxiesStay(p, p[Len(messages)])'
  BY <1>1 DEF ProxiesStay
<1>5. p \in [0 .. Len(messages') -> SUBSET Monitor!Watched] /\ a \in [0 .. Len(messages') -> SUBSET Monitor!Watched]
  BY <1>2 DEF Plan
<1>. QED BY <1>2, <1>3, <1>4, <1>5 DEF Planned

LEMMA MessageTypes ==
  /\ \A f : DOMAIN f \subseteq Services /\ f \in [DOMAIN f -> BOOLEAN] => f \in Known
  /\ \A f \in Known : [kind |-> "services", services |-> f] \in ConnManMessages
  /\ \A f \in Known, R \in SUBSET Services :
       [kind |-> "changed", services |-> f, removed |-> R] \in ConnManMessages
  /\ \A s \in Services, b \in BOOLEAN :
       [kind |-> "state", path |-> s, online |-> b] \in ConnManMessages
<1>1. \A f : DOMAIN f \subseteq Services /\ f \in [DOMAIN f -> BOOLEAN] => f \in Known
  BY DEF Known
<1>2. \A f \in Known : [kind |-> "services", services |-> f] \in ConnManMessages
  BY DEF ConnManMessages
<1>3. \A f \in Known, R \in SUBSET Services :
        [kind |-> "changed", services |-> f, removed |-> R] \in ConnManMessages
  BY DEF ConnManMessages
<1>4. \A s \in Services, b \in BOOLEAN :
        [kind |-> "state", path |-> s, online |-> b] \in ConnManMessages
  BY DEF ConnManMessages
<1>. QED BY <1>1, <1>2, <1>3, <1>4

LEMMA AnnouncedKept ==
  ASSUME Monitor!AnnouncedIsActive, announced' = announced, activeServices' = activeServices
  PROVE  Monitor!AnnouncedIsActive'
BY DEF Monitor!AnnouncedIsActive, Monitor!ActiveConnectionTypes

LEMMA AnswerKeeps ==
  ASSUME MonitorInv, Monitor!Answer
  PROVE  MonitorInv'
<1>. DEFINE m == [kind |-> "services", services |-> services]
<1>0. MonitorTypes /\ Monitor!AnnouncedIsActive
  BY DEF MonitorInv
<1>1. /\ asked' = FALSE /\ messages' = Append(messages, m) /\ services' = services
      /\ proxied' = proxied /\ activeServices' = activeServices /\ announced' = announced
      /\ missed' = missed
  BY DEF Monitor!Answer
<1>2. m \in ConnManMessages /\ m.kind = "services" /\ m.services = services
  BY <1>0, MessageTypes DEF MonitorTypes
<1>. HIDE DEF m
<1>3. MonitorTypes'
  BY <1>0, <1>1, <1>2, AppendProperties DEF MonitorTypes
<1>4. PICK p, a : /\ Plan(p, a)
                  /\ p[Len(messages)] \in SUBSET Monitor!Watched /\ a[Len(messages)] \in SUBSET Monitor!Watched
                  /\ EndsWell(p[Len(messages)], a[Len(messages)])
                  /\ ProxiesStay(p, p[Len(messages)])
  BY PlanNow
<1>5. PICK P, A : P = p[Len(messages)] /\ A = a[Len(messages)]
  OBVIOUS
<1>6. PICK p2, a2 : /\ p2 = P \cup (DOMAIN services \cap Monitor!Watched)
                    /\ a2 = A \cup (Monitor!Online(services) \cap Monitor!Watched)
  OBVIOUS
<1>7. Monitor!Watched \subseteq Services
  BY DEF Monitor!Watched
<1>8. Planned'
  <2>1. p2 \in SUBSET Monitor!Watched /\ a2 \in SUBSET Monitor!Watched
    BY <1>4, <1>5, <1>6, <1>7
  <2>2. Handled(m, P, A, p2, a2)
    BY <1>2, <1>6 DEF Handled
  <2>3. EndsWell(p2, a2)'
    BY <1>1, <1>4, <1>5, <1>6 DEF EndsWell, Monitor!Online
  <2>4. \A i \in 0 .. Len(messages) : p[i] \cap DOMAIN services' \subseteq p2
    BY <1>1, <1>4, <1>5, <1>6 DEF ProxiesStay
  <2>. QED BY <1>0, <1>1, <1>2, <1>4, <1>5, <2>1, <2>2, <2>3, <2>4, PlanContinues DEF MonitorTypes
<1>. QED BY <1>0, <1>1, <1>3, <1>8, AnnouncedKept DEF MonitorInv

LEMMA AnswerErrorKeeps ==
  ASSUME MonitorInv, Monitor!AnswerError
  PROVE  MonitorInv'
<1>0. MonitorTypes /\ Monitor!AnnouncedIsActive
  BY DEF MonitorInv
<1>1. /\ asked' = FALSE /\ messages' = messages /\ services' = services
      /\ proxied' = proxied /\ activeServices' = activeServices /\ announced' = announced
      /\ missed' = missed
  BY DEF Monitor!AnswerError
<1>2. Monitor!Online(services) = {}
  BY DEF Monitor!AnswerError, Monitor!Online
<1>3. MonitorTypes'
  BY <1>0, <1>1 DEF MonitorTypes
<1>4. Planned'
  BY <1>1, <1>2, PlanKept
<1>. QED BY <1>0, <1>1, <1>3, <1>4, AnnouncedKept DEF MonitorInv

LEMMA ServiceAppearsKeeps ==
  ASSUME MonitorInv, NEW s \in Services, NEW online \in BOOLEAN, Monitor!ServiceAppears(s, online)
  PROVE  MonitorInv'
<1>. DEFINE found == [t \in {s} |-> online]
            m == [kind |-> "changed", services |-> found, removed |-> {}]
<1>0. MonitorTypes /\ Monitor!AnnouncedIsActive
  BY DEF MonitorInv
<1>1. /\ asked' = asked /\ messages' = Append(messages, m)
      /\ services' = [t \in DOMAIN services \cup {s} |-> IF t = s THEN online ELSE services[t]]
      /\ proxied' = proxied /\ activeServices' = activeServices /\ announced' = announced
      /\ missed' = missed /\ s \notin DOMAIN services
  BY DEF Monitor!ServiceAppears
<1>2. /\ m \in ConnManMessages /\ m.kind = "changed" /\ m.services = found /\ m.removed = {}
      /\ DOMAIN found = {s} /\ Monitor!Online(found) = IF online THEN {s} ELSE {}
  <2>1. DOMAIN found \subseteq Services /\ found \in [DOMAIN found -> BOOLEAN]
    OBVIOUS
  <2>. QED BY <2>1, MessageTypes DEF Monitor!Online
<1>. HIDE DEF m, found
<1>3. /\ DOMAIN services' = DOMAIN services \cup {s} /\ DOMAIN services' \subseteq Services
      /\ services' \in [DOMAIN services' -> BOOLEAN]
      /\ Monitor!Online(services') = Monitor!Online(services) \cup (IF online THEN {s} ELSE {})
      /\ s \notin Monitor!Online(services)
  BY <1>0, <1>1 DEF MonitorTypes, Monitor!Online
<1>4. MonitorTypes'
  BY <1>0, <1>1, <1>2, <1>3, AppendProperties DEF MonitorTypes
<1>5. PICK p, a : /\ Plan(p, a)
                  /\ p[Len(messages)] \in SUBSET Monitor!Watched /\ a[Len(messages)] \in SUBSET Monitor!Watched
                  /\ EndsWell(p[Len(messages)], a[Len(messages)])
                  /\ ProxiesStay(p, p[Len(messages)])
  BY PlanNow
<1>6. PICK P, A : P = p[Len(messages)] /\ A = a[Len(messages)]
  OBVIOUS
<1>7. PICK p2, a2 : /\ p2 = P \cup ({s} \cap Monitor!Watched)
                    /\ a2 = (A \ ({s} \cap Monitor!Watched))
                              \cup ((IF online THEN {s} ELSE {}) \cap Monitor!Watched)
  OBVIOUS
<1>8. Planned'
  <2>1. p2 \in SUBSET Monitor!Watched /\ a2 \in SUBSET Monitor!Watched
    BY <1>5, <1>6, <1>7
  <2>2. Handled(m, P, A, p2, a2)
    BY <1>2, <1>7 DEF Handled
  <2>3. EndsWell(p2, a2)'
    <3>. SUFFICES ASSUME NEW t \in Monitor!Watched, t \notin missed
                  PROVE  t \in a2 <=> t \in Monitor!Online(services') /\ (t \in p2 \/ asked = FALSE)
      BY <1>1 DEF EndsWell
    <3>1. t \in A <=> t \in Monitor!Online(services) /\ (t \in P \/ asked = FALSE)
      BY <1>5, <1>6 DEF EndsWell
    <3>2. CASE t = s
      BY <1>3, <1>7, <3>2
    <3>3. CASE t # s
      BY <1>3, <1>7, <3>1, <3>3
    <3>. QED BY <3>2, <3>3
  <2>4. \A i \in 0 .. Len(messages) : p[i] \cap DOMAIN services' \subseteq p2
    <3>. SUFFICES ASSUME NEW i \in 0 .. Len(messages), NEW t \in p[i], t \in DOMAIN services'
                  PROVE  t \in p2
      OBVIOUS
    <3>1. t \in Monitor!Watched
      BY <1>5 DEF Plan
    <3>2. t \in DOMAIN services => t \in P
      BY <1>5, <1>6 DEF ProxiesStay
    <3>. QED BY <1>3, <1>7, <3>1, <3>2
  <2>. QED BY <1>0, <1>1, <1>2, <1>5, <1>6, <2>1, <2>2, <2>3, <2>4, PlanContinues DEF MonitorTypes
<1>. QED BY <1>0, <1>1, <1>4, <1>8, AnnouncedKept DEF MonitorInv

LEMMA ServiceGoesKeeps ==
  ASSUME MonitorInv, NEW s \in Services, Monitor!ServiceGoes(s)
  PROVE  MonitorInv'
<1>. DEFINE none == [t \in {} |-> TRUE]
            m == [kind |-> "changed", services |-> none, removed |-> {s}]
<1>0. MonitorTypes /\ Monitor!AnnouncedIsActive
  BY DEF MonitorInv
<1>1. /\ asked' = asked /\ messages' = Append(messages, m)
      /\ services' = [t \in DOMAIN services \ {s} |-> services[t]]
      /\ proxied' = proxied /\ activeServices' = activeServices /\ announced' = announced
      /\ missed' = missed \ {s}
  BY DEF Monitor!ServiceGoes
<1>2. /\ m \in ConnManMessages /\ m.kind = "changed" /\ m.services = none /\ m.removed = {s}
      /\ DOMAIN none = {} /\ Monitor!Online(none) = {}
  <2>1. DOMAIN none \subseteq Services /\ none \in [DOMAIN none -> BOOLEAN]
    OBVIOUS
  <2>. QED BY <2>1, MessageTypes DEF Monitor!Online
<1>. HIDE DEF m, none
<1>3. /\ DOMAIN services' = DOMAIN services \ {s} /\ DOMAIN services' \subseteq Services
      /\ services' \in [DOMAIN services' -> BOOLEAN]
      /\ Monitor!Online(services') = Monitor!Online(services) \ {s}
  BY <1>0, <1>1 DEF MonitorTypes, Monitor!Online
<1>4. MonitorTypes'
  BY <1>0, <1>1, <1>2, <1>3, AppendProperties DEF MonitorTypes
<1>5. PICK p, a : /\ Plan(p, a)
                  /\ p[Len(messages)] \in SUBSET Monitor!Watched /\ a[Len(messages)] \in SUBSET Monitor!Watched
                  /\ EndsWell(p[Len(messages)], a[Len(messages)])
                  /\ ProxiesStay(p, p[Len(messages)])
  BY PlanNow
<1>6. PICK P, A : P = p[Len(messages)] /\ A = a[Len(messages)]
  OBVIOUS
<1>7. PICK p2, a2 : p2 = P \ {s} /\ a2 = A \ {s}
  OBVIOUS
<1>8. Planned'
  <2>1. p2 \in SUBSET Monitor!Watched /\ a2 \in SUBSET Monitor!Watched
    BY <1>5, <1>6, <1>7
  <2>2. Handled(m, P, A, p2, a2)
    BY <1>2, <1>7 DEF Handled
  <2>3. EndsWell(p2, a2)'
    <3>. SUFFICES ASSUME NEW t \in Monitor!Watched, t \notin missed \ {s}
                  PROVE  t \in a2 <=> t \in Monitor!Online(services') /\ (t \in p2 \/ asked = FALSE)
      BY <1>1 DEF EndsWell
    <3>1. t # s => (t \in A <=> t \in Monitor!Online(services) /\ (t \in P \/ asked = FALSE))
      BY <1>5, <1>6 DEF EndsWell
    <3>. QED BY <1>3, <1>7, <3>1
  <2>4. \A i \in 0 .. Len(messages) : p[i] \cap DOMAIN services' \subseteq p2
    BY <1>3, <1>5, <1>6, <1>7 DEF ProxiesStay
  <2>. QED BY <1>0, <1>1, <1>2, <1>5, <1>6, <2>1, <2>2, <2>3, <2>4, PlanContinues DEF MonitorTypes
<1>. QED BY <1>0, <1>1, <1>4, <1>8, AnnouncedKept DEF MonitorInv

LEMMA StateChangesKeeps ==
  ASSUME MonitorInv, NEW s \in Services, Monitor!StateChanges(s)
  PROVE  MonitorInv'
<1>0. MonitorTypes /\ Monitor!AnnouncedIsActive
  BY DEF MonitorInv
<1>1. /\ asked' = asked /\ services' = [services EXCEPT ![s] = ~@]
      /\ proxied' = proxied /\ activeServices' = activeServices /\ announced' = announced
      /\ s \in DOMAIN services
  BY DEF Monitor!StateChanges
<1>2. /\ services[s] \in BOOLEAN /\ (~services[s]) \in BOOLEAN /\ services'[s] = ~services[s]
      /\ DOMAIN services' = DOMAIN services /\ services' \in [DOMAIN services' -> BOOLEAN]
      /\ \A t \in DOMAIN services : t # s => services'[t] = services[t]
  BY <1>0, <1>1 DEF MonitorTypes
<1>3. \A t : t # s => (t \in Monitor!Online(services') <=> t \in Monitor!Online(services))
  BY <1>2 DEF Monitor!Online
<1>4. CASE s \in proxied
  <2>. DEFINE m == [kind |-> "state", path |-> s, online |-> services'[s]]
  <2>1. messages' = Append(messages, m) /\ missed' = missed \ {s}
    BY <1>4 DEF Monitor!StateChanges
  <2>2. /\ m \in ConnManMessages /\ m.kind = "state" /\ m.path = s /\ m.online = services'[s]
    BY <1>2, MessageTypes
  <2>. HIDE DEF m
  <2>3. MonitorTypes'
    BY <1>0, <1>1, <1>2, <2>1, <2>2, AppendProperties DEF MonitorTypes
  <2>4. PICK p, a : /\ Plan(p, a)
                    /\ p[Len(messages)] \in SUBSET Monitor!Watched
                    /\ a[Len(messages)] \in SUBSET Monitor!Watched
                    /\ EndsWell(p[Len(messages)], a[Len(messages)])
                    /\ ProxiesStay(p, p[Len(messages)])
                    /\ proxied \cap DOMAIN services \subseteq p[Len(messages)]
    BY PlanNow
  <2>5. PICK P, A : P = p[Len(messages)] /\ A = a[Len(messages)]
    OBVIOUS
  <2>6. PICK a2 : a2 = IF services'[s] THEN A \cup {s} ELSE A \ {s}
    OBVIOUS
  <2>7. s \in P /\ s \in Monitor!Watched
    BY <1>1, <1>4, <2>4, <2>5
  <2>8. Planned'
    <3>1. P \in SUBSET Monitor!Watched /\ a2 \in SUBSET Monitor!Watched
      BY <2>4, <2>5, <2>6, <2>7
    <3>2. Handled(m, P, A, P, a2)
      BY <2>2, <2>6, <2>7 DEF Handled
    <3>3. EndsWell(P, a2)'
      <4>. SUFFICES ASSUME NEW t \in Monitor!Watched, t \notin missed \ {s}
                    PROVE  t \in a2 <=> t \in Monitor!Online(services') /\ (t \in P \/ asked = FALSE)
        BY <1>1, <2>1 DEF EndsWell
      <4>1. CASE t = s
        <5>1. s \in Monitor!Online(services') <=> services'[s]
          BY <1>1, <1>2 DEF Monitor!Online
        <5>. QED BY <2>6, <2>7, <4>1, <5>1
      <4>2. CASE t # s
        <5>1. t \in A <=> t \in Monitor!Online(services) /\ (t \in P \/ asked = FALSE)
          BY <2>4, <2>5, <4>2 DEF EndsWell
        <5>. QED BY <1>3, <2>6, <4>2, <5>1
      <4>. QED BY <4>1, <4>2
    <3>4. \A i \in 0 .. Len(messages) : p[i] \cap DOMAIN services' \subseteq P
      BY <1>2, <2>4, <2>5 DEF ProxiesStay
    <3>. QED BY <1>0, <1>1, <2>1, <2>2, <2>4, <2>5, <3>1, <3>2, <3>3, <3>4, PlanContinues DEF MonitorTypes
  <2>. QED BY <1>0, <1>1, <2>3, <2>8, AnnouncedKept DEF MonitorInv
<1>5. CASE s \notin proxied
  <2>1. messages' = messages /\ missed' = missed \cup {s}
    BY <1>5 DEF Monitor!StateChanges
  <2>2. MonitorTypes'
    BY <1>0, <1>1, <1>2, <2>1 DEF MonitorTypes
  <2>3. Planned'
    BY <1>1, <1>2, <1>3, <2>1, PlanKept
  <2>. QED BY <1>0, <1>1, <2>2, <2>3, AnnouncedKept DEF MonitorInv
<1>. QED BY <1>4, <1>5

(* What is announced are the types of the active services, however they     *)
(* changed.                                                                 *)
LEMMA AnnouncedAgain ==
  ASSUME Monitor!AnnouncedIsActive, NEW paths, activeServices' = paths,
         Monitor!Announce(paths) \/ (Monitor!AnnounceFound(paths) /\ activeServices \subseteq paths)
  PROVE  Monitor!AnnouncedIsActive'
<1>1. announced = {ServiceType[s] : s \in activeServices}
  BY DEF Monitor!AnnouncedIsActive, Monitor!ActiveConnectionTypes
<1>2. CASE Monitor!Announce(paths)
  <2>1. announced' = {ServiceType[s] : s \in paths}
    BY <1>1, <1>2 DEF Monitor!Announce, Monitor!ActiveConnectionTypes
  <2>. QED BY <2>1 DEF Monitor!AnnouncedIsActive, Monitor!ActiveConnectionTypes
<1>3. CASE Monitor!AnnounceFound(paths) /\ activeServices \subseteq paths
  <2>1. announced' = {ServiceType[s] : s \in paths}
    <3>1. CASE paths = {}
      <4>1. activeServices = paths /\ announced' = announced
        BY <1>3, <3>1 DEF Monitor!AnnounceFound
      <4>. QED BY <1>1, <4>1
    <3>2. CASE paths # {}
      BY <1>3, <3>2 DEF Monitor!AnnounceFound, Monitor!ActiveConnectionTypes
    <3>. QED BY <3>1, <3>2
  <2>. QED BY <2>1 DEF Monitor!AnnouncedIsActive, Monitor!ActiveConnectionTypes
<1>. QED BY <1>2, <1>3

LEMMA ReceiveKeeps ==
  ASSUME MonitorInv, Monitor!Receive
  PROVE  MonitorInv'
<1>. DEFINE W == Monitor!Watched
<1>0. MonitorTypes /\ Monitor!AnnouncedIsActive /\ Planned
  BY DEF MonitorInv
<1>1. PICK m : m = Head(messages)
  OBVIOUS
<1>2. /\ messages # <<>> /\ messages' = Tail(messages)
      /\ services' = services /\ asked' = asked /\ missed' = missed
      /\ \/ m.kind = "services" /\ Monitor!ServiceList(m.services)
         \/ m.kind = "changed" /\ Monitor!ServicesChanged(m.services, m.removed)
         \/ m.kind = "state" /\ Monitor!PropertyChanged(m.path, m.online)
  BY <1>1 DEF Monitor!Receive
<1>3. messages' \in Seq(ConnManMessages)
  BY <1>0, <1>2, HeadTailProperties DEF MonitorTypes
<1>4. /\ Handled(m, proxied, activeServices, proxied', activeServices')
      /\ Monitor!AnnouncedIsActive'
      /\ proxied' \subseteq W /\ activeServices' \subseteq W
  <2>0. proxied \subseteq W /\ activeServices \subseteq W
    BY <1>0 DEF MonitorTypes
  <2>1. CASE m.kind = "services" /\ Monitor!ServiceList(m.services)
    <3>. DEFINE paths == activeServices \cup (Monitor!Online(m.services) \cap W)
    <3>1. /\ activeServices' = paths /\ Monitor!AnnounceFound(paths)
          /\ proxied' = proxied \cup (DOMAIN m.services \cap W)
      BY <2>1 DEF Monitor!ServiceList, Monitor!ServiceActive, Monitor!MonitorServices
    <3>2. activeServices \subseteq paths /\ paths \subseteq W
      BY <2>0
    <3>3. Handled(m, proxied, activeServices, proxied', activeServices')
      BY <2>1, <3>1 DEF Handled
    <3>. HIDE DEF paths
    <3>4. Monitor!AnnouncedIsActive'
      BY <1>0, <3>1, <3>2, AnnouncedAgain
    <3>. QED BY <2>0, <3>1, <3>2, <3>3, <3>4
  <2>2. CASE m.kind = "changed" /\ Monitor!ServicesChanged(m.services, m.removed)
    <3>. DEFINE paths == (activeServices \ (m.removed \cup (DOMAIN m.services \cap W)))
                            \cup (Monitor!Online(m.services) \cap W)
    <3>1. /\ activeServices' = paths /\ Monitor!Announce(paths)
          /\ proxied' = (proxied \ m.removed) \cup (DOMAIN m.services \cap W)
      BY <2>2 DEF Monitor!ServicesChanged, Monitor!ServiceActive, Monitor!ServiceInactive,
                  Monitor!MonitorServices
    <3>2. paths \subseteq W
      BY <2>0
    <3>3. Handled(m, proxied, activeServices, proxied', activeServices')
      BY <2>2, <3>1 DEF Handled
    <3>. HIDE DEF paths
    <3>4. Monitor!AnnouncedIsActive'
      BY <1>0, <3>1, AnnouncedAgain
    <3>. QED BY <2>0, <3>1, <3>2, <3>3, <3>4
  <2>3. CASE m.kind = "state" /\ Monitor!PropertyChanged(m.path, m.online)
    <3>1. CASE m.path \in proxied
      <4>. DEFINE paths == IF m.online THEN activeServices \cup {m.path} ELSE activeServices \ {m.path}
      <4>1. activeServices' = paths /\ Monitor!Announce(paths) /\ proxied' = proxied
        BY <2>3, <3>1 DEF Monitor!PropertyChanged, Monitor!ServiceActive, Monitor!ServiceInactive
      <4>2. paths \subseteq W
        BY <2>0, <3>1
      <4>3. Handled(m, proxied, activeServices, proxied', activeServices')
        BY <2>3, <3>1, <4>1 DEF Handled
      <4>. HIDE DEF paths
      <4>4. Monitor!AnnouncedIsActive'
        BY <1>0, <4>1, AnnouncedAgain
      <4>. QED BY <2>0, <4>1, <4>2, <4>3, <4>4
    <3>2. CASE m.path \notin proxied
      <4>1. activeServices' = activeServices /\ announced' = announced /\ proxied' = proxied
        BY <2>3, <3>2 DEF Monitor!PropertyChanged
      <4>2. Handled(m, proxied, activeServices, proxied', activeServices')
        BY <2>3, <3>2, <4>1 DEF Handled
      <4>. QED BY <1>0, <2>0, <4>1, <4>2, AnnouncedKept
    <3>. QED BY <3>1, <3>2
  <2>. QED BY <1>2, <2>1, <2>2, <2>3
<1>5. MonitorTypes'
  BY <1>0, <1>2, <1>3, <1>4 DEF MonitorTypes
<1>6. Planned'
  BY <1>0, <1>1, <1>2, <1>4, PlanFollowed DEF MonitorTypes
<1>. QED BY <1>4, <1>5, <1>6 DEF MonitorInv

LEMMA MonitorStep ==
  ASSUME MonitorInv, Monitor!Next
  PROVE  MonitorInv'
BY AnswerKeeps, AnswerErrorKeeps, ReceiveKeeps, ServiceAppearsKeeps, ServiceGoesKeeps,
   StateChangesKeeps DEF Monitor!Next

LEMMA MonitorInit ==
  ASSUME Init
  PROVE  MonitorInv
<1>1. /\ services \in UNION {[D -> BOOLEAN] : D \in SUBSET Services}
      /\ asked = TRUE /\ messages = <<>> /\ proxied = {} /\ activeServices = {} /\ announced = {}
      /\ missed = {}
  BY DEF Init, Monitor!Init
<1>2. MonitorTypes
  BY <1>1 DEF MonitorTypes
<1>3. Monitor!AnnouncedIsActive
  BY <1>1 DEF Monitor!AnnouncedIsActive, Monitor!ActiveConnectionTypes
<1>4. Planned
  <2>. DEFINE p == [i \in 0 .. 0 |-> {}]
  <2>0. Len(messages) = 0
    BY <1>1
  <2>1. p \in [0 .. 0 -> SUBSET Monitor!Watched] /\ p[0] = {}
    OBVIOUS
  <2>. HIDE DEF p
  <2>2. Plan(p, p)
    BY <1>1, <2>0, <2>1 DEF Plan
  <2>3. EndsWell(p[0], p[0])
    BY <1>1, <2>1 DEF EndsWell
  <2>4. ProxiesStay(p, p[0])
    BY <2>0, <2>1 DEF ProxiesStay
  <2>. QED BY <2>0, <2>1, <2>2, <2>3, <2>4 DEF Planned
<1>. QED BY <1>2, <1>3, <1>4 DEF MonitorInv

(* For all services, however they appear, go and change, and however the     *)
(* answer to GetServices comes between the signals: once ConnMan's messages  *)
(* are handled the services active are those online, but for those whose     *)
(* change no proxy listened for, and the home screen always was last told    *)
(* the types of the services that are active.                                *)
THEOREM ConnManIsFollowed == Spec => []FollowsConnMan
<1>1. Init => MonitorInv
  BY MonitorInit
<1>2. MonitorInv /\ [Next]_<<folderVars, watcherVars, notificationVars, objectVars, categoryVars,
                             serviceVars, part>> => MonitorInv'
  <2>. SUFFICES ASSUME MonitorInv,
                       \/ Next
                       \/ UNCHANGED <<folderVars, watcherVars, notificationVars, objectVars,
                                      categoryVars, serviceVars, part>>
                PROVE  MonitorInv'
    OBVIOUS
  <2>1. CASE Monitor!Next
    BY <2>1, MonitorStep
  <2>2. CASE UNCHANGED serviceVars
    <3>1. /\ asked' = asked /\ messages' = messages /\ services' = services
          /\ proxied' = proxied /\ activeServices' = activeServices /\ announced' = announced
          /\ missed' = missed
      BY <2>2 DEF serviceVars
    <3>2. MonitorTypes'
      BY <3>1 DEF MonitorInv, MonitorTypes
    <3>3. Planned'
      BY <3>1, PlanKept DEF Monitor!Online
    <3>. QED BY <3>1, <3>2, <3>3, AnnouncedKept DEF MonitorInv
  <2>. QED BY <2>1, <2>2 DEF Next
<1>3. MonitorInv => FollowsConnMan
  <2>. SUFFICES ASSUME MonitorInv, asked = FALSE, messages = <<>>
                PROVE  activeServices \ missed = (Monitor!Online(services) \cap Monitor!Watched) \ missed
    BY DEF MonitorInv, MonitorTypes, FollowsConnMan, Monitor!FollowsConnMan
  <2>1. Len(messages) = 0
    OBVIOUS
  <2>2. PICK p, a : Plan(p, a) /\ EndsWell(p[0], a[0])
    BY <2>1 DEF MonitorInv, Planned
  <2>3. a[0] = activeServices
    BY <2>2 DEF Plan
  <2>. QED BY <2>2, <2>3 DEF EndsWell, MonitorInv, MonitorTypes
<1>. QED BY <1>1, <1>2, <1>3, PTL DEF Spec

-----------------------------------------------------------------------------
(* synchronizeList.  What it has gone through of the list is what it has    *)
(* gone through of the reference.                                           *)
InPlace(c) ==
    /\ place = <<c, c>> /\ c <= Len(list) /\ c <= available
    /\ \A i \in 1 .. c : list[i] = reference[i]

ListTypes ==
    /\ list \in Seq(Objects) /\ reference \in Seq(Objects)
    /\ available \in 0 .. Len(reference)

ListInv ==
    /\ ListTypes
    /\ phase = "idle" => place = <<0, 0>>
    /\ \E c \in Nat : InPlace(c)

(* removeRange and insertRange behind what is in place.                     *)
ExchangedAt(e, c, i, j) ==
    /\ e \in Seq(Objects) /\ Len(e) = Len(list) - i + j
    /\ \A n \in 1 .. c : e[n] = list[n]
    /\ \A n \in 1 .. j : e[c + n] = reference[c + n]
    /\ \A n \in 1 .. Len(list) - c - i : e[c + j + n] = list[c + i + n]

LEMMA ExchangedList ==
  ASSUME ListTypes, NEW c \in Nat, place = <<c, c>>, NEW i \in Nat, NEW j \in Nat,
         c + i <= Len(list), c + j <= Len(reference)
  PROVE  ExchangedAt(Model!Exchanged(i, j).list, c, i, j)
<1>. PICK e : e = Model!Exchanged(i, j).list
  OBVIOUS
<1>0. Len(list) \in Nat /\ list \in Seq(Objects) /\ reference \in Seq(Objects)
  BY LenProperties DEF ListTypes
<1>1. PICK x, y, z : /\ x = SubSeq(list, 1, c) /\ y = SubSeq(reference, c + 1, c + j)
                     /\ z = SubSeq(list, c + i + 1, Len(list))
  OBVIOUS
<1>2. e = x \o y \o z
  <2>1. place[1] = c /\ place[2] = c
    OBVIOUS
  <2>. QED BY <1>1, <2>1 DEF Model!Exchanged
<1>3. x \in Seq(Objects) /\ Len(x) = c /\ \A n \in 1 .. c : x[n] = list[n]
  <2>1. c <= Len(list)
    BY <1>0
  <2>. QED BY <1>0, <1>1, <2>1, FirstPart
<1>4. y \in Seq(Objects) /\ Len(y) = j /\ \A n \in 1 .. j : y[n] = reference[c + n]
  <2>1. /\ SubSeq(reference, c + 1, c + j) \in Seq(Objects)
        /\ Len(SubSeq(reference, c + 1, c + j)) = j
        /\ \A n \in 1 .. j : SubSeq(reference, c + 1, c + j)[n] = reference[c + n]
    BY <1>0, MiddlePart
  <2>. QED BY <1>1, <2>1
<1>5. /\ z \in Seq(Objects) /\ Len(z) = Len(list) - c - i
      /\ \A n \in 1 .. Len(list) - c - i : z[n] = list[c + i + n]
  <2>1. PICK k \in Nat : k = c + i
    OBVIOUS
  <2>2. /\ SubSeq(list, k + 1, Len(list)) \in Seq(Objects)
        /\ Len(SubSeq(list, k + 1, Len(list))) = Len(list) - k
        /\ \A n \in 1 .. Len(list) - k : SubSeq(list, k + 1, Len(list))[n] = list[k + n]
    BY <1>0, <2>1, LastPart
  <2>3. Len(list) - k = Len(list) - c - i
    BY <1>0, <2>1
  <2>. QED BY <1>1, <2>1, <2>2, <2>3, Zenon
<1>6. /\ e \in Seq(Objects) /\ Len(e) = Len(x) + Len(y) + Len(z)
      /\ \A n \in 1 .. Len(x) : e[n] = x[n]
      /\ \A n \in 1 .. Len(y) : e[Len(x) + n] = y[n]
      /\ \A n \in 1 .. Len(z) : e[Len(x) + Len(y) + n] = z[n]
  <2>1. x \in Seq(Objects) /\ y \in Seq(Objects) /\ z \in Seq(Objects)
    BY <1>3, <1>4, <1>5
  <2>2. /\ x \o y \o z \in Seq(Objects) /\ Len(x \o y \o z) = Len(x) + Len(y) + Len(z)
        /\ \A n \in 1 .. Len(x) : (x \o y \o z)[n] = x[n]
        /\ \A n \in 1 .. Len(y) : (x \o y \o z)[Len(x) + n] = y[n]
        /\ \A n \in 1 .. Len(z) : (x \o y \o z)[Len(x) + Len(y) + n] = z[n]
    BY <2>1, ThreeParts
  <2>. QED BY <1>2, <2>2
<1>7. Len(x) + Len(y) + Len(z) = Len(list) - i + j
  BY <1>0, <1>3, <1>4, <1>5
<1>8. \A n \in 1 .. c : e[n] = list[n]
  BY <1>3, <1>6
<1>9. \A n \in 1 .. j : e[c + n] = reference[c + n]
  <2>1. \A n \in 1 .. Len(y) : e[Len(x) + n] = y[n]
    BY <1>6
  <2>2. Len(x) = c
    BY <1>3
  <2>. QED BY <1>4, <2>1, <2>2
<1>10. \A n \in 1 .. Len(list) - c - i : e[c + j + n] = list[c + i + n]
  <2>1. \A n \in 1 .. Len(z) : e[Len(x) + Len(y) + n] = z[n]
    BY <1>6
  <2>2. Len(x) = c /\ Len(y) = j
    BY <1>3, <1>4
  <2>. QED BY <1>5, <2>1, <2>2
<1>. QED BY <1>6, <1>7, <1>8, <1>9, <1>10 DEF ExchangedAt

LEMMA CallKeepsPlace ==
  ASSUME ListInv, phase = "idle", list' \in Seq(Objects), reference' = reference,
         available' = available, phase' = phase, place' = place
  PROVE  ListInv'
<1>1. place = <<0, 0>> /\ ListTypes
  BY DEF ListInv
<1>2. ListTypes'
  BY <1>1 DEF ListTypes
<1>3. Len(list') \in Nat /\ available \in Nat
  BY <1>1, LenProperties DEF ListTypes
<1>4. InPlace(0)'
  BY <1>1, <1>3 DEF InPlace
<1>. QED BY <1>1, <1>2, <1>4 DEF ListInv

LEMMA WithoutTypes ==
  ASSUME list \in Seq(Objects), NEW gone, NEW rest \in Model!Without(gone)
  PROVE  rest \in Seq(Objects)
<1>. DEFINE left == {i \in DOMAIN list : list[i] \notin gone}
<1>1. Len(list) \in Nat /\ DOMAIN list = 1 .. Len(list) /\ \A i \in 1 .. Len(list) : list[i] \in Objects
  BY LenProperties, ElementOfSeq
<1>2. IsFiniteSet(left)
  <2>1. IsFiniteSet(1 .. Len(list))
    BY <1>1, FS_Interval
  <2>. QED BY <1>1, <2>1, FS_Subset
<1>3. Cardinality(left) \in Nat
  BY <1>2, FS_CardinalityType
<1>4. Model!Cardinality(left) = Cardinality(left)
  BY DEF Model!Cardinality, Cardinality
<1>5. PICK r \in [1 .. Cardinality(left) -> left] : rest = [n \in DOMAIN r |-> list[r[n]]]
  BY <1>4 DEF Model!Without
<1>6. rest = [n \in 1 .. Cardinality(left) |-> rest[n]]
      /\ \A n \in 1 .. Cardinality(left) : rest[n] \in Objects
  BY <1>1, <1>5
<1>7. PICK k \in Nat : k = Cardinality(left)
  BY <1>3
<1>8. rest = [n \in 1 .. k |-> rest[n]] /\ \A n \in 1 .. k : rest[n] \in Objects
  BY <1>6, <1>7
<1>. QED BY <1>8
LEMMA ListIsTyped ==
  ASSUME ListInv
  PROVE  /\ list \in Seq(Objects) /\ reference \in Seq(Objects)
         /\ Len(list) \in Nat /\ Len(reference) \in Nat
         /\ available \in Nat /\ available <= Len(reference)
<1>1. list \in Seq(Objects) /\ reference \in Seq(Objects) /\ available \in 0 .. Len(reference)
  BY DEF ListInv, ListTypes
<1>2. Len(list) \in Nat /\ Len(reference) \in Nat
  BY <1>1, LenProperties
<1>. QED BY <1>1, <1>2

LEMMA AddItemsTypes ==
  ASSUME ListInv, NEW more \in Seq(Objects), NEW index \in 0 .. Len(list),
         Model!AddItems(index, more)
  PROVE  ListInv'
<1>1. /\ phase = "idle" /\ phase' = phase /\ place' = place
      /\ reference' = reference /\ available' = available
      /\ list' = SubSeq(list, 1, index) \o more \o SubSeq(list, index + 1, Len(list))
  BY DEF Model!AddItems, Model!Called
<1>2. list \in Seq(Objects) /\ Len(list) \in Nat
  BY ListIsTyped
<1>3. index \in Nat /\ index <= Len(list)
  BY <1>2
<1>4. SubSeq(list, 1, index) \in Seq(Objects)
  BY <1>2, <1>3, FirstPart
<1>5. SubSeq(list, index + 1, Len(list)) \in Seq(Objects)
  BY <1>2, <1>3, LastPart
<1>6. list' \in Seq(Objects)
  <2>1. PICK x, z : x = SubSeq(list, 1, index) /\ z = SubSeq(list, index + 1, Len(list))
    OBVIOUS
  <2>2. x \in Seq(Objects) /\ z \in Seq(Objects)
    BY <1>4, <1>5, <2>1
  <2>3. x \o more \o z \in Seq(Objects)
    BY <2>2, ThreeParts
  <2>. QED BY <1>1, <2>1, <2>3
<1>. QED BY <1>1, <1>6, CallKeepsPlace

LEMMA MoveTypes ==
  ASSUME ListInv, NEW oldRow \in DOMAIN list, NEW newRow \in DOMAIN list,
         Model!Move(oldRow, newRow)
  PROVE  ListInv'
<1>1. /\ phase = "idle" /\ phase' = phase /\ place' = place
      /\ reference' = reference /\ available' = available
      /\ list' = Model!InsertAt(Model!RemoveAt(list, oldRow), newRow, list[oldRow])
  BY DEF Model!Move, Model!Called
<1>2. list \in Seq(Objects) /\ Len(list) \in Nat /\ DOMAIN list = 1 .. Len(list)
  BY ListIsTyped, LenProperties
<1>3. PICK r : r = RemoveAt(list, oldRow)
  OBVIOUS
<1>4. r \in Seq(Objects) /\ Len(r) = Len(list) - 1
  <2>1. oldRow \in 1 .. Len(list)
    BY <1>2
  <2>2. RemoveAt(list, oldRow) \in Seq(Objects) /\ HasTakenOut(RemoveAt(list, oldRow), list, oldRow)
    BY <1>2, <2>1, TakenOut
  <2>. QED BY <1>3, <2>2 DEF HasTakenOut
<1>5. PICK b \in Nat : newRow = b + 1
  <2>1. newRow - 1 \in Nat /\ newRow = newRow - 1 + 1
    BY <1>2
  <2>. QED BY <2>1
<1>6. b <= Len(r)
  BY <1>2, <1>4, <1>5
<1>7. list[oldRow] \in Objects
  BY <1>2, ElementOfSeq
<1>8. list' = InsertAt(r, b + 1, list[oldRow])
  BY <1>1, <1>3, <1>5 DEF Model!InsertAt, InsertAt, Model!RemoveAt, RemoveAt
<1>9. list' \in Seq(Objects)
  BY <1>4, <1>6, <1>7, <1>8, PutIn
<1>. QED BY <1>1, <1>9, CallKeepsPlace

LEMMA RemovedTypes ==
  ASSUME ListInv, NEW gone, phase = "idle", phase' = phase, Model!Removed(gone)
  PROVE  ListInv'
<1>1. list' \in Seq(Objects)
  <2>1. list' \in Model!Without(gone)
    BY DEF Model!Removed
  <2>. QED BY <2>1, ListIsTyped, WithoutTypes
<1>2. place' = place /\ reference' = reference /\ available' = available
  BY DEF Model!Removed
<1>. QED BY <1>1, <1>2, CallKeepsPlace

LEMMA SynchronizeTypes ==
  ASSUME ListInv, NEW wanted \in Seq(Objects), NEW known \in Nat, known <= Len(wanted),
         Model!Synchronize(wanted, known)
  PROVE  ListInv'
<1>1. /\ reference' = wanted /\ available' = known /\ phase' = "scan" /\ place' = <<0, 0>>
      /\ list' = list
  BY DEF Model!Synchronize
<1>2. list \in Seq(Objects) /\ Len(list) \in Nat /\ Len(wanted) \in Nat
  BY ListIsTyped, LenProperties
<1>3. ListTypes'
  BY <1>1, <1>2 DEF ListTypes
<1>4. InPlace(0)'
  BY <1>1, <1>2 DEF InPlace
<1>. QED BY <1>1, <1>3, <1>4 DEF ListInv

LEMMA ScanTypes ==
  ASSUME ListInv, Model!Scan
  PROVE  ListInv'
<1>0. /\ list \in Seq(Objects) /\ reference \in Seq(Objects)
      /\ Len(list) \in Nat /\ Len(reference) \in Nat
      /\ available \in Nat /\ available <= Len(reference)
  BY ListIsTyped
<1>1. PICK c \in Nat : InPlace(c)
  BY DEF ListInv
<1>2. /\ place = <<c, c>> /\ c <= Len(list) /\ c <= available
      /\ \A n \in 1 .. c : list[n] = reference[n]
  BY <1>1 DEF InPlace
<1>3. /\ phase = "scan" /\ reference' = reference /\ available' = available
  BY DEF Model!Scan
<1>4. CASE phase' = "returned" /\ UNCHANGED <<list, place>>
  <2>1. list' = list /\ place' = place
    BY <1>4
  <2>2. InPlace(c)'
    BY <1>2, <1>3, <2>1 DEF InPlace
  <2>3. ListTypes'
    BY <1>0, <1>3, <2>1 DEF ListTypes
  <2>. QED BY <1>4, <2>2, <2>3 DEF ListInv
<1>5. ASSUME NEW p \in Model!Matches, Model!Exchange(p[1], p[2]), place' = Model!Pass(p[2]),
             phase' = phase
      PROVE  ListInv'
  <2>1. PICK i, j : i = p[1] /\ j = p[2]
    OBVIOUS
  <2>2. /\ i \in Nat /\ j \in Nat /\ i <= Len(list) - c - 1 /\ j <= available - c - 1
        /\ list[c + i + 1] = reference[c + j + 1]
    BY <1>0, <1>2, <1>5, <2>1 DEF Model!Matches
  <2>3. c + i <= Len(list) /\ c + j <= Len(reference)
    BY <1>0, <2>2
  <2>4. list' = Model!Exchanged(i, j).list /\ place' = <<c + j + 1, c + j + 1>>
    BY <1>2, <1>5, <2>1 DEF Model!Exchange, Model!Pass
  <2>5. PICK e : e = list'
    OBVIOUS
  <2>6. /\ e \in Seq(Objects) /\ Len(e) = Len(list) - i + j
        /\ \A n \in 1 .. c : e[n] = list[n]
        /\ \A n \in 1 .. j : e[c + n] = reference[c + n]
        /\ \A n \in 1 .. Len(list) - c - i : e[c + j + n] = list[c + i + n]
    <3>1. ListTypes /\ place = <<c, c>> /\ c + i <= Len(list) /\ c + j <= Len(reference)
      BY <1>2, <2>3 DEF ListInv
    <3>2. i \in Nat /\ j \in Nat
      BY <2>2
    <3>3. ExchangedAt(Model!Exchanged(i, j).list, c, i, j)
      BY <3>1, <3>2, ExchangedList
    <3>. QED BY <2>4, <2>5, <3>3 DEF ExchangedAt
  <2>7. e[c + j + 1] = reference[c + j + 1]
    <3>1. 1 \in 1 .. Len(list) - c - i
      BY <1>0, <2>2
    <3>. QED BY <2>2, <2>6, <3>1
  <2>8. ASSUME NEW n \in 1 .. c + j + 1 PROVE e[n] = reference[n]
    <3>1. CASE n \in 1 .. c
      BY <1>2, <2>6, <3>1
    <3>2. CASE n \in c + 1 .. c + j
      <4>1. n - c \in 1 .. j /\ c + (n - c) = n
        BY <2>2, <3>2
      <4>. QED BY <2>6, <4>1
    <3>3. CASE n = c + j + 1
      BY <2>7, <3>3
    <3>. QED BY <2>2, <3>1, <3>2, <3>3
  <2>9. c + j + 1 \in Nat /\ c + j + 1 <= Len(e) /\ c + j + 1 <= available
    BY <1>0, <2>2, <2>6
  <2>10. PICK k \in Nat : k = c + j + 1
    BY <2>9
  <2>11. InPlace(k)'
    BY <1>3, <2>4, <2>5, <2>8, <2>9, <2>10 DEF InPlace
  <2>12. ListTypes'
    BY <1>0, <1>3, <2>5, <2>6 DEF ListTypes
  <2>. QED BY <1>3, <1>5, <2>10, <2>11, <2>12 DEF ListInv
<1>. QED BY <1>4, <1>5 DEF Model!Scan

LEMMA ScanEndsTypes ==
  ASSUME ListInv, Model!ScanEnds
  PROVE  ListInv'
<1>0. /\ list \in Seq(Objects) /\ reference \in Seq(Objects)
      /\ Len(list) \in Nat /\ Len(reference) \in Nat
      /\ available \in Nat /\ available <= Len(reference)
  BY ListIsTyped
<1>1. PICK c \in Nat : InPlace(c)
  BY DEF ListInv
<1>2. /\ place = <<c, c>> /\ c <= Len(list) /\ c <= available
      /\ \A n \in 1 .. c : list[n] = reference[n]
  BY <1>1 DEF InPlace
<1>3. /\ phase' = "returned" /\ reference' = reference /\ available' = available
  BY DEF Model!ScanEnds
<1>4. CASE place[1] # Len(list)
  <2>1. list' = list /\ place' = place
    BY <1>4 DEF Model!ScanEnds
  <2>2. InPlace(c)'
    BY <1>2, <1>3, <2>1 DEF InPlace
  <2>3. ListTypes'
    BY <1>0, <1>3, <2>1 DEF ListTypes
  <2>. QED BY <1>3, <2>2, <2>3 DEF ListInv
<1>5. CASE place[1] = Len(list)
  <2>1. PICK j \in Nat : j = available - c
    BY <1>0, <1>2
  <2>2. list' = Model!Exchanged(0, j).list /\ place' = <<c + j, available>>
    BY <1>2, <1>5, <2>1 DEF Model!ScanEnds, Model!Exchange
  <2>3. PICK e : e = list'
    OBVIOUS
  <2>4. Len(list) = c /\ c + 0 <= Len(list) /\ c + j <= Len(reference) /\ c + j = available
    BY <1>0, <1>2, <1>5, <2>1
  <2>5. /\ e \in Seq(Objects) /\ Len(e) = Len(list) - 0 + j
        /\ \A n \in 1 .. c : e[n] = list[n]
        /\ \A n \in 1 .. j : e[c + n] = reference[c + n]
    <3>1. ListTypes /\ place = <<c, c>> /\ c + 0 <= Len(list) /\ c + j <= Len(reference)
      BY <1>2, <2>4 DEF ListInv
    <3>2. ExchangedAt(Model!Exchanged(0, j).list, c, 0, j)
      BY <3>1, ExchangedList
    <3>. QED BY <2>2, <2>3, <3>2 DEF ExchangedAt
  <2>6. ASSUME NEW n \in 1 .. available PROVE e[n] = reference[n]
    <3>1. CASE n \in 1 .. c
      BY <1>2, <2>5, <3>1
    <3>2. CASE n \in c + 1 .. c + j
      <4>1. n - c \in 1 .. j /\ c + (n - c) = n
        BY <3>2
      <4>. QED BY <2>5, <4>1
    <3>. QED BY <2>4, <3>1, <3>2
  <2>7. InPlace(available)'
    BY <1>0, <1>3, <2>2, <2>3, <2>4, <2>5, <2>6 DEF InPlace
  <2>8. ListTypes'
    BY <1>0, <1>3, <2>3, <2>5 DEF ListTypes
  <2>. QED BY <1>0, <1>3, <2>7, <2>8 DEF ListInv
<1>. QED BY <1>4, <1>5

LEMMA ScanOnTypes ==
  ASSUME ListInv, NEW known \in DOMAIN reference, Model!ScanOn(known)
  PROVE  ListInv'
<1>0. /\ list \in Seq(Objects) /\ reference \in Seq(Objects)
      /\ Len(list) \in Nat /\ Len(reference) \in Nat
      /\ available \in Nat /\ available <= Len(reference)
  BY ListIsTyped
<1>1. PICK c \in Nat : InPlace(c)
  BY DEF ListInv
<1>2. /\ place = <<c, c>> /\ c <= Len(list) /\ c <= available
      /\ \A n \in 1 .. c : list[n] = reference[n]
  BY <1>1 DEF InPlace
<1>3. /\ known > available /\ available' = known /\ phase' = "scan"
      /\ list' = list /\ reference' = reference /\ place' = place
  BY DEF Model!ScanOn
<1>4. known \in Nat /\ known <= Len(reference)
  BY <1>0, LenProperties
<1>5. c <= available'
  BY <1>0, <1>2, <1>3, <1>4
<1>6. InPlace(c)'
  BY <1>2, <1>3, <1>5 DEF InPlace
<1>7. ListTypes'
  BY <1>0, <1>3, <1>4 DEF ListTypes
<1>. QED BY <1>3, <1>6, <1>7 DEF ListInv

LEMMA CompleteTypes ==
  ASSUME ListInv, Model!Complete
  PROVE  ListInv' /\ list' = reference
<1>0. /\ list \in Seq(Objects) /\ reference \in Seq(Objects)
      /\ Len(list) \in Nat /\ Len(reference) \in Nat
      /\ available \in Nat /\ available <= Len(reference)
  BY ListIsTyped
<1>1. PICK c \in Nat : InPlace(c)
  BY DEF ListInv
<1>2. /\ place = <<c, c>> /\ c <= Len(list) /\ c <= available
      /\ \A n \in 1 .. c : list[n] = reference[n]
  BY <1>1 DEF InPlace
<1>3. PICK i \in Nat, j \in Nat : i = Len(list) - c /\ j = available - c
  <2>1. Len(list) - c \in Nat /\ available - c \in Nat
    BY <1>0, <1>2
  <2>. QED BY <2>1
<1>4. /\ available = Len(reference) /\ list' = Model!Exchanged(i, j).list
      /\ phase' = "idle" /\ place' = <<0, 0>> /\ reference' = <<>> /\ available' = 0
  <2>1. place[1] = c /\ place[2] = c
    BY <1>2
  <2>. QED BY <1>3, <2>1 DEF Model!Complete, Model!CompleteSynchronizeList
<1>5. PICK e : e = list'
  OBVIOUS
<1>6. c + i = Len(list) /\ c + j = Len(reference) /\ c + i <= Len(list) /\ c + j <= Len(reference)
  BY <1>0, <1>3, <1>4
<1>7. /\ e \in Seq(Objects) /\ Len(e) = Len(list) - i + j
      /\ \A n \in 1 .. c : e[n] = list[n]
      /\ \A n \in 1 .. j : e[c + n] = reference[c + n]
  <2>1. ListTypes /\ place = <<c, c>> /\ c + i <= Len(list) /\ c + j <= Len(reference)
    BY <1>2, <1>6 DEF ListInv
  <2>2. ExchangedAt(Model!Exchanged(i, j).list, c, i, j)
    BY <2>1, ExchangedList
  <2>. QED BY <1>4, <1>5, <2>2 DEF ExchangedAt
<1>8. Len(e) = Len(reference)
  BY <1>0, <1>3, <1>6, <1>7
<1>9. ASSUME NEW n \in 1 .. Len(reference) PROVE e[n] = reference[n]
  <2>1. CASE n \in 1 .. c
    BY <1>2, <1>7, <2>1
  <2>2. CASE n \in c + 1 .. c + j
    <3>1. n - c \in 1 .. j /\ c + (n - c) = n
      BY <2>2
    <3>. QED BY <1>7, <3>1
  <2>. QED BY <1>6, <2>1, <2>2
<1>10. e = reference
  <2>1. e \in Seq(Objects) /\ reference \in Seq(Objects)
    BY <1>0, <1>7
  <2>2. Len(e) = Len(reference) /\ \A n \in 1 .. Len(e) : e[n] = reference[n]
    BY <1>8, <1>9
  <2>. QED BY <2>1, <2>2, SeqEqual
<1>11. ListTypes'
  <2>1. <<>> \in Seq(Objects) /\ Len(<<>>) = 0
    BY EmptySeq
  <2>. QED BY <1>4, <1>5, <1>7, <2>1 DEF ListTypes
<1>12. InPlace(0)'
  <2>1. Len(list') \in Nat
    BY <1>5, <1>7, LenProperties
  <2>. QED BY <1>4, <2>1 DEF InPlace
<1>13. ListInv'
  BY <1>4, <1>11, <1>12 DEF ListInv
<1>. QED BY <1>5, <1>10, <1>13

LEMMA ListStep ==
  ASSUME ListInv, Model!Next
  PROVE  ListInv'
<1>0. Len(list) \in Nat /\ Lists \subseteq Seq(Objects)
  BY ListIsTyped, ModelsAssumption
<1>1. ASSUME NEW more \in Lists, Model!AddItems(Len(list), more) PROVE ListInv'
  <2>1. more \in Seq(Objects) /\ Len(list) \in 0 .. Len(list)
    BY <1>0
  <2>. QED BY <1>1, <2>1, AddItemsTypes
<1>2. ASSUME NEW more \in Lists, NEW index \in 0 .. Len(list), Model!AddItems(index, more)
      PROVE  ListInv'
  <2>1. more \in Seq(Objects)
    BY <1>0
  <2>. QED BY <1>2, <2>1, AddItemsTypes
<1>3. ASSUME NEW gone, Model!RemoveItems(gone) PROVE ListInv'
  <2>1. phase = "idle" /\ phase' = phase /\ Model!Removed(gone)
    BY <1>3 DEF Model!RemoveItems, Model!Called, Model!Removed
  <2>. QED BY <2>1, RemovedTypes
<1>4. ASSUME NEW item, Model!RemoveDestroyedItem(item) PROVE ListInv'
  <2>1. phase = "idle" /\ phase' = phase /\ Model!Removed({item})
    BY <1>4 DEF Model!RemoveDestroyedItem, Model!Called, Model!Removed
  <2>. QED BY <2>1, RemovedTypes
<1>5. ASSUME NEW oldRow \in DOMAIN list, NEW newRow \in DOMAIN list, Model!Move(oldRow, newRow)
      PROVE  ListInv'
  BY <1>5, MoveTypes
<1>6. ASSUME NEW wanted \in Lists, NEW known \in 0 .. Model!Cardinality(Objects),
             known <= Len(wanted), Model!Synchronize(wanted, known)
      PROVE  ListInv'
  <2>1. wanted \in Seq(Objects) /\ Len(wanted) \in Nat
    BY <1>0, LenProperties
  <2>2. known \in Nat
    OBVIOUS
  <2>. QED BY <1>6, <2>1, <2>2, SynchronizeTypes
<1>7. ASSUME NEW known \in DOMAIN reference, Model!ScanOn(known) PROVE ListInv'
  BY <1>7, ScanOnTypes
<1>. QED BY <1>1, <1>2, <1>3, <1>4, <1>5, <1>6, <1>7, ScanTypes, ScanEndsTypes, CompleteTypes
     DEF Model!Next

(* synchronizeList ends with the list it was given, through however many    *)
(* parts that became known, and whatever it compared on the way: the        *)
(* indexes go on together, and what is before them is already the same.     *)
(* It is the step part of the property Synchronized.                        *)
THEOREM ListBecomesReference == Spec => [][Model!Synchronized]_objectVars
<1>1. Init => ListInv
  <2>1. <<>> \in Seq(Objects) /\ Len(<<>>) = 0
    BY EmptySeq
  <2>2. SUFFICES ASSUME Init PROVE ListInv
    OBVIOUS
  <2>3. list = <<>> /\ reference = <<>> /\ available = 0 /\ place = <<0, 0>>
    BY <2>2 DEF Init, Model!Init
  <2>4. ListTypes
    BY <2>1, <2>3 DEF ListTypes
  <2>5. InPlace(0)
    BY <2>1, <2>3 DEF InPlace
  <2>. QED BY <2>3, <2>4, <2>5 DEF ListInv
<1>2. ListInv /\ [Next]_<<folderVars, watcherVars, notificationVars, objectVars, categoryVars,
                          serviceVars, part>> => ListInv' /\ [Model!Synchronized]_objectVars
  <2>. SUFFICES ASSUME ListInv,
                       Next \/ UNCHANGED <<folderVars, watcherVars, notificationVars, objectVars,
                                           categoryVars, serviceVars, part>>
                PROVE  ListInv' /\ [Model!Synchronized]_objectVars
    OBVIOUS
  <2>1. CASE UNCHANGED objectVars
    <3>1. list' = list /\ reference' = reference /\ available' = available
          /\ phase' = phase /\ place' = place
      BY <2>1 DEF objectVars
    <3>2. ListTypes' /\ \A c \in Nat : InPlace(c)' <=> InPlace(c)
      BY <3>1 DEF ListInv, ListTypes, InPlace
    <3>. QED BY <2>1, <3>1, <3>2 DEF ListInv
  <2>2. CASE Model!Next
    <3>1. ListInv'
      BY <2>2, ListStep
    <3>2. Model!Synchronized
      <4>. SUFFICES ASSUME phase = "returned", phase' = "idle" PROVE list' = reference
        BY DEF Model!Synchronized
      <4>1. Model!Complete
        BY <2>2 DEF Model!Next, Model!AddItems, Model!RemoveItems, Model!RemoveDestroyedItem,
                    Model!Move, Model!Synchronize, Model!Called, Model!Scan, Model!ScanEnds,
                    Model!ScanOn
      <4>. QED BY <4>1, CompleteTypes
    <3>. QED BY <3>1, <3>2
  <2>. QED BY <2>1, <2>2 DEF Next
<1>. QED BY <1>1, <1>2, PTL DEF Spec

-----------------------------------------------------------------------------
(* The list of notifications.  What matters of a list is what is in it, what *)
(* leads what, and what is in it how often.                                  *)
Has(w, a) == \E i \in 1 .. Len(w) : w[i] = a
Leads(w, a, b) == \E i, j \in 1 .. Len(w) : i < j /\ w[i] = a /\ w[j] = b
Thrice(w, a) == \E i, j, k \in 1 .. Len(w) : i < j /\ j < k /\ w[i] = a /\ w[j] = a /\ w[k] = a
Single(w) == \A a : ~Leads(w, a, a)

LEMMA SingleIsInjective ==
  ASSUME NEW w, Single(w), Len(w) \in Nat, NEW i \in 1 .. Len(w), NEW j \in 1 .. Len(w), w[i] = w[j]
  PROVE  i = j
<1>1. ~(i < j) /\ ~(j < i)
  BY DEF Single, Leads
<1>. QED BY <1>1

LEMMA TakenOutLeads ==
  ASSUME NEW S, NEW w \in Seq(S), NEW k \in 1 .. Len(w), NEW r \in Seq(S), HasTakenOut(r, w, k)
  PROVE  /\ \A a : Has(r, a) => Has(w, a)
         /\ \A a : Has(w, a) /\ a # w[k] => Has(r, a)
         /\ \A a, b : Leads(r, a, b) => Leads(w, a, b)
         /\ \A a : Thrice(r, a) => Thrice(w, a)
         /\ Has(r, w[k]) => Leads(w, w[k], w[k])
         /\ Leads(r, w[k], w[k]) => Thrice(w, w[k])
<1>0. Len(w) \in Nat /\ Len(r) \in Nat /\ Len(r) = Len(w) - 1
  BY LenProperties DEF HasTakenOut
<1>1. ASSUME NEW n \in 1 .. Len(r)
      PROVE  \E m \in 1 .. Len(w) : m # k /\ r[n] = w[m] /\ m = IF n < k THEN n ELSE n + 1
  <2>1. CASE n < k
    <3>1. n \in 1 .. k - 1 /\ n \in 1 .. Len(w)
      BY <1>0, <2>1
    <3>. QED BY <3>1, <2>1 DEF HasTakenOut
  <2>2. CASE ~(n < k)
    <3>1. n \in k .. Len(w) - 1 /\ n + 1 \in 1 .. Len(w) /\ n + 1 # k
      BY <1>0, <2>2
    <3>. QED BY <3>1, <2>2 DEF HasTakenOut
  <2>. QED BY <2>1, <2>2
<1>2. ASSUME NEW m \in 1 .. Len(w), m # k PROVE \E n \in 1 .. Len(r) : r[n] = w[m]
  <2>1. CASE m < k
    <3>1. m \in 1 .. k - 1 /\ m \in 1 .. Len(r)
      BY <1>0, <2>1
    <3>. QED BY <3>1 DEF HasTakenOut
  <2>2. CASE ~(m < k)
    <3>1. m - 1 \in k .. Len(w) - 1 /\ m - 1 \in 1 .. Len(r) /\ m - 1 + 1 = m
      BY <1>0, <1>2, <2>2
    <3>. QED BY <3>1 DEF HasTakenOut
  <2>. QED BY <2>1, <2>2
<1>3. ASSUME NEW a, Has(r, a) PROVE Has(w, a) /\ (a = w[k] => Leads(w, a, a))
  <2>1. PICK n \in 1 .. Len(r) : r[n] = a
    BY <1>3 DEF Has
  <2>2. PICK m \in 1 .. Len(w) : m # k /\ r[n] = w[m]
    BY <1>1
  <2>3. m < k \/ k < m
    BY <1>0, <2>2
  <2>. QED BY <2>1, <2>2, <2>3 DEF Has, Leads
<1>4. ASSUME NEW a, Has(w, a), a # w[k] PROVE Has(r, a)
  BY <1>2, <1>4 DEF Has
<1>5. ASSUME NEW i \in 1 .. Len(r), NEW j \in 1 .. Len(r), i < j
      PROVE  \E x, y \in 1 .. Len(w) : /\ x < y /\ x # k /\ y # k /\ r[i] = w[x] /\ r[j] = w[y]
                                       /\ x = IF i < k THEN i ELSE i + 1
                                       /\ y = IF j < k THEN j ELSE j + 1
  <2>2. PICK x \in 1 .. Len(w) : x # k /\ r[i] = w[x] /\ x = IF i < k THEN i ELSE i + 1
    BY <1>1
  <2>3. PICK y \in 1 .. Len(w) : y # k /\ r[j] = w[y] /\ y = IF j < k THEN j ELSE j + 1
    BY <1>1
  <2>4. x < y
    BY <1>5, <2>2, <2>3
  <2>. QED BY <2>2, <2>3, <2>4
<1>6. ASSUME NEW a, NEW b, Leads(r, a, b) PROVE Leads(w, a, b)
  <2>1. PICK i \in 1 .. Len(r), j \in 1 .. Len(r) : i < j /\ r[i] = a /\ r[j] = b
    BY <1>6 DEF Leads
  <2>. QED BY <1>5, <2>1 DEF Leads
<1>7. ASSUME NEW a, Thrice(r, a) PROVE Thrice(w, a)
  <2>1. PICK i \in 1 .. Len(r), j \in 1 .. Len(r), l \in 1 .. Len(r) :
          i < j /\ j < l /\ r[i] = a /\ r[j] = a /\ r[l] = a
    BY <1>7 DEF Thrice
  <2>2. PICK x \in 1 .. Len(w), y \in 1 .. Len(w) :
          x < y /\ r[i] = w[x] /\ r[j] = w[y] /\ y = IF j < k THEN j ELSE j + 1
    BY <1>5, <2>1
  <2>3. PICK u \in 1 .. Len(w), v \in 1 .. Len(w) :
          u < v /\ r[l] = w[v] /\ u = IF j < k THEN j ELSE j + 1
    BY <1>5, <2>1
  <2>4. y = u
    BY <2>2, <2>3
  <2>. QED BY <2>1, <2>2, <2>3, <2>4 DEF Thrice
<1>8. ASSUME Leads(r, w[k], w[k]) PROVE Thrice(w, w[k])
  <2>1. PICK i \in 1 .. Len(r), j \in 1 .. Len(r) : i < j /\ r[i] = w[k] /\ r[j] = w[k]
    BY <1>8 DEF Leads
  <2>2. PICK x \in 1 .. Len(w), y \in 1 .. Len(w) :
          x < y /\ x # k /\ y # k /\ w[x] = w[k] /\ w[y] = w[k]
    BY <1>5, <2>1
  <2>3. CASE k < x
    BY <2>2, <2>3 DEF Thrice
  <2>4. CASE x < k /\ k < y
    BY <2>2, <2>4 DEF Thrice
  <2>5. CASE y < k
    BY <2>2, <2>5 DEF Thrice
  <2>6. k < x \/ (x < k /\ k < y) \/ y < k
    BY <2>2
  <2>. QED BY <2>3, <2>4, <2>5, <2>6
<1>. QED BY <1>3, <1>4, <1>6, <1>7, <1>8

LEMMA PutInLeads ==
  ASSUME NEW S, NEW w \in Seq(S), NEW c \in Nat, c <= Len(w), NEW x, NEW e \in Seq(S),
         HasPutIn(e, w, c, x)
  PROVE  /\ \A a : Has(e, a) <=> Has(w, a) \/ a = x
         /\ \A a, b : Leads(e, a, b) =>
              \/ Leads(w, a, b)
              \/ b = x /\ \E i \in 1 .. c : w[i] = a
              \/ a = x /\ \E i \in c + 1 .. Len(w) : w[i] = b
         /\ \A a : Thrice(e, a) => Thrice(w, a) \/ (a = x /\ Leads(w, x, x))
<1>0. Len(w) \in Nat /\ Len(e) \in Nat /\ Len(e) = Len(w) + 1
  BY LenProperties DEF HasPutIn
<1>1. ASSUME NEW n \in 1 .. Len(e), n # c + 1
      PROVE  \E m \in 1 .. Len(w) : e[n] = w[m] /\ m = IF n < c + 1 THEN n ELSE n - 1
  <2>1. CASE n < c + 1
    <3>1. n \in 1 .. c /\ n \in 1 .. Len(w)
      BY <1>0, <2>1
    <3>. QED BY <3>1, <2>1 DEF HasPutIn
  <2>2. CASE ~(n < c + 1)
    <3>1. PICK i : i = n - (c + 1)
      OBVIOUS
    <3>2. i \in 1 .. Len(w) - c /\ c + 1 + i = n /\ c + i = n - 1 /\ n - 1 \in 1 .. Len(w)
      BY <1>0, <1>1, <2>2, <3>1
    <3>3. e[c + 1 + i] = w[c + i]
      BY <3>2 DEF HasPutIn
    <3>. QED BY <3>2, <3>3, <2>2
  <2>. QED BY <2>1, <2>2
<1>2. ASSUME NEW m \in 1 .. Len(w) PROVE \E n \in 1 .. Len(e) : e[n] = w[m]
  <2>1. CASE m <= c
    <3>1. m \in 1 .. c /\ m \in 1 .. Len(e)
      BY <1>0, <2>1
    <3>. QED BY <3>1 DEF HasPutIn
  <2>2. CASE ~(m <= c)
    <3>1. PICK i : i = m - c
      OBVIOUS
    <3>2. i \in 1 .. Len(w) - c /\ c + i = m /\ c + 1 + i \in 1 .. Len(e)
      BY <1>0, <2>2, <3>1
    <3>3. e[c + 1 + i] = w[c + i]
      BY <3>2 DEF HasPutIn
    <3>. QED BY <3>2, <3>3
  <2>. QED BY <2>1, <2>2
<1>3. c + 1 \in 1 .. Len(e) /\ e[c + 1] = x
  BY <1>0 DEF HasPutIn
<1>4. ASSUME NEW a, Has(e, a) PROVE Has(w, a) \/ a = x
  <2>1. PICK n \in 1 .. Len(e) : e[n] = a
    BY <1>4 DEF Has
  <2>2. CASE n # c + 1
    BY <1>1, <2>1, <2>2 DEF Has
  <2>3. CASE n = c + 1
    BY <1>3, <2>1, <2>3
  <2>. QED BY <2>2, <2>3
<1>5. ASSUME NEW a, Has(w, a) \/ a = x PROVE Has(e, a)
  BY <1>2, <1>3, <1>5 DEF Has
<1>6. ASSUME NEW i \in 1 .. Len(e), NEW j \in 1 .. Len(e), i < j, i # c + 1, j # c + 1
      PROVE  \E l, m \in 1 .. Len(w) : /\ l < m /\ e[i] = w[l] /\ e[j] = w[m]
                                       /\ l = IF i < c + 1 THEN i ELSE i - 1
                                       /\ m = IF j < c + 1 THEN j ELSE j - 1
  <2>1. PICK l \in 1 .. Len(w) : e[i] = w[l] /\ l = IF i < c + 1 THEN i ELSE i - 1
    BY <1>1, <1>6
  <2>2. PICK m \in 1 .. Len(w) : e[j] = w[m] /\ m = IF j < c + 1 THEN j ELSE j - 1
    BY <1>1, <1>6
  <2>3. l < m
    BY <1>6, <2>1, <2>2
  <2>. QED BY <2>1, <2>2, <2>3
<1>7. ASSUME NEW a, NEW b, Leads(e, a, b)
      PROVE  \/ Leads(w, a, b)
             \/ b = x /\ \E i \in 1 .. c : w[i] = a
             \/ a = x /\ \E i \in c + 1 .. Len(w) : w[i] = b
  <2>1. PICK i \in 1 .. Len(e), j \in 1 .. Len(e) : i < j /\ e[i] = a /\ e[j] = b
    BY <1>7 DEF Leads
  <2>2. CASE i = c + 1
    <3>0. j # c + 1
      BY <2>1, <2>2
    <3>1. PICK m \in 1 .. Len(w) : e[j] = w[m] /\ m = IF j < c + 1 THEN j ELSE j - 1
      BY <1>1, <3>0
    <3>2. m \in c + 1 .. Len(w)
      BY <1>0, <2>1, <2>2, <3>1
    <3>. QED BY <1>3, <2>1, <2>2, <3>1, <3>2
  <2>3. CASE j = c + 1
    <3>0. i # c + 1
      BY <2>1, <2>3
    <3>1. PICK m \in 1 .. Len(w) : e[i] = w[m] /\ m = IF i < c + 1 THEN i ELSE i - 1
      BY <1>1, <3>0
    <3>2. m \in 1 .. c
      BY <1>0, <2>1, <2>3, <3>1
    <3>. QED BY <1>3, <2>1, <2>3, <3>1, <3>2
  <2>4. CASE i # c + 1 /\ j # c + 1
    BY <1>6, <2>1, <2>4 DEF Leads
  <2>. QED BY <2>2, <2>3, <2>4
<1>8. ASSUME NEW a, Thrice(e, a) PROVE Thrice(w, a) \/ (a = x /\ Leads(w, x, x))
  <2>1. PICK i \in 1 .. Len(e), j \in 1 .. Len(e), l \in 1 .. Len(e) :
          i < j /\ j < l /\ e[i] = a /\ e[j] = a /\ e[l] = a
    BY <1>8 DEF Thrice
  <2>2. CASE i = c + 1
    <3>1. j # c + 1 /\ l # c + 1
      BY <2>1, <2>2
    <3>. QED BY <1>3, <1>6, <2>1, <2>2, <3>1 DEF Leads
  <2>3. CASE j = c + 1
    <3>1. i # c + 1 /\ l # c + 1 /\ i < l
      BY <2>1, <2>3
    <3>. QED BY <1>3, <1>6, <2>1, <2>3, <3>1 DEF Leads
  <2>4. CASE l = c + 1
    <3>1. i # c + 1 /\ j # c + 1
      BY <2>1, <2>4
    <3>. QED BY <1>3, <1>6, <2>1, <2>4, <3>1 DEF Leads
  <2>5. CASE i # c + 1 /\ j # c + 1 /\ l # c + 1
    <3>1. /\ i < j /\ j < l
          /\ i # c + 1 /\ j # c + 1 /\ l # c + 1
      BY <2>1, <2>5
    <3>2. \E u, v \in 1 .. Len(w) : /\ u < v /\ e[i] = w[u] /\ e[j] = w[v]
                                    /\ u = IF i < c + 1 THEN i ELSE i - 1
                                    /\ v = IF j < c + 1 THEN j ELSE j - 1
      BY <1>6, <3>1
    <3>3. \E y, z \in 1 .. Len(w) : /\ y < z /\ e[j] = w[y] /\ e[l] = w[z]
                                    /\ y = IF j < c + 1 THEN j ELSE j - 1
                                    /\ z = IF l < c + 1 THEN l ELSE l - 1
      BY <1>6, <3>1
    <3>4. PICK u \in 1 .. Len(w), v \in 1 .. Len(w) :
            u < v /\ e[i] = w[u] /\ e[j] = w[v] /\ v = IF j < c + 1 THEN j ELSE j - 1
      BY <3>2
    <3>5. PICK y \in 1 .. Len(w), z \in 1 .. Len(w) :
            y < z /\ e[l] = w[z] /\ y = IF j < c + 1 THEN j ELSE j - 1
      BY <3>3
    <3>6. v = y
      BY <3>4, <3>5
    <3>. QED BY <2>1, <3>4, <3>5, <3>6 DEF Thrice
  <2>. QED BY <2>2, <2>3, <2>4, <2>5
<1>. QED BY <1>4, <1>5, <1>7, <1>8

LEMMA OthersOf ==
  ASSUME NEW S, NEW T, NEW r \in Seq(S), \A i \in 1 .. Len(r) : r[i] \in T
  PROVE  r \in Seq(T)
<1>1. Len(r) \in Nat /\ r = [i \in 1 .. Len(r) |-> r[i]]
  BY LenProperties
<1>2. r \in [1 .. Len(r) -> T]
  BY <1>1
<1>. QED BY <1>1, <1>2, SeqDef

(* RemoveFirst takes out one of at most two occurrences.                     *)
LEMMA RemovedOne ==
  ASSUME NEW S, NEW w \in Seq(S), \A a : ~Thrice(w, a), NEW x
  PROVE  LET r == Events!RemoveFirst(w, x)
         IN  /\ r \in Seq(S)
             /\ \A a : Has(r, a) => Has(w, a)
             /\ \A a : Has(w, a) /\ a # x => Has(r, a)
             /\ \A a, b : Leads(r, a, b) => Leads(w, a, b)
             /\ \A a : ~Thrice(r, a)
             /\ ~Leads(r, x, x)
             /\ ~Leads(w, x, x) => ~Has(r, x) /\ r \in Seq(S \ {x})
<1>0. Len(w) \in Nat
  BY LenProperties
<1>1. PICK r : r = Events!RemoveFirst(w, x)
  OBVIOUS
<1>2. /\ r \in Seq(S) /\ \A a : Has(r, a) => Has(w, a)
      /\ \A a : Has(w, a) /\ a # x => Has(r, a)
      /\ \A a, b : Leads(r, a, b) => Leads(w, a, b)
      /\ \A a : ~Thrice(r, a) /\ ~Leads(r, x, x)
      /\ Has(r, x) => Leads(w, x, x)
  <2>1. CASE ~Has(w, x)
    <3>1. r = w
      BY <1>1, <2>1 DEF Events!RemoveFirst, Has
    <3>2. ~Leads(w, x, x)
      BY <2>1 DEF Has, Leads
    <3>. QED BY <2>1, <3>1, <3>2
  <2>2. CASE Has(w, x)
    <3>1. PICK T : T = {i \in 1 .. Len(w) : w[i] = x}
      OBVIOUS
    <3>2. T # {} /\ T \in SUBSET Nat
      BY <2>2, <3>1 DEF Has
    <3>3. PICK k : k = Events!Min(T)
      OBVIOUS
    <3>4. k \in T
      BY <3>2, <3>3, LeastOf DEF Events!Min
    <3>5. r = RemoveAt(w, k)
      BY <1>1, <2>2, <3>1, <3>2, <3>3
         DEF Events!RemoveFirst, Events!SelectInSeq, Events!RemoveAt, RemoveAt, Has
    <3>6. k \in 1 .. Len(w) /\ w[k] = x
      BY <3>1, <3>4
    <3>7. r \in Seq(S) /\ HasTakenOut(r, w, k)
      BY <3>5, <3>6, TakenOut
    <3>8. /\ \A a : Has(r, a) => Has(w, a)
          /\ \A a : Has(w, a) /\ a # w[k] => Has(r, a)
          /\ \A a, b : Leads(r, a, b) => Leads(w, a, b)
          /\ \A a : Thrice(r, a) => Thrice(w, a)
          /\ Has(r, w[k]) => Leads(w, w[k], w[k])
          /\ Leads(r, w[k], w[k]) => Thrice(w, w[k])
      BY <3>6, <3>7, TakenOutLeads
    <3>. QED BY <3>6, <3>7, <3>8
  <2>. QED BY <2>1, <2>2
<1>3. ASSUME ~Leads(w, x, x) PROVE ~Has(r, x) /\ r \in Seq(S \ {x})
  <2>1. ~Has(r, x)
    BY <1>2, <1>3
  <2>2. \A i \in 1 .. Len(r) : r[i] \in S \ {x}
    BY <1>2, <2>1, LenProperties, ElementOfSeq DEF Has
  <2>. QED BY <1>2, <2>1, <2>2, OthersOf
<1>. QED BY <1>1, <1>2, <1>3

(* The one of a higher rank is first, and of the same rank that of the       *)
(* higher id.                                                                *)
Above(f, a, b) ==
    \/ f[a].rank > f[b].rank
    \/ f[a].rank = f[b].rank /\ a > b

(* What leads one of U, unless it is one of B, is above it.                  *)
InOrder(f, w, U, B) ==
    \A a, b \in DOMAIN f : Leads(w, a, b) /\ b \in U /\ a \notin B => Above(f, a, b)

Settled(f, w, U, B) == w \in Seq(DOMAIN f) /\ Single(w) /\ InOrder(f, w, U, B)

(* Nothing is listed more than twice, and only these more than once.         *)
Sparse(w, twice) == \A a : ~Thrice(w, a) /\ (a \notin twice => ~Leads(w, a, a))

IsHeld(f) == DOMAIN f \subseteq Ids /\ f \in [DOMAIN f -> Events!Content]

LEMMA AboveIsTotal ==
  ASSUME NEW f, IsHeld(f), NEW a \in DOMAIN f, NEW b \in DOMAIN f
  PROVE  /\ a # b => (Above(f, a, b) <=> ~Above(f, b, a)) /\ ~Above(f, a, a)
         /\ \A c \in DOMAIN f : Above(f, a, b) /\ Above(f, b, c) => Above(f, a, c)
<1>1. \A x \in DOMAIN f : x \in Nat /\ f[x].rank \in Nat
  BY ModelsAssumption DEF IsHeld, Events!Content
<1>. QED BY <1>1 DEF Above

LEMMA SingleIsSparse ==
  ASSUME NEW w, Single(w)
  PROVE  \A twice : Sparse(w, twice)
BY DEF Single, Sparse, Leads, Thrice

(* A notification is put before the first other one that it is above.        *)
LEMMA PlacedPutIn ==
  ASSUME NEW D, NEW w, NEW id \in D, Events!RemoveFirst(w, id) \in Seq(D)
  PROVE  LET r == Events!RemoveFirst(w, id)
             T == {i \in 1 .. Len(r) : r[i] # id /\ Above(notifications, id, r[i])}
         IN  \E c \in Nat : /\ c <= Len(r) /\ \A i \in 1 .. c : i \notin T
                            /\ c < Len(r) => c + 1 \in T
                            /\ Events!Placed(w, id) \in Seq(D)
                            /\ HasPutIn(Events!Placed(w, id), r, c, id)
<1>1. PICK r : r = Events!RemoveFirst(w, id)
  OBVIOUS
<1>3. r \in Seq(D) /\ Len(r) \in Nat
  BY <1>1, LenProperties
<1>5. PICK T : T = {i \in 1 .. Len(r) : r[i] # id /\ Above(notifications, id, r[i])}
  OBVIOUS
<1>6. PICK e : e = Events!Placed(w, id)
  OBVIOUS
<1>7. PICK c \in Nat : /\ c <= Len(r) /\ e = InsertAt(r, c + 1, id)
                       /\ \A i \in 1 .. c : i \notin T
                       /\ c < Len(r) => c + 1 \in T
  <2>1. PICK later : later = IF T # {} THEN Events!Min(T) ELSE 0
    OBVIOUS
  <2>2. e = InsertAt(r, IF later = 0 THEN Len(r) + 1 ELSE later, id)
    <3>1. T = {i \in 1 .. Len(r) : r[i] # id /\ Events!Precedes(id, r[i])}
      BY <1>5 DEF Above, Events!Precedes
    <3>2. e = Events!InsertAt(r, IF later = 0 THEN Len(r) + 1 ELSE later, id)
      BY <1>1, <1>6, <2>1, <3>1 DEF Events!Placed, Events!SelectInSeq
    <3>. QED BY <3>2 DEF Events!InsertAt, InsertAt
  <2>3. CASE T = {}
    <3>1. later = 0 /\ e = InsertAt(r, Len(r) + 1, id)
      BY <2>1, <2>2, <2>3
    <3>. QED BY <1>3, <2>3, <3>1
  <2>4. CASE T # {}
    <3>1. T \in SUBSET Nat
      BY <1>5
    <3>2. later \in T /\ \A i \in T : later <= i
      BY <2>1, <2>4, <3>1, LeastOf DEF Events!Min
    <3>3. PICK c : c = later - 1
      OBVIOUS
    <3>4. later \in 1 .. Len(r) /\ later # 0
      BY <1>5, <3>2
    <3>5. c \in Nat /\ c <= Len(r) /\ c + 1 = later
      BY <1>3, <3>3, <3>4
    <3>6. e = InsertAt(r, c + 1, id)
      BY <2>2, <3>4, <3>5
    <3>7. \A i \in 1 .. c : i \notin T
      BY <3>2, <3>4, <3>5
    <3>. QED BY <3>2, <3>5, <3>6, <3>7
  <2>. QED BY <2>3, <2>4
<1>8. e \in Seq(D) /\ HasPutIn(e, r, c, id)
  BY <1>3, <1>7, PutIn
<1>. QED BY <1>1, <1>5, <1>6, <1>7, <1>8

(* Among others in order a notification finds its place.                     *)
LEMMA PlacedSettles ==
  ASSUME IsHeld(notifications), NEW U, NEW w, NEW B, NEW id \in DOMAIN notifications,
         Settled(notifications, w, U, B), B \subseteq {id}
  PROVE  Settled(notifications, Events!Placed(w, id), U \cup {id}, {})
<1>. DEFINE D == DOMAIN notifications
            f == notifications
<1>1. PICK r, e : r = Events!RemoveFirst(w, id) /\ e = Events!Placed(w, id)
  OBVIOUS
<1>2. /\ r \in Seq(D \ {id}) /\ Single(r) /\ r \in Seq(D)
      /\ \A a, b : Leads(r, a, b) => Leads(w, a, b)
  <2>1. \A a : ~Thrice(w, a)
    BY SingleIsSparse DEF Settled, Sparse
  <2>. QED BY <1>1, <2>1, RemovedOne DEF Settled, Single
<1>3. Len(r) \in Nat /\ \A i \in 1 .. Len(r) : r[i] \in D /\ r[i] # id
  <2>1. Len(r) \in Nat /\ \A i \in 1 .. Len(r) : r[i] \in D \ {id}
    BY <1>2, LenProperties, ElementOfSeq
  <2>. QED BY <2>1
<1>5. PICK T : T = {i \in 1 .. Len(r) : r[i] # id /\ Above(f, id, r[i])}
  OBVIOUS
<1>7. PICK c \in Nat : /\ c <= Len(r) /\ \A i \in 1 .. c : i \notin T
                       /\ c < Len(r) => c + 1 \in T
                       /\ e \in Seq(D) /\ HasPutIn(e, r, c, id)
  BY <1>1, <1>2, <1>5, PlacedPutIn
<1>9. /\ \A a : Has(e, a) <=> Has(r, a) \/ a = id
      /\ \A a, b : Leads(e, a, b) =>
              \/ Leads(r, a, b)
              \/ b = id /\ \E i \in 1 .. c : r[i] = a
              \/ a = id /\ \E i \in c + 1 .. Len(r) : r[i] = b
  BY <1>2, <1>7, PutInLeads
<1>10. \A i \in 1 .. c : i \in 1 .. Len(r)
  BY <1>3, <1>7
<1>11. \A i \in c + 1 .. Len(r) : i \in 1 .. Len(r)
  BY <1>3, <1>7
<1>12. Single(e)
  <2>1. SUFFICES ASSUME NEW a, Leads(e, a, a) PROVE FALSE
    BY DEF Single
  <2>2. ~Leads(r, a, a)
    BY <1>2 DEF Single
  <2>. QED BY <1>3, <1>9, <1>10, <1>11, <2>1, <2>2
<1>13. ASSUME NEW a \in D, NEW b \in D, Leads(e, a, b), b \in U \cup {id} PROVE Above(f, a, b)
  <2>1. CASE Leads(r, a, b)
    <3>1. Leads(w, a, b)
      BY <1>2, <2>1
    <3>2. a # id /\ b # id
      BY <1>3, <2>1 DEF Leads
    <3>. QED BY <1>13, <3>1, <3>2 DEF Settled, InOrder
  <2>2. CASE b = id /\ \E i \in 1 .. c : r[i] = a
    <3>1. PICK i \in 1 .. c : r[i] = a
      BY <2>2
    <3>2. a # id /\ ~Above(f, id, a)
      BY <1>3, <1>5, <1>7, <1>10, <3>1
    <3>. QED BY <2>2, <3>2, AboveIsTotal
  <2>3. CASE a = id /\ \E i \in c + 1 .. Len(r) : r[i] = b
    <3>1. PICK i \in c + 1 .. Len(r) : r[i] = b
      BY <2>3
    <3>2. c < Len(r) /\ c + 1 \in 1 .. Len(r) /\ i \in 1 .. Len(r)
      BY <1>3, <1>7, <3>1
    <3>3. PICK d : d = r[c + 1]
      OBVIOUS
    <3>4. d \in D /\ d # id /\ Above(f, id, d) /\ b # id
      BY <1>3, <1>5, <1>7, <3>1, <3>2, <3>3
    <3>5. CASE i = c + 1
      BY <2>3, <3>1, <3>3, <3>4, <3>5
    <3>6. CASE i # c + 1
      <4>1. c + 1 < i
        BY <1>7, <3>1, <3>6
      <4>2. Leads(r, d, b)
        BY <3>1, <3>2, <3>3, <4>1 DEF Leads
      <4>3. Leads(w, d, b) /\ b \in U /\ d \notin B
        BY <1>2, <1>13, <3>4, <4>2
      <4>4. Above(f, d, b)
        BY <3>4, <4>3 DEF Settled, InOrder
      <4>. QED BY <2>3, <3>4, <4>4, AboveIsTotal
    <3>. QED BY <3>5, <3>6
  <2>. QED BY <1>9, <1>13, <2>1, <2>2, <2>3
<1>. QED BY <1>1, <1>7, <1>12, <1>13 DEF Settled, InOrder

LEMMA UpdatedSettles ==
  ASSUME IsHeld(notifications), NEW U, NEW w, NEW B, NEW id,
         Settled(notifications, w, U, B), B \subseteq {id}
  PROVE  Settled(notifications, Events!Updated(w, id), U \cup {id}, {})
<1>. DEFINE D == DOMAIN notifications
            f == notifications
<1>1. CASE id \notin D
  <2>1. Events!Updated(w, id) = w
    BY <1>1 DEF Events!Updated
  <2>2. \A b \in D : (b \in U \cup {id} => b \in U) /\ b \notin B
    BY <1>1
  <2>. QED BY <2>1, <2>2 DEF Settled, InOrder
<1>2. CASE id \in D /\ f[id].shown
  <2>1. Events!Updated(w, id) = Events!Placed(w, id)
    BY <1>2 DEF Events!Updated
  <2>. QED BY <1>2, <2>1, PlacedSettles
<1>3. CASE id \in D /\ ~f[id].shown
  <2>1. PICK r : r = Events!RemoveFirst(w, id)
    OBVIOUS
  <2>2. Events!Updated(w, id) = r
    BY <1>3, <2>1 DEF Events!Updated
  <2>3. /\ r \in Seq(D) /\ Single(r) /\ ~Has(r, id)
        /\ \A a, b : Leads(r, a, b) => Leads(w, a, b)
    <3>1. \A a : ~Thrice(w, a)
      BY SingleIsSparse DEF Settled, Sparse
    <3>. QED BY <2>1, <3>1, RemovedOne DEF Settled, Single
  <2>4. \A a, b \in D : Leads(r, a, b) /\ b \in U \cup {id} => Above(f, a, b)
    <3>1. \A a, b : Leads(r, a, b) => a # id /\ b # id
      BY <2>3 DEF Leads, Has
    <3>. QED BY <2>3, <3>1 DEF Settled, InOrder
  <2>. QED BY <2>2, <2>3, <2>4 DEF Settled, InOrder
<1>. QED BY <1>1, <1>2, <1>3

(* Whatever the order of the list, an update leaves the others where they    *)
(* are, and what is updated is listed as it is to be.                        *)
Kept(f, r, w, U, twice) ==
    /\ \A a : a \notin U => (Has(r, a) <=> Has(w, a))
    /\ \A a, b : a \notin U /\ b \notin U /\ Leads(r, a, b) => Leads(w, a, b)
    /\ \A a \in DOMAIN f \cap U : /\ f[a].shown => Has(r, a)
                                  /\ ~f[a].shown /\ a \notin twice => ~Has(r, a)

LEMMA UpdatedKeeps ==
  ASSUME NEW twice, NEW w \in Seq(DOMAIN notifications), Sparse(w, twice), NEW id
  PROVE  LET r == Events!Updated(w, id)
         IN  r \in Seq(DOMAIN notifications) /\ Sparse(r, twice)
               /\ Kept(notifications, r, w, {id}, twice)
<1>. DEFINE D == DOMAIN notifications
            f == notifications
<1>1. CASE id \notin D
  <2>1. Events!Updated(w, id) = w
    BY <1>1 DEF Events!Updated
  <2>. QED BY <1>1, <2>1 DEF Kept
<1>2. PICK q : q = Events!RemoveFirst(w, id)
  OBVIOUS
<1>3. /\ q \in Seq(D) /\ \A a : Has(q, a) => Has(w, a)
      /\ \A a : Has(w, a) /\ a # id => Has(q, a)
      /\ \A a, b : Leads(q, a, b) => Leads(w, a, b)
      /\ \A a : ~Thrice(q, a)
      /\ ~Leads(q, id, id) /\ (id \notin twice => ~Has(q, id))
  <2>1. \A a : ~Thrice(w, a)
    BY DEF Sparse
  <2>. QED BY <1>2, <2>1, RemovedOne DEF Sparse
<1>4. CASE id \in D /\ ~f[id].shown
  <2>1. Events!Updated(w, id) = q
    BY <1>2, <1>4 DEF Events!Updated
  <2>. QED BY <1>3, <1>4, <2>1 DEF Kept, Sparse
<1>5. CASE id \in D /\ f[id].shown
  <2>1. PICK e : e = Events!Updated(w, id) /\ e = Events!Placed(w, id)
    BY <1>5 DEF Events!Updated
  <2>2. PICK c \in Nat : c <= Len(q) /\ e \in Seq(D) /\ HasPutIn(e, q, c, id)
    BY <1>2, <1>3, <1>5, <2>1, PlacedPutIn
  <2>3. /\ \A a : Has(e, a) <=> Has(q, a) \/ a = id
        /\ \A a, b : Leads(e, a, b) =>
              \/ Leads(q, a, b)
              \/ b = id /\ \E i \in 1 .. c : q[i] = a
              \/ a = id /\ \E i \in c + 1 .. Len(q) : q[i] = b
        /\ \A a : Thrice(e, a) => Thrice(q, a) \/ (a = id /\ Leads(q, id, id))
    BY <1>3, <2>2, PutInLeads
  <2>4. ASSUME NEW a, a \notin twice PROVE ~Leads(e, a, a)
    <3>1. ~Leads(q, a, a)
      BY <1>3, <2>4 DEF Sparse
    <3>2. Len(q) \in Nat
      BY <1>3, LenProperties
    <3>3. Leads(e, a, a) => a = id /\ Has(q, id)
      BY <2>2, <2>3, <3>1, <3>2 DEF Has
    <3>. QED BY <1>3, <2>4, <3>3
  <2>5. Sparse(e, twice)
    BY <1>3, <2>3, <2>4 DEF Sparse
  <2>6. Kept(f, e, w, {id}, twice)
    <3>1. \A a : a # id => (Has(e, a) <=> Has(w, a))
      BY <1>3, <2>3
    <3>2. \A a, b : a # id /\ b # id /\ Leads(e, a, b) => Leads(w, a, b)
      BY <1>3, <2>3
    <3>3. Has(e, id)
      BY <2>3
    <3>. QED BY <1>5, <3>1, <3>2, <3>3 DEF Kept
  <2>. QED BY <2>1, <2>2, <2>5, <2>6
<1>. QED BY <1>1, <1>4, <1>5

LEMMA SameCardinality == \A S : Events!Cardinality(S) = Cardinality(S)
BY DEF Events!Cardinality, Cardinality

(* An order of finitely many ids goes through each of them.                  *)
LEMMA OrdersGoThrough ==
  ASSUME NEW U, IsFiniteSet(U), NEW order \in Events!SetToSeqs(U)
  PROVE  /\ Len(order) \in Nat /\ order \in [1 .. Len(order) -> U]
         /\ \A i, j \in 1 .. Len(order) : order[i] = order[j] => i = j
         /\ \A a \in U : \E i \in 1 .. Len(order) : order[i] = a
<1>1. PICK n : n = Cardinality(U)
  OBVIOUS
<1>2. n \in Nat
  BY <1>1, FS_CardinalityType
<1>3. order \in [1 .. n -> U] /\ \A i, j \in 1 .. n : i # j => order[i] # order[j]
  BY <1>1, SameCardinality DEF Events!SetToSeqs
<1>4. Len(order) = n
  BY <1>2, <1>3, LenProperties, SeqDef
<1>5. order \in Injection(1 .. n, U)
  BY <1>3 DEF Injection, IsInjective
<1>6. Cardinality(1 .. n) = Cardinality(U)
  BY <1>1, <1>2, FS_Interval
<1>7. order \in Surjection(1 .. n, U)
  BY <1>5, <1>6, FS_Injection
<1>8. \A a \in U : \E i \in 1 .. n : order[i] = a
  BY <1>7 DEF Surjection
<1>. QED BY <1>2, <1>3, <1>4, <1>8

LEMMA OrdersThereAre ==
  ASSUME NEW U, IsFiniteSet(U)
  PROVE  Events!SetToSeq(U) \in Events!SetToSeqs(U)
<1>1. PICK n : n = Cardinality(U)
  OBVIOUS
<1>2. ExistsBijection(1 .. n, U)
  BY <1>1, FS_CardinalityType
<1>3. PICK g : g \in Bijection(1 .. n, U)
  BY <1>2 DEF ExistsBijection
<1>4. g \in [1 .. n -> U] /\ Events!IsInjective(g)
  BY <1>3 DEF Bijection, Injection, IsInjective, Events!IsInjective
<1>5. PICK s : s = Events!SetToSeq(U)
  OBVIOUS
<1>6. s \in [1 .. n -> U] /\ Events!IsInjective(s)
  BY <1>1, <1>4, <1>5, SameCardinality DEF Events!SetToSeq
<1>. QED BY <1>1, <1>5, <1>6, SameCardinality DEF Events!SetToSeqs, Events!IsInjective

LEMMA SettledLess ==
  ASSUME NEW f, NEW w, NEW U, NEW V, Settled(f, w, V, {}), U \subseteq V
  PROVE  Settled(f, w, U, {})
BY DEF Settled, InOrder

(* updateNotifications goes from list to list.                               *)
ListsUpdated(g, order, k, twice) ==
    /\ g[0] = shownItems /\ \A n \in 1 .. k : g[n] = Events!Updated(g[n - 1], order[n])
    /\ \A n \in 0 .. k : g[n] \in Seq(DOMAIN notifications) /\ Sparse(g[n], twice)
    /\ Events!UpdatedInTurn(order) = g[k]

LEMMA UpdatedInTurnSteps ==
  ASSUME NEW twice, shownItems \in Seq(DOMAIN notifications), Sparse(shownItems, twice),
         NEW order, NEW k \in Nat, k = Len(order)
  PROVE  \E g : ListsUpdated(g, order, k, twice)
<1>. DEFINE Sound == {w \in Seq(DOMAIN notifications) : Sparse(w, twice)}
            Rest(w, n) == Events!Updated(w, order[n])
            G == [x \in Sound \X (1 .. k) |-> Rest(x[1], x[2])]
<1>2. shownItems \in Sound
  OBVIOUS
<1>3. \A w \in Sound, n \in 1 .. k : Rest(w, n) \in Sound
  BY UpdatedKeeps
<1>4. G \in [Sound \X (1 .. k) -> Sound]
  BY <1>3
<1>5. PICK f \in [0 .. k -> Sound] : Follows(f, shownItems, k, G)
  <2>. HIDE DEF G, Sound
  <2>. QED BY <1>2, <1>4, Iterated
<1>6. f = [n \in 0 .. k |-> IF n = 0 THEN shownItems ELSE Rest(f[n - 1], n)]
  <2>1. \A n \in 0 .. k : f[n] = IF n = 0 THEN shownItems ELSE Rest(f[n - 1], n)
    <3>. SUFFICES ASSUME NEW n \in 0 .. k, n # 0 PROVE f[n] = Rest(f[n - 1], n)
      BY <1>5 DEF Follows
    <3>1. n \in 1 .. k /\ f[n - 1] \in Sound
      <4>. HIDE DEF G, Sound
      <4>. QED BY <1>5
    <3>2. f[n] = G[<<f[n - 1], n>>]
      BY <1>5, <3>1 DEF Follows
    <3>. QED BY <3>1, <3>2
  <2>. QED BY <1>5, <2>1
<1>. DEFINE g == CHOOSE h : h = [n \in 0 .. k |-> IF n = 0 THEN shownItems ELSE Rest(h[n - 1], n)]
<1>7. g = [n \in 0 .. k |-> IF n = 0 THEN shownItems ELSE Rest(g[n - 1], n)]
  BY <1>6
<1>8. Events!UpdatedInTurn(order) = g[k]
  BY DEF Events!UpdatedInTurn
<1>. HIDE DEF g
<1>9. g[0] = shownItems /\ \A n \in 1 .. k : g[n] = Events!Updated(g[n - 1], order[n])
  BY <1>7
<1>. DEFINE T == {n \in 0 .. k : g[n] \in Sound}
<1>10. 0 \in T
  BY <1>2, <1>9
<1>11. ASSUME NEW n \in 1 .. k, n - 1 \in T PROVE n \in T
  BY <1>3, <1>9, <1>11
<1>12. 0 .. k \subseteq T
  <2>. HIDE DEF T
  <2>. QED BY <1>10, <1>11, CountedUp
<1>. QED BY <1>8, <1>9, <1>12 DEF ListsUpdated

LEMMA UpToOneMore ==
  ASSUME NEW order, NEW n \in Nat, 1 <= n
  PROVE  {order[i] : i \in 1 .. n} = {order[i] : i \in 1 .. n - 1} \cup {order[n]}
<1>1. \A i \in Nat : i \in 1 .. n <=> i \in 1 .. n - 1 \/ i = n
  OBVIOUS
<1>. QED BY <1>1

LEMMA GoneThrough ==
  ASSUME NEW U, IsFiniteSet(U), NEW order \in Events!SetToSeqs(U)
  PROVE  {order[i] : i \in 1 .. Len(order)} = U
BY OrdersGoThrough

(* Those updated are listed as they are to be, the others as they were.      *)
LEMMA UpdatedInTurnKeeps ==
  ASSUME NEW twice, shownItems \in Seq(DOMAIN notifications), Sparse(shownItems, twice),
         NEW U, IsFiniteSet(U), NEW order \in Events!SetToSeqs(U)
  PROVE  LET r == Events!UpdatedInTurn(order)
         IN  r \in Seq(DOMAIN notifications) /\ Sparse(r, twice)
               /\ Kept(notifications, r, shownItems, U, twice)
<1>1. PICK k \in Nat : k = Len(order)
  BY OrdersGoThrough
<1>2. PICK g : ListsUpdated(g, order, k, twice)
  BY <1>1, UpdatedInTurnSteps
<1>. DEFINE Told(n) == {order[i] : i \in 1 .. n}
            T == {n \in 0 .. k : Kept(notifications, g[n], shownItems, Told(n), twice)}
<1>3. 0 \in T
  <2>1. g[0] = shownItems /\ Told(0) = {}
    BY <1>2 DEF ListsUpdated
  <2>. QED BY <2>1 DEF Kept
<1>4. ASSUME NEW n \in 1 .. k, n - 1 \in T PROVE n \in T
  <2>1. PICK w, r, id, V : w = g[n - 1] /\ r = g[n] /\ id = order[n] /\ V = Told(n - 1)
    OBVIOUS
  <2>2. /\ Kept(notifications, w, shownItems, V, twice) /\ r = Events!Updated(w, id)
        /\ w \in Seq(DOMAIN notifications) /\ Sparse(w, twice)
    BY <1>2, <1>4, <2>1 DEF ListsUpdated
  <2>3. Kept(notifications, r, w, {id}, twice)
    BY <2>2, UpdatedKeeps
  <2>4. Told(n) = V \cup {id}
    BY <2>1, UpToOneMore
  <2>5. Kept(notifications, r, shownItems, V \cup {id}, twice)
    BY <2>2, <2>3 DEF Kept
  <2>6. Kept(notifications, g[n], shownItems, Told(n), twice)
    <3>. HIDE DEF Told
    <3>. QED BY <2>1, <2>4, <2>5
  <2>7. n \in 0 .. k
    OBVIOUS
  <2>. QED BY <2>6, <2>7, Zenon
<1>5. k \in T
  <2>1. 0 .. k \subseteq T
    <3>. HIDE DEF T
    <3>. QED BY <1>3, <1>4, CountedUp
  <2>2. k \in 0 .. k
    OBVIOUS
  <2>. HIDE DEF T
  <2>. QED BY <2>1, <2>2, Zenon
<1>6. Told(k) = U
  BY <1>1, GoneThrough
<1>. HIDE DEF Told
<1>. QED BY <1>2, <1>5, <1>6 DEF ListsUpdated

(* With at most the first of them out of place, all of them find theirs.     *)
LEMMA UpdatedInTurnSettles ==
  ASSUME IsHeld(notifications), NEW V, NEW B, Settled(notifications, shownItems, V, B),
         NEW U, IsFiniteSet(U), U # {}, NEW order \in Events!SetToSeqs(U), B \subseteq {order[1]}
  PROVE  Settled(notifications, Events!UpdatedInTurn(order), V \cup U, {})
<1>1. PICK k \in Nat : k = Len(order) /\ k # 0
  BY OrdersGoThrough
<1>2. PICK g : ListsUpdated(g, order, k, {})
  BY <1>1, SingleIsSparse, UpdatedInTurnSteps DEF Settled
<1>. DEFINE Told(n) == {order[i] : i \in 1 .. n}
            Left(n) == IF n = 0 THEN B ELSE {}
            T == {n \in 0 .. k : Settled(notifications, g[n], V \cup Told(n), Left(n))}
<1>3. 0 \in T
  <2>1. g[0] = shownItems /\ V \cup Told(0) = V /\ Left(0) = B
    BY <1>2 DEF ListsUpdated
  <2>2. 0 \in 0 .. k
    OBVIOUS
  <2>. HIDE DEF Told, Left
  <2>. QED BY <2>1, <2>2
<1>4. ASSUME NEW n \in 1 .. k, n - 1 \in T PROVE n \in T
  <2>1. PICK w, id, W, L : w = g[n - 1] /\ id = order[n] /\ W = V \cup Told(n - 1) /\ L = Left(n - 1)
    OBVIOUS
  <2>2. Settled(notifications, w, W, L) /\ g[n] = Events!Updated(w, id)
    BY <1>2, <1>4, <2>1 DEF ListsUpdated
  <2>3. L \subseteq {id}
    BY <2>1
  <2>4. Settled(notifications, g[n], W \cup {id}, {})
    BY <2>2, <2>3, UpdatedSettles
  <2>5. Told(n) = Told(n - 1) \cup {id}
    BY <2>1, UpToOneMore
  <2>6. V \cup Told(n) = W \cup {id} /\ Left(n) = {}
    <3>. HIDE DEF Told
    <3>. QED BY <2>1, <2>5
  <2>7. n \in 0 .. k
    OBVIOUS
  <2>. HIDE DEF Told, Left
  <2>. QED BY <2>4, <2>6, <2>7
<1>5. k \in T
  <2>1. 0 .. k \subseteq T
    <3>. HIDE DEF T
    <3>. QED BY <1>3, <1>4, CountedUp
  <2>2. k \in 0 .. k
    OBVIOUS
  <2>. HIDE DEF T
  <2>. QED BY <2>1, <2>2, Zenon
<1>6. Told(k) = U /\ Left(k) = {}
  BY <1>1, GoneThrough
<1>. HIDE DEF Told, Left
<1>. QED BY <1>2, <1>5, <1>6 DEF ListsUpdated

(* Taking out notifications once leaves the others as they were, and of each *)
(* of them one at most.                                                      *)
Reduced(r, w, U) ==
    /\ \A a : Has(r, a) => Has(w, a)
    /\ \A a : Has(w, a) /\ a \notin U => Has(r, a)
    /\ \A a, b : Leads(r, a, b) => Leads(w, a, b)
    /\ \A a \in U : ~Leads(r, a, a) /\ (~Leads(w, a, a) => ~Has(r, a))

LEMMA RemovedInTurnReduces ==
  ASSUME NEW S, NEW w \in Seq(S), \A a : ~Thrice(w, a),
         NEW U, IsFiniteSet(U), NEW order \in Events!SetToSeqs(U)
  PROVE  LET r == Events!RemovedInTurn(w, order)
         IN  r \in Seq(S) /\ (\A a : ~Thrice(r, a)) /\ Reduced(r, w, U)
<1>1. PICK k \in Nat : k = Len(order)
  BY OrdersGoThrough
<1>. DEFINE Sound == {r \in Seq(S) : \A a : ~Thrice(r, a)}
            Rest(r, n) == Events!RemoveFirst(r, order[n])
            G == [x \in Sound \X (1 .. k) |-> Rest(x[1], x[2])]
            Gone(n) == {order[i] : i \in 1 .. n}
<1>2. w \in Sound
  OBVIOUS
<1>3. ASSUME NEW r \in Sound, NEW n \in 1 .. k
      PROVE  /\ Rest(r, n) \in Sound
             /\ \A a : Has(Rest(r, n), a) => Has(r, a)
             /\ \A a : Has(r, a) /\ a # order[n] => Has(Rest(r, n), a)
             /\ \A a, b : Leads(Rest(r, n), a, b) => Leads(r, a, b)
             /\ ~Leads(Rest(r, n), order[n], order[n])
             /\ ~Leads(r, order[n], order[n]) => ~Has(Rest(r, n), order[n])
  BY RemovedOne
<1>4. G \in [Sound \X (1 .. k) -> Sound]
  <2>1. \A r \in Sound, n \in 1 .. k : Rest(r, n) \in Sound
    BY <1>3
  <2>. QED BY <2>1
<1>5. PICK f \in [0 .. k -> Sound] : Follows(f, w, k, G)
  <2>. HIDE DEF G, Sound
  <2>. QED BY <1>2, <1>4, Iterated
<1>6. f = [n \in 0 .. k |-> IF n = 0 THEN w ELSE Rest(f[n - 1], n)]
  <2>1. \A n \in 0 .. k : f[n] = IF n = 0 THEN w ELSE Rest(f[n - 1], n)
    <3>. SUFFICES ASSUME NEW n \in 0 .. k, n # 0 PROVE f[n] = Rest(f[n - 1], n)
      BY <1>5 DEF Follows
    <3>1. n \in 1 .. k /\ f[n - 1] \in Sound
      <4>. HIDE DEF G, Sound
      <4>. QED BY <1>5
    <3>2. f[n] = G[<<f[n - 1], n>>]
      BY <1>5, <3>1 DEF Follows
    <3>. QED BY <3>1, <3>2
  <2>. QED BY <1>5, <2>1
<1>. DEFINE g == CHOOSE h : h = [n \in 0 .. k |-> IF n = 0 THEN w ELSE Rest(h[n - 1], n)]
<1>7. g = [n \in 0 .. k |-> IF n = 0 THEN w ELSE Rest(g[n - 1], n)]
  BY <1>6
<1>8. Events!RemovedInTurn(w, order) = g[k]
  BY <1>1 DEF Events!RemovedInTurn
<1>. HIDE DEF g
<1>. DEFINE T == {n \in 0 .. k : g[n] \in Sound /\ Reduced(g[n], w, Gone(n))}
<1>9. 0 \in T
  <2>1. g[0] = w /\ Gone(0) = {}
    BY <1>7
  <2>2. Reduced(w, w, {})
    BY DEF Reduced
  <2>3. g[0] \in Sound /\ Reduced(g[0], w, Gone(0))
    <3>. HIDE DEF Gone
    <3>. QED BY <1>2, <2>1, <2>2
  <2>. QED BY <2>3
<1>10. ASSUME NEW n \in 1 .. k, n - 1 \in T PROVE n \in T
  <2>1. PICK r, e, x, V : r = g[n - 1] /\ e = Rest(r, n) /\ x = order[n] /\ V = Gone(n - 1)
    OBVIOUS
  <2>2. r \in Sound /\ Reduced(r, w, V)
    BY <1>10, <2>1
  <2>3. g[n] = e
    <3>1. n \in 0 .. k /\ n # 0
      OBVIOUS
    <3>2. g[n] = Rest(g[n - 1], n)
      <4>. HIDE DEF Rest, Gone
      <4>. QED BY <1>7, <3>1
    <3>. HIDE DEF Rest, Gone
    <3>. QED BY <2>1, <3>2
  <2>4. Gone(n) = V \cup {x}
    BY <2>1, UpToOneMore
  <2>5. /\ e \in Sound
        /\ \A a : Has(e, a) => Has(r, a)
        /\ \A a : Has(r, a) /\ a # x => Has(e, a)
        /\ \A a, b : Leads(e, a, b) => Leads(r, a, b)
        /\ ~Leads(e, x, x) /\ (~Leads(r, x, x) => ~Has(e, x))
    BY <1>3, <2>1, <2>2
  <2>6. Reduced(e, w, V \cup {x})
    BY <2>2, <2>5 DEF Reduced
  <2>7. g[n] \in Sound /\ Reduced(g[n], w, Gone(n))
    <3>. HIDE DEF Gone, Sound
    <3>. QED BY <2>3, <2>4, <2>5, <2>6
  <2>8. n \in 0 .. k
    OBVIOUS
  <2>. QED BY <2>7, <2>8, Zenon
<1>11. 0 .. k \subseteq T
  <2>. HIDE DEF T
  <2>. QED BY <1>9, <1>10, CountedUp
<1>12. Gone(k) = U
  BY <1>1, GoneThrough
<1>13. k \in T
  <2>. HIDE DEF T
  <2>1. k \in 0 .. k
    OBVIOUS
  <2>. QED BY <1>11, <2>1
<1>. HIDE DEF Gone
<1>. QED BY <1>8, <1>12, <1>13

(* What is to be shown is listed, and what is not is not.                    *)
ListedIfShown(f, w, U, twice) ==
    \A a \in U : (f[a].shown => Has(w, a)) /\ (~f[a].shown /\ a \notin twice => ~Has(w, a))

(* A list that a report may have filled before it was populated.  Once it is *)
(* populated: what is to be shown is listed, and what is not is not; what is *)
(* listed twice was placed among others out of place; and what leads one in  *)
(* place, unless it is out of place itself, is above it.                     *)
EventsInv ==
    /\ IsHeld(notifications) /\ modified \subseteq Ids /\ populated \in BOOLEAN
    /\ shownItems \in Seq(DOMAIN notifications) /\ Sparse(shownItems, doubled)
    /\ fallen \subseteq DOMAIN notifications
    /\ misplaced \subseteq DOMAIN notifications
    /\ doubled \subseteq DOMAIN notifications
    /\ IF populated
         THEN /\ ListedIfShown(notifications, shownItems, DOMAIN notifications \ modified, doubled)
              /\ \A a \in doubled : Has(shownItems, a) => a \in misplaced
              /\ fallen \subseteq modified
              /\ InOrder(notifications, shownItems, DOMAIN notifications \ (modified \cup misplaced),
                         misplaced \cup fallen)
         ELSE /\ fallen = {} /\ misplaced = {} /\ doubled = {}
              /\ \A a \in DOMAIN notifications \ modified :
                   Has(shownItems, a) => notifications[a].shown

LEMMA WholeIds ==
  ASSUME NEW U \in SUBSET Ids
  PROVE  IsFiniteSet(U)
BY ModelsAssumption, FS_Subset

LEMMA InSet ==
  ASSUME NEW S, NEW w \in Seq(S), NEW a
  PROVE  a \in Events!ToSet(w) <=> Has(w, a)
<1>1. DOMAIN w = 1 .. Len(w)
  BY LenProperties
<1>. QED BY <1>1 DEF Events!ToSet, Has

LEMMA HeldOnly ==
  ASSUME NEW S, NEW w \in Seq(S)
  PROVE  /\ \A a : Has(w, a) => a \in S
         /\ \A a, b : Leads(w, a, b) => Has(w, a) /\ Has(w, b)
<1>1. \A i \in 1 .. Len(w) : w[i] \in S
  BY ElementOfSeq
<1>. QED BY <1>1 DEF Has, Leads

(* Once all that is modified is updated, the list is as it is to be, but for *)
(* the places of those that were placed among others out of place.           *)
LEMMA UpdateKeeps ==
  ASSUME EventsInv, populated, NEW ids \in SUBSET Ids, Events!Update(ids),
         DOMAIN notifications \cap modified \subseteq ids, ids # {} \/ DOMAIN notifications = {}
  PROVE  /\ shownItems' \in Seq(DOMAIN notifications) /\ Sparse(shownItems', doubled)
         /\ misplaced' \subseteq DOMAIN notifications
         /\ ListedIfShown(notifications, shownItems', DOMAIN notifications, doubled)
         /\ \A a \in doubled : Has(shownItems', a) => a \in misplaced'
         /\ InOrder(notifications, shownItems', DOMAIN notifications \ misplaced', misplaced')
<1>. DEFINE D == DOMAIN notifications
<1>1. PICK f, w, r, m, n, b, t :
        /\ f = notifications /\ w = shownItems /\ r = shownItems'
        /\ m = misplaced /\ n = misplaced' /\ b = fallen /\ t = doubled
  OBVIOUS
<1>2. PICK order \in Events!SetToSeqs(ids) :
        /\ r = Events!UpdatedInTurn(order)
        /\ n = IF Events!Disturbed(order) THEN (m \cup ids) \cap Events!ToSet(r) ELSE {}
  BY <1>1 DEF Events!Update
<1>3. /\ w \in Seq(D) /\ Sparse(w, t) /\ ListedIfShown(f, w, D \ modified, t)
      /\ \A a \in t : Has(w, a) => a \in m
      /\ b \subseteq modified /\ b \subseteq D /\ m \subseteq D /\ t \subseteq D /\ IsHeld(f)
      /\ InOrder(f, w, D \ (modified \cup m), m \cup b)
  BY <1>1 DEF EventsInv
<1>4. IsFiniteSet(ids)
  BY WholeIds
<1>5. r \in Seq(D) /\ Sparse(r, t) /\ Kept(f, r, w, ids, t)
  BY <1>1, <1>2, <1>3, <1>4, UpdatedInTurnKeeps
<1>6. /\ \A a : a \in Events!ToSet(r) <=> Has(r, a)
      /\ \A a : a \in Events!ToSet(w) <=> Has(w, a)
      /\ \A a : Has(r, a) => a \in D
      /\ \A a, c : Leads(r, a, c) => Has(r, a) /\ Has(r, c)
  BY <1>3, <1>5, InSet, HeldOnly
<1>7. ListedIfShown(f, r, D, t)
  <2>1. ASSUME NEW a \in D, a \notin ids
        PROVE  (f[a].shown => Has(r, a)) /\ (~f[a].shown /\ a \notin t => ~Has(r, a))
    <3>1. a \in D \ modified
      BY <2>1
    <3>. QED BY <1>3, <1>5, <2>1, <3>1 DEF ListedIfShown, Kept
  <2>2. ASSUME NEW a \in D \cap ids
        PROVE  (f[a].shown => Has(r, a)) /\ (~f[a].shown /\ a \notin t => ~Has(r, a))
    BY <1>1, <1>5, <2>2 DEF Kept
  <2>. QED BY <2>1, <2>2 DEF ListedIfShown
<1>8. CASE Events!Disturbed(order)
  <2>1. \A a : a \in n <=> (a \in m \/ a \in ids) /\ Has(r, a)
    BY <1>2, <1>6, <1>8
  <2>2. n \subseteq D
    BY <1>6, <2>1
  <2>3. \A a \in t : Has(r, a) => a \in n
    BY <1>3, <1>5, <2>1 DEF Kept
  <2>4. ASSUME NEW a \in D, NEW c \in D, Leads(r, a, c), c \notin n, a \notin n
        PROVE  Above(f, a, c)
    <3>1. a \notin m /\ a \notin ids /\ c \notin m /\ c \notin ids
      BY <1>6, <2>1, <2>4
    <3>2. Leads(w, a, c)
      BY <1>5, <2>4, <3>1 DEF Kept
    <3>3. c \in D \ (modified \cup m) /\ a \notin m \cup b
      BY <1>3, <2>4, <3>1
    <3>. QED BY <1>1, <1>3, <2>4, <3>2, <3>3 DEF InOrder
  <2>5. InOrder(f, r, D \ n, n)
    BY <1>1, <2>4 DEF InOrder
  <2>. QED BY <1>1, <1>5, <1>7, <2>2, <2>3, <2>5
<1>9. CASE ~Events!Disturbed(order)
  <2>1. n = {} /\ t = {}
    BY <1>1, <1>2, <1>9 DEF Events!Disturbed
  <2>2. Single(w)
    BY <1>3, <2>1 DEF Single, Sparse
  <2>3. CASE ids = {}
    <3>1. D = {}
      BY <2>3
    <3>2. InOrder(f, r, D \ n, n)
      BY <1>1, <3>1 DEF InOrder
    <3>. QED BY <1>1, <1>5, <1>7, <2>1, <3>2
  <2>4. CASE ids # {}
    <3>0. {order[i] : i \in 1 .. Len(order)} = ids /\ Len(order) \in Nat /\ Events!ToSet(order) = ids
      <4>1. /\ Len(order) \in Nat /\ order \in [1 .. Len(order) -> ids]
            /\ {order[i] : i \in 1 .. Len(order)} = ids
        BY <1>4, OrdersGoThrough, GoneThrough
      <4>. QED BY <4>1 DEF Events!ToSet
    <3>1. PICK V, B : /\ Settled(f, w, V, B) /\ B \subseteq {order[1]}
                      /\ \A c \in D : Has(w, c) => c \in V \cup ids
      <4>1. CASE Events!ToSet(w) \subseteq Events!ToSet(order)
        <5>1. Settled(f, w, {}, {})
          BY <1>1, <1>3, <2>2 DEF Settled, InOrder
        <5>2. \A c \in D : Has(w, c) => c \in {} \cup ids
          BY <1>6, <3>0, <4>1
        <5>3. {} \subseteq {order[1]}
          OBVIOUS
        <5>. QED BY <5>1, <5>2, <5>3
      <4>2. CASE m \cup b \subseteq {order[1]}
        <5>1. Settled(f, w, D \ (modified \cup m), m \cup b)
          BY <1>1, <1>3, <2>2 DEF Settled
        <5>2. order[1] \in ids
          <6>1. Len(order) # 0
            BY <2>4, <3>0
          <6>. QED BY <3>0, <6>1
        <5>3. \A c \in D : Has(w, c) => c \in (D \ (modified \cup m)) \cup ids
          BY <4>2, <5>2
        <5>. QED BY <4>2, <5>1, <5>3
      <4>. QED BY <1>1, <1>9, <4>1, <4>2 DEF Events!Disturbed
    <3>2. Settled(f, r, V \cup ids, {})
      BY <1>1, <1>2, <1>3, <1>4, <2>4, <3>1, UpdatedInTurnSettles
    <3>3. ASSUME NEW a \in D, NEW c \in D, Leads(r, a, c) PROVE Above(f, a, c)
      <4>1. Has(r, c)
        BY <1>6, <3>3
      <4>2. c \in V \cup ids
        BY <1>5, <3>1, <4>1 DEF Kept
      <4>. QED BY <1>1, <3>2, <3>3, <4>2 DEF Settled, InOrder
    <3>4. InOrder(f, r, D \ n, n)
      BY <1>1, <3>3 DEF InOrder
    <3>. QED BY <1>1, <1>5, <1>7, <2>1, <3>4
  <2>. QED BY <2>3, <2>4
<1>. QED BY <1>8, <1>9

LEMMA PublishKeeps ==
  ASSUME EventsInv, NEW id \in Ids, NEW content \in Events!Content,
         Events!Publish(id, content)
  PROVE  EventsInv'
<1>. DEFINE D == DOMAIN notifications
<1>1. PICK f, g, w, m, b, h, t :
        /\ f = notifications /\ g = notifications' /\ w = shownItems /\ m = misplaced
        /\ b = fallen /\ h = fallen' /\ t = doubled
  OBVIOUS
<1>2. /\ g = [x \in D \cup {id} |-> IF x = id THEN content ELSE f[x]]
      /\ modified' = modified \cup {id} /\ shownItems' = w
      /\ populated' = populated /\ misplaced' = m /\ doubled' = t
      /\ h = IF populated /\ id \in Events!ToSet(w) /\ content.rank < f[id].rank
               THEN b \cup {id} ELSE b
  BY <1>1 DEF Events!Publish
<1>3. /\ DOMAIN g = D \cup {id} /\ IsHeld(f) /\ modified \subseteq Ids /\ populated \in BOOLEAN
      /\ w \in Seq(D) /\ Sparse(w, t) /\ b \subseteq D /\ m \subseteq D /\ t \subseteq D
  BY <1>1, <1>2 DEF EventsInv
<1>4. IsHeld(g)
  BY <1>1, <1>2, <1>3 DEF IsHeld
<1>5. /\ \A a : a \in Events!ToSet(w) <=> Has(w, a)
      /\ \A a : Has(w, a) => a \in D
      /\ \A a, c : Leads(w, a, c) => Has(w, a) /\ Has(w, c)
  BY <1>3, InSet, HeldOnly
<1>6. w \in Seq(DOMAIN g)
  <2>1. \A i \in 1 .. Len(w) : w[i] \in DOMAIN g
    BY <1>3, ElementOfSeq
  <2>. QED BY <1>3, <2>1, OthersOf
<1>7. h \subseteq DOMAIN g /\ m \subseteq DOMAIN g /\ t \subseteq DOMAIN g
  BY <1>2, <1>3
<1>8. \A a \in DOMAIN g \ modified' : a \in D \ modified /\ a # id /\ g[a] = f[a]
  BY <1>2, <1>3
<1>9. CASE populated
  <2>1. /\ ListedIfShown(f, w, D \ modified, t)
        /\ \A a \in t : Has(w, a) => a \in m
        /\ b \subseteq modified
        /\ InOrder(f, w, D \ (modified \cup m), m \cup b)
    BY <1>1, <1>9 DEF EventsInv
  <2>2. ListedIfShown(g, w, DOMAIN g \ modified', t)
    BY <1>8, <2>1 DEF ListedIfShown
  <2>3. h \subseteq modified'
    BY <1>2, <2>1
  <2>4. ASSUME NEW a \in DOMAIN g, NEW c \in DOMAIN g, Leads(w, a, c),
               c \in DOMAIN g \ (modified' \cup m), a \notin m \cup h
        PROVE  Above(g, a, c)
    <3>1. a \in D /\ c \in D \ (modified \cup m) /\ g[c] = f[c] /\ Has(w, a)
      BY <1>5, <1>8, <2>4
    <3>2. Above(f, a, c)
      BY <1>1, <1>2, <2>1, <2>4, <3>1 DEF InOrder
    <3>3. CASE a # id
      <4>1. g[a] = f[a]
        BY <1>2, <3>1, <3>3
      <4>. QED BY <3>1, <3>2, <4>1 DEF Above
    <3>4. CASE a = id
      <4>1. g[a] = content /\ ~(content.rank < f[a].rank)
        BY <1>2, <1>5, <1>9, <2>4, <3>1, <3>4
      <4>2. f[a].rank \in Nat /\ f[c].rank \in Nat /\ content.rank \in Nat
        <5>1. f[a] \in Events!Content /\ f[c] \in Events!Content
          BY <1>1, <1>3, <3>1 DEF IsHeld
        <5>. QED BY <5>1, ModelsAssumption DEF Events!Content
      <4>. QED BY <3>1, <3>2, <4>1, <4>2 DEF Above
    <3>. QED BY <3>3, <3>4
  <2>5. InOrder(g, w, DOMAIN g \ (modified' \cup m), m \cup h)
    BY <2>4 DEF InOrder
  <2>. QED BY <1>1, <1>2, <1>3, <1>4, <1>6, <1>7, <1>9, <2>1, <2>2, <2>3, <2>5 DEF EventsInv
<1>10. CASE ~populated
  <2>1. b = {} /\ m = {} /\ t = {} /\ \A a \in D \ modified : Has(w, a) => f[a].shown
    BY <1>1, <1>10 DEF EventsInv
  <2>2. h = {} /\ \A a \in DOMAIN g \ modified' : Has(w, a) => g[a].shown
    BY <1>2, <1>8, <1>10, <2>1
  <2>. QED BY <1>1, <1>2, <1>3, <1>4, <1>6, <1>10, <2>1, <2>2 DEF EventsInv
<1>. QED BY <1>9, <1>10

LEMMA ReportKeeps ==
  ASSUME EventsInv, Events!ReportModifications
  PROVE  EventsInv'
<1>. DEFINE D == DOMAIN notifications
<1>1. /\ modified # {} /\ modified' = {} /\ Events!Update(modified) /\ fallen' = {}
      /\ notifications' = notifications /\ populated' = populated /\ doubled' = doubled
  BY DEF Events!ReportModifications
<1>2. /\ IsHeld(notifications) /\ modified \in SUBSET Ids /\ populated \in BOOLEAN
      /\ shownItems \in Seq(D) /\ Sparse(shownItems, doubled) /\ doubled \subseteq D
  BY DEF EventsInv
<1>3. CASE populated
  <2>1. /\ shownItems' \in Seq(D) /\ Sparse(shownItems', doubled)
        /\ misplaced' \subseteq D
        /\ ListedIfShown(notifications, shownItems', D, doubled)
        /\ \A a \in doubled : Has(shownItems', a) => a \in misplaced'
        /\ InOrder(notifications, shownItems', D \ misplaced', misplaced')
    BY <1>1, <1>2, <1>3, UpdateKeeps
  <2>2. D \ {} = D /\ {} \cup misplaced' = misplaced' /\ misplaced' \cup {} = misplaced'
    OBVIOUS
  <2>. QED BY <1>1, <1>2, <1>3, <2>1, <2>2 DEF EventsInv
<1>4. CASE ~populated
  <2>1. doubled = {} /\ \A a \in D \ modified : Has(shownItems, a) => notifications[a].shown
    BY <1>4 DEF EventsInv
  <2>2. PICK order, r : /\ order \in Events!SetToSeqs(modified) /\ r = Events!UpdatedInTurn(order)
                        /\ shownItems' = r /\ misplaced' = {}
    BY <1>1, <1>4 DEF Events!Update
  <2>3. r \in Seq(D) /\ Sparse(r, doubled) /\ Kept(notifications, r, shownItems, modified, doubled)
    BY <1>2, <2>2, WholeIds, UpdatedInTurnKeeps
  <2>4. \A a \in D \ {} : Has(r, a) => notifications[a].shown
    BY <2>1, <2>3 DEF Kept
  <2>. QED BY <1>1, <1>2, <1>4, <2>1, <2>2, <2>3, <2>4 DEF EventsInv
<1>. QED BY <1>3, <1>4

LEMMA CloseKeeps ==
  ASSUME EventsInv, NEW ids \in SUBSET Ids, Events!Close(ids)
  PROVE  EventsInv'
<1>. DEFINE D == DOMAIN notifications
<1>1. PICK f, g, w, order, m, b, t :
        /\ f = notifications /\ g = notifications' /\ w = shownItems
        /\ order = Events!SetToSeq(ids) /\ m = misplaced /\ b = fallen /\ t = doubled
  OBVIOUS
<1>2. /\ g = [x \in D \ ids |-> f[x]]
      /\ shownItems' = Events!RemovedInTurn(Events!RemovedInTurn(w, order), order)
      /\ modified' = modified /\ populated' = populated
      /\ fallen' = b \ ids /\ misplaced' = m \ ids /\ doubled' = t \ ids
  BY <1>1 DEF Events!Close
<1>3. /\ DOMAIN g = D \ ids /\ IsHeld(f) /\ modified \subseteq Ids /\ populated \in BOOLEAN
      /\ w \in Seq(D) /\ Sparse(w, t) /\ b \subseteq D /\ m \subseteq D /\ t \subseteq D
  BY <1>1, <1>2 DEF EventsInv
<1>4. IsHeld(g)
  BY <1>1, <1>2, <1>3 DEF IsHeld
<1>5. \A a : ~Thrice(w, a)
  BY <1>3 DEF Sparse
<1>6. IsFiniteSet(ids) /\ order \in Events!SetToSeqs(ids)
  BY <1>1, WholeIds, OrdersThereAre
<1>7. PICK v : v = Events!RemovedInTurn(w, order)
  OBVIOUS
<1>8. v \in Seq(D) /\ (\A a : ~Thrice(v, a)) /\ Reduced(v, w, ids)
  BY <1>3, <1>5, <1>6, <1>7, RemovedInTurnReduces
<1>9. PICK r : r = Events!RemovedInTurn(v, order)
  OBVIOUS
<1>10. r \in Seq(D) /\ (\A a : ~Thrice(r, a)) /\ Reduced(r, v, ids)
  BY <1>6, <1>8, <1>9, RemovedInTurnReduces
<1>11. /\ shownItems' = r
       /\ \A a : Has(r, a) => Has(w, a) /\ a \notin ids
       /\ \A a : Has(w, a) /\ a \notin ids => Has(r, a)
       /\ \A a, c : Leads(r, a, c) => Leads(w, a, c)
  <2>1. shownItems' = r
    BY <1>2, <1>7, <1>9
  <2>. QED BY <1>8, <1>10, <2>1 DEF Reduced
<1>12. /\ \A i \in 1 .. Len(r) : Has(r, r[i]) /\ r[i] \in D
       /\ \A a, c : Leads(r, a, c) => Has(r, a) /\ Has(r, c)
  BY <1>10, HeldOnly, ElementOfSeq DEF Has
<1>13. r \in Seq(DOMAIN g)
  <2>1. \A i \in 1 .. Len(r) : r[i] \in D \ ids
    BY <1>11, <1>12
  <2>. QED BY <1>3, <1>10, <2>1, OthersOf
<1>14. Sparse(r, t \ ids)
  BY <1>3, <1>10, <1>11, <1>12 DEF Sparse
<1>15. b \ ids \subseteq DOMAIN g /\ m \ ids \subseteq DOMAIN g /\ t \ ids \subseteq DOMAIN g
  BY <1>3
<1>16. \A a \in DOMAIN g : a \in D /\ a \notin ids /\ g[a] = f[a]
  BY <1>2, <1>3
<1>17. CASE populated
  <2>1. /\ ListedIfShown(f, w, D \ modified, t)
        /\ \A a \in t : Has(w, a) => a \in m
        /\ b \subseteq modified
        /\ InOrder(f, w, D \ (modified \cup m), m \cup b)
    BY <1>1, <1>17 DEF EventsInv
  <2>2. ListedIfShown(g, r, DOMAIN g \ modified, t \ ids)
    <3>. SUFFICES ASSUME NEW a \in DOMAIN g \ modified
                  PROVE  /\ g[a].shown => Has(r, a)
                         /\ ~g[a].shown /\ a \notin t \ ids => ~Has(r, a)
      BY DEF ListedIfShown
    <3>1. a \in D \ modified /\ a \notin ids /\ g[a] = f[a] /\ (Has(r, a) <=> Has(w, a))
      BY <1>11, <1>16
    <3>. QED BY <2>1, <3>1 DEF ListedIfShown
  <2>3. \A a \in t \ ids : Has(r, a) => a \in m \ ids
    BY <1>11, <2>1
  <2>4. ASSUME NEW a \in DOMAIN g, NEW c \in DOMAIN g, Leads(r, a, c),
               c \in DOMAIN g \ (modified \cup (m \ ids)), a \notin (m \ ids) \cup (b \ ids)
        PROVE  Above(g, a, c)
    <3>1. /\ a \in D /\ c \in D /\ g[a] = f[a] /\ g[c] = f[c] /\ Leads(w, a, c)
          /\ c \in D \ (modified \cup m) /\ a \notin m \cup b
      BY <1>11, <1>16, <2>4
    <3>2. Above(f, a, c)
      BY <1>1, <2>1, <3>1 DEF InOrder
    <3>. QED BY <3>1, <3>2 DEF Above
  <2>5. InOrder(g, r, DOMAIN g \ (modified \cup (m \ ids)), (m \ ids) \cup (b \ ids))
    BY <2>4 DEF InOrder
  <2>6. b \ ids \subseteq modified
    BY <2>1
  <2>. QED BY <1>1, <1>2, <1>3, <1>4, <1>11, <1>13, <1>14, <1>15, <1>17, <2>2, <2>3, <2>5, <2>6
           DEF EventsInv
<1>18. CASE ~populated
  <2>1. b = {} /\ m = {} /\ t = {} /\ \A a \in D \ modified : Has(w, a) => f[a].shown
    BY <1>1, <1>18 DEF EventsInv
  <2>2. \A a \in DOMAIN g \ modified : Has(r, a) => g[a].shown
    BY <1>11, <1>16, <2>1
  <2>3. b \ ids = {} /\ m \ ids = {} /\ t \ ids = {}
    BY <2>1
  <2>. QED BY <1>1, <1>2, <1>3, <1>4, <1>11, <1>13, <1>14, <1>15, <1>18, <2>2, <2>3 DEF EventsInv
<1>. QED BY <1>17, <1>18

(* What leads what in two lists, one after the other.                        *)
LEMMA JoinedLeads ==
  ASSUME NEW S, NEW w \in Seq(S), NEW s \in Seq(S)
  PROVE  /\ w \o s \in Seq(S)
         /\ \A a : Has(w \o s, a) <=> Has(w, a) \/ Has(s, a)
         /\ \A a, b : Leads(w \o s, a, b) =>
              Leads(w, a, b) \/ Leads(s, a, b) \/ (Has(w, a) /\ Has(s, b))
         /\ \A a : Thrice(w \o s, a) => Leads(w, a, a) \/ Leads(s, a, a)
<1>1. PICK e, m, n : e = w \o s /\ m = Len(w) /\ n = Len(s)
  OBVIOUS
<1>2. /\ e \in Seq(S) /\ Len(e) = m + n /\ m \in Nat /\ n \in Nat
      /\ \A i \in 1 .. m : e[i] = w[i]
      /\ \A i \in m + 1 .. m + n : i - m \in 1 .. n /\ e[i] = s[i - m]
  <2>1. /\ e \in Seq(S) /\ Len(e) = m + n /\ m \in Nat /\ n \in Nat
        /\ \A i \in 1 .. m + n : e[i] = IF i <= m THEN w[i] ELSE s[i - m]
    BY <1>1, ConcatProperties, LenProperties
  <2>. QED BY <2>1
<1>3. \A i \in 1 .. m + n : i \in 1 .. m \/ i \in m + 1 .. m + n
  BY <1>2
<1>4. \A a : Has(e, a) <=> Has(w, a) \/ Has(s, a)
  <2>1. ASSUME NEW a, Has(e, a) PROVE Has(w, a) \/ Has(s, a)
    BY <1>1, <1>2, <1>3, <2>1 DEF Has
  <2>2. ASSUME NEW a, Has(w, a) PROVE Has(e, a)
    BY <1>1, <1>2, <2>2 DEF Has
  <2>3. ASSUME NEW a, Has(s, a) PROVE Has(e, a)
    <3>1. PICK j \in 1 .. n : s[j] = a
      BY <1>1, <2>3 DEF Has
    <3>2. j + m \in m + 1 .. m + n /\ j + m \in 1 .. m + n /\ (j + m) - m = j
      BY <1>2
    <3>. QED BY <1>2, <3>1, <3>2 DEF Has
  <2>. QED BY <2>1, <2>2, <2>3
<1>5. ASSUME NEW i \in 1 .. m + n, NEW j \in 1 .. m + n, i < j
      PROVE  /\ j \in 1 .. m => i \in 1 .. m /\ Leads(w, e[i], e[j])
             /\ i \notin 1 .. m => j \notin 1 .. m /\ Leads(s, e[i], e[j])
             /\ i \in 1 .. m /\ j \notin 1 .. m => Has(w, e[i]) /\ Has(s, e[j])
  <2>1. ASSUME j \in 1 .. m PROVE i \in 1 .. m /\ Leads(w, e[i], e[j])
    BY <1>1, <1>2, <1>5, <2>1 DEF Leads
  <2>2. ASSUME i \notin 1 .. m PROVE j \notin 1 .. m /\ Leads(s, e[i], e[j])
    <3>1. i \in m + 1 .. m + n /\ j \in m + 1 .. m + n /\ j \notin 1 .. m /\ i - m < j - m
      BY <1>2, <1>5, <2>2
    <3>. QED BY <1>1, <1>2, <3>1 DEF Leads
  <2>3. ASSUME i \in 1 .. m, j \notin 1 .. m PROVE Has(w, e[i]) /\ Has(s, e[j])
    BY <1>1, <1>2, <1>3, <2>3 DEF Has
  <2>. QED BY <2>1, <2>2, <2>3
<1>6. ASSUME NEW a, NEW b, Leads(e, a, b)
      PROVE  Leads(w, a, b) \/ Leads(s, a, b) \/ (Has(w, a) /\ Has(s, b))
  <2>1. PICK i \in 1 .. m + n, j \in 1 .. m + n : i < j /\ e[i] = a /\ e[j] = b
    BY <1>2, <1>6 DEF Leads
  <2>. QED BY <1>5, <2>1
<1>7. ASSUME NEW a, Thrice(e, a) PROVE Leads(w, a, a) \/ Leads(s, a, a)
  <2>1. PICK i \in 1 .. m + n, j \in 1 .. m + n, k \in 1 .. m + n :
          i < j /\ j < k /\ e[i] = a /\ e[j] = a /\ e[k] = a
    BY <1>2, <1>7 DEF Thrice
  <2>2. j \in 1 .. m => Leads(w, a, a)
    BY <1>5, <2>1
  <2>3. j \notin 1 .. m => Leads(s, a, a)
    BY <1>5, <2>1
  <2>. QED BY <2>2, <2>3
<1>. QED BY <1>1, <1>2, <1>4, <1>6, <1>7

LEMMA PopulateKeeps ==
  ASSUME EventsInv, Events!Populate
  PROVE  EventsInv'
<1>. DEFINE D == DOMAIN notifications
<1>1. PICK f, w : f = notifications /\ w = shownItems
  OBVIOUS
<1>2. /\ IsHeld(f) /\ modified \subseteq Ids /\ populated \in BOOLEAN
      /\ w \in Seq(D) /\ Sparse(w, doubled) /\ doubled \subseteq D
  BY <1>1 DEF EventsInv
<1>3. populated' = TRUE /\ notifications' = f /\ modified' = modified /\ fallen' = {}
  BY <1>1 DEF Events!Populate
<1>4. IsFiniteSet(D) /\ D \subseteq Ids
  BY <1>1, <1>2, WholeIds DEF IsHeld
<1>6. CASE populated
  <2>1. Events!Update(D) /\ doubled' = doubled
    BY <1>6 DEF Events!Populate
  <2>2. D \cap modified \subseteq D /\ (D # {} \/ D = {})
    OBVIOUS
  <2>3. /\ shownItems' \in Seq(D) /\ Sparse(shownItems', doubled)
        /\ misplaced' \subseteq D
        /\ ListedIfShown(notifications, shownItems', D, doubled)
        /\ \A a \in doubled : Has(shownItems', a) => a \in misplaced'
        /\ InOrder(notifications, shownItems', D \ misplaced', misplaced')
    BY <1>4, <1>6, <2>1, <2>2, UpdateKeeps
  <2>4. PICK r, n : r = shownItems' /\ n = misplaced'
    OBVIOUS
  <2>5. ListedIfShown(f, r, D \ modified, doubled)
    BY <1>1, <2>3, <2>4 DEF ListedIfShown
  <2>6. InOrder(f, r, D \ (modified \cup n), n \cup {})
    BY <1>1, <2>3, <2>4 DEF InOrder
  <2>. QED BY <1>1, <1>2, <1>3, <2>1, <2>3, <2>4, <2>5, <2>6 DEF EventsInv
<1>7. CASE ~populated
  <2>1. PICK shown : shown = {id \in D : f[id].shown}
    OBVIOUS
  <2>2. PICK s, r : /\ s \in Events!SetToSeqs(shown) /\ Events!IsSorted(s, Events!Precedes)
                    /\ r = w \o s /\ shownItems' = r
    BY <1>1, <1>7, <2>1 DEF Events!Populate
  <2>3. PICK n, t : /\ n = Events!ToSet(w) /\ t = n \cap shown
                    /\ misplaced' = n /\ doubled' = t
    BY <1>1, <1>7, <2>1 DEF Events!Populate
  <2>4. doubled = {} /\ \A a \in D \ modified : Has(w, a) => f[a].shown
    BY <1>1, <1>7 DEF EventsInv
  <2>5. IsFiniteSet(shown) /\ shown \subseteq D
    BY <1>4, <2>1, FS_Subset
  <2>6. /\ Len(s) \in Nat /\ s \in [1 .. Len(s) -> shown]
        /\ \A i, j \in 1 .. Len(s) : s[i] = s[j] => i = j
        /\ \A a \in shown : \E i \in 1 .. Len(s) : s[i] = a
    <3>1. s \in Events!SetToSeqs(shown) /\ IsFiniteSet(shown)
      BY <2>2, <2>5
    <3>. QED BY <3>1, OrdersGoThrough, Zenon
  <2>7. s \in Seq(shown) /\ s \in Seq(D) /\ DOMAIN s = 1 .. Len(s)
    <3>1. s \in [1 .. Len(s) -> D]
      BY <2>5, <2>6
    <3>. QED BY <2>6, <3>1, SeqDef
  <2>8. Single(s) /\ \A a : Has(s, a) <=> a \in shown
    BY <2>6 DEF Single, Leads, Has
  <2>9. /\ r \in Seq(D)
        /\ \A a : Has(r, a) <=> Has(w, a) \/ a \in shown
        /\ \A a, b : Leads(r, a, b) =>
              Leads(w, a, b) \/ Leads(s, a, b) \/ (Has(w, a) /\ b \in shown)
        /\ \A a : Thrice(r, a) => Leads(w, a, a) \/ Leads(s, a, a)
    BY <1>2, <2>2, <2>7, <2>8, JoinedLeads
  <2>10. /\ \A a : a \in n <=> Has(w, a)
         /\ \A a : Has(w, a) => a \in D
         /\ \A a, b : Leads(w, a, b) => Has(w, a) /\ Has(w, b)
         /\ \A a : ~Leads(w, a, a) /\ ~Leads(s, a, a)
    <3>1. \A a : ~Leads(w, a, a) /\ ~Leads(s, a, a)
      BY <1>2, <2>4, <2>8 DEF Sparse, Single
    <3>. QED BY <1>2, <2>3, <3>1, InSet, HeldOnly
  <2>11. Sparse(r, t)
    BY <2>3, <2>9, <2>10 DEF Sparse
  <2>12. n \subseteq D /\ t \subseteq D /\ t \subseteq n
    BY <2>3, <2>10
  <2>13. ListedIfShown(f, r, D \ modified, t)
    <3>. SUFFICES ASSUME NEW a \in D \ modified
                  PROVE  (f[a].shown => Has(r, a)) /\ (~f[a].shown /\ a \notin t => ~Has(r, a))
      BY DEF ListedIfShown
    <3>. QED BY <2>1, <2>4, <2>9
  <2>14. ASSUME NEW a \in D, NEW b \in D, Leads(r, a, b), b \notin n, a \notin n PROVE Above(f, a, b)
    <3>1. Leads(s, a, b)
      BY <2>9, <2>10, <2>14
    <3>2. PICK i \in 1 .. Len(s), j \in 1 .. Len(s) : i < j /\ s[i] = a /\ s[j] = b
      BY <3>1 DEF Leads
    <3>3. \A k, l \in 1 .. Len(s) : k < l => Events!Precedes(s[k], s[l])
      BY <2>2, <2>7 DEF Events!IsSorted
    <3>4. Events!Precedes(a, b)
      BY <3>2, <3>3
    <3>. QED BY <1>1, <3>4 DEF Above, Events!Precedes
  <2>15. InOrder(f, r, D \ (modified \cup n), n \cup {})
    BY <1>1, <2>14 DEF InOrder
  <2>. QED BY <1>1, <1>2, <1>3, <2>2, <2>3, <2>9, <2>11, <2>12, <2>13, <2>15 DEF EventsInv
<1>. QED BY <1>6, <1>7

LEMMA EventsStep ==
  ASSUME EventsInv, Events!Next
  PROVE  EventsInv'
<1>1. ASSUME NEW id \in Ids, NEW content \in Events!Content, Events!Publish(id, content)
      PROVE  EventsInv'
  BY <1>1, PublishKeeps
<1>2. CASE Events!ReportModifications
  BY <1>2, ReportKeeps
<1>3. ASSUME NEW ids \in SUBSET Ids, Events!Close(ids) PROVE EventsInv'
  BY <1>3, CloseKeeps
<1>4. CASE Events!Populate
  BY <1>4, PopulateKeeps
<1>. QED BY <1>1, <1>2, <1>3, <1>4 DEF Events!Next

LEMMA EventsHold ==
  ASSUME EventsInv
  PROVE  ListedInOrder
<1>. DEFINE D == DOMAIN notifications
<1>1. PICK f, w : f = notifications /\ w = shownItems
  OBVIOUS
<1>2. /\ IsHeld(f) /\ modified \subseteq Ids /\ populated \in BOOLEAN
      /\ fallen \subseteq D /\ misplaced \subseteq D /\ doubled \subseteq D
      /\ w \in Seq(D) /\ Sparse(w, doubled)
  BY <1>1 DEF EventsInv
<1>3. Events!TypeOK
  BY <1>1, <1>2 DEF Events!TypeOK, IsHeld
<1>4. Len(w) \in Nat /\ DOMAIN w = 1 .. Len(w) /\ \A i \in 1 .. Len(w) : w[i] \in D
  BY <1>2, LenProperties, ElementOfSeq
<1>5. Events!UpToDate
  <2>. SUFFICES ASSUME populated, NEW id \in D \ modified
                PROVE  IF id \in doubled THEN f[id].shown => id \in Events!ToSet(w)
                       ELSE Events!Occurrences(id) = IF f[id].shown THEN 1 ELSE 0
    BY <1>1 DEF Events!UpToDate
  <2>1. /\ f[id].shown => Has(w, id)
        /\ ~f[id].shown /\ id \notin doubled => ~Has(w, id)
    BY <1>1 DEF EventsInv, ListedIfShown
  <2>2. id \in Events!ToSet(w) <=> Has(w, id)
    BY <1>2, InSet
  <2>3. PICK at : at = {i \in DOMAIN w : w[i] = id}
    OBVIOUS
  <2>4. Events!Occurrences(id) = Cardinality(at)
    BY <1>1, <2>3, SameCardinality DEF Events!Occurrences
  <2>5. CASE id \in doubled
    BY <2>1, <2>2, <2>5
  <2>6. CASE id \notin doubled /\ ~Has(w, id)
    <3>1. at = {}
      BY <1>4, <2>3, <2>6 DEF Has
    <3>. QED BY <2>1, <2>4, <2>6, <3>1, FS_EmptySet
  <2>7. CASE id \notin doubled /\ Has(w, id)
    <3>1. PICK i \in 1 .. Len(w) : w[i] = id
      BY <2>7 DEF Has
    <3>2. ~Leads(w, id, id)
      BY <1>2, <2>7 DEF Sparse
    <3>3. ASSUME NEW j \in 1 .. Len(w), w[j] = id PROVE j = i
      <4>1. ~(i < j) /\ ~(j < i)
        BY <3>1, <3>2, <3>3 DEF Leads
      <4>. QED BY <4>1
    <3>4. at = {i}
      BY <1>4, <2>3, <3>1, <3>3
    <3>5. Cardinality({i}) = 1
      BY FS_Singleton
    <3>. QED BY <2>1, <2>4, <2>7, <3>4, <3>5
  <2>. QED BY <2>5, <2>6, <2>7
<1>6. Events!Ordered
  <2>. SUFFICES ASSUME populated, modified = {}, NEW i \in 1 .. Len(w), NEW j \in 1 .. Len(w), i < j,
                       w[i] \notin misplaced, w[j] \notin misplaced
                PROVE  ~Events!Precedes(w[j], w[i])
    BY <1>1, <1>4 DEF Events!Ordered
  <2>1. /\ InOrder(f, w, D \ ({} \cup misplaced), misplaced \cup fallen) /\ fallen \subseteq {}
        /\ \A a \in doubled : Has(w, a) => a \in misplaced
    BY <1>1 DEF EventsInv
  <2>2. PICK a, b : a = w[i] /\ b = w[j]
    OBVIOUS
  <2>3. Leads(w, a, b) /\ a \in D /\ b \in D /\ Has(w, a)
    BY <1>4, <2>2 DEF Leads, Has
  <2>4. a \notin misplaced \cup fallen /\ b \in D \ ({} \cup misplaced)
    BY <2>1, <2>2, <2>3
  <2>5. Above(f, a, b)
    BY <1>1, <2>1, <2>3, <2>4 DEF InOrder
  <2>6. a # b
    <3>1. a = b => a \in doubled
      BY <1>2, <2>3 DEF Sparse
    <3>. QED BY <2>1, <2>2, <2>3, <3>1
  <2>7. ~Above(f, b, a)
    BY <1>1, <1>2, <2>3, <2>5, <2>6, AboveIsTotal
  <2>. QED BY <1>1, <2>2, <2>7 DEF Above, Events!Precedes
<1>. QED BY <1>3, <1>5, <1>6 DEF ListedInOrder

(* NotificationListModel: for any ids and ranks, whenever the list is        *)
(* populated and whatever is published with a lower rank: an item of the     *)
(* list is a notification there is; but for those the next report will       *)
(* bring, each that is to be shown is listed, once unless it was in the list *)
(* already when that was populated, and no other; and with nothing left to   *)
(* report the list is in order, whatever order each batch was updated in,    *)
(* but for those placed while another in it was out of place.                *)
THEOREM NotificationsAreListed == Spec => []ListedInOrder
<1>1. Init => EventsInv
  <2>. SUFFICES ASSUME Init PROVE EventsInv
    OBVIOUS
  <2>1. Events!Init
    BY DEF Init
  <2>2. PICK ids \in SUBSET Ids : notifications \in [ids -> Events!Content]
    BY <2>1 DEF Events!Init
  <2>3. IsHeld(notifications)
    BY <2>2 DEF IsHeld
  <2>4. \A a : ~Has(<<>>, a)
    BY DEF Has
  <2>5. Sparse(<<>>, {}) /\ <<>> \in Seq(DOMAIN notifications)
    BY DEF Sparse, Leads, Thrice
  <2>. QED BY <2>1, <2>3, <2>4, <2>5 DEF Events!Init, EventsInv
<1>2. EventsInv /\ [Next]_<<folderVars, watcherVars, notificationVars, objectVars, categoryVars, serviceVars, part>> => EventsInv'
  <2>. SUFFICES ASSUME EventsInv, [Next]_<<folderVars, watcherVars, notificationVars, objectVars, categoryVars, serviceVars, part>>
                PROVE  EventsInv'
    OBVIOUS
  <2>1. CASE UNCHANGED notificationVars
    <3>1. /\ notifications' = notifications /\ modified' = modified /\ shownItems' = shownItems
          /\ populated' = populated /\ fallen' = fallen /\ misplaced' = misplaced /\ doubled' = doubled
      BY <2>1 DEF notificationVars
    <3>. QED BY <3>1 DEF EventsInv, IsHeld, ListedIfShown, InOrder, Above
  <2>2. CASE Events!Next
    BY <2>2, EventsStep
  <2>. QED BY <2>1, <2>2 DEF Next
<1>3. EventsInv => ListedInOrder
  BY EventsHold
<1>. QED BY <1>1, <1>2, <1>3, PTL DEF Spec

-----------------------------------------------------------------------------
(* What the model of objects says was added and removed.  Of a list only     *)
(* what is in which part of it matters.                                      *)
Among(q, m, n, x) == \E k \in m .. n : q[k] = x
Once(q, c) == \A i, j \in c + 1 .. Len(q) : q[i] = q[j] => i = j

(* An item in the course of a synchronisation: put in, and not yet told of   *)
(* unless it is also still to come in the list; or taken out, and only told  *)
(* of; or where it is told to be, once.                                      *)
Stands(x, in, out, known, passed, rest) ==
    \/ x \in in /\ x \notin out /\ passed /\ (x \in known <=> rest)
    \/ x \notin in /\ x \in out /\ x \in known /\ ~passed /\ ~rest
    \/ x \notin in /\ x \notin out /\ ~(passed /\ rest) /\ (x \in known <=> passed \/ rest)

Accounted(q, in, out, known, c) ==
    /\ Once(q, c)
    /\ \A x : Stands(x, in, out, known, Among(q, 1, c, x), Among(q, c + 1, Len(q), x))

ToldInv ==
    /\ ListInv
    /\ phase = "idle" => removed = {}
    /\ Once(reference, 0)
    /\ \E c \in Nat : place = <<c, c>> /\ Accounted(list, inserted, removed, told, c)

LEMMA AmongParts ==
  ASSUME NEW q, NEW m \in Nat, NEW k \in Nat, NEW n \in Nat, m <= k + 1, k <= n, NEW x
  PROVE  Among(q, m, n, x) <=> Among(q, m, k, x) \/ Among(q, k + 1, n, x)
<1>1. m .. n = (m .. k) \cup (k + 1 .. n)
  OBVIOUS
<1>. QED BY <1>1 DEF Among

LEMMA AmongAlike ==
  ASSUME NEW p, NEW q, NEW a \in Nat, NEW b \in Nat, NEW t \in Nat,
         \A n \in 1 .. t : p[a + n] = q[b + n], NEW x
  PROVE  Among(p, a + 1, a + t, x) <=> Among(q, b + 1, b + t, x)
<1>1. ASSUME NEW k \in a + 1 .. a + t, p[k] = x PROVE Among(q, b + 1, b + t, x)
  <2>1. k - a \in 1 .. t /\ a + (k - a) = k /\ b + (k - a) \in b + 1 .. b + t
    OBVIOUS
  <2>2. q[b + (k - a)] = p[k]
    BY <2>1
  <2>. QED BY <1>1, <2>1, <2>2 DEF Among
<1>2. ASSUME NEW k \in b + 1 .. b + t, q[k] = x PROVE Among(p, a + 1, a + t, x)
  <2>1. k - b \in 1 .. t /\ b + (k - b) = k /\ a + (k - b) \in a + 1 .. a + t
    OBVIOUS
  <2>2. p[a + (k - b)] = q[k]
    BY <2>1
  <2>. QED BY <1>2, <2>1, <2>2 DEF Among
<1>. QED BY <1>1, <1>2 DEF Among

LEMMA OnceApart ==
  ASSUME NEW q, Len(q) \in Nat, NEW c \in Nat, Once(q, c),
         NEW m \in Nat, NEW n \in Nat, NEW k \in Nat, NEW l \in Nat,
         c < m, n < k, l <= Len(q), NEW x, Among(q, m, n, x), Among(q, k, l, x)
  PROVE  FALSE
<1>1. PICK i \in m .. n : q[i] = x
  BY DEF Among
<1>2. PICK j \in k .. l : q[j] = x
  BY DEF Among
<1>3. i \in c + 1 .. Len(q) /\ j \in c + 1 .. Len(q) /\ i # j
  BY <1>1, <1>2
<1>. QED BY <1>1, <1>2, <1>3 DEF Once

LEMMA AmongSet ==
  ASSUME NEW S, NEW q \in Seq(S), NEW c \in Nat, NEW j \in Nat, c + j <= Len(q), NEW x
  PROVE  x \in Model!ToSet(SubSeq(q, c + 1, c + j)) <=> Among(q, c + 1, c + j, x)
<1>1. PICK p : p = SubSeq(q, c + 1, c + j)
  OBVIOUS
<1>2. p \in Seq(S) /\ Len(p) = j /\ \A n \in 1 .. j : p[n] = q[c + n]
  BY <1>1, MiddlePart
<1>3. x \in Model!ToSet(p) <=> Among(p, 0 + 1, 0 + j, x)
  <2>1. DOMAIN p = 0 + 1 .. 0 + j
    BY <1>2, LenProperties
  <2>2. x \in Model!ToSet(p) <=> \E n \in DOMAIN p : p[n] = x
    BY DEF Model!ToSet
  <2>. QED BY <2>1, <2>2 DEF Among
<1>4. \A n \in 1 .. j : p[0 + n] = q[c + n]
  BY <1>2
<1>5. Among(p, 0 + 1, 0 + j, x) <=> Among(q, c + 1, c + j, x)
  BY <1>4, AmongAlike
<1>. QED BY <1>1, <1>3, <1>5

(* An item when some are taken out and some put in, and a match is passed.   *)
LEMMA ItemStands ==
  ASSUME NEW x, NEW in, NEW out, NEW known, NEW gone, NEW come, NEW passed, NEW met, NEW behind,
         Stands(x, in, out, known, x \in passed, x \in gone \/ x \in met \/ x \in behind),
         ~(x \in gone /\ x \in met), ~(x \in gone /\ x \in behind), ~(x \in met /\ x \in behind),
         x \in come \/ x \in met => x \notin passed, ~(x \in come /\ x \in met)
  PROVE  LET left == out \cup (gone \ in)
         IN Stands(x, (in \ gone) \cup (come \ left), left \ come, known,
                   x \in passed \/ x \in come \/ x \in met, x \in behind)
BY DEF Stands

LEMMA ExchangeAccounts ==
  ASSUME ListTypes, NEW c \in Nat, InPlace(c), Once(reference, 0),
         Accounted(list, inserted, removed, told, c),
         NEW i \in Nat, NEW j \in Nat, NEW k \in Nat,
         c + i + k <= Len(list), c + j + k <= Len(reference),
         \A n \in 1 .. k : list[c + i + n] = reference[c + j + n],
         NEW e, e = Model!Exchanged(i, j)
  PROVE  Accounted(e.list, e.inserted, e.removed, told, c + j + k)
<1>0. /\ list \in Seq(Objects) /\ reference \in Seq(Objects)
      /\ Len(list) \in Nat /\ Len(reference) \in Nat
      /\ place = <<c, c>> /\ c <= Len(list) /\ \A n \in 1 .. c : list[n] = reference[n]
  BY LenProperties DEF ListTypes, InPlace
<1>1. PICK w : w = e.list
  OBVIOUS
<1>2. ExchangedAt(w, c, i, j)
  <2>1. c + i <= Len(list) /\ c + j <= Len(reference)
    BY <1>0
  <2>. QED BY <1>0, <1>1, <2>1, ExchangedList
<1>3. /\ Len(w) \in Nat /\ Len(w) = Len(list) - i + j
      /\ \A n \in 1 .. c : w[n] = list[n]
      /\ \A n \in 1 .. j : w[c + n] = reference[c + n]
      /\ \A n \in 1 .. Len(list) - c - i : w[c + j + n] = list[c + i + n]
  BY <1>2, LenProperties DEF ExchangedAt
<1>11. /\ Len(list) \in Nat /\ Len(reference) \in Nat /\ Len(w) \in Nat
       /\ Len(w) = Len(list) - i + j
  BY <1>0, <1>3
<1>4. PICK r \in Nat : r = Len(list) - (c + i + k)
  <2>1. Len(list) - (c + i + k) \in Nat
    BY <1>11
  <2>. QED BY <2>1
<1>5. /\ c + i + k + r = Len(list) /\ c + j + k + r = Len(w)
      /\ \A n \in 1 .. k : w[c + j + n] = list[c + i + n]
      /\ \A n \in 1 .. r : w[c + j + k + n] = list[c + i + k + n]
  <2>1. c + i + k + r = Len(list) /\ c + j + k + r = Len(w) /\ Len(list) - c - i = k + r
    <3>1. PICK a, b : a = Len(list) /\ b = Len(w)
      OBVIOUS
    <3>2. a \in Nat /\ b \in Nat /\ b = a - i + j /\ r = a - (c + i + k)
      BY <1>4, <1>11, <3>1
    <3>3. c + i + k + r = a /\ c + j + k + r = b /\ a - c - i = k + r
      BY <3>2
    <3>. QED BY <3>1, <3>3
  <2>2. ASSUME NEW n \in 1 .. k PROVE w[c + j + n] = list[c + i + n]
    <3>1. n \in 1 .. Len(list) - c - i
      BY <2>1
    <3>. QED BY <1>3, <3>1
  <2>3. ASSUME NEW n \in 1 .. r PROVE w[c + j + k + n] = list[c + i + k + n]
    <3>1. k + n \in 1 .. k + r /\ c + j + (k + n) = c + j + k + n /\ c + i + (k + n) = c + i + k + n
      OBVIOUS
    <3>2. w[c + j + (k + n)] = list[c + i + (k + n)]
      BY <1>3, <2>1, <3>1
    <3>. QED BY <3>1, <3>2
  <2>. QED BY <2>1, <2>2, <2>3
<1>6. PICK ci \in Nat, cj \in Nat, cik \in Nat, cjk \in Nat :
        ci = c + i /\ cj = c + j /\ cik = c + i + k /\ cjk = c + j + k
  OBVIOUS
<1>12. /\ c <= ci /\ ci <= cik /\ cik <= Len(list)
       /\ c <= cj /\ cj <= cjk /\ cjk <= Len(reference) /\ c <= cjk
  <2>1. PICK a \in Nat, b \in Nat : a = Len(list) /\ b = Len(reference)
    BY <1>11
  <2>2. c + i + k <= a /\ c + j + k <= b
    BY <2>1
  <2>3. /\ c <= c + i /\ c + i <= c + i + k /\ c <= c + j /\ c + j <= c + j + k
        /\ c <= c + j + k
    OBVIOUS
  <2>. QED BY <1>6, <2>1, <2>2, <2>3
<1>7. PICK gone, come, left :
        /\ gone = Model!ToSet(SubSeq(list, c + 1, c + i))
        /\ come = Model!ToSet(SubSeq(reference, c + 1, c + j))
        /\ left = removed \cup (gone \ inserted)
  OBVIOUS
<1>8. e.inserted = (inserted \ gone) \cup (come \ left) /\ e.removed = left \ come
  <2>1. place[1] = c /\ place[2] = c
    BY <1>0
  <2>. QED BY <1>7, <2>1 DEF Model!Exchanged
<1>9. Once(w, cjk)
  <2>. SUFFICES ASSUME NEW a \in cjk + 1 .. Len(w), NEW b \in cjk + 1 .. Len(w), w[a] = w[b]
                PROVE  a = b
    BY DEF Once
  <2>0. cjk + r = Len(w)
    BY <1>5, <1>6
  <2>1. a - cjk \in 1 .. r /\ b - cjk \in 1 .. r /\ cjk + (a - cjk) = a /\ cjk + (b - cjk) = b
    BY <1>11, <2>0
  <2>2. list[cik + (a - cjk)] = list[cik + (b - cjk)]
    BY <1>5, <1>6, <2>1
  <2>3. cik + (a - cjk) \in c + 1 .. Len(list) /\ cik + (b - cjk) \in c + 1 .. Len(list)
    BY <1>0, <1>5, <1>6, <2>1
  <2>4. cik + (a - cjk) = cik + (b - cjk)
    BY <2>2, <2>3 DEF Accounted, Once
  <2>. QED BY <1>6, <2>4
<1>10. ASSUME NEW x
       PROVE  Stands(x, e.inserted, e.removed, told, Among(w, 1, cjk, x),
                     Among(w, cjk + 1, Len(w), x))
  <2>1. PICK passed, met, behind :
          /\ x \in passed <=> Among(list, 1, c, x)
          /\ x \in met <=> Among(list, ci + 1, cik, x)
          /\ x \in behind <=> Among(list, cik + 1, Len(list), x)
    <3>1. \A B \in BOOLEAN : \E T : x \in T <=> B
      <4>1. ASSUME NEW B \in BOOLEAN PROVE \E T : x \in T <=> B
        <5>1. x \in {y \in {x} : B} <=> B
          OBVIOUS
        <5>. QED BY <5>1
      <4>. QED BY <4>1
    <3>2. /\ Among(list, 1, c, x) \in BOOLEAN /\ Among(list, ci + 1, cik, x) \in BOOLEAN
          /\ Among(list, cik + 1, Len(list), x) \in BOOLEAN
      BY DEF Among
    <3>3. PICK passed : x \in passed <=> Among(list, 1, c, x)
      BY <3>1, <3>2
    <3>4. PICK met : x \in met <=> Among(list, ci + 1, cik, x)
      BY <3>1, <3>2
    <3>5. PICK behind : x \in behind <=> Among(list, cik + 1, Len(list), x)
      BY <3>1, <3>2
    <3>. QED BY <3>3, <3>4, <3>5
  <2>2. x \in gone <=> Among(list, c + 1, ci, x)
    <3>1. c + i <= Len(list)
      BY <1>0
    <3>. QED BY <1>0, <1>6, <1>7, <3>1, AmongSet
  <2>3. x \in come <=> Among(reference, c + 1, cj, x)
    <3>1. c + j <= Len(reference)
      BY <1>0
    <3>. QED BY <1>0, <1>6, <1>7, <3>1, AmongSet
  <2>4. x \in met <=> Among(reference, cj + 1, cjk, x)
    <3>1. Among(list, c + i + 1, c + i + k, x) <=> Among(reference, c + j + 1, c + j + k, x)
      <4>1. \A n \in 1 .. k : list[ci + n] = reference[cj + n]
        BY <1>6
      <4>2. Among(list, ci + 1, ci + k, x) <=> Among(reference, cj + 1, cj + k, x)
        BY <4>1, AmongAlike
      <4>. QED BY <1>6, <4>2
    <3>. QED BY <1>6, <2>1, <3>1
  <2>5. x \in passed <=> Among(reference, 1, c, x)
    BY <1>0, <2>1 DEF Among
  <2>6. Among(list, c + 1, Len(list), x) <=> x \in gone \/ x \in met \/ x \in behind
    <3>1. Among(list, c + 1, Len(list), x) <=> Among(list, c + 1, ci, x) \/ Among(list, ci + 1, Len(list), x)
      <4>1. c + 1 <= ci + 1 /\ ci <= Len(list) /\ c + 1 \in Nat
        BY <1>11, <1>12
      <4>. QED BY <1>0, <4>1, AmongParts
    <3>2. Among(list, ci + 1, Len(list), x) <=> Among(list, ci + 1, cik, x) \/ Among(list, cik + 1, Len(list), x)
      <4>1. ci + 1 <= cik + 1 /\ cik <= Len(list) /\ ci + 1 \in Nat
        BY <1>11, <1>12
      <4>. QED BY <1>0, <4>1, AmongParts
    <3>. QED BY <2>1, <2>2, <3>1, <3>2
  <2>7. Among(w, 1, cjk, x) <=> x \in passed \/ x \in come \/ x \in met
    <3>1. Among(w, 1, cjk, x) <=> Among(w, 1, c, x) \/ Among(w, c + 1, cjk, x)
      <4>1. 1 <= c + 1 /\ c <= cjk /\ 1 \in Nat
        BY <1>11, <1>12
      <4>. QED BY <4>1, AmongParts
    <3>2. Among(w, c + 1, cjk, x) <=> Among(w, c + 1, cj, x) \/ Among(w, cj + 1, cjk, x)
      <4>1. c + 1 <= cj + 1 /\ cj <= cjk /\ c + 1 \in Nat
        BY <1>11, <1>12
      <4>. QED BY <4>1, AmongParts
    <3>3. Among(w, 1, c, x) <=> Among(list, 1, c, x)
      BY <1>3 DEF Among
    <3>4. Among(w, c + 1, c + j, x) <=> Among(reference, c + 1, c + j, x)
      <4>1. ASSUME NEW m \in c + 1 .. c + j PROVE w[m] = reference[m]
        <5>1. m - c \in 1 .. j /\ c + (m - c) = m
          OBVIOUS
        <5>2. w[c + (m - c)] = reference[c + (m - c)]
          BY <1>3, <5>1
        <5>. QED BY <5>1, <5>2
      <4>. QED BY <4>1 DEF Among
    <3>5. Among(w, cj + 1, cj + k, x) <=> Among(list, ci + 1, ci + k, x)
      <4>1. \A n \in 1 .. k : w[cj + n] = list[ci + n]
        BY <1>5, <1>6
      <4>. QED BY <4>1, AmongAlike
    <3>6. cj + k = cjk /\ ci + k = cik /\ c + j = cj
      BY <1>6
    <3>. QED BY <2>1, <2>3, <3>1, <3>2, <3>3, <3>4, <3>5, <3>6
  <2>8. Among(w, cjk + 1, Len(w), x) <=> x \in behind
    <3>1. \A n \in 1 .. r : w[cjk + n] = list[cik + n]
      BY <1>5, <1>6
    <3>2. Among(w, cjk + 1, cjk + r, x) <=> Among(list, cik + 1, cik + r, x)
      BY <3>1, AmongAlike
    <3>3. cjk + r = Len(w) /\ cik + r = Len(list)
      BY <1>5, <1>6
    <3>. QED BY <2>1, <3>2, <3>3
  <2>9. ~(x \in gone /\ x \in met)
    <3>1. c < c + 1 /\ ci < ci + 1 /\ cik <= Len(list) /\ c + 1 \in Nat /\ ci + 1 \in Nat
      BY <1>11, <1>12
    <3>. QED BY <1>0, <2>1, <2>2, <3>1, OnceApart DEF Accounted
  <2>10. ~(x \in gone /\ x \in behind)
    <3>1. c < c + 1 /\ ci < cik + 1 /\ Len(list) <= Len(list) /\ c + 1 \in Nat /\ cik + 1 \in Nat
      BY <1>11, <1>12
    <3>. QED BY <1>0, <2>1, <2>2, <3>1, OnceApart DEF Accounted
  <2>11. ~(x \in met /\ x \in behind)
    <3>1. c < ci + 1 /\ cik < cik + 1 /\ Len(list) <= Len(list) /\ ci + 1 \in Nat /\ cik + 1 \in Nat
      BY <1>11, <1>12
    <3>. QED BY <1>0, <2>1, <3>1, OnceApart DEF Accounted
  <2>12. ~(x \in passed /\ x \in come)
    <3>1. 0 < 1 /\ c < c + 1 /\ cj <= Len(reference) /\ c + 1 \in Nat /\ 0 \in Nat /\ 1 \in Nat
      BY <1>11, <1>12
    <3>. QED BY <1>0, <2>3, <2>5, <3>1, OnceApart
  <2>13. ~(x \in passed /\ x \in met)
    <3>1. 0 < 1 /\ c < cj + 1 /\ cjk <= Len(reference) /\ cj + 1 \in Nat /\ 0 \in Nat /\ 1 \in Nat
      BY <1>11, <1>12
    <3>. QED BY <1>0, <2>4, <2>5, <3>1, OnceApart
  <2>14. ~(x \in come /\ x \in met)
    <3>1. 0 < c + 1 /\ cj < cj + 1 /\ cj + 1 \in Nat /\ c + 1 \in Nat /\ 0 \in Nat
      OBVIOUS
    <3>2. cjk <= Len(reference)
      BY <1>6
    <3>. QED BY <1>0, <2>3, <2>4, <3>1, <3>2, OnceApart
  <2>15. Stands(x, inserted, removed, told, Among(list, 1, c, x), Among(list, c + 1, Len(list), x))
    BY DEF Accounted
  <2>16. Stands(x, inserted, removed, told, x \in passed, x \in gone \/ x \in met \/ x \in behind)
    BY <2>1, <2>6, <2>15 DEF Stands
  <2>17. Stands(x, (inserted \ gone) \cup (come \ left), left \ come, told,
                x \in passed \/ x \in come \/ x \in met, x \in behind)
    <3>1. Stands(x, (inserted \ gone) \cup (come \ (removed \cup (gone \ inserted))),
                 (removed \cup (gone \ inserted)) \ come, told,
                 x \in passed \/ x \in come \/ x \in met, x \in behind)
      BY <2>9, <2>10, <2>11, <2>12, <2>13, <2>14, <2>16, ItemStands
    <3>. QED BY <1>7, <3>1
  <2>. QED BY <1>8, <2>7, <2>8, <2>17 DEF Stands
<1>. QED BY <1>1, <1>6, <1>9, <1>10 DEF Accounted

LEMMA ToldStart ==
  ASSUME Init
  PROVE  ToldInv
<1>1. /\ list = <<>> /\ told = {} /\ reference = <<>> /\ place = <<0, 0>>
      /\ inserted = {} /\ removed = {} /\ available = 0 /\ phase = "idle"
  BY DEF Init, Model!Init
<1>2. Len(list) = 0 /\ Len(reference) = 0 /\ <<>> \in Seq(Objects)
  BY <1>1, EmptySeq
<1>3. ListInv
  BY <1>1, <1>2 DEF ListInv, ListTypes, InPlace
<1>4. Once(list, 0) /\ Once(reference, 0)
  BY <1>2 DEF Once
<1>5. \A x : ~Among(list, 1, 0, x) /\ ~Among(list, 0 + 1, Len(list), x)
  BY <1>2 DEF Among
<1>6. Accounted(list, inserted, removed, told, 0)
  BY <1>1, <1>4, <1>5 DEF Accounted, Stands
<1>. QED BY <1>1, <1>3, <1>4, <1>6 DEF ToldInv

(* Between the calls it is the list as it is that was told.                  *)
LEMMA IdleTold ==
  ASSUME ToldInv, phase = "idle"
  PROVE  /\ place = <<0, 0>> /\ inserted = {} /\ removed = {} /\ Once(list, 0)
         /\ \A x : x \in told <=> Has(list, x)
<1>1. place = <<0, 0>> /\ removed = {}
  BY DEF ToldInv, ListInv
<1>2. Accounted(list, inserted, removed, told, 0)
  BY <1>1 DEF ToldInv
<1>3. \A x : ~Among(list, 1, 0, x) /\ (Among(list, 0 + 1, Len(list), x) <=> Has(list, x))
  BY DEF Among, Has
<1>4. ASSUME NEW x PROVE x \notin inserted /\ (x \in told <=> Has(list, x))
  <2>1. Stands(x, inserted, removed, told, Among(list, 1, 0, x), Among(list, 0 + 1, Len(list), x))
    BY <1>2 DEF Accounted
  <2>. QED BY <1>1, <1>3, <2>1 DEF Stands
<1>5. inserted = {}
  BY <1>4
<1>. QED BY <1>1, <1>2, <1>4, <1>5 DEF Accounted

LEMMA AccountedAtRest ==
  ASSUME NEW q, NEW known, Once(q, 0), \A x : x \in known <=> Has(q, x)
  PROVE  Accounted(q, {}, {}, known, 0)
<1>1. \A x : ~Among(q, 1, 0, x) /\ (Among(q, 0 + 1, Len(q), x) <=> Has(q, x))
  BY DEF Among, Has
<1>. QED BY <1>1 DEF Accounted, Stands

LEMMA SingleIsOnce ==
  ASSUME NEW q, Len(q) \in Nat
  PROVE  Single(q) <=> Once(q, 0)
<1>1. ASSUME Single(q) PROVE Once(q, 0)
  <2>1. ASSUME NEW i \in 0 + 1 .. Len(q), NEW j \in 0 + 1 .. Len(q), q[i] = q[j] PROVE i = j
    BY <1>1, <2>1, SingleIsInjective
  <2>. QED BY <2>1 DEF Once
<1>2. ASSUME Once(q, 0) PROVE Single(q)
  <2>. SUFFICES ASSUME NEW a, NEW i \in 1 .. Len(q), NEW j \in 1 .. Len(q), i < j,
                       q[i] = a, q[j] = a
                PROVE  FALSE
    BY DEF Single, Leads
  <2>1. i \in 0 + 1 .. Len(q) /\ j \in 0 + 1 .. Len(q)
    OBVIOUS
  <2>2. i = j
    BY <1>2, <2>1 DEF Once
  <2>. QED BY <2>2
<1>. QED BY <1>1, <1>2

(* A call changes the list, and tells what it changed.                       *)
LEMMA CallTold ==
  ASSUME ToldInv, phase = "idle", ListInv', place' = place, reference' = reference,
         inserted' = inserted, removed' = removed, Once(list', 0),
         \A x : x \in told' <=> Has(list', x)
  PROVE  ToldInv'
<1>1. place' = <<0, 0>> /\ inserted' = {} /\ removed' = {} /\ Once(reference', 0)
  BY IdleTold DEF ToldInv
<1>2. Accounted(list', inserted', removed', told', 0)
  BY <1>1, AccountedAtRest
<1>. QED BY <1>1, <1>2 DEF ToldInv

(* What a view makes of rows that are put in, and of a run that is removed.  *)
HasInserted(w, q, c, more, j) ==
    /\ Len(w) = Len(q) + j
    /\ \A n \in 1 .. c : w[n] = q[n]
    /\ \A n \in 1 .. j : w[c + n] = more[n]
    /\ \A n \in 1 .. Len(q) - c : w[c + j + n] = q[c + n]

LEMMA RowsPutIn ==
  ASSUME NEW S, NEW q \in Seq(S), NEW c \in Nat, c <= Len(q), NEW more \in Seq(S)
  PROVE  /\ Model!RowsInserted(q, c, more) \in Seq(S)
         /\ HasInserted(Model!RowsInserted(q, c, more), q, c, more, Len(more))
<1>. DEFINE j == Len(more)
<1>0. j \in Nat
  BY LenProperties
<1>1. PICK a, z, w : /\ a = SubSeq(q, 1, c) /\ z = SubSeq(q, c + 1, Len(q))
                     /\ w = Model!RowsInserted(q, c, more)
  OBVIOUS
<1>2. a \in Seq(S) /\ Len(a) = c /\ \A n \in 1 .. c : a[n] = q[n]
  BY <1>1, FirstPart
<1>3. z \in Seq(S) /\ Len(z) = Len(q) - c /\ \A n \in 1 .. Len(q) - c : z[n] = q[c + n]
  BY <1>1, LastPart
<1>4. w = a \o more \o z
  BY <1>1 DEF Model!RowsInserted
<1>5. /\ w \in Seq(S) /\ Len(w) = Len(a) + Len(more) + Len(z)
      /\ \A n \in 1 .. Len(a) : w[n] = a[n]
      /\ \A n \in 1 .. Len(more) : w[Len(a) + n] = more[n]
      /\ \A n \in 1 .. Len(z) : w[Len(a) + Len(more) + n] = z[n]
  <2>1. a \in Seq(S) /\ z \in Seq(S)
    BY <1>2, <1>3
  <2>2. PICK e : e = a \o more \o z
    OBVIOUS
  <2>3. /\ e \in Seq(S) /\ Len(e) = Len(a) + Len(more) + Len(z)
        /\ \A n \in 1 .. Len(a) : e[n] = a[n]
        /\ \A n \in 1 .. Len(more) : e[Len(a) + n] = more[n]
        /\ \A n \in 1 .. Len(z) : e[Len(a) + Len(more) + n] = z[n]
    BY <2>1, <2>2, ThreeParts
  <2>. QED BY <1>4, <2>2, <2>3
<1>6. Len(w) = Len(q) + j
  <2>1. Len(q) \in Nat
    BY LenProperties
  <2>2. Len(w) = c + j + (Len(q) - c)
    BY <1>2, <1>3, <1>5
  <2>. QED BY <2>1, <2>2
<1>7. \A n \in 1 .. c : w[n] = q[n]
  BY <1>2, <1>5
<1>8. \A n \in 1 .. j : w[c + n] = more[n]
  BY <1>2, <1>5
<1>9. \A n \in 1 .. Len(q) - c : w[c + j + n] = q[c + n]
  BY <1>2, <1>3, <1>5
<1>. QED BY <1>1, <1>5, <1>6, <1>7, <1>8, <1>9 DEF HasInserted

HasRemoved(w, q, a, b) ==
    /\ Len(w) = Len(q) - (b + 1 - a)
    /\ \A n \in 1 .. a - 1 : w[n] = q[n]
    /\ \A n \in 1 .. Len(q) - b : w[a - 1 + n] = q[b + n]

LEMMA RunTakenOut ==
  ASSUME NEW S, NEW q \in Seq(S), NEW a \in Nat, NEW b \in Nat, 1 <= a, a <= b + 1, b <= Len(q)
  PROVE  /\ Model!RowsRemoved(q, <<a, b>>) \in Seq(S)
         /\ HasRemoved(Model!RowsRemoved(q, <<a, b>>), q, a, b)
<1>1. PICK c \in Nat : c = a - 1
  BY SMT
<1>2. PICK x, z, w : /\ x = SubSeq(q, 1, c) /\ z = SubSeq(q, b + 1, Len(q))
                     /\ w = Model!RowsRemoved(q, <<a, b>>)
  OBVIOUS
<1>3. Len(q) \in Nat /\ c <= Len(q)
  BY <1>1, LenProperties
<1>4. x \in Seq(S) /\ Len(x) = c /\ \A n \in 1 .. c : x[n] = q[n]
  BY <1>2, <1>3, FirstPart
<1>5. z \in Seq(S) /\ Len(z) = Len(q) - b /\ \A n \in 1 .. Len(q) - b : z[n] = q[b + n]
  BY <1>2, LastPart
<1>6. w = x \o z
  BY <1>1, <1>2 DEF Model!RowsRemoved
<1>7. PICK e : e = x \o z
  OBVIOUS
<1>8. /\ e \in Seq(S) /\ Len(e) = Len(x) + Len(z)
      /\ \A n \in 1 .. Len(x) + Len(z) : e[n] = IF n <= Len(x) THEN x[n] ELSE z[n - Len(x)]
  <2>1. x \in Seq(S) /\ z \in Seq(S)
    BY <1>4, <1>5
  <2>. QED BY <1>7, <2>1, ConcatProperties
<1>9. Len(x) = c /\ Len(z) = Len(q) - b
  BY <1>4, <1>5
<1>10. Len(e) = Len(q) - (b + 1 - a)
  <2>1. Len(e) = c + (Len(q) - b)
    BY <1>8, <1>9
  <2>. QED BY <1>1, <1>3, <2>1
<1>11. ASSUME NEW n \in 1 .. a - 1 PROVE e[n] = q[n]
  <2>1. n \in 1 .. c /\ n \in 1 .. Len(x) + Len(z) /\ n <= Len(x)
    BY <1>1, <1>3, <1>9
  <2>. QED BY <1>4, <1>8, <2>1
<1>12. ASSUME NEW n \in 1 .. Len(q) - b PROVE e[a - 1 + n] = q[b + n]
  <2>1. /\ c + n \in 1 .. Len(x) + Len(z) /\ ~(c + n <= Len(x)) /\ c + n - Len(x) = n
        /\ a - 1 + n = c + n
    BY <1>1, <1>3, <1>9
  <2>2. e[c + n] = z[n]
    BY <1>8, <2>1
  <2>. QED BY <1>5, <2>1, <2>2
<1>13. HasRemoved(e, q, a, b)
  BY <1>10, <1>11, <1>12 DEF HasRemoved
<1>. QED BY <1>2, <1>6, <1>7, <1>8, <1>13

LEMMA AddItemsTold ==
  ASSUME ToldInv, NEW more \in Seq(Objects), IsInjective(more), NEW index \in 0 .. Len(list),
         Model!AddItems(index, more)
  PROVE  ToldInv'
<1>0. /\ phase = "idle" /\ place' = place /\ reference' = reference
      /\ inserted' = inserted /\ removed' = removed /\ told' = told \cup Model!ToSet(more)
      /\ list' = SubSeq(list, 1, index) \o more \o SubSeq(list, index + 1, Len(list))
      /\ Model!ToSet(more) \cap Model!ToSet(list) = {}
  BY DEF Model!AddItems, Model!Called
<1>1. ListInv /\ list \in Seq(Objects) /\ Len(list) \in Nat
  BY ListIsTyped DEF ToldInv
<1>2. ListInv'
  BY <1>1, AddItemsTypes
<1>3. index \in Nat /\ index <= Len(list)
  BY <1>1
<1>7. PICK j \in Nat : j = Len(more) /\ DOMAIN more = 1 .. j
  BY LenProperties
<1>4. PICK w : w = list'
  OBVIOUS
<1>8. /\ Len(w) = Len(list) + j
      /\ \A n \in 1 .. index : w[n] = list[n]
      /\ \A n \in 1 .. j : w[index + n] = more[n]
      /\ \A n \in 1 .. Len(list) - index : w[index + j + n] = list[index + n]
  <2>1. w = Model!RowsInserted(list, index, more)
    BY <1>0, <1>4 DEF Model!RowsInserted
  <2>2. HasInserted(w, list, index, more, j)
    BY <1>1, <1>3, <1>7, <2>1, RowsPutIn
  <2>. QED BY <2>2 DEF HasInserted
<1>9. ASSUME NEW m \in 1 .. Len(w)
      PROVE  \/ m \in 1 .. index /\ w[m] = list[m]
             \/ m - index \in 1 .. j /\ w[m] = more[m - index]
             \/ m - j \in index + 1 .. Len(list) /\ w[m] = list[m - j]
  <2>0. Len(w) = Len(list) + j
    BY <1>8
  <2>1. CASE m <= index
    BY <1>3, <1>8, <2>1
  <2>2. CASE index < m /\ m <= index + j
    <3>1. m - index \in 1 .. j /\ index + (m - index) = m
      BY <1>3, <2>2
    <3>2. w[index + (m - index)] = more[m - index]
      BY <1>8, <3>1
    <3>. QED BY <3>1, <3>2
  <2>3. CASE index + j < m
    <3>1. PICK n : n = m - (index + j)
      OBVIOUS
    <3>2. /\ n \in 1 .. Len(list) - index /\ index + j + n = m /\ index + n = m - j
          /\ m - j \in index + 1 .. Len(list)
      BY <1>1, <1>3, <2>0, <2>3, <3>1
    <3>3. w[index + j + n] = list[index + n]
      BY <1>8, <3>2
    <3>. QED BY <3>2, <3>3
  <2>. QED BY <1>3, <2>1, <2>2, <2>3
<1>10. /\ \A m \in 1 .. Len(list) : list[m] \in Model!ToSet(list)
       /\ \A m \in 1 .. j : more[m] \in Model!ToSet(more)
  BY <1>1, <1>7, LenProperties DEF Model!ToSet
<1>11. Once(w, 0)
  <2>. SUFFICES ASSUME NEW m \in 1 .. Len(w), NEW n \in 1 .. Len(w), w[m] = w[n], m < n
                PROVE  FALSE
    <3>1. Len(w) \in Nat
      BY <1>1, <1>8
    <3>2. ASSUME NEW m \in 0 + 1 .. Len(w), NEW n \in 0 + 1 .. Len(w), w[m] = w[n] PROVE m = n
      <4>1. m \in 1 .. Len(w) /\ n \in 1 .. Len(w) /\ ~(m < n) /\ ~(n < m)
        BY <3>1, <3>2
      <4>. QED BY <3>1, <4>1
    <3>. QED BY <3>2 DEF Once
  <2>0. \A k, l \in 1 .. Len(list) : list[k] = list[l] => k = l
    <3>1. Once(list, 0)
      BY <1>0, IdleTold
    <3>. QED BY <3>1 DEF Once
  <2>1. \A k, l \in 1 .. j : more[k] = more[l] => k = l
    BY <1>7 DEF IsInjective
  <2>2. \A k \in 1 .. Len(list), l \in 1 .. j : list[k] # more[l]
    BY <1>0, <1>10
  <2>3. CASE m \in 1 .. index /\ w[m] = list[m]
    <3>1. m \in 1 .. Len(list)
      BY <1>1, <1>3, <2>3
    <3>2. CASE n \in 1 .. index /\ w[n] = list[n]
      <4>1. n \in 1 .. Len(list) /\ m # n
        BY <1>1, <1>3, <3>2
      <4>2. list[m] = list[n]
        BY <2>3, <3>2
      <4>. QED BY <2>0, <3>1, <4>1, <4>2
    <3>3. CASE n - index \in 1 .. j /\ w[n] = more[n - index]
      BY <2>2, <2>3, <3>1, <3>3
    <3>4. CASE n - j \in index + 1 .. Len(list) /\ w[n] = list[n - j]
      <4>1. n - j \in 1 .. Len(list) /\ m # n - j
        BY <1>1, <1>3, <2>3, <3>4
      <4>2. list[m] = list[n - j]
        BY <2>3, <3>4
      <4>. QED BY <2>0, <3>1, <4>1, <4>2
    <3>. QED BY <1>9, <3>2, <3>3, <3>4
  <2>4. CASE m - index \in 1 .. j /\ w[m] = more[m - index]
    <3>1. ~(n \in 1 .. index)
      BY <1>3, <2>4
    <3>2. CASE n - index \in 1 .. j /\ w[n] = more[n - index]
      <4>1. m - index # n - index
        BY <1>3
      <4>. QED BY <2>1, <2>4, <3>2, <4>1
    <3>3. CASE n - j \in index + 1 .. Len(list) /\ w[n] = list[n - j]
      <4>1. n - j \in 1 .. Len(list)
        BY <1>1, <1>3, <3>3
      <4>. QED BY <2>2, <2>4, <3>3, <4>1
    <3>. QED BY <1>9, <3>1, <3>2, <3>3
  <2>5. CASE m - j \in index + 1 .. Len(list) /\ w[m] = list[m - j]
    <3>1. m - j \in 1 .. Len(list) /\ n > index + j
      BY <1>1, <1>3, <2>5
    <3>2. ~(n \in 1 .. index) /\ ~(n - index \in 1 .. j)
      BY <1>3, <3>1
    <3>3. n - j \in index + 1 .. Len(list) /\ w[n] = list[n - j]
      BY <1>9, <3>2
    <3>4. n - j \in 1 .. Len(list) /\ m - j # n - j
      BY <1>1, <1>3, <3>3
    <3>. QED BY <2>0, <2>5, <3>1, <3>3, <3>4
  <2>. QED BY <1>9, <2>3, <2>4, <2>5
<1>12. ASSUME NEW x PROVE x \in told' <=> Has(w, x)
  <2>1. x \in told <=> Has(list, x)
    BY <1>0, IdleTold
  <2>2. x \in Model!ToSet(more) <=> \E n \in 1 .. j : more[n] = x
    BY <1>7 DEF Model!ToSet
  <2>3. ASSUME Has(w, x) PROVE x \in told'
    <3>1. PICK m \in 1 .. Len(w) : w[m] = x
      BY <2>3 DEF Has
    <3>2. CASE m \in 1 .. index /\ w[m] = list[m]
      <4>1. m \in 1 .. Len(list)
        BY <1>1, <1>3, <3>2
      <4>. QED BY <1>0, <2>1, <3>1, <3>2, <4>1 DEF Has
    <3>3. CASE m - index \in 1 .. j /\ w[m] = more[m - index]
      BY <1>0, <2>2, <3>1, <3>3
    <3>4. CASE m - j \in index + 1 .. Len(list) /\ w[m] = list[m - j]
      <4>1. m - j \in 1 .. Len(list)
        BY <1>1, <1>3, <3>4
      <4>. QED BY <1>0, <2>1, <3>1, <3>4, <4>1 DEF Has
    <3>. QED BY <1>9, <3>2, <3>3, <3>4
  <2>4. ASSUME x \in Model!ToSet(more) PROVE Has(w, x)
    <3>1. PICK n \in 1 .. j : more[n] = x
      BY <2>2, <2>4
    <3>2. index + n \in 1 .. Len(w)
      BY <1>1, <1>3, <1>8
    <3>3. w[index + n] = x
      BY <1>8, <3>1
    <3>. QED BY <3>2, <3>3 DEF Has
  <2>5. ASSUME Has(list, x) PROVE Has(w, x)
    <3>1. PICK m \in 1 .. Len(list) : list[m] = x
      BY <2>5 DEF Has
    <3>2. CASE m <= index
      <4>1. m \in 1 .. index /\ m \in 1 .. Len(w)
        BY <1>1, <1>3, <1>8, <3>2
      <4>2. w[m] = list[m]
        BY <1>8, <4>1
      <4>. QED BY <3>1, <4>1, <4>2 DEF Has
    <3>3. CASE index < m
      <4>1. PICK n : n = m - index
        OBVIOUS
      <4>2. n \in 1 .. Len(list) - index /\ index + n = m /\ index + j + n \in 1 .. Len(w)
        BY <1>1, <1>3, <1>8, <3>3, <4>1
      <4>3. w[index + j + n] = list[index + n]
        BY <1>8, <4>2
      <4>. QED BY <3>1, <4>2, <4>3 DEF Has
    <3>. QED BY <1>1, <1>3, <3>2, <3>3
  <2>. QED BY <1>0, <2>1, <2>3, <2>4, <2>5
<1>. QED BY <1>0, <1>2, <1>4, <1>11, <1>12, CallTold

(* Some of the list's rows in their order.                                   *)
Counts(r, k, U) ==
    /\ r \in [1 .. k -> U]
    /\ \A m, n \in 1 .. k : m < n => r[m] < r[n]
    /\ \A i \in U : \E n \in 1 .. k : r[n] = i

Listed(w, U) == \E r : Counts(r, Len(w), U) /\ \A n \in 1 .. Len(w) : w[n] = list[r[n]]

Lasting(gone) == {i \in 1 .. Len(list) : list[i] \notin gone}

(* An order without repetitions of as many as there are has them all.        *)
LEMMA CountsThem ==
  ASSUME NEW U, IsFiniteSet(U), NEW k \in Nat, k = Cardinality(U), NEW r \in [1 .. k -> U],
         \A m, n \in 1 .. k : r[m] = r[n] => m = n
  PROVE  \A i \in U : \E n \in 1 .. k : r[n] = i
<1>1. IsFiniteSet(1 .. k) /\ Cardinality(1 .. k) = k
  BY FS_Interval
<1>2. r \in Injection(1 .. k, U)
  BY DEF Injection, IsInjective
<1>3. r \in Surjection(1 .. k, U)
  BY <1>1, <1>2, FS_Injection
<1>. QED BY <1>3 DEF Surjection

LEMMA WithoutListed ==
  ASSUME list \in Seq(Objects), NEW gone, NEW rest \in Model!Without(gone)
  PROVE  Listed(rest, Lasting(gone))
<1>. DEFINE left == Lasting(gone)
<1>1. Len(list) \in Nat /\ DOMAIN list = 1 .. Len(list) /\ left = {i \in DOMAIN list : list[i] \notin gone}
  BY LenProperties DEF Lasting
<1>2. IsFiniteSet(left)
  <2>1. IsFiniteSet(1 .. Len(list))
    BY <1>1, FS_Interval
  <2>. QED BY <1>1, <2>1, FS_Subset
<1>3. PICK k \in Nat : k = Cardinality(left)
  BY <1>2, FS_CardinalityType
<1>4. Model!Cardinality(left) = k
  BY <1>3 DEF Model!Cardinality, Cardinality
<1>5. PICK r \in [1 .. k -> left] :
        rest = [n \in DOMAIN r |-> list[r[n]]] /\ \A m, n \in DOMAIN r : m < n => r[m] < r[n]
  BY <1>1, <1>4 DEF Model!Without
<1>6. left \in SUBSET Nat
  BY <1>1
<1>. HIDE DEF left
<1>7. /\ rest \in [1 .. k -> {list[i] : i \in left}] /\ \A n \in 1 .. k : rest[n] = list[r[n]]
      /\ \A m, n \in 1 .. k : m < n => r[m] < r[n]
  BY <1>5
<1>8. Len(rest) = k
  <2>1. rest \in Seq({list[i] : i \in left})
    BY <1>7, SeqDef
  <2>. QED BY <1>7, <2>1, LenProperties
<1>9. \A m, n \in 1 .. k : r[m] = r[n] => m = n
  <2>. SUFFICES ASSUME NEW m \in 1 .. k, NEW n \in 1 .. k, r[m] = r[n] PROVE m = n
    OBVIOUS
  <2>1. r[m] \in Nat /\ r[n] \in Nat
    BY <1>6
  <2>2. ~(m < n) /\ ~(n < m)
    BY <1>7, <2>1
  <2>. QED BY <2>2
<1>10. Counts(r, k, left)
  <2>1. \A i \in left : \E n \in 1 .. k : r[n] = i
    BY <1>2, <1>3, <1>9, CountsThem
  <2>. QED BY <1>7, <2>1 DEF Counts
<1>. QED BY <1>7, <1>8, <1>10 DEF Listed, left

(* What is left, in its order, is not said to be removed.                    *)
LEMMA WithoutKeeps ==
  ASSUME list \in Seq(Objects), Once(list, 0), NEW gone, NEW rest \in Model!Without(gone)
  PROVE  Once(rest, 0) /\ \A x : Has(rest, x) <=> Has(list, x) /\ x \notin gone
<1>1. PICK r : Counts(r, Len(rest), Lasting(gone)) /\ \A n \in 1 .. Len(rest) : rest[n] = list[r[n]]
  BY WithoutListed DEF Listed
<1>2. PICK k \in Nat : k = Len(rest)
  BY WithoutTypes, LenProperties
<1>3. /\ \A n \in 1 .. k : r[n] \in 1 .. Len(list) /\ list[r[n]] \notin gone /\ rest[n] = list[r[n]]
      /\ \A m, n \in 1 .. k : m < n => r[m] < r[n]
      /\ \A i \in 1 .. Len(list) : list[i] \notin gone => \E n \in 1 .. k : r[n] = i
  BY <1>1, <1>2 DEF Counts, Lasting
<1>4. Once(rest, 0)
  <2>. SUFFICES ASSUME NEW m \in 1 .. k, NEW n \in 1 .. k, rest[m] = rest[n] PROVE m = n
    BY <1>2 DEF Once
  <2>1. r[m] \in 0 + 1 .. Len(list) /\ r[n] \in 0 + 1 .. Len(list) /\ list[r[m]] = list[r[n]]
    BY <1>3
  <2>2. r[m] = r[n] /\ r[m] \in Nat
    BY <2>1 DEF Once
  <2>3. ~(m < n) /\ ~(n < m)
    BY <1>3, <2>2
  <2>. QED BY <2>3
<1>5. ASSUME NEW x, Has(rest, x) PROVE Has(list, x) /\ x \notin gone
  <2>1. PICK n \in 1 .. k : rest[n] = x
    BY <1>2, <1>5 DEF Has
  <2>. QED BY <1>3, <2>1 DEF Has
<1>6. ASSUME NEW x, Has(list, x), x \notin gone PROVE Has(rest, x)
  <2>1. PICK i \in 1 .. Len(list) : list[i] = x
    BY <1>6 DEF Has
  <2>2. PICK n \in 1 .. k : r[n] = i
    BY <1>3, <1>6, <2>1
  <2>. QED BY <1>2, <1>3, <2>1, <2>2 DEF Has
<1>. QED BY <1>4, <1>5, <1>6

LEMMA RemovedTold ==
  ASSUME ToldInv, NEW gone, phase = "idle", phase' = phase, Model!Removed(gone)
  PROVE  ToldInv'
<1>1. /\ list' \in Model!Without(gone) /\ told' = told \ gone
      /\ place' = place /\ reference' = reference /\ inserted' = inserted /\ removed' = removed
  BY DEF Model!Removed
<1>2. ListInv /\ list \in Seq(Objects)
  BY ListIsTyped DEF ToldInv
<1>3. ListInv'
  BY <1>2, RemovedTypes
<1>4. Once(list, 0) /\ \A x : x \in told <=> Has(list, x)
  BY IdleTold
<1>5. Once(list', 0) /\ \A x : Has(list', x) <=> Has(list, x) /\ x \notin gone
  BY <1>1, <1>2, <1>4, WithoutKeeps
<1>6. \A x : x \in told' <=> Has(list', x)
  BY <1>1, <1>4, <1>5
<1>. QED BY <1>1, <1>3, <1>5, <1>6, CallTold

LEMMA MoveTold ==
  ASSUME ToldInv, NEW oldRow \in DOMAIN list, NEW newRow \in DOMAIN list,
         Model!Move(oldRow, newRow)
  PROVE  ToldInv'
<1>1. /\ phase = "idle" /\ place' = place /\ reference' = reference /\ told' = told
      /\ inserted' = inserted /\ removed' = removed
      /\ list' = Model!InsertAt(Model!RemoveAt(list, oldRow), newRow, list[oldRow])
  BY DEF Model!Move, Model!Called
<1>2. ListInv /\ list \in Seq(Objects) /\ Len(list) \in Nat /\ DOMAIN list = 1 .. Len(list)
  BY ListIsTyped, LenProperties DEF ToldInv
<1>3. ListInv'
  BY <1>2, MoveTypes
<1>4. Single(list) /\ \A x : x \in told <=> Has(list, x)
  BY <1>1, <1>2, IdleTold, SingleIsOnce
<1>5. PICK r : r = RemoveAt(list, oldRow)
  OBVIOUS
<1>6. r \in Seq(Objects) /\ HasTakenOut(r, list, oldRow)
  BY <1>2, <1>5, TakenOut
<1>7. Len(r) = Len(list) - 1
  BY <1>6 DEF HasTakenOut
<1>8. PICK b \in Nat : newRow = b + 1
  <2>1. newRow - 1 \in Nat /\ newRow = newRow - 1 + 1
    BY <1>2
  <2>. QED BY <2>1
<1>9. b <= Len(r)
  BY <1>2, <1>7, <1>8
<1>10. PICK x, e : x = list[oldRow] /\ e = list'
  OBVIOUS
<1>11. x \in Objects /\ Has(list, x)
  <2>1. oldRow \in 1 .. Len(list)
    BY <1>2
  <2>. QED BY <1>2, <1>10, <2>1, ElementOfSeq DEF Has
<1>12. e = InsertAt(r, b + 1, x)
  BY <1>1, <1>5, <1>8, <1>10, Zenon DEF Model!InsertAt, InsertAt, Model!RemoveAt, RemoveAt
<1>13. e \in Seq(Objects) /\ HasPutIn(e, r, b, x)
  BY <1>6, <1>9, <1>11, <1>12, PutIn
<1>14. /\ \A a : Has(r, a) <=> Has(list, a) /\ a # x
       /\ \A a, d : Leads(r, a, d) => Leads(list, a, d)
  <2>1. oldRow \in 1 .. Len(list)
    BY <1>2
  <2>2. /\ \A a : Has(r, a) => Has(list, a)
        /\ \A a : Has(list, a) /\ a # x => Has(r, a)
        /\ \A a, d : Leads(r, a, d) => Leads(list, a, d)
        /\ Has(r, x) => Leads(list, x, x)
    BY <1>2, <1>6, <1>10, <2>1, TakenOutLeads
  <2>. QED BY <1>4, <2>2 DEF Single
<1>15. /\ \A a : Has(e, a) <=> Has(r, a) \/ a = x
       /\ \A a, d : Leads(e, a, d) =>
            \/ Leads(r, a, d)
            \/ d = x /\ \E i \in 1 .. b : r[i] = a
            \/ a = x /\ \E i \in b + 1 .. Len(r) : r[i] = d
  BY <1>6, <1>9, <1>13, PutInLeads
<1>16. \A n \in 1 .. Len(r) : r[n] # x
  BY <1>14 DEF Has
<1>17. Single(e)
  <2>. SUFFICES ASSUME NEW a, Leads(e, a, a) PROVE FALSE
    BY DEF Single
  <2>1. ~Leads(r, a, a)
    BY <1>4, <1>14 DEF Single
  <2>2. PICK i \in 1 .. Len(r) : r[i] = x
    <3>1. Len(r) \in Nat
      BY <1>6, LenProperties
    <3>2. (\E i \in 1 .. b : r[i] = x) \/ (\E i \in b + 1 .. Len(r) : r[i] = x)
      BY <1>15, <2>1
    <3>. QED BY <1>9, <3>1, <3>2
  <2>. QED BY <1>16, <2>2
<1>18. Once(e, 0)
  <2>1. Len(e) \in Nat
    BY <1>13, LenProperties
  <2>. QED BY <1>17, <2>1, SingleIsOnce
<1>19. \A a : a \in told' <=> Has(e, a)
  BY <1>1, <1>4, <1>11, <1>14, <1>15
<1>. QED BY <1>1, <1>3, <1>10, <1>18, <1>19, CallTold

LEMMA SynchronizeTold ==
  ASSUME ToldInv, NEW wanted \in Seq(Objects), IsInjective(wanted), NEW known \in Nat,
         known <= Len(wanted), Model!Synchronize(wanted, known)
  PROVE  ToldInv'
<1>1. /\ phase = "idle" /\ phase' = "scan" /\ reference' = wanted /\ place' = <<0, 0>>
      /\ list' = list /\ told' = told /\ inserted' = inserted /\ removed' = removed
  BY DEF Model!Synchronize, Model!Called
<1>2. ListInv'
  BY SynchronizeTypes DEF ToldInv
<1>3. Once(reference', 0)
  <2>1. DOMAIN wanted = 1 .. Len(wanted)
    BY LenProperties
  <2>. QED BY <1>1, <2>1 DEF IsInjective, Once
<1>4. Accounted(list', inserted', removed', told', 0)
  BY <1>1, IdleTold DEF ToldInv
<1>. QED BY <1>1, <1>2, <1>3, <1>4 DEF ToldInv

LEMMA PlaceAccounts ==
  ASSUME ToldInv
  PROVE  /\ ListTypes /\ Once(reference, 0)
         /\ \E c \in Nat : InPlace(c) /\ Accounted(list, inserted, removed, told, c)
<1>1. PICK c \in Nat : InPlace(c)
  BY DEF ToldInv, ListInv
<1>2. PICK d \in Nat : place = <<d, d>> /\ Accounted(list, inserted, removed, told, d)
  BY DEF ToldInv
<1>3. c = d
  <2>1. place = <<c, c>>
    BY <1>1 DEF InPlace
  <2>. QED BY <1>2, <2>1
<1>. QED BY <1>1, <1>2, <1>3 DEF ToldInv, ListInv

LEMMA ScanTold ==
  ASSUME ToldInv, Model!Scan
  PROVE  ToldInv'
<1>0. /\ list \in Seq(Objects) /\ reference \in Seq(Objects)
      /\ Len(list) \in Nat /\ Len(reference) \in Nat
      /\ available \in Nat /\ available <= Len(reference)
  BY ListIsTyped DEF ToldInv
<1>1. PICK c \in Nat : InPlace(c) /\ Accounted(list, inserted, removed, told, c)
  BY PlaceAccounts
<1>2. place = <<c, c>>
  BY <1>1 DEF InPlace
<1>3. ListInv' /\ Once(reference', 0) /\ phase' # "idle" /\ told' = told
  <2>1. phase = "scan" /\ reference' = reference /\ told' = told
    BY DEF Model!Scan
  <2>2. phase' # "idle"
    BY <2>1 DEF Model!Scan
  <2>. QED BY <2>1, <2>2, ScanTypes DEF ToldInv
<1>4. CASE UNCHANGED <<list, place, inserted, removed>>
  BY <1>1, <1>2, <1>3, <1>4 DEF ToldInv
<1>5. ASSUME NEW p \in Model!Matches, Model!Exchange(p[1], p[2]), place' = Model!Pass(p[2])
      PROVE  ToldInv'
  <2>1. PICK i, j : i = p[1] /\ j = p[2]
    OBVIOUS
  <2>2. /\ i \in Nat /\ j \in Nat /\ i <= Len(list) - c - 1 /\ j <= available - c - 1
        /\ list[c + i + 1] = reference[c + j + 1]
    BY <1>0, <1>2, <1>5, <2>1 DEF Model!Matches
  <2>3. /\ c + i + 1 <= Len(list) /\ c + j + 1 <= Len(reference)
        /\ \A n \in 1 .. 1 : list[c + i + n] = reference[c + j + n]
    BY <1>0, <2>2
  <2>4. PICK e : e = Model!Exchanged(i, j)
    OBVIOUS
  <2>5. list' = e.list /\ inserted' = e.inserted /\ removed' = e.removed
    BY <1>5, <2>1, <2>4 DEF Model!Exchange
  <2>6. PICK d \in Nat : d = c + j + 1
    BY <2>2
  <2>7. place' = <<d, d>>
    BY <1>2, <1>5, <2>1, <2>6 DEF Model!Pass
  <2>8. Accounted(e.list, e.inserted, e.removed, told, c + j + 1)
    <3>1. ListTypes /\ Once(reference, 0)
      BY PlaceAccounts
    <3>. QED BY <1>1, <2>2, <2>3, <2>4, <3>1, ExchangeAccounts
  <2>9. Accounted(list', inserted', removed', told', d)
    BY <1>3, <2>5, <2>6, <2>8
  <2>. QED BY <1>3, <2>7, <2>9 DEF ToldInv
<1>. QED BY <1>4, <1>5 DEF Model!Scan

LEMMA ScanEndsTold ==
  ASSUME ToldInv, Model!ScanEnds
  PROVE  ToldInv'
<1>0. /\ list \in Seq(Objects) /\ reference \in Seq(Objects)
      /\ Len(list) \in Nat /\ Len(reference) \in Nat
      /\ available \in Nat /\ available <= Len(reference)
  BY ListIsTyped DEF ToldInv
<1>1. PICK c \in Nat : InPlace(c) /\ Accounted(list, inserted, removed, told, c)
  BY PlaceAccounts
<1>2. place = <<c, c>> /\ c <= available
  BY <1>1 DEF InPlace
<1>3. ListInv' /\ Once(reference', 0) /\ phase' # "idle" /\ told' = told
  <2>1. phase' = "returned" /\ reference' = reference /\ told' = told
    BY DEF Model!ScanEnds
  <2>. QED BY <2>1, ScanEndsTypes DEF ToldInv
<1>4. CASE UNCHANGED <<list, place, inserted, removed>>
  BY <1>1, <1>2, <1>3, <1>4 DEF ToldInv
<1>5. CASE place[1] = Len(list)
  <2>1. PICK j \in Nat : j = available - c
    BY <1>0, <1>2
  <2>2. PICK e : e = Model!Exchanged(0, j)
    OBVIOUS
  <2>3. /\ list' = e.list /\ inserted' = e.inserted /\ removed' = e.removed
        /\ place' = <<c + j, available>>
    BY <1>2, <1>5, <2>1, <2>2 DEF Model!ScanEnds, Model!Exchange
  <2>4. place' = <<available, available>> /\ c + j + 0 = available
    BY <1>0, <2>1, <2>3
  <2>5. Accounted(e.list, e.inserted, e.removed, told, c + j + 0)
    <3>1. ListTypes /\ Once(reference, 0)
      BY PlaceAccounts
    <3>2. /\ c + 0 + 0 <= Len(list) /\ c + j + 0 <= Len(reference)
          /\ \A n \in 1 .. 0 : list[c + 0 + n] = reference[c + j + n]
      BY <1>0, <1>2, <1>5, <2>4
    <3>. QED BY <1>1, <2>2, <3>1, <3>2, ExchangeAccounts
  <2>6. Accounted(list', inserted', removed', told', available)
    BY <1>3, <2>3, <2>4, <2>5
  <2>. QED BY <1>0, <1>3, <2>4, <2>6 DEF ToldInv
<1>. QED BY <1>4, <1>5 DEF Model!ScanEnds

LEMMA ScanOnTold ==
  ASSUME ToldInv, NEW known \in DOMAIN reference, Model!ScanOn(known)
  PROVE  ToldInv'
<1>1. ListInv'
  BY ScanOnTypes DEF ToldInv
<1>2. /\ list' = list /\ told' = told /\ inserted' = inserted /\ removed' = removed
      /\ place' = place /\ reference' = reference /\ phase' # "idle"
  BY DEF Model!ScanOn
<1>. QED BY <1>1, <1>2 DEF ToldInv

LEMMA CompleteTold ==
  ASSUME ToldInv, Model!Complete
  PROVE  ToldInv'
<1>0. /\ list \in Seq(Objects) /\ reference \in Seq(Objects)
      /\ Len(list) \in Nat /\ Len(reference) \in Nat
      /\ available \in Nat /\ available <= Len(reference)
  BY ListIsTyped DEF ToldInv
<1>1. PICK c \in Nat : InPlace(c) /\ Accounted(list, inserted, removed, told, c)
  BY PlaceAccounts
<1>2. place = <<c, c>> /\ c <= Len(list) /\ c <= available
  BY <1>1 DEF InPlace
<1>3. ListInv' /\ list' = reference
  BY CompleteTypes DEF ToldInv
<1>4. PICK i \in Nat, j \in Nat : i = Len(list) - c /\ j = available - c
  BY <1>0, <1>2
<1>5. PICK e : e = Model!Exchanged(i, j)
  OBVIOUS
<1>6. /\ list' = e.list /\ told' = (told \cup e.inserted) \ e.removed
      /\ available = Len(reference) /\ reference' = <<>> /\ place' = <<0, 0>>
      /\ inserted' = {} /\ removed' = {}
  <2>1. e = Model!CompleteSynchronizeList
    BY <1>2, <1>4, <1>5 DEF Model!CompleteSynchronizeList
  <2>. QED BY <2>1 DEF Model!Complete
<1>7. c + j + 0 = Len(reference)
  BY <1>0, <1>4, <1>6
<1>8. Accounted(e.list, e.inserted, e.removed, told, c + j + 0)
  <2>1. ListTypes /\ Once(reference, 0)
    BY PlaceAccounts
  <2>2. /\ c + i + 0 <= Len(list) /\ c + j + 0 <= Len(reference)
        /\ \A n \in 1 .. 0 : list[c + i + n] = reference[c + j + n]
    BY <1>0, <1>4, <1>7
  <2>. QED BY <1>1, <1>5, <2>1, <2>2, ExchangeAccounts
<1>9. ASSUME NEW x PROVE x \in told' <=> Has(list', x)
  <2>1. Stands(x, e.inserted, e.removed, told, Among(list', 1, Len(list'), x),
               Among(list', Len(list') + 1, Len(list'), x))
    BY <1>3, <1>6, <1>7, <1>8 DEF Accounted
  <2>2. ~Among(list', Len(list') + 1, Len(list'), x)
    BY <1>0, <1>3 DEF Among
  <2>3. Among(list', 1, Len(list'), x) <=> Has(list', x)
    BY DEF Among, Has
  <2>. QED BY <1>6, <2>1, <2>2, <2>3 DEF Stands
<1>10. Once(list', 0)
  BY <1>3 DEF ToldInv
<1>11. Once(reference', 0)
  BY <1>6, EmptySeq DEF Once
<1>12. Accounted(list', inserted', removed', told', 0)
  BY <1>6, <1>9, <1>10, AccountedAtRest
<1>. QED BY <1>3, <1>6, <1>11, <1>12 DEF ToldInv

LEMMA ToldStep ==
  ASSUME ToldInv, Model!Next
  PROVE  ToldInv'
<1>0. /\ Len(list) \in Nat
      /\ \A l \in Lists : l \in Seq(Objects) /\ IsInjective(l)
  BY ListIsTyped, ModelsAssumption DEF ToldInv
<1>1. ASSUME NEW more \in Lists, Model!AddItems(Len(list), more) PROVE ToldInv'
  <2>1. more \in Seq(Objects) /\ IsInjective(more) /\ Len(list) \in 0 .. Len(list)
    BY <1>0
  <2>. QED BY <1>1, <2>1, AddItemsTold
<1>2. ASSUME NEW more \in Lists, NEW index \in 0 .. Len(list), Model!AddItems(index, more)
      PROVE  ToldInv'
  <2>1. more \in Seq(Objects) /\ IsInjective(more)
    BY <1>0
  <2>. QED BY <1>2, <2>1, AddItemsTold
<1>3. ASSUME NEW gone, Model!RemoveItems(gone) PROVE ToldInv'
  <2>1. phase = "idle" /\ phase' = phase /\ Model!Removed(gone)
    BY <1>3 DEF Model!RemoveItems, Model!Called, Model!Removed
  <2>. QED BY <2>1, RemovedTold
<1>4. ASSUME NEW item, Model!RemoveDestroyedItem(item) PROVE ToldInv'
  <2>1. phase = "idle" /\ phase' = phase /\ Model!Removed({item})
    BY <1>4 DEF Model!RemoveDestroyedItem, Model!Called, Model!Removed
  <2>. QED BY <2>1, RemovedTold
<1>5. ASSUME NEW oldRow \in DOMAIN list, NEW newRow \in DOMAIN list, Model!Move(oldRow, newRow)
      PROVE  ToldInv'
  BY <1>5, MoveTold
<1>6. ASSUME NEW wanted \in Lists, NEW known \in 0 .. Model!Cardinality(Objects),
             known <= Len(wanted), Model!Synchronize(wanted, known)
      PROVE  ToldInv'
  <2>1. wanted \in Seq(Objects) /\ IsInjective(wanted) /\ known \in Nat
    BY <1>0
  <2>. QED BY <1>6, <2>1, SynchronizeTold
<1>7. ASSUME NEW known \in DOMAIN reference, Model!ScanOn(known) PROVE ToldInv'
  BY <1>7, ScanOnTold
<1>. QED BY <1>1, <1>2, <1>3, <1>4, <1>5, <1>6, <1>7, ScanTold, ScanEndsTold, CompleteTold
     DEF Model!Next

LEMMA ToldKept ==
  ASSUME ToldInv, UNCHANGED objectVars
  PROVE  ToldInv'
<1>1. /\ list' = list /\ told' = told /\ inserted' = inserted /\ removed' = removed
      /\ place' = place /\ reference' = reference /\ phase' = phase /\ available' = available
  BY DEF objectVars
<1>2. ListInv'
  BY <1>1 DEF ToldInv, ListInv, ListTypes, InPlace
<1>. QED BY <1>1, <1>2 DEF ToldInv

(* Whatever is added, removed, destroyed and moved, and however a list is    *)
(* turned into another one that becomes known in parts, taking out items     *)
(* that it puts in again: between the calls the items the model has said     *)
(* were added, and not removed, are those of the list.  It is the part of    *)
(* the property Synchronized that is about its owner.                        *)
THEOREM OwnerKnowsItems == Spec => []Model!ToldAgrees
<1>1. Init => ToldInv
  BY ToldStart
<1>2. ToldInv /\ [Next]_<<folderVars, watcherVars, notificationVars, objectVars, categoryVars,
                          serviceVars, part>> => ToldInv'
  <2>. SUFFICES ASSUME ToldInv,
                       Next \/ UNCHANGED <<folderVars, watcherVars, notificationVars, objectVars,
                                           categoryVars, serviceVars, part>>
                PROVE  ToldInv'
    OBVIOUS
  <2>1. CASE Model!Next
    BY <2>1, ToldStep
  <2>2. CASE UNCHANGED objectVars
    BY <2>2, ToldKept
  <2>. QED BY <2>1, <2>2 DEF Next
<1>3. ToldInv => Model!ToldAgrees
  <2>. SUFFICES ASSUME ToldInv, phase = "idle" PROVE told = Model!ToSet(list)
    BY DEF Model!ToldAgrees
  <2>1. \A x : x \in told <=> Has(list, x)
    BY IdleTold
  <2>2. DOMAIN list = 1 .. Len(list)
    BY ListIsTyped, LenProperties DEF ToldInv
  <2>3. \A x : x \in Model!ToSet(list) <=> Has(list, x)
    BY <2>2 DEF Model!ToSet, Has
  <2>. QED BY <2>1, <2>3
<1>. QED BY <1>1, <1>2, <1>3, PTL DEF Spec

-----------------------------------------------------------------------------
(* A view hears only of ranges.                                              *)
(* Rows in their order can be counted in one way.                            *)
LEMMA OneOrder ==
  ASSUME NEW U \in SUBSET Nat, NEW k \in Nat, NEW l \in Nat, NEW r, NEW s,
         Counts(r, k, U), Counts(s, l, U), NEW n \in 1 .. k
  PROVE  n \in 1 .. l /\ r[n] = s[n]
<1>. DEFINE T == {m \in 1 .. k : ~(m \in 1 .. l /\ r[m] = s[m])}
<1>1. SUFFICES ASSUME T # {} PROVE FALSE
  OBVIOUS
<1>2. PICK m \in T : \A i \in T : m <= i
  <2>1. T \in SUBSET Nat
    OBVIOUS
  <2>. HIDE DEF T
  <2>. QED BY <1>1, <2>1, LeastOf
<1>3. m \in 1 .. k /\ ~(m \in 1 .. l /\ r[m] = s[m])
  OBVIOUS
<1>4. \A i \in 1 .. m - 1 : i \in 1 .. l /\ r[i] = s[i]
  BY <1>2, <1>3
<1>. HIDE DEF T
<1>5. /\ \A i \in 1 .. k : r[i] \in U /\ r[i] \in Nat
      /\ \A i \in 1 .. l : s[i] \in U /\ s[i] \in Nat
      /\ \A i, j \in 1 .. k : i < j => r[i] < r[j]
      /\ \A i, j \in 1 .. l : i < j => s[i] < s[j]
  BY DEF Counts
<1>6. PICK j \in 1 .. l : s[j] = r[m]
  BY <1>3, <1>5 DEF Counts
<1>7. ~(j < m)
  <2>. SUFFICES ASSUME j < m PROVE FALSE
    OBVIOUS
  <2>1. j \in 1 .. m - 1 /\ j \in 1 .. k
    BY <1>3
  <2>2. r[j] = r[m] /\ r[j] < r[m] /\ r[m] \in Nat
    BY <1>3, <1>4, <1>5, <1>6, <2>1
  <2>. QED BY <2>2
<1>8. j # m
  BY <1>3, <1>6
<1>9. m \in 1 .. l /\ m < j
  BY <1>3, <1>7, <1>8
<1>10. s[m] < r[m] /\ s[m] \in Nat /\ r[m] \in Nat
  BY <1>3, <1>5, <1>6, <1>9
<1>11. PICK i \in 1 .. k : r[i] = s[m]
  BY <1>5, <1>9 DEF Counts
<1>12. ~(m < i) /\ i # m
  <2>1. ~(r[m] < r[i]) /\ r[i] # r[m]
    BY <1>10, <1>11
  <2>. QED BY <1>3, <1>5, <2>1
<1>13. i \in 1 .. m - 1
  BY <1>3, <1>12
<1>14. i \in 1 .. l /\ s[i] = s[m] /\ i < m
  BY <1>3, <1>4, <1>11, <1>13
<1>15. s[i] < s[m]
  BY <1>5, <1>9, <1>14
<1>. QED BY <1>10, <1>14, <1>15

LEMMA ListedOnce ==
  ASSUME NEW U \in SUBSET Nat, NEW S, NEW v \in Seq(S), NEW w \in Seq(S), Listed(v, U), Listed(w, U)
  PROVE  v = w
<1>1. PICK k \in Nat, l \in Nat : k = Len(v) /\ l = Len(w)
  BY LenProperties
<1>2. PICK r : Counts(r, k, U) /\ \A n \in 1 .. k : v[n] = list[r[n]]
  BY <1>1 DEF Listed
<1>3. PICK s : Counts(s, l, U) /\ \A n \in 1 .. l : w[n] = list[s[n]]
  BY <1>1 DEF Listed
<1>4. \A n \in 1 .. k : n \in 1 .. l /\ r[n] = s[n]
  <2>. SUFFICES ASSUME NEW n \in 1 .. k PROVE n \in 1 .. l /\ r[n] = s[n]
    OBVIOUS
  <2>1. Counts(r, k, U) /\ Counts(s, l, U)
    BY <1>2, <1>3
  <2>. QED BY <2>1, OneOrder
<1>5. \A n \in 1 .. l : n \in 1 .. k
  <2>. SUFFICES ASSUME NEW n \in 1 .. l PROVE n \in 1 .. k
    OBVIOUS
  <2>1. Counts(r, k, U) /\ Counts(s, l, U)
    BY <1>2, <1>3
  <2>. QED BY <2>1, OneOrder
<1>6. k = l
  <2>1. ~(k < l)
    <3>1. k < l => l \in 1 .. l /\ ~(l \in 1 .. k)
      OBVIOUS
    <3>. QED BY <1>5, <3>1
  <2>2. ~(l < k)
    <3>1. l < k => k \in 1 .. k /\ ~(k \in 1 .. l)
      OBVIOUS
    <3>. QED BY <1>4, <3>1
  <2>. QED BY <2>1, <2>2
<1>7. Len(v) = Len(w) /\ \A n \in 1 .. Len(v) : v[n] = w[n]
  BY <1>1, <1>2, <1>3, <1>4, <1>6
<1>. QED BY <1>7, SeqEqual

(* The first rows are where they were, when none of them is missing.         *)
Start(r, b, k) == b <= k /\ \A n \in 1 .. b : r[n] = n

LEMMA FirstCounts ==
  ASSUME NEW U \in SUBSET Nat, 0 \notin U, NEW k \in Nat, NEW r, Counts(r, k, U),
         NEW b \in Nat, 1 .. b \subseteq U
  PROVE  Start(r, b, k)
<1>. DEFINE T == {n \in 0 .. b : n <= k /\ (n # 0 => r[n] = n)}
<1>1. 0 \in T
  OBVIOUS
<1>2. /\ \A i \in 1 .. k : r[i] \in U /\ r[i] \in Nat /\ r[i] # 0
      /\ \A i, j \in 1 .. k : i < j => r[i] < r[j]
  BY DEF Counts
<1>3. ASSUME NEW n \in 1 .. b, n - 1 \in T PROVE n \in T
  <2>1. PICK j \in 1 .. k : r[j] = n
    BY DEF Counts
  <2>2. CASE n = 1
    <3>1. 1 \in 1 .. k /\ (j # 1 => 1 < j)
      BY <2>1
    <3>2. r[1] \in Nat /\ r[1] # 0 /\ (j # 1 => r[1] < r[j])
      BY <1>2, <3>1
    <3>3. r[1] = 1
      BY <2>1, <2>2, <3>2
    <3>. QED BY <2>2, <3>1, <3>3
  <2>3. CASE n # 1
    <3>1. n - 1 \in 1 .. k /\ r[n - 1] = n - 1
      BY <1>3, <2>3
    <3>2. ~(j < n - 1) /\ j # n - 1
      <4>1. ~(r[j] < r[n - 1]) /\ r[j] # r[n - 1]
        BY <2>1, <3>1
      <4>. QED BY <1>2, <2>1, <3>1, <4>1
    <3>3. n \in 1 .. k /\ n - 1 < n /\ (j # n => n < j)
      BY <2>1, <3>1, <3>2
    <3>4. r[n - 1] < r[n] /\ r[n] \in Nat /\ (j # n => r[n] < r[j])
      BY <1>2, <2>1, <3>1, <3>3
    <3>5. r[n] = n
      BY <2>1, <3>1, <3>4
    <3>. QED BY <3>3, <3>5
  <2>. QED BY <2>2, <2>3
<1>4. 0 .. b \subseteq T
  <2>. HIDE DEF T
  <2>. QED BY <1>1, <1>3, CountedUp
<1>5. \A n \in 0 .. b : n <= k /\ (n # 0 => r[n] = n)
  BY <1>4
<1>. QED BY <1>5 DEF Start

LEMMA RunGoneListed ==
  ASSUME NEW S, NEW w \in Seq(S), NEW U \in SUBSET Nat, 0 \notin U, Listed(w, U),
         NEW a \in Nat, NEW b \in Nat, 1 <= a, a <= b, 1 .. b \subseteq U
  PROVE  /\ Model!RowsRemoved(w, <<a, b>>) \in Seq(S)
         /\ Listed(Model!RowsRemoved(w, <<a, b>>), U \ (a .. b))
<1>1. PICK k \in Nat : k = Len(w)
  BY LenProperties
<1>2. PICK r : Counts(r, k, U) /\ \A n \in 1 .. k : w[n] = list[r[n]]
  BY <1>1 DEF Listed
<1>3. b <= k /\ \A n \in 1 .. b : r[n] = n
  <2>1. Counts(r, k, U)
    BY <1>2
  <2>2. Start(r, b, k)
    BY <2>1, FirstCounts
  <2>. QED BY <2>2 DEF Start
<1>4. PICK v : v = Model!RowsRemoved(w, <<a, b>>)
  OBVIOUS
<1>5. v \in Seq(S) /\ HasRemoved(v, w, a, b)
  BY <1>1, <1>3, <1>4, RunTakenOut
<1>6. PICK t \in Nat, l \in Nat : t = b + 1 - a /\ l = k - t /\ l = Len(v)
  <2>1. Len(v) = k - (b + 1 - a)
    BY <1>1, <1>5 DEF HasRemoved
  <2>2. b + 1 - a \in Nat /\ k - (b + 1 - a) \in Nat
    BY <1>3
  <2>. QED BY <2>1, <2>2
<1>7. PICK s : s = [n \in 1 .. l |-> IF n < a THEN r[n] ELSE r[n + t]]
  OBVIOUS
<1>8. ASSUME NEW n \in 1 .. l
      PROVE  \/ n < a /\ n \in 1 .. k /\ s[n] = r[n] /\ r[n] = n
             \/ a <= n /\ n + t \in b + 1 .. k /\ s[n] = r[n + t] /\ r[n + t] > b
  <2>1. CASE n < a
    <3>1. n \in 1 .. k /\ n \in 1 .. b
      BY <1>3, <1>6, <2>1
    <3>. QED BY <1>3, <1>7, <2>1, <3>1
  <2>2. CASE ~(n < a)
    <3>1. n + t \in b + 1 .. k /\ n + t \in 1 .. k
      BY <1>3, <1>6, <2>2
    <3>2. r[n + t] > b
      <4>1. CASE b = 0
        BY <4>1
      <4>2. CASE b # 0
        <5>1. b \in 1 .. b /\ b \in 1 .. k /\ b < n + t
          BY <1>3, <3>1, <4>2
        <5>2. r[b] < r[n + t] /\ r[b] = b
          BY <1>2, <1>3, <3>1, <5>1 DEF Counts
        <5>3. r[n + t] \in Nat
          BY <1>2, <3>1 DEF Counts
        <5>. QED BY <5>2, <5>3
      <4>. QED BY <4>1, <4>2
    <3>. QED BY <1>7, <2>2, <3>1, <3>2
  <2>. QED BY <2>1, <2>2
<1>9. s \in [1 .. l -> U \ (a .. b)]
  <2>. SUFFICES ASSUME NEW n \in 1 .. l PROVE s[n] \in U \ (a .. b)
    BY <1>7
  <2>1. \A i \in 1 .. k : r[i] \in U
    BY <1>2 DEF Counts
  <2>2. CASE n < a /\ n \in 1 .. k /\ s[n] = r[n] /\ r[n] = n
    BY <2>1, <2>2
  <2>3. CASE a <= n /\ n + t \in b + 1 .. k /\ s[n] = r[n + t] /\ r[n + t] > b
    <3>1. n + t \in 1 .. k
      BY <2>3
    <3>2. r[n + t] \in U /\ r[n + t] \in Nat
      BY <2>1, <3>1
    <3>. QED BY <2>3, <3>2
  <2>. QED BY <1>8, <2>2, <2>3
<1>10. ASSUME NEW m \in 1 .. l, NEW n \in 1 .. l, m < n PROVE s[m] < s[n]
  <2>1. \A i, j \in 1 .. k : i < j => r[i] < r[j]
    BY <1>2 DEF Counts
  <2>2. CASE m < a /\ n < a
    <3>1. m \in 1 .. k /\ n \in 1 .. k /\ s[m] = r[m] /\ s[n] = r[n]
      BY <1>8, <2>2
    <3>. QED BY <1>10, <2>1, <3>1
  <2>3. CASE m < a /\ ~(n < a)
    <3>1. s[m] = m /\ s[n] > b
      BY <1>8, <2>3
    <3>2. s[n] \in Nat
      BY <1>9
    <3>. QED BY <2>3, <3>1, <3>2
  <2>4. CASE ~(m < a)
    <3>1. ~(n < a)
      BY <1>10, <2>4
    <3>2. m + t \in b + 1 .. k /\ s[m] = r[m + t] /\ n + t \in b + 1 .. k /\ s[n] = r[n + t]
      BY <1>8, <2>4, <3>1
    <3>3. m + t \in 1 .. k /\ n + t \in 1 .. k /\ m + t < n + t
      BY <1>10, <3>2
    <3>. QED BY <2>1, <3>2, <3>3
  <2>. QED BY <2>2, <2>3, <2>4
<1>11. ASSUME NEW i \in U \ (a .. b) PROVE \E n \in 1 .. l : s[n] = i
  <2>1. PICK j \in 1 .. k : r[j] = i
    BY <1>2 DEF Counts
  <2>2. CASE j <= b
    <3>1. j \in 1 .. b
      BY <2>1, <2>2
    <3>2. r[j] = j
      BY <1>3, <3>1
    <3>3. j < a
      BY <2>1, <2>2, <3>2
    <3>4. j \in 1 .. l
      BY <1>3, <1>6, <3>3
    <3>. QED BY <1>7, <2>1, <3>3, <3>4
  <2>3. CASE b < j
    <3>1. PICK n : n = j - t
      OBVIOUS
    <3>2. n \in 1 .. l /\ ~(n < a) /\ n + t = j
      BY <1>3, <1>6, <2>3, <3>1
    <3>. QED BY <1>7, <2>1, <3>2
  <2>. QED BY <2>2, <2>3
<1>12. Counts(s, l, U \ (a .. b))
  BY <1>9, <1>10, <1>11 DEF Counts
<1>13. ASSUME NEW n \in 1 .. l PROVE v[n] = list[s[n]]
  <2>1. CASE n < a
    <3>1. n \in 1 .. a - 1
      BY <2>1
    <3>2. v[n] = w[n]
      BY <1>5, <3>1 DEF HasRemoved
    <3>3. n \in 1 .. k /\ s[n] = r[n]
      BY <1>8, <2>1
    <3>. QED BY <1>2, <3>2, <3>3
  <2>2. CASE ~(n < a)
    <3>1. PICK i : i = n - (a - 1)
      OBVIOUS
    <3>2. i \in 1 .. k - b /\ a - 1 + i = n /\ b + i = n + t
      BY <1>3, <1>6, <2>2, <3>1
    <3>3. v[a - 1 + i] = w[b + i]
      BY <1>1, <1>5, <3>2 DEF HasRemoved
    <3>4. n + t \in 1 .. k /\ s[n] = r[n + t]
      BY <1>8, <2>2
    <3>. QED BY <1>2, <3>2, <3>3, <3>4
  <2>. QED BY <2>1, <2>2
<1>. QED BY <1>4, <1>5, <1>6, <1>12, <1>13 DEF Listed

(* Runs of rows, the last one first and apart, and the rows in none of them. *)
LastFirst(runs, k) ==
    /\ \A n \in 1 .. k :
         /\ runs[n] = <<runs[n][1], runs[n][2]>>
         /\ runs[n][1] \in 1 .. Len(list) /\ runs[n][2] \in 1 .. Len(list)
         /\ runs[n][1] <= runs[n][2]
    /\ \A m, n \in 1 .. k : m < n => runs[n][2] < runs[m][1]

InNone(runs, k) == {i \in 1 .. Len(list) : \A m \in 1 .. k : i \notin runs[m][1] .. runs[m][2]}

LEMMA RunGoneNext ==
  ASSUME list \in Seq(Objects), NEW k \in Nat, NEW runs, LastFirst(runs, k), NEW n \in 1 .. k,
         NEW w \in Seq(Objects), Listed(w, InNone(runs, n - 1))
  PROVE  /\ Model!RowsRemoved(w, runs[n]) \in Seq(Objects)
         /\ Listed(Model!RowsRemoved(w, runs[n]), InNone(runs, n))
<1>0. Len(list) \in Nat
  BY LenProperties
<1>1. PICK v : v = Model!RowsRemoved(w, runs[n])
  OBVIOUS
<1>3. PICK a, b : a = runs[n][1] /\ b = runs[n][2]
  OBVIOUS
<1>4. /\ runs[n] = <<a, b>> /\ a \in 1 .. Len(list) /\ b \in 1 .. Len(list) /\ a <= b
      /\ \A m \in 1 .. n - 1 : b < runs[m][1] /\ runs[m][1] \in Nat
  <2>1. \A m \in 1 .. n - 1 : m \in 1 .. k /\ m < n
    OBVIOUS
  <2>. QED BY <1>3, <2>1 DEF LastFirst
<1>5. v = Model!RowsRemoved(w, <<a, b>>)
  BY <1>1, <1>4
<1>6. 1 .. b \subseteq InNone(runs, n - 1)
  <2>. SUFFICES ASSUME NEW i \in 1 .. b, NEW m \in 1 .. n - 1, i \in runs[m][1] .. runs[m][2]
                PROVE  FALSE
    BY <1>0, <1>4 DEF InNone
  <2>. QED BY <1>0, <1>4
<1>7. InNone(runs, n) = InNone(runs, n - 1) \ (a .. b)
  <2>1. \A m : m \in 1 .. n <=> m \in 1 .. n - 1 \/ m = n
    OBVIOUS
  <2>. QED BY <1>3, <2>1 DEF InNone
<1>8. InNone(runs, n - 1) \in SUBSET Nat /\ 0 \notin InNone(runs, n - 1)
  BY <1>0 DEF InNone
<1>9. v \in Seq(Objects) /\ Listed(v, InNone(runs, n - 1) \ (a .. b))
  <2>1. a \in Nat /\ b \in Nat /\ 1 <= a
    BY <1>0, <1>4
  <2>. QED BY <1>4, <1>5, <1>6, <1>8, <2>1, RunGoneListed
<1>. QED BY <1>1, <1>7, <1>9

LEMMA NoneGone ==
  ASSUME list \in Seq(Objects), NEW runs
  PROVE  Listed(list, InNone(runs, 0))
<1>0. Len(list) \in Nat
  BY LenProperties
<1>1. InNone(runs, 0) = 1 .. Len(list)
  BY DEF InNone
<1>2. PICK r : r = [n \in 1 .. Len(list) |-> n]
  OBVIOUS
<1>3. Counts(r, Len(list), 1 .. Len(list)) /\ \A n \in 1 .. Len(list) : list[n] = list[r[n]]
  BY <1>0, <1>2 DEF Counts
<1>. QED BY <1>1, <1>3 DEF Listed

LEMMA RunsGoneListed ==
  ASSUME list \in Seq(Objects), NEW k \in Nat, NEW runs, LastFirst(runs, k), NEW g, g[0] = list,
         \A n \in 1 .. k : g[n - 1] \in Seq(Objects) /\ Listed(g[n - 1], InNone(runs, n - 1))
                           => g[n] = Model!RowsRemoved(g[n - 1], runs[n])
  PROVE  \A n \in 0 .. k : g[n] \in Seq(Objects) /\ Listed(g[n], InNone(runs, n))
<1>. DEFINE T == {n \in 0 .. k : g[n] \in Seq(Objects) /\ Listed(g[n], InNone(runs, n))}
<1>1. 0 \in T
  BY NoneGone
<1>2. ASSUME NEW n \in 1 .. k, n - 1 \in T PROVE n \in T
  <2>1. PICK w, v : w = g[n - 1] /\ v = g[n]
    OBVIOUS
  <2>2. w \in Seq(Objects) /\ Listed(w, InNone(runs, n - 1)) /\ v = Model!RowsRemoved(w, runs[n])
    BY <1>2, <2>1
  <2>3. v \in Seq(Objects) /\ Listed(v, InNone(runs, n))
    BY <2>2, RunGoneNext
  <2>4. g[n] \in Seq(Objects) /\ Listed(g[n], InNone(runs, n)) /\ n \in 0 .. k
    BY <2>1, <2>3
  <2>. QED BY <2>4
<1>3. 0 .. k \subseteq T
  <2>. HIDE DEF T
  <2>. QED BY <1>1, <1>2, CountedUp
<1>. QED BY <1>3

(* Every row that goes is in a run.                                          *)
LEMMA RunsCover ==
  ASSUME list \in Seq(Objects), NEW rows, rows \subseteq 1 .. Len(list), NEW i \in rows
  PROVE  \E a, b \in rows : /\ a <= b /\ i \in a .. b /\ a .. b \subseteq rows
                            /\ a - 1 \notin rows /\ b + 1 \notin rows
<1>0. Len(list) \in Nat /\ i \in 1 .. Len(list)
  BY LenProperties
<1>1. PICK a \in 1 .. i : a .. i \subseteq rows /\ a - 1 \notin rows
  <2>1. PICK A : A = {x \in 1 .. i : x .. i \subseteq rows}
    OBVIOUS
  <2>2. A \in SUBSET Nat /\ i \in A
    BY <1>0, <2>1
  <2>3. PICK a \in A : \A y \in A : a <= y
    BY <2>2, LeastOf
  <2>4. a \in 1 .. i /\ a .. i \subseteq rows
    BY <2>1
  <2>5. ASSUME a - 1 \in rows PROVE FALSE
    <3>1. a - 1 \in 1 .. i
      BY <1>0, <2>4, <2>5
    <3>2. (a - 1) .. i \subseteq rows
      <4>1. \A y \in (a - 1) .. i : y = a - 1 \/ y \in a .. i
        BY <1>0, <2>4
      <4>. QED BY <2>4, <2>5, <4>1
    <3>3. a - 1 \in A
      BY <2>1, <3>1, <3>2
    <3>4. a <= a - 1
      BY <2>3, <3>3
    <3>. QED BY <1>0, <2>4, <3>4
  <2>. QED BY <2>4, <2>5
<1>2. PICK b \in i .. Len(list) : i .. b \subseteq rows /\ b + 1 \notin rows
  <2>1. PICK B : B = {y \in i + 1 .. Len(list) + 1 : y \notin rows}
    OBVIOUS
  <2>2. B \in SUBSET Nat /\ Len(list) + 1 \in B
    BY <1>0, <2>1
  <2>3. PICK e \in B : \A y \in B : e <= y
    BY <2>2, LeastOf
  <2>4. e \in i + 1 .. Len(list) + 1 /\ e \notin rows
    BY <2>1
  <2>5. e - 1 \in i .. Len(list) /\ e - 1 + 1 = e
    BY <1>0, <2>4
  <2>6. ASSUME NEW y \in i .. e - 1 PROVE y \in rows
    <3>1. y # i => y \in i + 1 .. Len(list) + 1 /\ ~(e <= y)
      BY <1>0, <2>4
    <3>. QED BY <2>1, <2>3, <3>1
  <2>. QED BY <2>4, <2>5, <2>6
<1>3. a .. b \subseteq rows
  <2>1. \A y \in a .. b : y \in a .. i \/ y \in i .. b
    BY <1>0
  <2>. QED BY <1>1, <1>2, <2>1
<1>4. a <= b /\ i \in a .. b /\ a \in a .. b /\ b \in a .. b
  BY <1>0
<1>. QED BY <1>1, <1>2, <1>3, <1>4

LEMMA RunsInTurn ==
  ASSUME list \in Seq(Objects), NEW rows, rows \subseteq 1 .. Len(list), NEW runs \in Model!Runs(rows)
  PROVE  \E k \in Nat : /\ Len(runs) = k /\ LastFirst(runs, k)
                        /\ InNone(runs, k) = (1 .. Len(list)) \ rows
<1>. DEFINE R == {run \in rows \X rows :
                    /\ run[1] .. run[2] \subseteq rows /\ run[1] <= run[2]
                    /\ run[1] - 1 \notin rows /\ run[2] + 1 \notin rows}
<1>0. Len(list) \in Nat
  BY LenProperties
<1>1. IsFiniteSet(R)
  <2>1. IsFiniteSet(1 .. Len(list))
    BY <1>0, FS_Interval
  <2>2. IsFiniteSet(rows)
    BY <2>1, FS_Subset
  <2>3. IsFiniteSet(rows \X rows)
    BY <2>2, FS_Product
  <2>. QED BY <2>3, FS_Subset
<1>2. PICK k \in Nat : k = Cardinality(R)
  BY <1>1, FS_CardinalityType
<1>3. Model!Cardinality(R) = k
  BY <1>2 DEF Model!Cardinality, Cardinality
<1>4. /\ runs \in [1 .. k -> R]
      /\ \A m, n \in 1 .. k : m < n => runs[m][1] > runs[n][1]
  <2>1. /\ runs \in [1 .. k -> R]
        /\ \A m, n \in DOMAIN runs : m < n => runs[m][1] > runs[n][1]
    BY <1>3 DEF Model!Runs
  <2>. QED BY <2>1
<1>5. ASSUME NEW x \in R
      PROVE  /\ x = <<x[1], x[2]>> /\ x[1] \in rows /\ x[2] \in rows
             /\ x[1] .. x[2] \subseteq rows /\ x[1] <= x[2] /\ x[1] - 1 \notin rows
             /\ x[1] \in 1 .. Len(list) /\ x[2] \in 1 .. Len(list)
  <2>1. x \in rows \X rows
    OBVIOUS
  <2>2. x = <<x[1], x[2]>> /\ x[1] \in rows /\ x[2] \in rows
    BY <2>1
  <2>3. x[1] .. x[2] \subseteq rows /\ x[1] <= x[2] /\ x[1] - 1 \notin rows
    OBVIOUS
  <2>. QED BY <2>2, <2>3
<1>6. \A a, b \in rows : a <= b /\ a .. b \subseteq rows /\ a - 1 \notin rows /\ b + 1 \notin rows
                       => <<a, b>> \in R
  OBVIOUS
<1>. HIDE DEF R
<1>7. Len(runs) = k
  <2>1. runs \in Seq(R)
    BY <1>4, SeqDef
  <2>. QED BY <1>4, <2>1, LenProperties
<1>8. \A n \in 1 .. k : runs[n] \in R
  BY <1>4
<1>9. \A m, n \in 1 .. k : runs[m] = runs[n] => m = n
  <2>. SUFFICES ASSUME NEW m \in 1 .. k, NEW n \in 1 .. k, runs[m] = runs[n] PROVE m = n
    OBVIOUS
  <2>1. runs[m][1] = runs[n][1] /\ runs[m][1] \in 1 .. Len(list)
    BY <1>5, <1>8
  <2>2. ~(runs[m][1] > runs[n][1]) /\ ~(runs[n][1] > runs[m][1])
    BY <1>0, <2>1
  <2>3. ~(m < n) /\ ~(n < m)
    BY <1>4, <2>2
  <2>. QED BY <2>3
<1>10. \A x \in R : \E n \in 1 .. k : runs[n] = x
  <2>1. runs \in [1 .. k -> R]
    BY <1>4
  <2>. QED BY <1>1, <1>2, <1>9, <2>1, CountsThem
<1>11. LastFirst(runs, k)
  <2>1. ASSUME NEW n \in 1 .. k
        PROVE  /\ runs[n] = <<runs[n][1], runs[n][2]>>
               /\ runs[n][1] \in 1 .. Len(list) /\ runs[n][2] \in 1 .. Len(list)
               /\ runs[n][1] <= runs[n][2]
    BY <1>5, <1>8
  <2>2. ASSUME NEW m \in 1 .. k, NEW n \in 1 .. k, m < n PROVE runs[n][2] < runs[m][1]
    <3>1. PICK a, b, c : a = runs[n][1] /\ b = runs[n][2] /\ c = runs[m][1]
      OBVIOUS
    <3>2. /\ a \in 1 .. Len(list) /\ b \in 1 .. Len(list) /\ c \in 1 .. Len(list)
          /\ a .. b \subseteq rows /\ c - 1 \notin rows
      BY <1>5, <1>8, <3>1
    <3>3. a < c
      <4>1. c > a
        BY <1>4, <2>2, <3>1
      <4>. QED BY <1>0, <3>2, <4>1
    <3>4. ~(c - 1 \in a .. b)
      BY <3>2
    <3>5. b < c
      BY <1>0, <3>2, <3>3, <3>4
    <3>. QED BY <3>1, <3>5
  <2>. QED BY <2>1, <2>2 DEF LastFirst
<1>12. InNone(runs, k) = (1 .. Len(list)) \ rows
  <2>1. ASSUME NEW i \in rows PROVE \E n \in 1 .. k : i \in runs[n][1] .. runs[n][2]
    <3>1. PICK a \in rows, b \in rows :
            /\ a <= b /\ i \in a .. b /\ a .. b \subseteq rows
            /\ a - 1 \notin rows /\ b + 1 \notin rows
      BY RunsCover
    <3>2. <<a, b>> \in R
      BY <1>6, <3>1
    <3>3. PICK n \in 1 .. k : runs[n] = <<a, b>>
      BY <1>10, <3>2
    <3>. QED BY <3>1, <3>3
  <2>2. ASSUME NEW n \in 1 .. k, NEW i \in runs[n][1] .. runs[n][2] PROVE i \in rows
    BY <1>5, <1>8
  <2>. QED BY <2>1, <2>2 DEF InNone
<1>. QED BY <1>7, <1>11, <1>12

LEMMA ViewWithoutRuns ==
  ASSUME list \in Seq(Objects), view = list, NEW rows, rows \subseteq 1 .. Len(list),
         NEW runs \in Model!Runs(rows)
  PROVE  /\ Model!ViewWithout(runs) \in Seq(Objects)
         /\ Listed(Model!ViewWithout(runs), (1 .. Len(list)) \ rows)
<1>1. PICK k \in Nat : /\ Len(runs) = k /\ LastFirst(runs, k)
                      /\ InNone(runs, k) = (1 .. Len(list)) \ rows
  BY RunsInTurn
<1>. DEFINE S == Seq(Objects)
            Rest(v, n) == Model!RowsRemoved(v, runs[n])
            G == [x \in S \X (1 .. k) |-> IF Rest(x[1], x[2]) \in S THEN Rest(x[1], x[2]) ELSE <<>>]
<1>2. G \in [S \X (1 .. k) -> S]
  <2>1. <<>> \in S
    BY EmptySeq
  <2>. HIDE DEF S, Rest
  <2>. QED BY <2>1
<1>3. PICK f : f \in [0 .. k -> S] /\ Follows(f, list, k, G)
  <2>. HIDE DEF S, G
  <2>1. list \in S
    BY DEF S
  <2>. QED BY <1>2, <2>1, Iterated
<1>4. ASSUME NEW n \in 1 .. k, Listed(f[n - 1], InNone(runs, n - 1)) PROVE f[n] = Rest(f[n - 1], n)
  <2>1. f[n - 1] \in S
    <3>1. n - 1 \in 0 .. k
      OBVIOUS
    <3>. HIDE DEF S
    <3>. QED BY <1>3, <3>1
  <2>2. f[n] = G[<<f[n - 1], n>>]
    <3>. HIDE DEF S, G
    <3>. QED BY <1>3 DEF Follows
  <2>3. Rest(f[n - 1], n) \in S
    BY <1>1, <1>4, <2>1, RunGoneNext
  <2>. HIDE DEF S, Rest
  <2>. QED BY <2>1, <2>2, <2>3
<1>5. f[0] = list
  BY <1>3 DEF Follows
<1>6. f = [n \in 0 .. k |-> IF n = 0 THEN list ELSE Rest(f[n - 1], n)]
  <2>1. \A n \in 0 .. k : f[n] \in Seq(Objects) /\ Listed(f[n], InNone(runs, n))
    <3>1. \A n \in 1 .. k : f[n - 1] \in Seq(Objects) /\ Listed(f[n - 1], InNone(runs, n - 1))
                            => f[n] = Model!RowsRemoved(f[n - 1], runs[n])
      BY <1>4
    <3>. QED BY <1>1, <1>5, <3>1, RunsGoneListed
  <2>2. ASSUME NEW n \in 0 .. k PROVE f[n] = IF n = 0 THEN list ELSE Rest(f[n - 1], n)
    <3>1. CASE n = 0
      BY <1>5, <3>1
    <3>2. CASE n # 0
      <4>1. n \in 1 .. k /\ n - 1 \in 0 .. k
        BY <3>2
      <4>2. f[n] = Rest(f[n - 1], n)
        BY <1>4, <2>1, <4>1
      <4>. QED BY <3>2, <4>2
    <3>. QED BY <3>1, <3>2
  <2>3. DOMAIN f = 0 .. k /\ f = [n \in DOMAIN f |-> f[n]]
    <3>. HIDE DEF S
    <3>. QED BY <1>3
  <2>. HIDE DEF Rest
  <2>. QED BY <2>2, <2>3
<1>. DEFINE g == CHOOSE h : h = [n \in 0 .. k |-> IF n = 0 THEN list ELSE Rest(h[n - 1], n)]
<1>7. g = [n \in 0 .. k |-> IF n = 0 THEN list ELSE Rest(g[n - 1], n)]
  BY <1>6
<1>8. Model!ViewWithout(runs) = g[k]
  BY <1>1 DEF Model!ViewWithout
<1>. HIDE DEF g
<1>9. \A n \in 0 .. k : g[n] \in Seq(Objects) /\ Listed(g[n], InNone(runs, n))
  <2>1. g[0] = list
    BY <1>7
  <2>2. \A n \in 1 .. k : g[n] = Model!RowsRemoved(g[n - 1], runs[n])
    <3>. SUFFICES ASSUME NEW n \in 1 .. k PROVE g[n] = Rest(g[n - 1], n)
      OBVIOUS
    <3>1. n \in 0 .. k /\ n # 0
      OBVIOUS
    <3>. HIDE DEF Rest
    <3>. QED BY <1>7, <3>1
  <2>. QED BY <1>1, <2>1, <2>2, RunsGoneListed
<1>10. k \in 0 .. k
  OBVIOUS
<1>. QED BY <1>1, <1>8, <1>9, <1>10

LEMMA RemovedView ==
  ASSUME list \in Seq(Objects), view = list, NEW gone, Model!Removed(gone)
  PROVE  view' = list'
<1>. DEFINE rows == {i \in DOMAIN list : list[i] \in gone}
<1>1. Len(list) \in Nat /\ DOMAIN list = 1 .. Len(list)
  BY LenProperties
<1>2. PICK v, w : v = view' /\ w = list'
  OBVIOUS
<1>3. w \in Seq(Objects) /\ Listed(w, Lasting(gone))
  BY <1>2, WithoutListed, WithoutTypes DEF Model!Removed
<1>4. PICK runs \in Model!Runs(rows) : v = Model!ViewWithout(runs)
  BY <1>2 DEF Model!Removed
<1>5. rows \subseteq 1 .. Len(list) /\ (1 .. Len(list)) \ rows = Lasting(gone)
  BY <1>1 DEF Lasting
<1>6. v \in Seq(Objects) /\ Listed(v, Lasting(gone))
  <2>. HIDE DEF rows
  <2>. QED BY <1>4, <1>5, ViewWithoutRuns
<1>7. Lasting(gone) \in SUBSET Nat
  BY DEF Lasting
<1>. QED BY <1>2, <1>3, <1>6, <1>7, ListedOnce

LEMMA MoveView ==
  ASSUME ListInv, view = list, NEW oldRow \in DOMAIN list, NEW newRow \in DOMAIN list,
         Model!Move(oldRow, newRow)
  PROVE  view' = list'
<1>1. /\ oldRow # newRow
      /\ list' = Model!InsertAt(Model!RemoveAt(list, oldRow), newRow, list[oldRow])
      /\ view' = Model!RowMoved(list, oldRow, Model!Destination(oldRow, newRow))
  BY DEF Model!Move
<1>2. oldRow \in Nat /\ newRow \in Nat
  BY ListIsTyped, LenProperties
<1>3. PICK d : d = Model!Destination(oldRow, newRow)
  OBVIOUS
<1>4. newRow = IF d > oldRow THEN d - 1 ELSE d
  BY <1>1, <1>2, <1>3 DEF Model!Destination
<1>. QED BY <1>1, <1>3, <1>4 DEF Model!RowMoved

(* What an exchange announces, and what it does.                             *)
LEMMA ExchangedView ==
  ASSUME ListTypes, view = list, NEW c \in Nat, place = <<c, c>>, NEW i \in Nat, NEW j \in Nat,
         c + i <= Len(list), c + j <= Len(reference)
  PROVE  Model!Exchanged(i, j).view = Model!Exchanged(i, j).list
<1>0. /\ list \in Seq(Objects) /\ reference \in Seq(Objects)
      /\ Len(list) \in Nat /\ Len(reference) \in Nat
  BY LenProperties DEF ListTypes
<1>1. PICK e, v, w, in : /\ e = Model!Exchanged(i, j).list
                         /\ v = Model!Exchanged(i, j).view
                         /\ w = Model!RowsRemoved(list, <<c + 1, c + i>>)
                         /\ in = SubSeq(reference, c + 1, c + j)
  OBVIOUS
<1>2. v = Model!RowsInserted(w, c, in)
  <2>1. place[1] = c /\ place[2] = c
    OBVIOUS
  <2>. QED BY <1>1, <2>1 DEF Model!Exchanged
<1>3. PICK a \in Nat, b \in Nat : a = c + 1 /\ b = c + i
  OBVIOUS
<1>4. w \in Seq(Objects) /\ HasRemoved(w, list, a, b)
  <2>1. w = Model!RowsRemoved(list, <<a, b>>) /\ 1 <= a /\ a <= b + 1 /\ b <= Len(list)
    BY <1>1, <1>3
  <2>. QED BY <1>0, <2>1, RunTakenOut
<1>5. /\ Len(w) = Len(list) - i
      /\ \A n \in 1 .. c : w[n] = list[n]
      /\ \A n \in 1 .. Len(list) - c - i : w[c + n] = list[c + i + n]
  <2>1. b + 1 - a = i /\ a - 1 = c /\ Len(list) - b = Len(list) - c - i
    BY <1>0, <1>3
  <2>2. /\ Len(w) = Len(list) - (b + 1 - a)
        /\ \A n \in 1 .. a - 1 : w[n] = list[n]
        /\ \A n \in 1 .. Len(list) - b : w[a - 1 + n] = list[b + n]
    BY <1>4 DEF HasRemoved
  <2>. QED BY <1>3, <2>1, <2>2, Zenon
<1>6. in \in Seq(Objects) /\ Len(in) = j /\ \A n \in 1 .. j : in[n] = reference[c + n]
  BY <1>0, <1>1, MiddlePart
<1>7. v \in Seq(Objects) /\ HasInserted(v, w, c, in, j)
  <2>1. c <= Len(w)
    BY <1>0, <1>5
  <2>. QED BY <1>2, <1>4, <1>6, <2>1, RowsPutIn
<1>8. /\ e \in Seq(Objects) /\ Len(e) = Len(list) - i + j
      /\ \A n \in 1 .. c : e[n] = list[n]
      /\ \A n \in 1 .. j : e[c + n] = reference[c + n]
      /\ \A n \in 1 .. Len(list) - c - i : e[c + j + n] = list[c + i + n]
  <2>1. ExchangedAt(e, c, i, j)
    BY <1>1, ExchangedList
  <2>. QED BY <2>1 DEF ExchangedAt
<1>9. /\ Len(v) = Len(list) - i + j
      /\ \A n \in 1 .. c : v[n] = list[n]
      /\ \A n \in 1 .. j : v[c + n] = reference[c + n]
      /\ \A n \in 1 .. Len(list) - c - i : v[c + j + n] = list[c + i + n]
  <2>1. /\ Len(v) = Len(w) + j
        /\ \A n \in 1 .. c : v[n] = w[n]
        /\ \A n \in 1 .. j : v[c + n] = in[n]
        /\ \A n \in 1 .. Len(w) - c : v[c + j + n] = w[c + n]
    BY <1>7 DEF HasInserted
  <2>2. Len(w) - c = Len(list) - c - i
    BY <1>0, <1>5
  <2>3. Len(v) = Len(list) - i + j
    BY <1>5, <2>1
  <2>4. \A n \in 1 .. c : v[n] = list[n]
    BY <1>5, <2>1
  <2>5. \A n \in 1 .. j : v[c + n] = reference[c + n]
    BY <1>6, <2>1
  <2>6. \A n \in 1 .. Len(list) - c - i : v[c + j + n] = list[c + i + n]
    BY <1>5, <2>1, <2>2
  <2>. QED BY <2>3, <2>4, <2>5, <2>6
<1>10. ASSUME NEW n \in 1 .. Len(v) PROVE v[n] = e[n]
  <2>0. Len(v) = Len(list) - i + j
    BY <1>9
  <2>1. CASE n <= c
    <3>1. n \in 1 .. c
      BY <2>1
    <3>. QED BY <1>8, <1>9, <3>1
  <2>2. CASE c < n /\ n <= c + j
    <3>1. n - c \in 1 .. j /\ c + (n - c) = n
      BY <2>2
    <3>2. v[c + (n - c)] = e[c + (n - c)]
      BY <1>8, <1>9, <3>1
    <3>. QED BY <3>1, <3>2
  <2>3. CASE c + j < n
    <3>1. PICK m : m = n - (c + j)
      OBVIOUS
    <3>2. m \in 1 .. Len(list) - c - i /\ c + j + m = n
      BY <1>0, <2>0, <2>3, <3>1
    <3>3. v[c + j + m] = e[c + j + m]
      BY <1>8, <1>9, <3>2
    <3>. QED BY <3>2, <3>3
  <2>. QED BY <2>1, <2>2, <2>3
<1>11. v = e
  <2>1. v \in Seq(Objects) /\ e \in Seq(Objects) /\ Len(v) = Len(e)
    BY <1>7, <1>8, <1>9
  <2>. QED BY <1>10, <2>1, SeqEqual
<1>. QED BY <1>1, <1>11

LEMMA ScanView ==
  ASSUME ListInv, view = list, Model!Scan \/ Model!ScanEnds \/ Model!Complete
  PROVE  view' = list'
<1>0. /\ list \in Seq(Objects) /\ reference \in Seq(Objects) /\ ListTypes
      /\ Len(list) \in Nat /\ Len(reference) \in Nat
      /\ available \in Nat /\ available <= Len(reference)
  BY ListIsTyped DEF ListInv
<1>1. PICK c \in Nat : place = <<c, c>> /\ c <= Len(list) /\ c <= available
  BY DEF ListInv, InPlace
<1>2. ASSUME NEW i \in Nat, NEW j \in Nat, c + i <= Len(list), c + j <= available,
             list' = Model!Exchanged(i, j).list, view' = Model!Exchanged(i, j).view
      PROVE  view' = list'
  <2>1. c + j <= Len(reference)
    BY <1>0, <1>2
  <2>. QED BY <1>0, <1>1, <1>2, <2>1, ExchangedView
<1>3. CASE UNCHANGED <<list, view>>
  BY <1>3
<1>4. ASSUME NEW p \in Model!Matches, Model!Exchange(p[1], p[2]) PROVE view' = list'
  <2>1. PICK i, j : i = p[1] /\ j = p[2]
    OBVIOUS
  <2>2. i \in Nat /\ j \in Nat /\ i <= Len(list) - c - 1 /\ j <= available - c - 1
    BY <1>0, <1>1, <1>4, <2>1 DEF Model!Matches
  <2>3. c + i <= Len(list) /\ c + j <= available
    BY <1>0, <2>2
  <2>4. list' = Model!Exchanged(i, j).list /\ view' = Model!Exchanged(i, j).view
    BY <1>4, <2>1 DEF Model!Exchange
  <2>. QED BY <1>2, <2>2, <2>3, <2>4
<1>5. CASE Model!Scan
  BY <1>3, <1>4, <1>5 DEF Model!Scan
<1>6. CASE Model!ScanEnds
  <2>1. CASE place[1] = Len(list)
    <3>1. PICK j \in Nat : j = available - c
      BY <1>0, <1>1
    <3>2. list' = Model!Exchanged(0, j).list /\ view' = Model!Exchanged(0, j).view
      BY <1>1, <1>6, <2>1, <3>1 DEF Model!ScanEnds, Model!Exchange
    <3>3. c + 0 <= Len(list) /\ c + j <= available
      BY <1>0, <1>1, <3>1
    <3>. QED BY <1>2, <3>2, <3>3
  <2>2. CASE place[1] # Len(list)
    BY <1>3, <1>6, <2>2 DEF Model!ScanEnds
  <2>. QED BY <2>1, <2>2
<1>7. CASE Model!Complete
  <2>0. Len(list) - c \in Nat /\ available - c \in Nat
    BY <1>0, <1>1
  <2>1. PICK i \in Nat, j \in Nat : i = Len(list) - c /\ j = available - c
    BY <2>0
  <2>2. list' = Model!Exchanged(i, j).list /\ view' = Model!Exchanged(i, j).view
    <3>1. place[1] = c /\ place[2] = c
      BY <1>1
    <3>. QED BY <1>7, <2>1, <3>1 DEF Model!Complete, Model!CompleteSynchronizeList
  <2>3. c + i <= Len(list) /\ c + j <= available
    BY <1>0, <1>1, <2>1
  <2>. QED BY <1>2, <2>2, <2>3
<1>. QED BY <1>5, <1>6, <1>7

LEMMA ViewStep ==
  ASSUME ListInv, view = list, Model!Next
  PROVE  view' = list'
<1>1. ASSUME NEW index, NEW more, Model!AddItems(index, more) PROVE view' = list'
  BY <1>1 DEF Model!AddItems, Model!RowsInserted
<1>2. ASSUME NEW gone, Model!Removed(gone) PROVE view' = list'
  BY <1>2, ListIsTyped, RemovedView
<1>3. ASSUME NEW gone, Model!RemoveItems(gone) PROVE view' = list'
  BY <1>2, <1>3 DEF Model!RemoveItems
<1>4. ASSUME NEW item, Model!RemoveDestroyedItem(item) PROVE view' = list'
  BY <1>2, <1>4 DEF Model!RemoveDestroyedItem
<1>5. ASSUME NEW oldRow \in DOMAIN list, NEW newRow \in DOMAIN list, Model!Move(oldRow, newRow)
      PROVE  view' = list'
  BY <1>5, MoveView
<1>6. ASSUME NEW wanted, NEW known, Model!Synchronize(wanted, known) PROVE view' = list'
  BY <1>6 DEF Model!Synchronize
<1>7. ASSUME NEW known, Model!ScanOn(known) PROVE view' = list'
  BY <1>7 DEF Model!ScanOn
<1>. QED BY <1>1, <1>3, <1>4, <1>5, <1>6, <1>7, ScanView DEF Model!Next

(* Between two steps the view has the rows of the list. *)
ViewInv == ToldInv /\ view = list

(* However rows are put in, taken out in runs, the last run first, moved up  *)
(* and down, and exchanged: a view that does what is announced, and knows    *)
(* nothing else, has the rows of the list after every announcement.          *)
THEOREM ViewHasTheRows == Spec => []Model!ViewFollows
<1>1. Init => ViewInv
  <2>1. Init => view = list
    BY DEF Init, Model!Init
  <2>. QED BY <2>1, ToldStart DEF ViewInv
<1>2. ViewInv /\ [Next]_<<folderVars, watcherVars, notificationVars, objectVars, categoryVars,
                          serviceVars, part>>
        => ViewInv'
  <2>. SUFFICES ASSUME ToldInv, view = list,
                       Next \/ UNCHANGED <<folderVars, watcherVars, notificationVars, objectVars,
                                           categoryVars, serviceVars, part>>
                PROVE  ToldInv' /\ view' = list'
    BY DEF ViewInv
  <2>1. CASE Model!Next
    BY <2>1, ToldStep, ViewStep DEF ToldInv
  <2>2. CASE UNCHANGED objectVars
    BY <2>2, ToldKept DEF objectVars
  <2>. QED BY <2>1, <2>2 DEF Next
<1>3. ViewInv => Model!ViewFollows
  BY DEF ViewInv, Model!ViewFollows
<1>. QED BY <1>1, <1>2, <1>3, PTL DEF Spec

(* The model of objects keeps its word to a view and to its owner, and       *)
(* becomes the list it is given.                                             *)
THEOREM ListIsSynchronized == Spec => Synchronized
BY ListBecomesReference, OwnerKnowsItems, ViewHasTheRows, PTL DEF Synchronized
=============================================================================
