---------------------------- MODULE LauncherProofs ----------------------------
(***************************************************************************)
(* Proofs about the launcher's model: its list stays consistent, it is     *)
(* current once the changes of the directory are handled, and its order    *)
(* outlives the process.  Counting and permutations first, then what each  *)
(* operator on the list keeps, then each action; then what the list says   *)
(* of each file, and the order that is saved, in the same way.             *)
(***************************************************************************)
EXTENDS LauncherModel, SequenceTheorems, FiniteSetTheorems, NaturalsInduction,
        WellFoundedInduction, TLAPS

-----------------------------------------------------------------------------
(* Counting.  A recursive function is what follows from its start by its     *)
(* step; such a function there is, and what holds at its start and from one  *)
(* value to the next holds at its end.                                       *)
LEMMA LeastOf ==
  ASSUME NEW T \in SUBSET Nat, T # {}
  PROVE  \E x \in T : \A y \in T : x <= y
<1>. DEFINE R == {p \in Nat \X Nat : p[1] < p[2]}
<1>3. IsWellFoundedOn(R, Nat)
  BY NatLessThanWellFounded DEF OpToRel
<1>4. \E x \in T : \A y \in T : ~(<<y, x>> \in R)
  <2>. HIDE DEF R
  <2>. QED BY <1>3, WFMin
<1>5. PICK x \in T : \A y \in T : ~(<<y, x>> \in R)
  BY <1>4
<1>6. \A y \in T : ~(y < x) /\ y \in Nat /\ x \in Nat
  BY <1>5
<1>7. \A y \in T : x <= y
  BY <1>6
<1>. QED BY <1>7

LEMMA CountedUp ==
  ASSUME NEW k \in Nat, NEW T, 0 \in T, \A n \in 1 .. k : n - 1 \in T => n \in T
  PROVE  0 .. k \subseteq T
<1>. DEFINE U == (0 .. k) \ T
<1>1. SUFFICES ASSUME U # {} PROVE FALSE
  OBVIOUS
<1>2. U \in SUBSET Nat
  OBVIOUS
<1>3. PICK x \in U : \A y \in U : x <= y
  <2>. HIDE DEF U
  <2>. QED BY <1>1, <1>2, LeastOf
<1>4. x \in 1 .. k /\ x \notin T
  BY <1>3
<1>5. x - 1 \in 0 .. k /\ ~(x <= x - 1)
  BY <1>4
<1>6. x - 1 \in T
  BY <1>3, <1>5
<1>. QED BY <1>4, <1>6

Iterates(f, b, k, G) == f[0] = b /\ \A n \in 1 .. k : f[n] = G[<<f[n - 1], n>>]

LEMMA Iterated ==
  ASSUME NEW S, NEW k \in Nat, NEW b \in S, NEW G \in [S \X (1 .. k) -> S]
  PROVE  \E f \in [0 .. k -> S] : Iterates(f, b, k, G)
<1>. DEFINE T == {n \in 0 .. k : \E f \in [0 .. n -> S] : Iterates(f, b, n, G)}
<1>1. 0 \in T
  <2>1. [n \in 0 .. 0 |-> b] \in [0 .. 0 -> S] /\ Iterates([n \in 0 .. 0 |-> b], b, 0, G)
    BY DEF Iterates
  <2>. QED BY <2>1
<1>2. ASSUME NEW n \in 1 .. k, n - 1 \in T PROVE n \in T
  <2>0. n \in Nat /\ n - 1 \in Nat /\ n - 1 \in 0 .. n - 1
    OBVIOUS
  <2>1. PICK f \in [0 .. n - 1 -> S] : Iterates(f, b, n - 1, G)
    BY <1>2
  <2>2. PICK z \in S : z = G[<<f[n - 1], n>>]
    <3>1. f[n - 1] \in S
      BY <2>1
    <3>2. G[<<f[n - 1], n>>] \in S
      BY <3>1
    <3>. QED BY <3>2
  <2>3. PICK g : g = [i \in 0 .. n |-> IF i = n THEN z ELSE f[i]]
    OBVIOUS
  <2>4. g \in [0 .. n -> S]
    BY <2>3
  <2>5. g[0] = b /\ g[n] = G[<<g[n - 1], n>>]
    <3>1. g[0] = f[0] /\ g[n] = z /\ g[n - 1] = f[n - 1]
      BY <2>3
    <3>. QED BY <2>1, <2>2, <3>1 DEF Iterates
  <2>6. ASSUME NEW i \in 1 .. n - 1 PROVE g[i] = G[<<g[i - 1], i>>]
    <3>1. g[i] = f[i] /\ g[i - 1] = f[i - 1]
      BY <2>3
    <3>2. f[i] = G[<<f[i - 1], i>>]
      BY <2>1 DEF Iterates
    <3>. QED BY <3>1, <3>2
  <2>7. Iterates(g, b, n, G)
    <3>1. \A i \in 1 .. n : i = n \/ i \in 1 .. n - 1
      OBVIOUS
    <3>. QED BY <2>5, <2>6, <3>1 DEF Iterates
  <2>. QED BY <2>4, <2>7
<1>3. 0 .. k \subseteq T
  <2>. HIDE DEF T
  <2>. QED BY <1>1, <1>2, CountedUp
<1>4. k \in T
  BY <1>3
<1>. QED BY <1>4

-----------------------------------------------------------------------------
(* Ranking.  Ranked goes through a set by growing keys.                      *)
LEMMA RankedHolds ==
  ASSUME NEW S, IsFiniteSet(S), NEW key, \A x \in S : key[x] \in Nat,
         \A x, y \in S : key[x] = key[y] => x = y
  PROVE  /\ Cardinality(S) \in Nat
         /\ Ranked(S, key) \in [1 .. Cardinality(S) -> S]
         /\ \A x \in S : \E n \in 1 .. Cardinality(S) : Ranked(S, key)[n] = x
         /\ \A a, b \in 1 .. Cardinality(S) :
               a < b => key[Ranked(S, key)[a]] < key[Ranked(S, key)[b]]
<1>. DEFINE Below(x) == {y \in S : key[y] < key[x]}
            Rank(x) == Cardinality(Below(x))
<1>1. PICK c : c = Cardinality(S)
  OBVIOUS
<1>2. c \in Nat
  BY <1>1, FS_CardinalityType
<1>3. ASSUME NEW x \in S PROVE IsFiniteSet(Below(x)) /\ Rank(x) \in 0 .. c - 1
  <2>1. Below(x) \in SUBSET (S \ {x})
    OBVIOUS
  <2>2. IsFiniteSet(S \ {x}) /\ Cardinality(S \ {x}) = c - 1
    BY <1>1, FS_RemoveElement
  <2>3. IsFiniteSet(Below(x)) /\ Rank(x) <= c - 1
    <3>. HIDE DEF Below
    <3>. QED BY <2>1, <2>2, FS_Subset
  <2>4. Rank(x) \in Nat
    <3>. HIDE DEF Below
    <3>. QED BY <2>3, FS_CardinalityType
  <2>5. c - 1 \in Int
    BY <1>2
  <2>. HIDE DEF Rank, Below
  <2>. QED BY <2>3, <2>4, <2>5
<1>3a. \A x \in S : IsFiniteSet(Below(x)) /\ Rank(x) \in Nat /\ Rank(x) + 1 \in 1 .. c
  <2>. HIDE DEF Rank, Below
  <2>. QED BY <1>2, <1>3
<1>4. ASSUME NEW x \in S, NEW y \in S, key[x] < key[y] PROVE Rank(x) < Rank(y)
  <2>1. Below(x) \cup {x} \in SUBSET Below(y) /\ x \notin Below(x)
    BY <1>4
  <2>2. IsFiniteSet(Below(x)) /\ IsFiniteSet(Below(y)) /\ Rank(x) \in Nat /\ Rank(y) \in Nat
    BY <1>3a
  <2>. HIDE DEF Below
  <2>3. Cardinality(Below(x) \cup {x}) = Rank(x) + 1
    BY <2>1, <2>2, FS_AddElement
  <2>4. Cardinality(Below(x) \cup {x}) <= Rank(y)
    BY <2>1, <2>2, FS_Subset
  <2>. QED BY <2>2, <2>3, <2>4
<1>5. ASSUME NEW x \in S, NEW y \in S, Rank(x) = Rank(y) PROVE x = y
  <2>1. Rank(x) \in Nat /\ Rank(y) \in Nat /\ key[x] \in Nat /\ key[y] \in Nat
    BY <1>3a
  <2>2. ~ key[x] < key[y] /\ ~ key[y] < key[x]
    <3>. HIDE DEF Rank
    <3>. QED BY <1>4, <1>5, <2>1
  <2>3. key[x] = key[y]
    <3>. HIDE DEF Rank
    <3>. QED BY <2>1, <2>2
  <2>. QED BY <2>3
<1>. HIDE DEF Rank, Below
<1>6. PICK f : f = [x \in S |-> Rank(x) + 1]
  OBVIOUS
<1>7. f \in [S -> 1 .. c]
  BY <1>3a, <1>6
<1>8. \A x, y \in S : f[x] = f[y] => x = y
  <2>1. \A x \in S : Rank(x) \in Nat /\ f[x] = Rank(x) + 1
    BY <1>3a, <1>6
  <2>. QED BY <1>5, <2>1
<1>9. f \in Surjection(S, 1 .. c)
  <2>1. f \in Injection(S, 1 .. c)
    BY <1>7, <1>8 DEF Injection, IsInjective
  <2>2. IsFiniteSet(1 .. c) /\ Cardinality(1 .. c) = c
    BY <1>2, FS_Interval
  <2>. QED BY <1>1, <2>1, <2>2, FS_Injection
<1>10. \A n \in 1 .. c : \E x \in S : Rank(x) = n - 1
  <2>. SUFFICES ASSUME NEW n \in 1 .. c PROVE \E x \in S : Rank(x) = n - 1
    OBVIOUS
  <2>1. PICK x \in S : f[x] = n
    BY <1>9 DEF Surjection
  <2>2. f[x] = Rank(x) + 1 /\ Rank(x) \in Nat
    BY <1>3a, <1>6
  <2>. QED BY <2>1, <2>2
<1>11. PICK r : r = Ranked(S, key)
  OBVIOUS
<1>12. r = [n \in 1 .. c |-> CHOOSE x \in S : Rank(x) = n - 1]
  BY <1>1, <1>11 DEF Ranked, Rank, Below
<1>13. \A n \in 1 .. c : r[n] \in S /\ Rank(r[n]) = n - 1
  BY <1>10, <1>12
<1>14. r \in [1 .. c -> S]
  BY <1>12, <1>13
<1>15. \A x \in S : \E n \in 1 .. c : r[n] = x
  <2>. SUFFICES ASSUME NEW x \in S PROVE \E n \in 1 .. c : r[n] = x
    OBVIOUS
  <2>1. PICK n \in 1 .. c : n - 1 = Rank(x)
    <3>1. Rank(x) \in 0 .. c - 1
      BY <1>3
    <3>2. Rank(x) + 1 \in 1 .. c /\ (Rank(x) + 1) - 1 = Rank(x)
      BY <1>2, <3>1
    <3>. QED BY <3>2
  <2>. QED BY <1>5, <1>13, <2>1
<1>16. \A a, b \in 1 .. c : a < b => key[r[a]] < key[r[b]]
  <2>. SUFFICES ASSUME NEW a \in 1 .. c, NEW b \in 1 .. c, a < b PROVE key[r[a]] < key[r[b]]
    OBVIOUS
  <2>1. /\ r[a] \in S /\ r[b] \in S /\ key[r[a]] \in Nat /\ key[r[b]] \in Nat
        /\ Rank(r[a]) = a - 1 /\ Rank(r[b]) = b - 1
    BY <1>13
  <2>2. ~ key[r[b]] < key[r[a]]
    <3>1. ~ b - 1 < a - 1
      BY <1>2
    <3>. QED BY <1>4, <2>1, <3>1
  <2>3. key[r[a]] # key[r[b]]
    <3>1. r[a] # r[b]
      <4>1. a - 1 # b - 1
        BY <1>2
      <4>. QED BY <2>1, <4>1
    <3>. QED BY <2>1, <3>1
  <2>. QED BY <2>1, <2>2, <2>3
<1>. QED BY <1>1, <1>2, <1>11, <1>14, <1>15, <1>16

(* A list of items of another one, each of the places in S once.             *)
Picked(new, old, S) ==
  \E way \in [DOMAIN new -> S] :
     /\ \A a, b \in DOMAIN new : way[a] = way[b] => a = b
     /\ \A n \in S : \E a \in DOMAIN new : way[a] = n
     /\ \A n \in DOMAIN new : new[n] = old[way[n]]

(* A list of items of another one, in the order they have there.             *)
InTurn(new, old) ==
  \E way \in [DOMAIN new -> DOMAIN old] :
     /\ \A a, b \in DOMAIN new : a < b => way[a] < way[b]
     /\ \A n \in DOMAIN new : new[n] = old[way[n]]

LEMMA OnlyAtPicks ==
  ASSUME NEW T, NEW q \in Seq(T), NEW S \in SUBSET DOMAIN q
  PROVE  /\ OnlyAt(q, S) \in Seq(T) /\ Picked(OnlyAt(q, S), q, S)
         /\ InTurn(OnlyAt(q, S), q)
<1>1. Len(q) \in Nat /\ DOMAIN q = 1 .. Len(q) /\ \A n \in DOMAIN q : q[n] \in T
  BY LenProperties, ElementOfSeq
<1>2. IsFiniteSet(S) /\ S \subseteq Nat
  <2>1. IsFiniteSet(1 .. Len(q)) /\ S \in SUBSET (1 .. Len(q))
    BY <1>1, FS_Interval
  <2>2. IsFiniteSet(S)
    BY <2>1, FS_Subset
  <2>. QED BY <2>1, <2>2
<1>3. PICK key : key = [x \in S |-> x]
  OBVIOUS
<1>4. PICK c, at : c = Cardinality(S) /\ at = InOrder(S)
  OBVIOUS
<1>5. /\ c \in Nat /\ at \in [1 .. c -> S]
      /\ \A x \in S : \E n \in 1 .. c : at[n] = x
      /\ \A a, b \in 1 .. c : a < b => at[a] < at[b]
  <2>1. (\A x \in S : key[x] \in Nat) /\ \A x, y \in S : key[x] = key[y] => x = y
    BY <1>2, <1>3
  <2>2. at = Ranked(S, key)
    BY <1>3, <1>4 DEF InOrder
  <2>3. /\ c \in Nat /\ at \in [1 .. c -> S]
        /\ \A x \in S : \E n \in 1 .. c : at[n] = x
        /\ \A a, b \in 1 .. c : a < b => key[at[a]] < key[at[b]]
    BY <1>2, <1>4, <2>1, <2>2, RankedHolds
  <2>4. \A a \in 1 .. c : at[a] \in S /\ key[at[a]] = at[a]
    BY <1>3, <2>3
  <2>. QED BY <2>3, <2>4
<1>6. \A a, b \in 1 .. c : at[a] = at[b] => a = b
  <2>. SUFFICES ASSUME NEW a \in 1 .. c, NEW b \in 1 .. c, at[a] = at[b] PROVE a = b
    OBVIOUS
  <2>1. ~ at[a] < at[b] /\ ~ at[b] < at[a]
    BY <1>2, <1>5
  <2>. QED BY <1>5, <2>1
<1>7. PICK r : r = OnlyAt(q, S)
  OBVIOUS
<1>8. r = [n \in 1 .. c |-> q[at[n]]]
  BY <1>4, <1>7 DEF OnlyAt
<1>9. r \in Seq(T)
  <2>1. \A n \in 1 .. c : q[at[n]] \in T
    BY <1>1, <1>5
  <2>. QED BY <1>5, <1>8, <2>1, IsASeq
<1>10. DOMAIN r = 1 .. c /\ \A n \in 1 .. c : r[n] = q[at[n]]
  BY <1>8
<1>11. at \in [DOMAIN r -> S]
  BY <1>5, <1>10
<1>12. Picked(r, q, S)
  <2>1. /\ \A n \in DOMAIN r : r[n] = q[at[n]]
        /\ \A a, b \in DOMAIN r : at[a] = at[b] => a = b
        /\ \A x \in S : \E n \in DOMAIN r : at[n] = x
    BY <1>5, <1>6, <1>10
  <2>. QED BY <1>11, <2>1 DEF Picked
<1>13. InTurn(r, q)
  <2>1. at \in [DOMAIN r -> DOMAIN q]
    BY <1>11
  <2>2. \A a, b \in DOMAIN r : a < b => at[a] < at[b]
    BY <1>5, <1>10
  <2>. QED BY <1>10, <2>1, <2>2 DEF InTurn
<1>. QED BY <1>7, <1>9, <1>12, <1>13

(* A finite set of numbers in its own order.                                 *)
LEMMA InOrderHolds ==
  ASSUME NEW S \in SUBSET Files
  PROVE  InOrder(S) \in Seq(S) /\ \A x \in S : \E n \in DOMAIN InOrder(S) : InOrder(S)[n] = x
<1>1. IsFiniteSet(S) /\ S \subseteq Nat
  BY FilesAssumption, FS_Subset
<1>2. PICK key : key = [x \in S |-> x]
  OBVIOUS
<1>3. PICK c, at : c = Cardinality(S) /\ at = Ranked(S, key)
  OBVIOUS
<1>4. (\A x \in S : key[x] \in Nat) /\ \A x, y \in S : key[x] = key[y] => x = y
  BY <1>1, <1>2
<1>5. c \in Nat /\ at \in [1 .. c -> S] /\ \A x \in S : \E n \in 1 .. c : at[n] = x
  <2>1. \A x \in S : key[x] \in Nat
    BY <1>4
  <2>2. \A x, y \in S : key[x] = key[y] => x = y
    BY <1>4
  <2>3. /\ Cardinality(S) \in Nat
        /\ Ranked(S, key) \in [1 .. Cardinality(S) -> S]
        /\ \A x \in S : \E n \in 1 .. Cardinality(S) : Ranked(S, key)[n] = x
        /\ \A a, b \in 1 .. Cardinality(S) :
              a < b => key[Ranked(S, key)[a]] < key[Ranked(S, key)[b]]
    BY <1>1, <2>1, <2>2, RankedHolds
  <2>. QED BY <1>3, <2>3
<1>6. at \in Seq(S)
  BY <1>5, SeqDef
<1>7. at = InOrder(S) /\ DOMAIN at = 1 .. c
  BY <1>2, <1>3, <1>5 DEF InOrder
<1>. QED BY <1>5, <1>6, <1>7

-----------------------------------------------------------------------------
(* The order of the list.  What reorderItems leaves is a permutation of what *)
(* it was given.                                                             *)
Permuted(new, old) ==
  \E way \in [DOMAIN old -> DOMAIN old] :
     /\ \A a, b \in DOMAIN old : way[a] = way[b] => a = b
     /\ \A n \in DOMAIN old : \E a \in DOMAIN old : way[a] = n
     /\ new = [n \in DOMAIN old |-> old[way[n]]]

LEMMA PermutedHolds ==
  ASSUME NEW T, NEW old \in Seq(T), NEW new, Permuted(new, old)
  PROVE  new \in Seq(T) /\ Len(new) = Len(old) /\ DOMAIN new = DOMAIN old
<1>1. Len(old) \in Nat /\ DOMAIN old = 1 .. Len(old) /\ \A n \in DOMAIN old : old[n] \in T
  BY LenProperties, ElementOfSeq
<1>2. PICK way \in [DOMAIN old -> DOMAIN old] : new = [n \in DOMAIN old |-> old[way[n]]]
  BY DEF Permuted
<1>3. new = [n \in 1 .. Len(old) |-> old[way[n]]] /\ \A n \in 1 .. Len(old) : old[way[n]] \in T
  BY <1>1, <1>2
<1>4. new \in Seq(T)
  BY <1>1, <1>3, IsASeq
<1>5. DOMAIN new = 1 .. Len(old)
  BY <1>3
<1>6. Len(new) = Len(old)
  BY <1>1, <1>4, <1>5, LenProperties
<1>. QED BY <1>1, <1>4, <1>5, <1>6

LEMMA PermutedItself ==
  ASSUME NEW T, NEW old \in Seq(T)
  PROVE  Permuted(old, old)
<1>1. PICK way : way = [n \in DOMAIN old |-> n]
  OBVIOUS
<1>2. way \in [DOMAIN old -> DOMAIN old] /\ \A n \in DOMAIN old : way[n] = n
  BY <1>1
<1>3. old = [n \in DOMAIN old |-> old[n]]
  BY LenProperties
<1>4. old = [n \in DOMAIN old |-> old[way[n]]]
  BY <1>2, <1>3
<1>. QED BY <1>2, <1>4 DEF Permuted

LEMMA PermutedTwice ==
  ASSUME NEW T, NEW old \in Seq(T), NEW mid, NEW new, Permuted(mid, old), Permuted(new, mid)
  PROVE  Permuted(new, old)
<1>1. DOMAIN mid = DOMAIN old
  BY PermutedHolds
<1>2. PICK f \in [DOMAIN old -> DOMAIN old] :
        /\ \A a, b \in DOMAIN old : f[a] = f[b] => a = b
        /\ \A n \in DOMAIN old : \E a \in DOMAIN old : f[a] = n
        /\ mid = [n \in DOMAIN old |-> old[f[n]]]
  BY DEF Permuted
<1>3. PICK g \in [DOMAIN mid -> DOMAIN mid] :
        /\ \A a, b \in DOMAIN mid : g[a] = g[b] => a = b
        /\ \A n \in DOMAIN mid : \E a \in DOMAIN mid : g[a] = n
        /\ new = [n \in DOMAIN mid |-> mid[g[n]]]
  BY DEF Permuted
<1>4. PICK h : h = [n \in DOMAIN old |-> f[g[n]]]
  OBVIOUS
<1>5. h \in [DOMAIN old -> DOMAIN old] /\ \A n \in DOMAIN old : h[n] = f[g[n]]
  BY <1>1, <1>2, <1>3, <1>4
<1>6. \A a, b \in DOMAIN old : h[a] = h[b] => a = b
  BY <1>1, <1>2, <1>3, <1>5
<1>7. \A n \in DOMAIN old : \E a \in DOMAIN old : h[a] = n
  <2>. SUFFICES ASSUME NEW n \in DOMAIN old PROVE \E a \in DOMAIN old : h[a] = n
    OBVIOUS
  <2>1. PICK b \in DOMAIN old : f[b] = n
    BY <1>2
  <2>2. PICK a \in DOMAIN old : g[a] = b
    BY <1>1, <1>3
  <2>. QED BY <1>5, <2>1, <2>2
<1>8. new = [n \in DOMAIN old |-> old[h[n]]]
  BY <1>1, <1>2, <1>3, <1>5
<1>. QED BY <1>5, <1>6, <1>7, <1>8 DEF Permuted

LEMMA MovePermutes ==
  ASSUME NEW T, NEW l \in Seq(T), NEW from \in DOMAIN l, NEW to \in DOMAIN l
  PROVE  Permuted(MoveItem(l, from, to), l)
<1>1. PICK c \in Nat : DOMAIN l = 1 .. c
  BY LenProperties
<1>2. PICK way : way = [k \in 1 .. c |-> IF k = to THEN from
                                       ELSE IF k \in from .. to - 1 THEN k + 1
                                       ELSE IF k \in to + 1 .. from THEN k - 1 ELSE k]
  OBVIOUS
<1>3. PICK back : back = [k \in 1 .. c |-> IF k = from THEN to
                                         ELSE IF k \in from + 1 .. to THEN k - 1
                                         ELSE IF k \in to .. from - 1 THEN k + 1 ELSE k]
  OBVIOUS
<1>4. from \in 1 .. c /\ to \in 1 .. c
  BY <1>1
<1>5. way \in [1 .. c -> 1 .. c]
  BY <1>2, <1>4
<1>6. \A k \in 1 .. c : back[k] \in 1 .. c /\ way[back[k]] = k
  BY <1>2, <1>3, <1>4
<1>7. \A k \in 1 .. c : back[way[k]] = k
  BY <1>2, <1>3, <1>4
<1>8. \A a, b \in 1 .. c : way[a] = way[b] => a = b
  BY <1>5, <1>7
<1>9. MoveItem(l, from, to) = [k \in DOMAIN l |-> l[way[k]]]
  BY <1>1, <1>2, <1>4 DEF MoveItem
<1>10. /\ way \in [DOMAIN l -> DOMAIN l]
       /\ \A a, b \in DOMAIN l : way[a] = way[b] => a = b
       /\ \A n \in DOMAIN l : \E a \in DOMAIN l : way[a] = n
  BY <1>1, <1>5, <1>6, <1>8
<1>. QED BY <1>9, <1>10 DEF Permuted

Distinct(l, planned) ==
  /\ \A i, j \in DOMAIN l : l[i].id = l[j].id => i = j
  /\ \A m, n \in DOMAIN planned : planned[m] = planned[n] => m = n

(* The first n places have the items that are planned for them.              *)
Fits(w, l, planned, n) ==
  \A m \in 1 .. n : /\ m \in DOMAIN planned /\ planned[m] \in DOMAIN l
                    /\ w[m] = l[planned[m]]

(* The next item moves to its place from behind, and passes none before it.  *)
LEMMA MovePlaces ==
  ASSUME NEW l \in Seq(Item), NEW planned, Distinct(l, planned), NEW w, Permuted(w, l),
         NEW n \in DOMAIN l, n \in DOMAIN planned, planned[n] \in DOMAIN l,
         NEW i \in DOMAIN l, w[i].id = l[planned[n]].id,
         Fits(w, l, planned, n - 1)
  PROVE  Fits(MoveItem(w, i, n), l, planned, n)
<1>0. PICK c \in Nat : DOMAIN l = 1 .. c
  BY LenProperties
<1>1. PICK way \in [DOMAIN l -> DOMAIN l] : w = [m \in DOMAIN l |-> l[way[m]]]
  BY DEF Permuted
<1>2. DOMAIN w = 1 .. c /\ w[i] = l[way[i]] /\ way[i] \in DOMAIN l
  BY <1>0, <1>1
<1>3. w[i] = l[planned[n]]
  <2>1. l[way[i]].id = l[planned[n]].id
    BY <1>2
  <2>2. way[i] = planned[n]
    BY <1>2, <2>1 DEF Distinct
  <2>. QED BY <1>2, <2>2
<1>4. ~ i < n
  <2>. SUFFICES ASSUME i < n PROVE FALSE
    OBVIOUS
  <2>1. i \in 1 .. n - 1
    BY <1>0
  <2>2. l[planned[i]].id = l[planned[n]].id
    BY <1>3, <2>1 DEF Fits
  <2>3. planned[i] = planned[n]
    <3>1. i \in DOMAIN planned /\ planned[i] \in DOMAIN l
      BY <2>1 DEF Fits
    <3>. QED BY <2>2, <3>1 DEF Distinct
  <2>4. i \in DOMAIN planned
    BY <2>1 DEF Fits
  <2>. QED BY <1>0, <2>3, <2>4 DEF Distinct
<1>5. MoveItem(w, i, n)[n] = l[planned[n]]
  BY <1>0, <1>2, <1>3 DEF MoveItem
<1>6. ASSUME NEW m \in 1 .. n - 1 PROVE MoveItem(w, i, n)[m] = l[planned[m]]
  <2>0. n \in 1 .. c /\ i \in 1 .. c
    BY <1>0
  <2>1. m \in 1 .. c /\ m # n /\ m \notin i .. n - 1 /\ m \notin n + 1 .. i
    BY <1>4, <2>0
  <2>2. MoveItem(w, i, n)[m] = w[m]
    BY <1>2, <2>1 DEF MoveItem
  <2>. QED BY <2>2 DEF Fits
<1>7. \A m \in 1 .. n : m = n \/ m \in 1 .. n - 1
  BY <1>0
<1>. QED BY <1>5, <1>6, <1>7 DEF Fits

LEMMA PlacedPermutes ==
  ASSUME NEW l \in Seq(Item), NEW planned \in Seq(DOMAIN l), Len(planned) <= Len(l)
  PROVE  /\ Permuted(Placed(l, planned), l)
         /\ Distinct(l, planned)
               => \A n \in DOMAIN planned : Placed(l, planned)[n] = l[planned[n]]
<1>1. PICK k \in Nat : k = Len(planned)
  BY LenProperties
<1>2. Len(l) \in Nat /\ DOMAIN l = 1 .. Len(l) /\ DOMAIN planned = 1 .. k
  BY <1>1, LenProperties
<1>. DEFINE S == {w \in Seq(Item) : Permuted(w, l)}
            At(w, n) == CHOOSE i \in DOMAIN w : w[i].id = l[planned[n]].id
            Rest(w, n) == MoveItem(w, At(w, n), n)
            G == [x \in S \X (1 .. k) |-> Rest(x[1], x[2])]
<1>3. l \in S
  BY PermutedItself
<1>4. ASSUME NEW w \in S, NEW n \in 1 .. k PROVE Rest(w, n) \in S
  <2>1. w \in Seq(Item) /\ Permuted(w, l) /\ DOMAIN w = DOMAIN l
    BY PermutedHolds
  <2>2. n \in DOMAIN l /\ planned[n] \in DOMAIN l
    BY <1>1, <1>2, ElementOfSeq
  <2>3. \E i \in DOMAIN l : w[i] = l[planned[n]]
    <3>1. PICK way \in [DOMAIN l -> DOMAIN l] :
            /\ \A m \in DOMAIN l : \E a \in DOMAIN l : way[a] = m
            /\ w = [m \in DOMAIN l |-> l[way[m]]]
      BY <2>1 DEF Permuted
    <3>2. PICK i \in DOMAIN l : way[i] = planned[n]
      BY <2>2, <3>1
    <3>. QED BY <3>1, <3>2
  <2>4. PICK i : i = At(w, n)
    OBVIOUS
  <2>5. i \in DOMAIN w
    BY <2>1, <2>3, <2>4
  <2>6. Permuted(MoveItem(w, i, n), w)
    BY <2>1, <2>2, <2>5, MovePermutes
  <2>7. Permuted(MoveItem(w, i, n), l)
    BY <2>1, <2>6, PermutedTwice
  <2>8. MoveItem(w, i, n) \in Seq(Item)
    BY <2>7, PermutedHolds
  <2>. QED BY <2>4, <2>7, <2>8
<1>5. G \in [S \X (1 .. k) -> S]
  <2>. HIDE DEF S, Rest
  <2>. QED BY <1>4
<1>6. PICK f \in [0 .. k -> S] : Iterates(f, l, k, G)
  <2>. HIDE DEF S, G
  <2>. QED BY <1>3, <1>5, Iterated
<1>7. f = [n \in 0 .. k |-> IF n = 0 THEN l ELSE Rest(f[n - 1], n)]
  <2>1. \A n \in 0 .. k : f[n] = IF n = 0 THEN l ELSE Rest(f[n - 1], n)
    <3>. SUFFICES ASSUME NEW n \in 0 .. k, n # 0 PROVE f[n] = Rest(f[n - 1], n)
      BY <1>6 DEF Iterates
    <3>. HIDE DEF S, Rest
    <3>1. n \in 1 .. k /\ f[n - 1] \in S
      BY <1>6
    <3>2. f[n] = G[<<f[n - 1], n>>]
      BY <1>6, <3>1 DEF Iterates
    <3>. QED BY <3>1, <3>2
  <2>. HIDE DEF S, Rest
  <2>. QED BY <1>6, <2>1
<1>. DEFINE g == CHOOSE h : h = [n \in 0 .. k |-> IF n = 0 THEN l ELSE Rest(h[n - 1], n)]
<1>8. g = [n \in 0 .. k |-> IF n = 0 THEN l ELSE Rest(g[n - 1], n)]
  BY <1>7
<1>9. Placed(l, planned) = g[k]
  BY <1>1 DEF Placed
<1>. HIDE DEF g
<1>. DEFINE T == {n \in 0 .. k : g[n] \in S}
<1>10. 0 \in T
  <2>1. g[0] = l
    <3>. HIDE DEF Rest
    <3>. QED BY <1>8
  <2>. QED BY <1>3, <2>1
<1>11. ASSUME NEW n \in 1 .. k, n - 1 \in T PROVE n \in T
  <2>. HIDE DEF S, Rest
  <2>1. g[n] = Rest(g[n - 1], n)
    BY <1>8
  <2>. QED BY <1>4, <1>11, <2>1
<1>12. 0 .. k \subseteq T
  <2>. HIDE DEF T
  <2>. QED BY <1>10, <1>11, CountedUp
<1>13. \A n \in 0 .. k : g[n] \in S
  BY <1>12
<1>14. ASSUME Distinct(l, planned)
       PROVE  \A n \in DOMAIN planned : Placed(l, planned)[n] = l[planned[n]]
  <2>. DEFINE V == {n \in 0 .. k : Fits(g[n], l, planned, n)}
  <2>1. 0 \in V
    BY DEF Fits
  <2>2. ASSUME NEW n \in 1 .. k, n - 1 \in V PROVE n \in V
    <3>1. PICK w : w = g[n - 1]
      OBVIOUS
    <3>2. w \in S /\ Fits(w, l, planned, n - 1)
      <4>1. n - 1 \in 0 .. k
        OBVIOUS
      <4>. QED BY <1>13, <2>2, <3>1, <4>1
    <3>3. w \in Seq(Item) /\ Permuted(w, l) /\ DOMAIN w = DOMAIN l
      BY <3>2, PermutedHolds
    <3>4. n \in DOMAIN l /\ planned[n] \in DOMAIN l
      BY <1>1, <1>2, ElementOfSeq
    <3>5. PICK i : i = At(w, n)
      OBVIOUS
    <3>6. i \in DOMAIN w /\ w[i].id = l[planned[n]].id
      <4>1. PICK way \in [DOMAIN l -> DOMAIN l] :
              /\ \A m \in DOMAIN l : \E a \in DOMAIN l : way[a] = m
              /\ w = [m \in DOMAIN l |-> l[way[m]]]
        BY <3>3 DEF Permuted
      <4>2. PICK a \in DOMAIN l : way[a] = planned[n]
        BY <3>4, <4>1
      <4>. QED BY <3>3, <3>5, <4>1, <4>2
    <3>7. g[n] = MoveItem(w, i, n)
      <4>1. g[n] = Rest(g[n - 1], n)
        <5>. HIDE DEF S, Rest, V
        <5>. QED BY <1>8
      <4>. QED BY <3>1, <3>5, <4>1
    <3>8. n \in DOMAIN planned /\ i \in DOMAIN l
      BY <1>2, <3>3, <3>6
    <3>9. Fits(MoveItem(w, i, n), l, planned, n)
      <4>. HIDE DEF V, S, At, Rest, G
      <4>. QED BY <1>14, <3>2, <3>3, <3>4, <3>6, <3>8, MovePlaces
    <3>. QED BY <3>7, <3>9
  <2>3. 0 .. k \subseteq V
    <3>. HIDE DEF V
    <3>. QED BY <2>1, <2>2, CountedUp
  <2>4. k \in V
    <3>. HIDE DEF V
    <3>1. k \in 0 .. k
      OBVIOUS
    <3>. QED BY <2>3, <3>1
  <2>. QED BY <1>2, <1>9, <2>4 DEF Fits
<1>15. g[k] \in S
  BY <1>13
<1>. QED BY <1>9, <1>14, <1>15

LEMMA OnePerKeyHolds ==
  ASSUME NEW S, IsFiniteSet(S), S \subseteq Nat, NEW keys, \A x \in S : keys[x] \in Nat
  PROVE  /\ OnePerKey(S, keys) \in Seq(S) /\ Len(OnePerKey(S, keys)) <= Cardinality(S)
         /\ \A x \in S : (\A y \in S : keys[y] = keys[x] => y = x)
               => \E n \in DOMAIN OnePerKey(S, keys) : OnePerKey(S, keys)[n] = x
         /\ \A m, n \in DOMAIN OnePerKey(S, keys) :
               m < n => keys[OnePerKey(S, keys)[m]] < keys[OnePerKey(S, keys)[n]]
<1>1. PICK U : U = {k \in S : \A n \in S : n > k => keys[n] # keys[k]}
  OBVIOUS
<1>2. U \in SUBSET S
  BY <1>1
<1>3. IsFiniteSet(U) /\ Cardinality(U) <= Cardinality(S)
  BY <1>2, FS_Subset
<1>4. \A x \in U : keys[x] \in Nat
  BY <1>2
<1>5. \A x, y \in U : keys[x] = keys[y] => x = y
  <2>. SUFFICES ASSUME NEW x \in U, NEW y \in U, keys[x] = keys[y] PROVE x = y
    OBVIOUS
  <2>1. x \in Nat /\ y \in Nat /\ ~ y > x /\ ~ x > y
    BY <1>1
  <2>. QED BY <2>1
<1>6. PICK c, r : c = Cardinality(U) /\ r = Ranked(U, keys)
  OBVIOUS
<1>7. /\ Cardinality(U) \in Nat
      /\ Ranked(U, keys) \in [1 .. Cardinality(U) -> U]
      /\ \A x \in U : \E n \in 1 .. Cardinality(U) : Ranked(U, keys)[n] = x
      /\ \A a, b \in 1 .. Cardinality(U) :
            a < b => keys[Ranked(U, keys)[a]] < keys[Ranked(U, keys)[b]]
  BY <1>3, <1>4, <1>5, RankedHolds
<1>8. c \in Nat /\ r \in [1 .. c -> S]
  BY <1>2, <1>6, <1>7
<1>9. r \in Seq(S)
  BY <1>8, SeqDef
<1>10. Len(r) = c
  BY <1>8, <1>9, LenProperties
<1>11. r = OnePerKey(S, keys)
  BY <1>1, <1>6 DEF OnePerKey
<1>12. /\ DOMAIN r = 1 .. c /\ \A x \in U : \E n \in 1 .. c : r[n] = x
       /\ \A a, b \in 1 .. c : a < b => keys[r[a]] < keys[r[b]]
  BY <1>6, <1>7
<1>13. \A x \in S : (\A y \in S : keys[y] = keys[x] => y = x) => x \in U
  <2>1. \A x \in S : ~ x > x
    OBVIOUS
  <2>. QED BY <1>1, <2>1
<1>. QED BY <1>3, <1>6, <1>9, <1>10, <1>11, <1>12, <1>13

LEMMA ReorderPermutes ==
  ASSUME NEW l \in Seq(Item), NEW order \in [Paths -> Nat \cup {NoPosition}]
  PROVE  Permuted(ReorderItems(l, order), l)
<1>1. PICK c \in Nat : c = Len(l) /\ DOMAIN l = 1 .. c
  BY LenProperties
<1>2. \A k \in DOMAIN l : l[k].path \in Paths
  <2>1. \A k \in DOMAIN l : l[k] \in Item
    BY LenProperties, ElementOfSeq
  <2>. QED BY <2>1 DEF Item
<1>3. PICK ps, ts : /\ ps = [k \in DOMAIN l |-> Position(order, l[k].path)]
                    /\ ts = [k \in DOMAIN l |-> Title[l[k].path]]
  OBVIOUS
<1>4. PICK S : S = {k \in DOMAIN l : ps[k] # NoPosition}
  OBVIOUS
<1>5. \A k \in S : ps[k] \in Nat
  <2>. SUFFICES ASSUME NEW k \in S PROVE ps[k] \in Nat
    OBVIOUS
  <2>1. ps[k] = Position(order, l[k].path) /\ ps[k] # NoPosition /\ l[k].path \in Paths
    BY <1>2, <1>3, <1>4
  <2>. QED BY <2>1, PathsAssumption DEF Position
<1>6. \A k \in DOMAIN l \ S : ts[k] \in Nat
  BY <1>2, <1>3, PathsAssumption
<1>7. IsFiniteSet(DOMAIN l) /\ Cardinality(DOMAIN l) = c /\ DOMAIN l \subseteq Nat
  <2>1. IsFiniteSet(1 .. c) /\ Cardinality(1 .. c) = c
    BY FS_Interval
  <2>2. 1 .. c \subseteq Nat
    OBVIOUS
  <2>. QED BY <1>1, <2>1, <2>2
<1>8. PICK R : R = DOMAIN l \ S
  OBVIOUS
<1>9. /\ S \in SUBSET DOMAIN l /\ R \in SUBSET DOMAIN l
      /\ S \subseteq Nat /\ R \subseteq Nat /\ S \cup R = DOMAIN l /\ S \cap R = {}
  BY <1>4, <1>7, <1>8
<1>10. IsFiniteSet(S) /\ IsFiniteSet(R)
  BY <1>7, <1>9, FS_Subset
<1>11. Cardinality(S) \in Nat /\ Cardinality(R) \in Nat /\ Cardinality(S) + Cardinality(R) = c
  <2>1. Cardinality(S) \in Nat /\ Cardinality(R) \in Nat /\ Cardinality(S \cap R) = 0
    BY <1>9, <1>10, FS_CardinalityType, FS_EmptySet
  <2>2. Cardinality(S \cup R) = Cardinality(S) + Cardinality(R) - Cardinality(S \cap R)
    BY <1>10, FS_Union
  <2>. QED BY <1>7, <1>9, <2>1, <2>2
<1>12. PICK a, b : a = OnePerKey(S, ps) /\ b = OnePerKey(R, ts)
  OBVIOUS
<1>13. a \in Seq(S) /\ Len(a) <= Cardinality(S)
  BY <1>5, <1>9, <1>10, <1>12, OnePerKeyHolds
<1>14. b \in Seq(R) /\ Len(b) <= Cardinality(R)
  BY <1>6, <1>8, <1>9, <1>10, <1>12, OnePerKeyHolds
<1>15. a \in Seq(DOMAIN l) /\ b \in Seq(DOMAIN l)
  BY <1>9, <1>13, <1>14, SeqMonotonic
<1>16. Len(a) \in Nat /\ Len(b) \in Nat
  BY <1>15, LenProperties
<1>17. PICK planned : planned = a \o b
  OBVIOUS
<1>18. planned \in Seq(DOMAIN l) /\ Len(planned) = Len(a) + Len(b)
  BY <1>15, <1>17, ConcatProperties
<1>19. Len(planned) <= Len(l)
  BY <1>1, <1>11, <1>13, <1>14, <1>16, <1>18
<1>20. ReorderItems(l, order) = Placed(l, planned)
  BY <1>3, <1>4, <1>8, <1>12, <1>17 DEF ReorderItems
<1>. QED BY <1>18, <1>19, <1>20, PlacedPermutes

-----------------------------------------------------------------------------
(* Lists made from others: all the items, or all but one, or one changed.    *)
LEMMA PermutedPicks ==
  ASSUME NEW T, NEW old \in Seq(T), NEW new, Permuted(new, old)
  PROVE  new \in Seq(T) /\ Picked(new, old, DOMAIN old)
<1>1. new \in Seq(T) /\ DOMAIN new = DOMAIN old
  BY PermutedHolds
<1>2. PICK way \in [DOMAIN old -> DOMAIN old] :
     /\ \A a, b \in DOMAIN old : way[a] = way[b] => a = b
     /\ \A n \in DOMAIN old : \E a \in DOMAIN old : way[a] = n
     /\ new = [n \in DOMAIN old |-> old[way[n]]]
  BY DEF Permuted
<1>3. /\ way \in [DOMAIN new -> DOMAIN old]
      /\ \A a, b \in DOMAIN new : way[a] = way[b] => a = b
      /\ \A n \in DOMAIN old : \E a \in DOMAIN new : way[a] = n
  BY <1>1, <1>2
<1>4. \A n \in DOMAIN new : new[n] = old[way[n]]
  BY <1>1, <1>2
<1>. QED BY <1>1, <1>3, <1>4 DEF Picked

LEMMA RemoveAtPicks ==
  ASSUME NEW T, NEW q \in Seq(T), NEW i \in DOMAIN q
  PROVE  /\ RemoveAt(q, i) \in Seq(T) /\ Picked(RemoveAt(q, i), q, DOMAIN q \ {i})
         /\ InTurn(RemoveAt(q, i), q)
<1>1. PICK c \in Nat : c = Len(q)
  BY LenProperties
<1>2. DOMAIN q = 1 .. c /\ i \in 1 .. c /\ \A n \in 1 .. c : q[n] \in T
  BY <1>1, LenProperties, ElementOfSeq
<1>3. PICK a, b : a = SubSeq(q, 1, i - 1) /\ b = SubSeq(q, i + 1, c)
  OBVIOUS
<1>4. a \in Seq(T) /\ Len(a) = i - 1 /\ \A n \in 1 .. i - 1 : a[n] = q[n]
  <2>1. 1 \in Int /\ i - 1 \in Int /\ \A n \in 1 .. i - 1 : q[n] \in T
    BY <1>2
  <2>2. /\ a \in Seq(T) /\ Len(a) = IF 1 <= i - 1 THEN i - 1 - 1 + 1 ELSE 0
        /\ \A n \in 1 .. i - 1 - 1 + 1 : a[n] = q[1 + n - 1]
    BY <1>3, <2>1, SubSeqProperties
  <2>. QED BY <1>2, <2>2
<1>5. b \in Seq(T) /\ Len(b) = c - i /\ \A n \in 1 .. c - i : b[n] = q[i + n]
  <2>1. i + 1 \in Int /\ c \in Int /\ \A n \in i + 1 .. c : q[n] \in T
    BY <1>1, <1>2
  <2>2. /\ b \in Seq(T) /\ Len(b) = IF i + 1 <= c THEN c - (i + 1) + 1 ELSE 0
        /\ \A n \in 1 .. c - (i + 1) + 1 : b[n] = q[i + 1 + n - 1]
    BY <1>3, <2>1, SubSeqProperties
  <2>3. \A n \in 1 .. c - i : n \in 1 .. c - (i + 1) + 1 /\ i + 1 + n - 1 = i + n
    BY <1>1, <1>2
  <2>. QED BY <1>1, <1>2, <2>2, <2>3
<1>6. PICK r : r = a \o b
  OBVIOUS
<1>7. /\ r \in Seq(T) /\ Len(r) = c - 1
      /\ \A n \in 1 .. c - 1 : r[n] = IF n <= i - 1 THEN a[n] ELSE b[n - (i - 1)]
  <2>1. /\ r \in Seq(T) /\ Len(r) = Len(a) + Len(b)
        /\ \A n \in 1 .. Len(a) + Len(b) : r[n] = IF n <= Len(a) THEN a[n] ELSE b[n - Len(a)]
    BY <1>4, <1>5, <1>6, ConcatProperties
  <2>2. Len(a) + Len(b) = c - 1
    <3>1. i \in Nat /\ c \in Nat
      BY <1>2
    <3>2. Len(a) = i - 1 /\ Len(b) = c - i
      BY <1>4, <1>5
    <3>. QED BY <3>1, <3>2
  <2>. QED BY <1>4, <2>1, <2>2
<1>8. \A n \in 1 .. c - 1 : r[n] = IF n < i THEN q[n] ELSE q[n + 1]
  <2>. SUFFICES ASSUME NEW n \in 1 .. c - 1 PROVE r[n] = IF n < i THEN q[n] ELSE q[n + 1]
    OBVIOUS
  <2>1. CASE n < i
    <3>1. n \in 1 .. i - 1
      BY <1>2, <2>1
    <3>. QED BY <1>2, <1>4, <1>7, <2>1, <3>1
  <2>2. CASE ~ n < i
    <3>1. n - (i - 1) \in 1 .. c - i /\ i + (n - (i - 1)) = n + 1 /\ ~ n <= i - 1
      BY <1>1, <1>2, <2>2
    <3>2. r[n] = b[n - (i - 1)]
      BY <1>7, <3>1
    <3>3. b[n - (i - 1)] = q[i + (n - (i - 1))]
      BY <1>5, <3>1
    <3>. QED BY <2>2, <3>1, <3>2, <3>3
  <2>. QED BY <2>1, <2>2
<1>9. PICK way : way = [n \in 1 .. c - 1 |-> IF n < i THEN n ELSE n + 1]
  OBVIOUS
<1>10. DOMAIN r = 1 .. c - 1
  BY <1>7, LenProperties
<1>11. way \in [DOMAIN r -> DOMAIN q \ {i}]
  BY <1>1, <1>2, <1>9, <1>10
<1>12. \A x, y \in DOMAIN r : way[x] = way[y] => x = y
  BY <1>1, <1>2, <1>9, <1>10
<1>13. \A n \in DOMAIN q \ {i} : \E x \in DOMAIN r : way[x] = n
  <2>. SUFFICES ASSUME NEW n \in 1 .. c, n # i PROVE \E x \in 1 .. c - 1 : way[x] = n
    BY <1>2, <1>10
  <2>1. CASE n < i
    <3>1. n \in 1 .. c - 1 /\ way[n] = n
      BY <1>2, <1>9, <2>1
    <3>. QED BY <3>1
  <2>2. CASE ~ n < i
    <3>1. n - 1 \in 1 .. c - 1 /\ ~ n - 1 < i /\ (n - 1) + 1 = n
      BY <1>2, <2>2
    <3>2. way[n - 1] = n
      BY <1>9, <3>1
    <3>. QED BY <3>1, <3>2
  <2>. QED BY <2>1, <2>2
<1>14. \A n \in DOMAIN r : r[n] = q[way[n]]
  BY <1>8, <1>9, <1>10
<1>15. r = RemoveAt(q, i)
  BY <1>1, <1>3, <1>6 DEF RemoveAt
<1>16. InTurn(r, q)
  <2>1. way \in [DOMAIN r -> DOMAIN q]
    BY <1>11
  <2>2. \A x, y \in DOMAIN r : x < y => way[x] < way[y]
    BY <1>1, <1>2, <1>9, <1>10
  <2>. QED BY <1>14, <2>1, <2>2 DEF InTurn
<1>. QED BY <1>7, <1>11, <1>12, <1>13, <1>14, <1>15, <1>16 DEF Picked

-----------------------------------------------------------------------------
(* The launchers of a list differ in their identities and in their files.    *)
Differ(l) ==
  /\ l \in Seq(Item)
  /\ \A i, j \in DOMAIN l : l[i].id = l[j].id => i = j
  /\ \A i, j \in DOMAIN l : l[i].path = l[j].path => i = j

TempIds(l) == {l[k].id : k \in {n \in DOMAIN l : l[n].temp}}

State == [list : Seq(Item), temps : SUBSET Nat, hidden : [Files -> Nat],
          refresh : SUBSET Files]

(* A state of the model under way.                                           *)
Good(m) == m \in State /\ Differ(m.list) /\ m.temps = TempIds(m.list)

(* What becomes of an item while the monitor's files are handled: it stays   *)
(* the same launcher, unless it is temporary and gets a file of its own; and *)
(* an item that comes belongs to no package.                                 *)
From(i, j) ==
  /\ i.id = j.id /\ i.pkg = j.pkg
  /\ \/ i.path = j.path /\ i.temp = j.temp /\ i.updating = j.updating
     \/ i.temp = FALSE /\ j.temp = TRUE /\ i.path \in Files

Fresh(i) == i.temp = FALSE /\ i.pkg = NoPackage /\ i.path \in Files

Stems(new, old) ==
  \A k \in DOMAIN new : Fresh(new[k]) \/ \E n \in DOMAIN old : From(new[k], old[n])

LEMMA StemsItself == \A l : Stems(l, l)
BY DEF Stems, From

LEMMA StemsTwice ==
  ASSUME NEW old, NEW mid, NEW new, Stems(mid, old), Stems(new, mid)
  PROVE  Stems(new, old)
<1>. SUFFICES ASSUME NEW k \in DOMAIN new, ~ Fresh(new[k])
              PROVE  \E n \in DOMAIN old : From(new[k], old[n])
  BY DEF Stems
<1>1. PICK j \in DOMAIN mid : From(new[k], mid[j])
  BY DEF Stems
<1>2. ~ Fresh(mid[j])
  BY <1>1 DEF From, Fresh
<1>3. PICK n \in DOMAIN old : From(mid[j], old[n])
  BY <1>2 DEF Stems
<1>4. From(new[k], old[n])
  BY <1>1, <1>3 DEF From
<1>. QED BY <1>4

LEMMA PickedDiffer ==
  ASSUME NEW old, Differ(old), NEW S \in SUBSET DOMAIN old,
         NEW new \in Seq(Item), Picked(new, old, S)
  PROVE  /\ Differ(new) /\ Stems(new, old)
         /\ TempIds(new) = {old[k].id : k \in {n \in S : old[n].temp}}
<1>1. PICK way \in [DOMAIN new -> S] :
     /\ \A a, b \in DOMAIN new : way[a] = way[b] => a = b
     /\ \A n \in S : \E a \in DOMAIN new : way[a] = n
     /\ \A n \in DOMAIN new : new[n] = old[way[n]]
  BY DEF Picked
<1>2. \A n \in DOMAIN new : way[n] \in DOMAIN old /\ way[n] \in S /\ new[n] = old[way[n]]
  BY <1>1
<1>3. Differ(new)
  BY <1>1, <1>2 DEF Differ
<1>4. Stems(new, old)
  BY <1>2 DEF Stems, From
<1>5. TempIds(new) = {old[k].id : k \in {n \in S : old[n].temp}}
  BY <1>1, <1>2 DEF TempIds
<1>. QED BY <1>3, <1>4, <1>5

LEMMA ItemsOf ==
  ASSUME NEW l \in Seq(Item)
  PROVE  /\ Len(l) \in Nat /\ DOMAIN l = 1 .. Len(l) /\ \A k \in DOMAIN l : l[k] \in Item
         /\ \A k \in DOMAIN l : l[k].id \in Nat /\ l[k].path \in Paths /\ l[k].temp \in BOOLEAN
<1>1. Len(l) \in Nat /\ DOMAIN l = 1 .. Len(l) /\ \A k \in DOMAIN l : l[k] \in Item
  BY LenProperties, ElementOfSeq
<1>. QED BY <1>1 DEF Item

LEMMA DropAtGood ==
  ASSUME NEW m, Good(m), NEW k \in DOMAIN m.list
  PROVE  Good(DropAt(m, k)) /\ Stems(DropAt(m, k).list, m.list)
<1>1. PICK l, r : l = m.list /\ r = RemoveAt(l, k)
  OBVIOUS
<1>2. Differ(l) /\ l \in Seq(Item) /\ k \in DOMAIN l
  BY <1>1 DEF Good, Differ
<1>3. r \in Seq(Item) /\ Picked(r, l, DOMAIN l \ {k})
  BY <1>1, <1>2, RemoveAtPicks
<1>4. Differ(r) /\ Stems(r, l) /\ TempIds(r) = {l[n].id : n \in {i \in DOMAIN l \ {k} : l[i].temp}}
  BY <1>2, <1>3, PickedDiffer
<1>5. TempIds(r) = TempIds(l) \ {l[k].id}
  BY <1>2, <1>4 DEF TempIds, Differ
<1>6. DropAt(m, k) = [m EXCEPT !.list = r, !.temps = m.temps \ {l[k].id}]
  BY <1>1 DEF DropAt
<1>7. /\ DropAt(m, k) \in State /\ DropAt(m, k).list = r
      /\ DropAt(m, k).temps = m.temps \ {l[k].id}
  BY <1>3, <1>6 DEF Good, State
<1>. QED BY <1>1, <1>4, <1>5, <1>7 DEF Good

LEMMA ChangedAtGood ==
  ASSUME NEW m, Good(m), NEW k \in DOMAIN m.list, NEW item \in Item,
         From(item, m.list[k]),
         \A n \in DOMAIN m.list : m.list[n].path = item.path => n = k,
         NEW new, new \in State, new.list = [m.list EXCEPT ![k] = item],
         new.temps = IF item.temp THEN m.temps ELSE m.temps \ {item.id}
  PROVE  Good(new) /\ Stems(new.list, m.list)
<1>1. PICK l, r : l = m.list /\ r = new.list
  OBVIOUS
<1>2. Differ(l) /\ l \in Seq(Item) /\ r \in Seq(Item) /\ k \in DOMAIN l
  BY <1>1 DEF Good, State
<1>3. DOMAIN r = DOMAIN l /\ r[k] = item /\ \A n \in DOMAIN l \ {k} : r[n] = l[n]
  BY <1>1, <1>2
<1>4. item.id = l[k].id /\ (item.temp => l[k].temp) /\ From(item, l[k])
  BY <1>1 DEF From
<1>5. Differ(r)
  <2>1. \A i, j \in DOMAIN l : r[i].id = r[j].id => i = j
    BY <1>2, <1>3, <1>4 DEF Differ
  <2>2. \A i, j \in DOMAIN l : r[i].path = r[j].path => i = j
    BY <1>1, <1>2, <1>3 DEF Differ
  <2>. QED BY <1>2, <1>3, <2>1, <2>2 DEF Differ
<1>6. Stems(r, l)
  <2>1. \A n \in DOMAIN l : From(r[n], l[n])
    BY <1>3, <1>4 DEF From
  <2>. QED BY <1>3, <2>1 DEF Stems
<1>7. TempIds(r) = IF item.temp THEN TempIds(l) ELSE TempIds(l) \ {item.id}
  <2>1. \A n \in DOMAIN l : l[n].id = l[k].id => n = k
    BY <1>2 DEF Differ
  <2>2. CASE item.temp
    <3>1. \A n \in DOMAIN l : r[n].temp = l[n].temp /\ r[n].id = l[n].id
      <4>1. item.temp = TRUE /\ l[k].temp = TRUE
        BY <1>1, <1>2, <1>4, <2>2, ItemsOf DEF Item
      <4>. QED BY <1>3, <1>4, <4>1
    <3>. QED BY <1>3, <2>2, <3>1 DEF TempIds
  <2>3. CASE ~ item.temp
    BY <1>3, <1>4, <2>1, <2>3 DEF TempIds
  <2>. QED BY <2>2, <2>3
<1>8. new.temps = TempIds(r)
  BY <1>1, <1>7 DEF Good
<1>. QED BY <1>1, <1>5, <1>6, <1>8 DEF Good

-----------------------------------------------------------------------------
(* What is found in a list.                                                  *)
LEMMA MinOf ==
  ASSUME NEW S \in SUBSET Nat, S # {}
  PROVE  Min(S) \in S
<1>1. \E x \in S : \A y \in S : x =< y
  BY LeastOf
<1>. QED BY <1>1 DEF Min

LEMMA FindHolds ==
  ASSUME NEW l \in Seq(Item), NEW path
  PROVE  /\ Find(l, path) # 0 => Find(l, path) \in DOMAIN l /\ l[Find(l, path)].path = path
         /\ Find(l, path) = 0 => \A k \in DOMAIN l : l[k].path # path
         /\ Find(l, path) \in 0 .. Len(l)
<1>1. Len(l) \in Nat /\ DOMAIN l = 1 .. Len(l)
  BY ItemsOf
<1>2. PICK S : S = {i \in 1 .. Len(l) : l[i].path = path}
  OBVIOUS
<1>3. Find(l, path) = IF S # {} THEN Min(S) ELSE 0
  BY <1>2 DEF Find, SelectInSeq
<1>4. S # {} => Min(S) \in S
  <2>1. S \in SUBSET Nat
    BY <1>1, <1>2
  <2>. QED BY <2>1, MinOf
<1>. QED BY <1>1, <1>2, <1>3, <1>4

LEMMA FindsIt ==
  ASSUME NEW l, Differ(l), NEW k \in DOMAIN l
  PROVE  Find(l, l[k].path) = k
BY FindHolds DEF Differ

LEMMA UsedIds ==
  ASSUME NEW l \in Seq(Item)
  PROVE  IsFiniteSet({l[k].id : k \in DOMAIN l})
<1>1. PICK U : U = {l[k].id : k \in DOMAIN l}
  OBVIOUS
<1>2. PICK f : f = [k \in DOMAIN l |-> l[k].id]
  OBVIOUS
<1>3. f \in Surjection(DOMAIN l, U)
  BY <1>1, <1>2 DEF Surjection
<1>4. IsFiniteSet(DOMAIN l)
  BY ItemsOf, FS_Interval
<1>5. IsFiniteSet(U)
  BY <1>3, <1>4, FS_Surjection
<1>. QED BY <1>1, <1>5

LEMMA NewIdHolds ==
  ASSUME NEW m, Good(m)
  PROVE  NewId(m) \in Nat /\ \A k \in DOMAIN m.list : m.list[k].id # NewId(m)
<1>1. PICK l : l = m.list
  OBVIOUS
<1>2. Differ(l) /\ l \in Seq(Item) /\ m.temps = TempIds(l)
  BY <1>1 DEF Good, Differ
<1>3. PICK used : used = m.temps \cup {i.id : i \in Range(l)}
  OBVIOUS
<1>4. used = {l[k].id : k \in DOMAIN l}
  BY <1>2, <1>3 DEF TempIds, Range
<1>5. IsFiniteSet(used)
  BY <1>2, <1>4, UsedIds
<1>6. PICK c : c = Cardinality(used)
  OBVIOUS
<1>7. c \in Nat
  BY <1>5, <1>6, FS_CardinalityType
<1>8. PICK free : free = (1 .. c + 1) \ used
  OBVIOUS
<1>9. free # {}
  <2>. SUFFICES ASSUME 1 .. c + 1 \in SUBSET used PROVE FALSE
    BY <1>8
  <2>1. Cardinality(1 .. c + 1) <= c
    BY <1>5, <1>6, FS_Subset
  <2>2. 1 \in Int /\ c + 1 \in Int
    BY <1>7
  <2>3. Cardinality(1 .. c + 1) = c + 1
    BY <1>7, <2>2, FS_Interval
  <2>. QED BY <1>7, <2>1, <2>3
<1>10. free \in SUBSET Nat
  BY <1>7, <1>8
<1>11. PICK x \in free : \A y \in free : x <= y
  BY <1>9, <1>10, LeastOf
<1>12. x \in 1 .. c + 1 /\ x \notin used /\ 1 .. x - 1 \subseteq used
  <2>1. x \in 1 .. c + 1 /\ x \notin used
    BY <1>8
  <2>2. ASSUME NEW y \in 1 .. x - 1 PROVE y \in used
    <3>1. y \in 1 .. c + 1 /\ ~ x <= y
      BY <1>7, <2>1
    <3>. QED BY <1>8, <1>11, <3>1
  <2>. QED BY <2>1, <2>2
<1>13. NewId(m) = CHOOSE id \in 1 .. c + 1 : id \notin used /\ 1 .. id - 1 \subseteq used
  BY <1>1, <1>3, <1>6 DEF NewId
<1>14. NewId(m) \in 1 .. c + 1 /\ NewId(m) \notin used
  BY <1>12, <1>13
<1>. QED BY <1>1, <1>4, <1>7, <1>14

FilesHeld == files \in [Files -> Contents \cup {Absent}]

LEMMA NewItemHolds ==
  ASSUME FilesHeld, NEW m, Good(m), NEW path \in Paths
  PROVE  /\ NewItem(m, path) \in Item
         /\ NewItem(m, path).path = path /\ NewItem(m, path).temp = FALSE
         /\ NewItem(m, path).pkg = NoPackage /\ NewItem(m, path).updating = FALSE
         /\ \A k \in DOMAIN m.list : m.list[k].id # NewItem(m, path).id
<1>1. NewId(m) \in Nat /\ \A k \in DOMAIN m.list : m.list[k].id # NewId(m)
  BY NewIdHolds
<1>2. ContentOf(path) \in Contents \cup {Absent}
  BY DEF ContentOf, FilesHeld
<1>3. NewItem(m, path) \in Item
  BY <1>1, <1>2 DEF NewItem, Item
<1>. QED BY <1>1, <1>3 DEF NewItem

LEMMA AppendedGood ==
  ASSUME NEW m, Good(m), NEW item \in Item,
         \A k \in DOMAIN m.list : m.list[k].id # item.id /\ m.list[k].path # item.path,
         NEW new, new \in State, new.list = Append(m.list, item),
         new.temps = IF item.temp THEN m.temps \cup {item.id} ELSE m.temps
  PROVE  Good(new) /\ (Fresh(item) => Stems(new.list, m.list))
<1>1. PICK l, r : l = m.list /\ r = new.list
  OBVIOUS
<1>2. Differ(l) /\ l \in Seq(Item) /\ r \in Seq(Item)
  BY <1>1 DEF Good, State
<1>3. PICK c \in Nat : c = Len(l)
  BY <1>2, ItemsOf
<1>4. DOMAIN l = 1 .. c
  BY <1>2, <1>3, ItemsOf
<1>5. /\ Len(r) = c + 1 /\ (\A n \in 1 .. c : r[n] = l[n]) /\ r[c + 1] = item
  BY <1>1, <1>2, <1>3, AppendProperties
<1>6. DOMAIN r = 1 .. c + 1
  BY <1>2, <1>5, ItemsOf
<1>7. \A n \in DOMAIN r : (n \in DOMAIN l /\ r[n] = l[n]) \/ (n = c + 1 /\ r[n] = item)
  <2>1. \A n \in 1 .. c + 1 : n \in 1 .. c \/ n = c + 1
    BY <1>3
  <2>. QED BY <1>4, <1>5, <1>6, <2>1
<1>7a. c + 1 \in DOMAIN r /\ \A n \in DOMAIN l : n \in DOMAIN r /\ r[n] = l[n]
  <2>1. c + 1 \in 1 .. c + 1 /\ \A n \in 1 .. c : n \in 1 .. c + 1
    BY <1>3
  <2>. QED BY <1>4, <1>5, <1>6, <2>1
<1>8. Differ(r)
  BY <1>1, <1>2, <1>7 DEF Differ
<1>9. TempIds(r) = IF item.temp THEN TempIds(l) \cup {item.id} ELSE TempIds(l)
  BY <1>5, <1>7, <1>7a DEF TempIds
<1>10. Fresh(item) => Stems(r, l)
  BY <1>7 DEF Stems, From
<1>. QED BY <1>1, <1>8, <1>9, <1>10 DEF Good

-----------------------------------------------------------------------------
(* onFilesUpdated, file by file.                                             *)
LEMMA UnsetTemporaryGood ==
  ASSUME NEW m, Good(m), NEW k \in DOMAIN m.list, m.list[k].path \in Files
  PROVE  Good(UnsetTemporary(m, k)) /\ Stems(UnsetTemporary(m, k).list, m.list)
<1>1. m \in State /\ m.list \in Seq(Item) /\ Differ(m.list)
  BY DEF Good, Differ
<1>2. m.list[k] \in Item
  BY <1>1, ItemsOf
<1>3. PICK item : item = [m.list[k] EXCEPT !.temp = FALSE]
  OBVIOUS
<1>4. /\ item \in Item /\ item.temp = FALSE /\ item.id = m.list[k].id
      /\ item.path = m.list[k].path /\ item.pkg = m.list[k].pkg
      /\ item.updating = m.list[k].updating
  BY <1>2, <1>3 DEF Item
<1>5. PICK new : new = [m EXCEPT !.list = [m.list EXCEPT ![k] = item],
                                 !.temps = m.temps \ {item.id}]
  OBVIOUS
<1>6. UnsetTemporary(m, k) = new
  BY <1>3, <1>4, <1>5 DEF UnsetTemporary
<1>7. /\ new \in State /\ new.list = [m.list EXCEPT ![k] = item]
      /\ new.temps = m.temps \ {item.id}
  <2>1. [m.list EXCEPT ![k] = item] \in Seq(Item)
    BY <1>1, <1>4, ItemsOf, ExceptSeq
  <2>. QED BY <1>1, <1>5, <2>1 DEF State
<1>8. From(item, m.list[k])
  BY <1>2, <1>4 DEF From, Item
<1>9. \A n \in DOMAIN m.list : m.list[n].path = item.path => n = k
  BY <1>1, <1>4 DEF Differ
<1>10. new.temps = IF item.temp THEN m.temps ELSE m.temps \ {item.id}
  BY <1>4, <1>7
<1>. QED BY <1>4, <1>6, <1>7, <1>8, <1>9, <1>10, ChangedAtGood

(* Nothing but the count of hidden launchers, or of files to refresh.        *)
LEMMA SameListGood ==
  ASSUME NEW m, Good(m), NEW new, new \in State, new.list = m.list, new.temps = m.temps
  PROVE  Good(new) /\ Stems(new.list, m.list)
BY StemsItself DEF Good

LEMMA TakeHiddenGood ==
  ASSUME NEW m, Good(m), NEW f \in Files
  PROVE  Good(TakeHidden(m, f)) /\ TakeHidden(m, f).list = m.list
<1>1. m \in State
  BY DEF Good
<1>2. PICK h : h = [m.hidden EXCEPT ![f] = IF @ > 0 THEN @ - 1 ELSE 0]
  OBVIOUS
<1>3. h \in [Files -> Nat]
  BY <1>1, <1>2 DEF State
<1>4. TakeHidden(m, f) = [m EXCEPT !.hidden = h]
  BY <1>2 DEF TakeHidden
<1>5. /\ TakeHidden(m, f) \in State
      /\ TakeHidden(m, f).list = m.list /\ TakeHidden(m, f).temps = m.temps
  BY <1>1, <1>3, <1>4 DEF State
<1>. QED BY <1>5 DEF Good

LEMMA RemoveFileGood ==
  ASSUME NEW m, Good(m), NEW f \in Files
  PROVE  Good(RemoveFile(m, f)) /\ Stems(RemoveFile(m, f).list, m.list)
<1>1. PICK k : k = Find(m.list, f)
  OBVIOUS
<1>2. CASE k # 0
  <2>1. k \in DOMAIN m.list
    BY <1>1, <1>2, FindHolds DEF Good, Differ
  <2>2. RemoveFile(m, f) = DropAt(m, k)
    BY <1>1, <1>2 DEF RemoveFile
  <2>. QED BY <2>1, <2>2, DropAtGood
<1>3. CASE k = 0
  <2>1. RemoveFile(m, f) = TakeHidden(m, f)
    BY <1>1, <1>3 DEF RemoveFile
  <2>. QED BY <2>1, TakeHiddenGood, StemsItself
<1>. QED BY <1>2, <1>3

LEMMA AddItemIfValidGood ==
  ASSUME FilesHeld, NEW m, Good(m), NEW f \in Files, \A k \in DOMAIN m.list : m.list[k].path # f
  PROVE  Good(AddItemIfValid(m, f)) /\ Stems(AddItemIfValid(m, f).list, m.list)
<1>1. m \in State
  BY DEF Good
<1>2. CASE AddItemIfValid(m, f) = m
  BY <1>2, StemsItself
<1>3. CASE AddItemIfValid(m, f) = [m EXCEPT !.hidden[f] = @ + 1]
  <2>1. PICK h, new : h = [m.hidden EXCEPT ![f] = @ + 1] /\ new = [m EXCEPT !.hidden = h]
    OBVIOUS
  <2>2. new \in State /\ new.list = m.list /\ new.temps = m.temps
    <3>1. h \in [Files -> Nat]
      BY <1>1, <2>1 DEF State
    <3>. QED BY <1>1, <2>1, <3>1 DEF State
  <2>. QED BY <1>3, <2>1, <2>2, SameListGood
<1>4. CASE AddItemIfValid(m, f) = [m EXCEPT !.list = Append(@, NewItem(m, f))]
  <2>1. PICK item : item = NewItem(m, f)
    OBVIOUS
  <2>2. f \in Paths
    BY DEF Paths
  <2>3. /\ item \in Item /\ item.path = f /\ item.temp = FALSE /\ item.pkg = NoPackage
        /\ \A k \in DOMAIN m.list : m.list[k].id # item.id
    BY <2>1, <2>2, NewItemHolds
  <2>4. PICK new : new = [m EXCEPT !.list = Append(m.list, item)]
    OBVIOUS
  <2>5. m.list \in Seq(Item) /\ Append(m.list, item) \in Seq(Item)
    BY <1>1, <2>3, AppendProperties DEF State
  <2>6. new \in State /\ new.list = Append(m.list, item) /\ new.temps = m.temps
    BY <1>1, <2>4, <2>5 DEF State
  <2>7. new.temps = IF item.temp THEN m.temps \cup {item.id} ELSE m.temps
    BY <2>3, <2>6
  <2>8. Fresh(item)
    BY <2>3 DEF Fresh
  <2>9. \A k \in DOMAIN m.list : m.list[k].id # item.id /\ m.list[k].path # item.path
    BY <2>3
  <2>10. Good(new) /\ Stems(new.list, m.list)
    BY <2>3, <2>6, <2>7, <2>8, <2>9, AppendedGood
  <2>. QED BY <1>4, <2>1, <2>4, <2>10
<1>. QED BY <1>2, <1>3, <1>4 DEF AddItemIfValid

LEMMA TemporaryToReplaceHolds ==
  ASSUME NEW m, Good(m), TemporaryToReplace(m) # 0
  PROVE  TemporaryToReplace(m) \in DOMAIN m.list /\ m.list[TemporaryToReplace(m)].temp = TRUE
<1>. DEFINE At(S) == SelectInSeq(m.list, LAMBDA i : i.id \in S)
<1>1. m.list \in Seq(Item) /\ Differ(m.list) /\ m.temps = TempIds(m.list)
  BY DEF Good, Differ
<1>2. Len(m.list) \in Nat /\ DOMAIN m.list = 1 .. Len(m.list)
  BY <1>1, ItemsOf
<1>3. ASSUME NEW S \in SUBSET m.temps, At(S) # 0
      PROVE  At(S) \in DOMAIN m.list /\ m.list[At(S)].temp = TRUE
  <2>1. PICK I : I = {i \in 1 .. Len(m.list) : m.list[i].id \in S}
    OBVIOUS
  <2>2. At(S) = IF I # {} THEN Min(I) ELSE 0
    BY <2>1 DEF SelectInSeq
  <2>3. I # {} /\ At(S) = Min(I)
    BY <1>3, <2>2
  <2>4. I \in SUBSET Nat
    BY <1>2, <2>1
  <2>5. At(S) \in I
    BY <2>3, <2>4, MinOf
  <2>6. PICK k : k = At(S)
    OBVIOUS
  <2>7. k \in DOMAIN m.list /\ m.list[k].id \in TempIds(m.list)
    BY <1>1, <1>2, <2>1, <2>5, <2>6
  <2>8. PICK n \in DOMAIN m.list : m.list[n].temp /\ m.list[n].id = m.list[k].id
    BY <2>7 DEF TempIds
  <2>9. n = k
    BY <1>1, <2>7, <2>8 DEF Differ
  <2>10. m.list[k].temp = TRUE
    BY <1>1, <2>7, <2>8, <2>9, ItemsOf
  <2>. QED BY <2>6, <2>7, <2>10
<1>. DEFINE finished == {t \in m.temps : \E i \in Range(m.list) : i.id = t /\ ~ i.updating}
<1>4. TemporaryToReplace(m) = IF Cardinality(m.temps) = 1 THEN At(m.temps)
                              ELSE IF Cardinality(finished) = 1 THEN At(finished) ELSE 0
  BY DEF TemporaryToReplace
<1>5. finished \in SUBSET m.temps /\ m.temps \in SUBSET m.temps
  OBVIOUS
<1>. HIDE DEF At, finished
<1>. QED BY <1>3, <1>4, <1>5

LEMMA AddFileGood ==
  ASSUME FilesHeld, NEW m, Good(m), NEW f \in Files
  PROVE  Good(AddFile(m, f)) /\ Stems(AddFile(m, f).list, m.list)
<1>. DEFINE Arrived(n, i) == [UnsetTemporary(n, i) EXCEPT !.refresh = @ \cup {f}]
<1>1. m \in State /\ m.list \in Seq(Item) /\ Differ(m.list) /\ m.temps = TempIds(m.list)
  BY DEF Good, Differ
<1>2. PICK k, t : k = Find(m.list, f) /\ t = TemporaryToReplace(m)
  OBVIOUS
<1>3. AddFile(m, f) = IF k # 0 THEN Arrived(m, k)
                      ELSE IF t # 0 /\ files[f] \in Displayable
                      THEN Arrived([m EXCEPT !.list[t].path = f, !.list[t].seen = files[f]], t)
                      ELSE AddItemIfValid(m, f)
  BY <1>2 DEF AddFile
<1>4. CASE k # 0
  <2>1. k \in DOMAIN m.list /\ m.list[k].path = f
    BY <1>1, <1>2, <1>4, FindHolds
  <2>2. PICK u : u = UnsetTemporary(m, k)
    OBVIOUS
  <2>3. Good(u) /\ Stems(u.list, m.list)
    BY <2>1, <2>2, UnsetTemporaryGood
  <2>4. PICK new : new = [u EXCEPT !.refresh = @ \cup {f}]
    OBVIOUS
  <2>5. new \in State /\ new.list = u.list /\ new.temps = u.temps
    BY <2>3, <2>4 DEF Good, State
  <2>6. Good(new)
    BY <2>3, <2>5, SameListGood
  <2>7. AddFile(m, f) = new
    BY <1>3, <1>4, <2>2, <2>4
  <2>. QED BY <2>3, <2>5, <2>6, <2>7
<1>5. CASE k = 0 /\ t # 0 /\ files[f] \in Displayable
  <2>1. t \in DOMAIN m.list /\ m.list[t].temp = TRUE /\ m.list[t] \in Item
    BY <1>1, <1>2, <1>5, TemporaryToReplaceHolds, ItemsOf
  <2>2. \A n \in DOMAIN m.list : m.list[n].path # f
    BY <1>1, <1>2, <1>5, FindHolds
  <2>3. PICK item : item = [m.list[t] EXCEPT !.path = f, !.seen = files[f], !.temp = FALSE]
    OBVIOUS
  <2>4. /\ item \in Item /\ item.temp = FALSE /\ item.id = m.list[t].id
        /\ item.path = f /\ item.pkg = m.list[t].pkg
    <3>1. files[f] \in Contents \cup {Absent} /\ f \in Paths
      BY DEF FilesHeld, Paths
    <3>. QED BY <2>1, <2>3, <3>1 DEF Item
  <2>5. PICK r : r = [m.list EXCEPT ![t] = item]
    OBVIOUS
  <2>6. r \in Seq(Item)
    BY <1>1, <2>1, <2>4, <2>5, ItemsOf, ExceptSeq
  <2>7. PICK new : new = [m EXCEPT !.list = r, !.temps = m.temps \ {item.id},
                                   !.refresh = m.refresh \cup {f}]
    OBVIOUS
  <2>8. new \in State /\ new.list = r /\ new.temps = m.temps \ {item.id}
    BY <1>1, <2>6, <2>7 DEF State
  <2>9. AddFile(m, f) = new
    <3>1. PICK a, l : /\ a = [m EXCEPT !.list[t].path = f, !.list[t].seen = files[f]]
                      /\ l = [m.list EXCEPT ![t] = [m.list[t] EXCEPT !.path = f, !.seen = files[f]]]
      OBVIOUS
    <3>2. a = [m EXCEPT !.list = l]
      BY <1>1, <2>1, <3>1 DEF State
    <3>3. [l EXCEPT ![t].temp = FALSE] = r /\ l[t].id = item.id
      BY <1>1, <2>1, <2>3, <2>4, <2>5, <3>1 DEF Item
    <3>4. a.list = l /\ a.temps = m.temps
      BY <1>1, <3>2 DEF State
    <3>5. UnsetTemporary(a, t) = [m EXCEPT !.list = r, !.temps = m.temps \ {item.id}]
      BY <1>1, <3>2, <3>3, <3>4 DEF UnsetTemporary, State
    <3>6. Arrived(a, t) = new
      <4>1. PICK u : u = [m EXCEPT !.list = r, !.temps = m.temps \ {item.id}]
        OBVIOUS
      <4>2. [u EXCEPT !.refresh = u.refresh \cup {f}] = new
        BY <1>1, <2>7, <4>1 DEF State
      <4>. QED BY <3>5, <4>1, <4>2
    <3>. QED BY <1>3, <1>5, <3>1, <3>6
  <2>10. From(item, m.list[t])
    BY <2>1, <2>4 DEF From
  <2>11. \A n \in DOMAIN m.list : m.list[n].path = item.path => n = t
    BY <2>2, <2>4
  <2>12. new.temps = IF item.temp THEN m.temps ELSE m.temps \ {item.id}
    BY <2>4, <2>8
  <2>13. Good(new) /\ Stems(new.list, m.list)
    BY <2>1, <2>4, <2>5, <2>8, <2>10, <2>11, <2>12, ChangedAtGood
  <2>. QED BY <2>9, <2>13
<1>6. CASE k = 0 /\ ~ (t # 0 /\ files[f] \in Displayable)
  <2>1. \A n \in DOMAIN m.list : m.list[n].path # f
    BY <1>1, <1>2, <1>6, FindHolds
  <2>2. AddFile(m, f) = AddItemIfValid(m, f)
    BY <1>3, <1>6
  <2>. QED BY <2>1, <2>2, AddItemIfValidGood
<1>. QED BY <1>4, <1>5, <1>6

LEMMA RefreshFileGood ==
  ASSUME FilesHeld, NEW m, Good(m), NEW f \in Files
  PROVE  Good(RefreshFile(m, f)) /\ Stems(RefreshFile(m, f).list, m.list)
<1>1. m \in State /\ m.list \in Seq(Item) /\ Differ(m.list) /\ m.temps = TempIds(m.list)
  BY DEF Good, Differ
<1>2. PICK k : k = Find(m.list, f)
  OBVIOUS
<1>3. CASE k = 0
  <2>1. PICK u : u = TakeHidden(m, f)
    OBVIOUS
  <2>2. Good(u) /\ u.list = m.list
    BY <2>1, TakeHiddenGood
  <2>3. \A n \in DOMAIN u.list : u.list[n].path # f
    <3>1. \A n \in DOMAIN m.list : m.list[n].path # f
      BY <1>1, <1>2, <1>3, FindHolds
    <3>. QED BY <2>2, <3>1
  <2>4. Good(AddItemIfValid(u, f)) /\ Stems(AddItemIfValid(u, f).list, u.list)
    BY <2>2, <2>3, AddItemIfValidGood
  <2>5. RefreshFile(m, f) = AddItemIfValid(u, f)
    BY <1>2, <1>3, <2>1 DEF RefreshFile
  <2>. QED BY <2>2, <2>4, <2>5
<1>4. CASE k # 0
  <2>1. k \in DOMAIN m.list /\ m.list[k].path = f /\ m.list[k] \in Item
    BY <1>1, <1>2, <1>4, FindHolds, ItemsOf
  <2>2. CASE RefreshFile(m, f) = DropAt(m, k)
    BY <2>1, <2>2, DropAtGood
  <2>3. CASE RefreshFile(m, f) = [m EXCEPT !.list[k].seen = IF m.list[k].temp THEN m.list[k].seen ELSE files[f]]
    <3>1. PICK seen : seen = IF m.list[k].temp THEN m.list[k].seen ELSE files[f]
      OBVIOUS
    <3>2. seen \in Contents \cup {Absent}
      BY <2>1, <3>1 DEF FilesHeld, Item
    <3>3. PICK item : item = [m.list[k] EXCEPT !.seen = seen]
      OBVIOUS
    <3>4. /\ item \in Item /\ item.temp = m.list[k].temp /\ item.id = m.list[k].id
          /\ item.path = f /\ item.pkg = m.list[k].pkg /\ item.updating = m.list[k].updating
      BY <2>1, <3>2, <3>3 DEF Item
    <3>5. PICK r, new : r = [m.list EXCEPT ![k] = item] /\ new = [m EXCEPT !.list = r]
      OBVIOUS
    <3>6. r \in Seq(Item)
      BY <1>1, <2>1, <3>4, <3>5, ItemsOf, ExceptSeq
    <3>7. new \in State /\ new.list = r /\ new.temps = m.temps
      BY <1>1, <3>5, <3>6 DEF State
    <3>8. RefreshFile(m, f) = new
      BY <2>3, <3>1, <3>3, <3>5
    <3>9. From(item, m.list[k])
      BY <2>1, <3>4 DEF From
    <3>10. \A n \in DOMAIN m.list : m.list[n].path = item.path => n = k
      BY <1>1, <2>1, <3>4 DEF Differ
    <3>11. new.temps = IF item.temp THEN m.temps ELSE m.temps \ {item.id}
      <4>1. CASE item.temp
        BY <3>7, <4>1
      <4>2. CASE ~ item.temp
        <5>1. item.id \notin TempIds(m.list)
          BY <1>1, <2>1, <3>4, <4>2 DEF TempIds, Differ
        <5>. QED BY <1>1, <3>7, <4>2, <5>1
      <4>. QED BY <4>1, <4>2
    <3>12. item \in Item /\ new \in State /\ new.list = [m.list EXCEPT ![k] = item]
      BY <3>4, <3>5, <3>7
    <3>13. Good(new) /\ Stems(new.list, m.list)
      BY <2>1, <3>9, <3>10, <3>11, <3>12, ChangedAtGood
    <3>. QED BY <3>8, <3>13
  <2>. QED BY <1>2, <1>4, <2>2, <2>3 DEF RefreshFile
<1>. QED BY <1>3, <1>4

-----------------------------------------------------------------------------
(* A pass over the files, as the lists that it goes through.                 *)
LEMMA AllRemovedSteps ==
  ASSUME NEW m, Good(m), NEW order \in Seq(Files), NEW k, k = Len(order)
  PROVE  \E g : /\ g[0] = m /\ g[k] = AllRemoved(m, order)
                /\ \A n \in 1 .. k : g[n] = RemoveFile(g[n - 1], order[n])
                /\ \A n \in 0 .. k : Good(g[n]) /\ Stems(g[n].list, m.list)
<1>1. k \in Nat
  BY LenProperties
<1>2. \A n \in 1 .. k : order[n] \in Files
  BY <1>1, ElementOfSeq
<1>. DEFINE S == {x \in State : Good(x) /\ Stems(x.list, m.list)}
            Rest(x, n) == RemoveFile(x, order[n])
            G == [x \in S \X (1 .. k) |-> Rest(x[1], x[2])]
<1>3. m \in S
  BY StemsItself DEF Good
<1>4. ASSUME NEW x \in S, NEW n \in 1 .. k PROVE Rest(x, n) \in S
  <2>1. PICK y, f : y = Rest(x, n) /\ f = order[n]
    OBVIOUS
  <2>2. f \in Files /\ y = RemoveFile(x, f)
    BY <1>2, <2>1
  <2>3. Good(y) /\ Stems(y.list, x.list)
    BY <2>2, RemoveFileGood
  <2>4. Stems(y.list, m.list)
    BY <2>3, StemsTwice
  <2>5. y \in State
    BY <2>3 DEF Good
  <2>. QED BY <2>1, <2>3, <2>4, <2>5
<1>. HIDE DEF S
<1>5. G \in [S \X (1 .. k) -> S]
  <2>. HIDE DEF Rest
  <2>. QED BY <1>4
<1>6. PICK f \in [0 .. k -> S] : Iterates(f, m, k, G)
  <2>. HIDE DEF G
  <2>. QED BY <1>1, <1>3, <1>5, Iterated
<1>7. f = [n \in 0 .. k |-> IF n = 0 THEN m ELSE Rest(f[n - 1], n)]
  <2>. HIDE DEF Rest
  <2>1. \A n \in 0 .. k : f[n] = IF n = 0 THEN m ELSE Rest(f[n - 1], n)
    <3>. SUFFICES ASSUME NEW n \in 0 .. k, n # 0 PROVE f[n] = Rest(f[n - 1], n)
      BY <1>6 DEF Iterates
    <3>1. n \in 1 .. k /\ f[n - 1] \in S
      BY <1>1, <1>6
    <3>2. f[n] = G[<<f[n - 1], n>>]
      BY <1>6, <3>1 DEF Iterates
    <3>. QED BY <3>1, <3>2
  <2>. QED BY <1>6, <2>1
<1>. DEFINE g == CHOOSE h : h = [n \in 0 .. k |-> IF n = 0 THEN m ELSE Rest(h[n - 1], n)]
<1>8. g = [n \in 0 .. k |-> IF n = 0 THEN m ELSE Rest(g[n - 1], n)]
  BY <1>7
<1>9. AllRemoved(m, order) = g[k]
  BY DEF AllRemoved
<1>. HIDE DEF g
<1>10. g[0] = m /\ \A n \in 1 .. k : g[n] = RemoveFile(g[n - 1], order[n])
  <2>. HIDE DEF Rest
  <2>1. g[0] = m /\ \A n \in 1 .. k : g[n] = Rest(g[n - 1], n)
    <3>1. 0 \in 0 .. k /\ \A n \in 1 .. k : n \in 0 .. k /\ n # 0
      BY <1>1
    <3>. QED BY <1>8, <3>1
  <2>. QED BY <2>1 DEF Rest
<1>. DEFINE T == {n \in 0 .. k : g[n] \in S}
<1>11. 0 \in T
  BY <1>1, <1>3, <1>10
<1>12. ASSUME NEW n \in 1 .. k, n - 1 \in T PROVE n \in T
  <2>. HIDE DEF Rest
  <2>1. n \in 0 .. k /\ g[n - 1] \in S
    BY <1>1, <1>12
  <2>2. g[n] = Rest(g[n - 1], n)
    BY <1>10 DEF Rest
  <2>. QED BY <1>4, <2>1, <2>2
<1>13. 0 .. k \subseteq T
  <2>. HIDE DEF T
  <2>. QED BY <1>1, <1>11, <1>12, CountedUp
<1>14. \A n \in 0 .. k : Good(g[n]) /\ Stems(g[n].list, m.list)
  BY <1>13 DEF S
<1>. QED BY <1>9, <1>10, <1>14

LEMMA AllRemovedGood ==
  ASSUME NEW m, Good(m), NEW order \in Seq(Files)
  PROVE  Good(AllRemoved(m, order)) /\ Stems(AllRemoved(m, order).list, m.list)
<1>1. PICK k \in Nat : k = Len(order)
  BY LenProperties
<1>2. k \in 0 .. k
  OBVIOUS
<1>. QED BY <1>1, <1>2, AllRemovedSteps

LEMMA AllAddedSteps ==
  ASSUME FilesHeld, NEW m, Good(m), NEW order \in Seq(Files), NEW k, k = Len(order)
  PROVE  \E g : /\ g[0] = m /\ g[k] = AllAdded(m, order)
                /\ \A n \in 1 .. k : g[n] = AddFile(g[n - 1], order[n])
                /\ \A n \in 0 .. k : Good(g[n]) /\ Stems(g[n].list, m.list)
<1>1. k \in Nat
  BY LenProperties
<1>2. \A n \in 1 .. k : order[n] \in Files
  BY <1>1, ElementOfSeq
<1>. DEFINE S == {x \in State : Good(x) /\ Stems(x.list, m.list)}
            Rest(x, n) == AddFile(x, order[n])
            G == [x \in S \X (1 .. k) |-> Rest(x[1], x[2])]
<1>3. m \in S
  BY StemsItself DEF Good
<1>4. ASSUME NEW x \in S, NEW n \in 1 .. k PROVE Rest(x, n) \in S
  <2>1. PICK y, f : y = Rest(x, n) /\ f = order[n]
    OBVIOUS
  <2>2. f \in Files /\ y = AddFile(x, f)
    BY <1>2, <2>1
  <2>3. Good(y) /\ Stems(y.list, x.list)
    BY <2>2, AddFileGood
  <2>4. Stems(y.list, m.list)
    BY <2>3, StemsTwice
  <2>5. y \in State
    BY <2>3 DEF Good
  <2>. QED BY <2>1, <2>3, <2>4, <2>5
<1>. HIDE DEF S
<1>5. G \in [S \X (1 .. k) -> S]
  <2>. HIDE DEF Rest
  <2>. QED BY <1>4
<1>6. PICK f \in [0 .. k -> S] : Iterates(f, m, k, G)
  <2>. HIDE DEF G
  <2>. QED BY <1>1, <1>3, <1>5, Iterated
<1>7. f = [n \in 0 .. k |-> IF n = 0 THEN m ELSE Rest(f[n - 1], n)]
  <2>. HIDE DEF Rest
  <2>1. \A n \in 0 .. k : f[n] = IF n = 0 THEN m ELSE Rest(f[n - 1], n)
    <3>. SUFFICES ASSUME NEW n \in 0 .. k, n # 0 PROVE f[n] = Rest(f[n - 1], n)
      BY <1>6 DEF Iterates
    <3>1. n \in 1 .. k /\ f[n - 1] \in S
      BY <1>1, <1>6
    <3>2. f[n] = G[<<f[n - 1], n>>]
      BY <1>6, <3>1 DEF Iterates
    <3>. QED BY <3>1, <3>2
  <2>. QED BY <1>6, <2>1
<1>. DEFINE g == CHOOSE h : h = [n \in 0 .. k |-> IF n = 0 THEN m ELSE Rest(h[n - 1], n)]
<1>8. g = [n \in 0 .. k |-> IF n = 0 THEN m ELSE Rest(g[n - 1], n)]
  BY <1>7
<1>9. AllAdded(m, order) = g[k]
  BY DEF AllAdded
<1>. HIDE DEF g
<1>10. g[0] = m /\ \A n \in 1 .. k : g[n] = AddFile(g[n - 1], order[n])
  <2>. HIDE DEF Rest
  <2>1. g[0] = m /\ \A n \in 1 .. k : g[n] = Rest(g[n - 1], n)
    <3>1. 0 \in 0 .. k /\ \A n \in 1 .. k : n \in 0 .. k /\ n # 0
      BY <1>1
    <3>. QED BY <1>8, <3>1
  <2>. QED BY <2>1 DEF Rest
<1>. DEFINE T == {n \in 0 .. k : g[n] \in S}
<1>11. 0 \in T
  BY <1>1, <1>3, <1>10
<1>12. ASSUME NEW n \in 1 .. k, n - 1 \in T PROVE n \in T
  <2>. HIDE DEF Rest
  <2>1. n \in 0 .. k /\ g[n - 1] \in S
    BY <1>1, <1>12
  <2>2. g[n] = Rest(g[n - 1], n)
    BY <1>10 DEF Rest
  <2>. QED BY <1>4, <2>1, <2>2
<1>13. 0 .. k \subseteq T
  <2>. HIDE DEF T
  <2>. QED BY <1>1, <1>11, <1>12, CountedUp
<1>14. \A n \in 0 .. k : Good(g[n]) /\ Stems(g[n].list, m.list)
  BY <1>13 DEF S
<1>. QED BY <1>9, <1>10, <1>14

LEMMA AllAddedGood ==
  ASSUME FilesHeld, NEW m, Good(m), NEW order \in Seq(Files)
  PROVE  Good(AllAdded(m, order)) /\ Stems(AllAdded(m, order).list, m.list)
<1>1. PICK k \in Nat : k = Len(order)
  BY LenProperties
<1>2. k \in 0 .. k
  OBVIOUS
<1>. QED BY <1>1, <1>2, AllAddedSteps

LEMMA AllRefreshedSteps ==
  ASSUME FilesHeld, NEW m, Good(m), NEW order \in Seq(Files), NEW k, k = Len(order)
  PROVE  \E g : /\ g[0] = m /\ g[k] = AllRefreshed(m, order)
                /\ \A n \in 1 .. k : g[n] = RefreshFile(g[n - 1], order[n])
                /\ \A n \in 0 .. k : Good(g[n]) /\ Stems(g[n].list, m.list)
<1>1. k \in Nat
  BY LenProperties
<1>2. \A n \in 1 .. k : order[n] \in Files
  BY <1>1, ElementOfSeq
<1>. DEFINE S == {x \in State : Good(x) /\ Stems(x.list, m.list)}
            Rest(x, n) == RefreshFile(x, order[n])
            G == [x \in S \X (1 .. k) |-> Rest(x[1], x[2])]
<1>3. m \in S
  BY StemsItself DEF Good
<1>4. ASSUME NEW x \in S, NEW n \in 1 .. k PROVE Rest(x, n) \in S
  <2>1. PICK y, f : y = Rest(x, n) /\ f = order[n]
    OBVIOUS
  <2>2. f \in Files /\ y = RefreshFile(x, f)
    BY <1>2, <2>1
  <2>3. Good(y) /\ Stems(y.list, x.list)
    BY <2>2, RefreshFileGood
  <2>4. Stems(y.list, m.list)
    BY <2>3, StemsTwice
  <2>5. y \in State
    BY <2>3 DEF Good
  <2>. QED BY <2>1, <2>3, <2>4, <2>5
<1>. HIDE DEF S
<1>5. G \in [S \X (1 .. k) -> S]
  <2>. HIDE DEF Rest
  <2>. QED BY <1>4
<1>6. PICK f \in [0 .. k -> S] : Iterates(f, m, k, G)
  <2>. HIDE DEF G
  <2>. QED BY <1>1, <1>3, <1>5, Iterated
<1>7. f = [n \in 0 .. k |-> IF n = 0 THEN m ELSE Rest(f[n - 1], n)]
  <2>. HIDE DEF Rest
  <2>1. \A n \in 0 .. k : f[n] = IF n = 0 THEN m ELSE Rest(f[n - 1], n)
    <3>. SUFFICES ASSUME NEW n \in 0 .. k, n # 0 PROVE f[n] = Rest(f[n - 1], n)
      BY <1>6 DEF Iterates
    <3>1. n \in 1 .. k /\ f[n - 1] \in S
      BY <1>1, <1>6
    <3>2. f[n] = G[<<f[n - 1], n>>]
      BY <1>6, <3>1 DEF Iterates
    <3>. QED BY <3>1, <3>2
  <2>. QED BY <1>6, <2>1
<1>. DEFINE g == CHOOSE h : h = [n \in 0 .. k |-> IF n = 0 THEN m ELSE Rest(h[n - 1], n)]
<1>8. g = [n \in 0 .. k |-> IF n = 0 THEN m ELSE Rest(g[n - 1], n)]
  BY <1>7
<1>9. AllRefreshed(m, order) = g[k]
  BY DEF AllRefreshed
<1>. HIDE DEF g
<1>10. g[0] = m /\ \A n \in 1 .. k : g[n] = RefreshFile(g[n - 1], order[n])
  <2>. HIDE DEF Rest
  <2>1. g[0] = m /\ \A n \in 1 .. k : g[n] = Rest(g[n - 1], n)
    <3>1. 0 \in 0 .. k /\ \A n \in 1 .. k : n \in 0 .. k /\ n # 0
      BY <1>1
    <3>. QED BY <1>8, <3>1
  <2>. QED BY <2>1 DEF Rest
<1>. DEFINE T == {n \in 0 .. k : g[n] \in S}
<1>11. 0 \in T
  BY <1>1, <1>3, <1>10
<1>12. ASSUME NEW n \in 1 .. k, n - 1 \in T PROVE n \in T
  <2>. HIDE DEF Rest
  <2>1. n \in 0 .. k /\ g[n - 1] \in S
    BY <1>1, <1>12
  <2>2. g[n] = Rest(g[n - 1], n)
    BY <1>10 DEF Rest
  <2>. QED BY <1>4, <2>1, <2>2
<1>13. 0 .. k \subseteq T
  <2>. HIDE DEF T
  <2>. QED BY <1>1, <1>11, <1>12, CountedUp
<1>14. \A n \in 0 .. k : Good(g[n]) /\ Stems(g[n].list, m.list)
  BY <1>13 DEF S
<1>. QED BY <1>9, <1>10, <1>14

LEMMA AllRefreshedGood ==
  ASSUME FilesHeld, NEW m, Good(m), NEW order \in Seq(Files)
  PROVE  Good(AllRefreshed(m, order)) /\ Stems(AllRefreshed(m, order).list, m.list)
<1>1. PICK k \in Nat : k = Len(order)
  BY LenProperties
<1>2. k \in 0 .. k
  OBVIOUS
<1>. QED BY <1>1, <1>2, AllRefreshedSteps

(* onFilesUpdated as a whole.                                                *)
LEMMA FilesUpdatedGood ==
  ASSUME FilesHeld, NEW m, Good(m), NEW fresh \in Seq(Files),
         NEW changed \in SUBSET Files, NEW gone \in SUBSET Files
  PROVE  /\ Good(FilesUpdated(m, fresh, changed, gone))
         /\ Stems(FilesUpdated(m, fresh, changed, gone).list, m.list)
<1>1. PICK a, b, c, d :
        /\ a = AllRemoved(m, InOrder(gone)) /\ b = [a EXCEPT !.refresh = changed]
        /\ c = AllAdded(b, fresh) /\ d = AllRefreshed(c, InOrder(c.refresh))
  OBVIOUS
<1>2. InOrder(gone) \in Seq(Files)
  BY InOrderHolds, SeqMonotonic
<1>3. Good(a) /\ Stems(a.list, m.list)
  BY <1>1, <1>2, AllRemovedGood
<1>4. Good(b) /\ b.list = a.list
  <2>1. b \in State /\ b.list = a.list /\ b.temps = a.temps
    BY <1>1, <1>3 DEF Good, State
  <2>. QED BY <1>3, <2>1, SameListGood
<1>5. Good(c) /\ Stems(c.list, b.list)
  BY <1>1, <1>4, AllAddedGood
<1>6. c.refresh \in SUBSET Files
  BY <1>5 DEF Good, State
<1>7. InOrder(c.refresh) \in Seq(Files)
  BY <1>6, InOrderHolds, SeqMonotonic
<1>8. Good(d) /\ Stems(d.list, c.list)
  BY <1>1, <1>5, <1>7, AllRefreshedGood
<1>9. Stems(c.list, m.list)
  BY <1>3, <1>4, <1>5, StemsTwice
<1>10. Stems(d.list, m.list)
  BY <1>8, <1>9, StemsTwice
<1>11. FilesUpdated(m, fresh, changed, gone) = d
  BY <1>1 DEF FilesUpdated
<1>. QED BY <1>8, <1>10, <1>11

-----------------------------------------------------------------------------
(* Whose the launchers are.  A temporary launcher is of one package, which   *)
(* has no other; while it bears the package's name, no other launcher does.  *)
TempsOwned(l) ==
  \A i \in DOMAIN l : l[i].temp =>
     \E p \in Packages : l[i].path \in PathsOf(p) /\ l[i].pkg \in {p, NoPackage}

OneTempEach(l) ==
  \A i, j \in DOMAIN l : \A p \in Packages :
     l[i].temp /\ l[j].temp /\ l[i].path \in PathsOf(p) /\ l[j].path \in PathsOf(p) => i = j

NamedOnce(l) ==
  \A i, j \in DOMAIN l : \A p \in Packages :
     i # j /\ l[i].temp /\ l[i].path \in PathsOf(p) /\ l[j].pkg = p =>
        /\ ~ l[j].temp /\ l[j].path \in Announced[p]
        /\ l[i].pkg = NoPackage /\ l[i].path = Guess[p] /\ Guess[p] \in Guesses

PermanentAreFiles(l) == \A i \in DOMAIN l : ~ l[i].temp => l[i].path \in Files

Owned(l) == TempsOwned(l) /\ OneTempEach(l) /\ NamedOnce(l) /\ PermanentAreFiles(l)

(* A temporary launcher has a service that answers for it, or is shown again *)
(* at a file that was guessed; or else its removal is due.                   *)
Served(l, serving) ==
  \A i \in DOMAIN l : l[i].temp =>
     IF l[i].pkg = NoPackage THEN l[i].updating => l[i].path \in {Guess[p] : p \in Packages}
                             ELSE serving[l[i].pkg] # NoService

Due(l, shots) == \A i \in DOMAIN l : l[i].temp /\ ~ l[i].updating => shots > 0

LEMMA PackagesNamed == \A p \in Packages : p # NoPackage
BY PackageAssumption

(* What the monitor's files make of a list keeps all that.                   *)
LEMMA StemsOwned ==
  ASSUME NEW old, Differ(old), Owned(old), NEW new, Differ(new), Stems(new, old)
  PROVE  Owned(new)
<1>1. /\ \A i \in DOMAIN new : new[i].temp \in BOOLEAN
      /\ \A i \in DOMAIN old : old[i].temp \in BOOLEAN
  BY ItemsOf DEF Differ
<1>2. ASSUME NEW i \in DOMAIN new, new[i].temp
      PROVE  \E n \in DOMAIN old : /\ old[n].temp /\ old[n].id = new[i].id
                                   /\ old[n].path = new[i].path /\ old[n].pkg = new[i].pkg
  <2>1. ~ Fresh(new[i])
    BY <1>1, <1>2 DEF Fresh
  <2>2. PICK n \in DOMAIN old : From(new[i], old[n])
    BY <2>1 DEF Stems
  <2>. QED BY <1>1, <1>2, <2>2 DEF From
<1>3. TempsOwned(new)
  <2>. SUFFICES ASSUME NEW i \in DOMAIN new, new[i].temp
                PROVE  \E p \in Packages : new[i].path \in PathsOf(p) /\ new[i].pkg \in {p, NoPackage}
    BY DEF TempsOwned
  <2>1. PICK n \in DOMAIN old : old[n].temp /\ old[n].path = new[i].path /\ old[n].pkg = new[i].pkg
    BY <1>2
  <2>2. \E p \in Packages : old[n].path \in PathsOf(p) /\ old[n].pkg \in {p, NoPackage}
    BY <2>1 DEF Owned, TempsOwned
  <2>. QED BY <2>1, <2>2
<1>4. OneTempEach(new)
  <2>. SUFFICES ASSUME NEW i \in DOMAIN new, NEW j \in DOMAIN new, NEW p \in Packages,
                       new[i].temp, new[j].temp,
                       new[i].path \in PathsOf(p), new[j].path \in PathsOf(p)
                PROVE  i = j
    BY DEF OneTempEach
  <2>1. PICK m \in DOMAIN old : old[m].temp /\ old[m].id = new[i].id /\ old[m].path = new[i].path
    BY <1>2
  <2>2. PICK n \in DOMAIN old : old[n].temp /\ old[n].id = new[j].id /\ old[n].path = new[j].path
    BY <1>2
  <2>3. m = n
    BY <2>1, <2>2 DEF Owned, OneTempEach
  <2>4. new[i].id = new[j].id
    BY <2>1, <2>2, <2>3
  <2>. QED BY <2>4 DEF Differ
<1>5. NamedOnce(new)
  <2>. SUFFICES ASSUME NEW i \in DOMAIN new, NEW j \in DOMAIN new, NEW p \in Packages, i # j,
                       new[i].temp, new[i].path \in PathsOf(p), new[j].pkg = p
                PROVE  /\ ~ new[j].temp /\ new[j].path \in Announced[p]
                       /\ new[i].pkg = NoPackage /\ new[i].path = Guess[p] /\ Guess[p] \in Guesses
    BY DEF NamedOnce
  <2>1. PICK m \in DOMAIN old : /\ old[m].temp /\ old[m].id = new[i].id
                                /\ old[m].path = new[i].path /\ old[m].pkg = new[i].pkg
    BY <1>2
  <2>2. PICK n \in DOMAIN old : From(new[j], old[n])
    <3>1. ~ Fresh(new[j])
      BY PackagesNamed DEF Fresh
    <3>. QED BY <3>1 DEF Stems
  <2>3. m # n
    <3>1. new[i].id # new[j].id
      BY DEF Differ
    <3>. QED BY <2>1, <2>2, <3>1 DEF From
  <2>4. old[n].pkg = p
    BY <2>2 DEF From
  <2>5. /\ ~ old[n].temp /\ old[n].path \in Announced[p]
        /\ old[m].pkg = NoPackage /\ old[m].path = Guess[p] /\ Guess[p] \in Guesses
    BY <2>1, <2>3, <2>4 DEF Owned, NamedOnce
  <2>6. new[j].path = old[n].path /\ new[j].temp = old[n].temp
    BY <2>2, <2>5 DEF From
  <2>. QED BY <2>1, <2>5, <2>6
<1>6. PermanentAreFiles(new)
  <2>. SUFFICES ASSUME NEW i \in DOMAIN new, ~ new[i].temp PROVE new[i].path \in Files
    BY DEF PermanentAreFiles
  <2>1. CASE Fresh(new[i])
    BY <2>1 DEF Fresh
  <2>2. CASE ~ Fresh(new[i])
    <3>1. PICK n \in DOMAIN old : From(new[i], old[n])
      BY <2>2 DEF Stems
    <3>2. ~ old[n].temp => old[n].path \in Files
      BY DEF Owned, PermanentAreFiles
    <3>. QED BY <3>1, <3>2 DEF From
  <2>. QED BY <2>1, <2>2
<1>. QED BY <1>3, <1>4, <1>5, <1>6 DEF Owned

LEMMA StemsServed ==
  ASSUME NEW old, Differ(old), NEW new, Differ(new), Stems(new, old), NEW serving, NEW shots
  PROVE  (Served(old, serving) => Served(new, serving)) /\ (Due(old, shots) => Due(new, shots))
<1>1. /\ \A i \in DOMAIN new : new[i].temp \in BOOLEAN
      /\ \A i \in DOMAIN old : old[i].temp \in BOOLEAN
  BY ItemsOf DEF Differ
<1>2. ASSUME NEW i \in DOMAIN new, new[i].temp
      PROVE  \E n \in DOMAIN old : /\ old[n].temp /\ old[n].updating = new[i].updating
                                   /\ old[n].path = new[i].path /\ old[n].pkg = new[i].pkg
  <2>1. ~ Fresh(new[i])
    BY <1>1, <1>2 DEF Fresh
  <2>2. PICK n \in DOMAIN old : From(new[i], old[n])
    BY <2>1 DEF Stems
  <2>. QED BY <1>1, <1>2, <2>2 DEF From
<1>3. ASSUME Served(old, serving) PROVE Served(new, serving)
  BY <1>2, <1>3 DEF Served
<1>4. ASSUME Due(old, shots) PROVE Due(new, shots)
  BY <1>2, <1>4 DEF Due
<1>. QED BY <1>3, <1>4

-----------------------------------------------------------------------------
(* The monitor.                                                              *)
LEMMA PresentFiles == Present \in SUBSET Files
BY DEF Present

LEMMA ScanTypes ==
  ASSUME MonitorTypeOK, NEW knowing \in SUBSET Files, NEW changed \in SUBSET Files,
         Scan(knowing, changed), files' = files
  PROVE  /\ watched' \subseteq Present' /\ known' \subseteq Files /\ added' \in Seq(Files)
         /\ modified' \subseteq Files /\ removed' \subseteq Files /\ missed' \subseteq Files
<1>1. PICK gone, fresh, cancelled :
        /\ gone = knowing \ Present /\ fresh = Present \ knowing
        /\ cancelled = gone \cap Range(added)
  OBVIOUS
<1>2. /\ watched' = (watched \ gone) \cup fresh
      /\ modified' = changed \ (gone \cup fresh)
      /\ added' = OnlyAt(added, {n \in DOMAIN added : added[n] \notin gone})
                    \o InOrder(fresh \ removed)
      /\ removed' = (removed \cup (gone \ cancelled)) \ fresh
      /\ missed' = (missed \ gone) \cup (cancelled \cap told) \cup (fresh \cap removed)
                     \cup (known \ (knowing \cup Present))
      /\ known' = Present
  BY <1>1 DEF Scan
<1>3. gone \in SUBSET Files /\ fresh \in SUBSET Files /\ cancelled \in SUBSET Files
  BY <1>1, PresentFiles
<1>4. Present' = Present
  BY DEF Present
<1>5. watched' \subseteq Present'
  BY <1>1, <1>2, <1>4 DEF MonitorTypeOK
<1>6. added' \in Seq(Files)
  <2>1. PICK S, a, b : /\ S = {n \in DOMAIN added : added[n] \notin gone}
                       /\ a = OnlyAt(added, S) /\ b = InOrder(fresh \ removed)
    OBVIOUS
  <2>2. S \in SUBSET DOMAIN added /\ added \in Seq(Files)
    BY <2>1 DEF MonitorTypeOK
  <2>3. a \in Seq(Files)
    BY <2>1, <2>2, OnlyAtPicks
  <2>4. b \in Seq(Files)
    <3>1. fresh \ removed \in SUBSET Files
      BY <1>3
    <3>2. b \in Seq(fresh \ removed)
      BY <2>1, <3>1, InOrderHolds
    <3>. QED BY <3>1, <3>2, SeqMonotonic
  <2>. QED BY <1>2, <2>1, <2>3, <2>4, ConcatProperties
<1>7. /\ known' \subseteq Files /\ modified' \subseteq Files
      /\ removed' \subseteq Files /\ missed' \subseteq Files
  BY <1>2, <1>3, PresentFiles DEF MonitorTypeOK
<1>. QED BY <1>5, <1>6, <1>7

LEMMA ChangesTypes ==
  ASSUME MonitorTypeOK, DirectoryChanges
  PROVE  MonitorTypeOK'
<1>1. PICK f \in Files :
         \/ \E content \in Contents : Write(f, content) \/ Replace(f, content) \/ Create(f, content)
         \/ Delete(f)
  BY DEF DirectoryChanges
<1>2. \A c \in Contents \cup {Absent} : Change(f, c) =>
         /\ files' = [files EXCEPT ![f] = c] /\ files' \in [Files -> Contents \cup {Absent}]
         /\ changes' \in 0 .. MaxChanges
  BY ChangesAssumption DEF Change, MonitorTypeOK
<1>3. \A content \in Contents : content # Absent
  BY AbsentAssumption
<1>4. ASSUME NEW content \in Contents, Write(f, content) PROVE MonitorTypeOK'
  <2>1. /\ files' = [files EXCEPT ![f] = content] /\ changes' \in 0 .. MaxChanges
        /\ files' \in [Files -> Contents \cup {Absent}]
    BY <1>2, <1>4 DEF Write
  <2>2. Present' = Present
    BY <1>3, <1>4, <2>1 DEF Present, Write, MonitorTypeOK
  <2>. QED BY <1>4, <2>1, <2>2 DEF Write, Noticed, MonitorTypeOK
<1>5. ASSUME NEW content \in Contents, Replace(f, content) PROVE MonitorTypeOK'
  <2>1. /\ files' = [files EXCEPT ![f] = content] /\ changes' \in 0 .. MaxChanges
        /\ files' \in [Files -> Contents \cup {Absent}]
    BY <1>2, <1>5 DEF Replace
  <2>2. Present' = Present
    BY <1>3, <1>5, <2>1 DEF Present, Replace, MonitorTypeOK
  <2>. QED BY <1>5, <2>1, <2>2 DEF Replace, Noticed, MonitorTypeOK
<1>6. ASSUME NEW content \in Contents, Create(f, content) PROVE MonitorTypeOK'
  <2>1. /\ files' = [files EXCEPT ![f] = content] /\ changes' \in 0 .. MaxChanges
        /\ files' \in [Files -> Contents \cup {Absent}]
    BY <1>2, <1>6 DEF Create
  <2>2. Present \subseteq Present'
    BY <1>3, <1>6, <2>1 DEF Present, Create, MonitorTypeOK
  <2>. QED BY <1>6, <2>1, <2>2 DEF Create, MonitorTypeOK
<1>7. ASSUME Delete(f) PROVE MonitorTypeOK'
  <2>1. /\ files' = [files EXCEPT ![f] = Absent] /\ changes' \in 0 .. MaxChanges
        /\ files' \in [Files -> Contents \cup {Absent}]
    BY <1>2, <1>7 DEF Delete
  <2>2. Present \ {f} \subseteq Present'
    BY <1>7, <2>1 DEF Present, Delete, MonitorTypeOK
  <2>. QED BY <1>7, <2>1, <2>2 DEF Delete, Noticed, MonitorTypeOK
<1>. QED BY <1>1, <1>4, <1>5, <1>6, <1>7

LEMMA DeliverTypes ==
  ASSUME MonitorTypeOK, Deliver
  PROVE  MonitorTypeOK'
<1>0. /\ files' = files /\ changes' = changes /\ told' = told
      /\ dirPending' = FALSE /\ filePending' = {} /\ holdback' = TRUE
  BY DEF Deliver
<1>0a. Present' = Present
  BY <1>0 DEF Present
<1>1. CASE dirPending
  <2>1. known \in SUBSET Files /\ modified \cup filePending \in SUBSET Files
    BY DEF MonitorTypeOK
  <2>2. Scan(known, modified \cup filePending)
    BY <1>1 DEF Deliver
  <2>3. /\ watched' \subseteq Present' /\ known' \subseteq Files /\ added' \in Seq(Files)
        /\ modified' \subseteq Files /\ removed' \subseteq Files /\ missed' \subseteq Files
    BY <1>0, <2>1, <2>2, ScanTypes
  <2>. QED BY <1>0, <2>3 DEF MonitorTypeOK
<1>2. CASE ~ dirPending
  BY <1>0, <1>0a, <1>2 DEF Deliver, MonitorTypeOK
<1>. QED BY <1>1, <1>2

LEMMA RescanTypes ==
  ASSUME MonitorTypeOK, Rescan
  PROVE  MonitorTypeOK'
<1>1. /\ files' = files /\ changes' = changes /\ told' = told /\ holdback' = TRUE
      /\ dirPending' = dirPending /\ filePending' = filePending /\ Scan({}, modified)
  BY DEF Rescan
<1>2. {} \in SUBSET Files /\ modified \in SUBSET Files
  BY DEF MonitorTypeOK
<1>3. /\ watched' \subseteq Present' /\ known' \subseteq Files /\ added' \in Seq(Files)
      /\ modified' \subseteq Files /\ removed' \subseteq Files /\ missed' \subseteq Files
  BY <1>1, <1>2, ScanTypes
<1>. QED BY <1>1, <1>3 DEF MonitorTypeOK

LEMMA HandOverTypes ==
  ASSUME MonitorTypeOK, HandOver
  PROVE  MonitorTypeOK'
<1>1. removed \subseteq Files /\ Range(added) \subseteq Files
  BY LenProperties, ElementOfSeq DEF Range, MonitorTypeOK
<1>2. Present' = Present
  BY DEF HandOver, Present
<1>3. added' \in Seq(Files)
  BY EmptySeq DEF HandOver
<1>. QED BY <1>1, <1>2, <1>3 DEF HandOver, MonitorTypeOK

LEMMA StartedTypes ==
  ASSUME MonitorTypeOK, MonitorStarted
  PROVE  MonitorTypeOK'
<1>1. Present' = Present
  BY DEF MonitorStarted, Present
<1>2. added' \in Seq(Files)
  BY EmptySeq DEF MonitorStarted
<1>. QED BY <1>1, <1>2, PresentFiles DEF MonitorStarted, MonitorTypeOK

LEMMA InitTypes == MonitorInit => MonitorTypeOK
<1>. SUFFICES ASSUME MonitorInit PROVE MonitorTypeOK
  OBVIOUS
<1>1. added \in Seq(Files)
  BY EmptySeq DEF MonitorInit
<1>2. changes \in 0 .. MaxChanges
  BY ChangesAssumption DEF MonitorInit
<1>3. known \subseteq Files /\ watched \subseteq Present /\ told \subseteq Files
  BY PresentFiles DEF MonitorInit
<1>4. /\ files \in [Files -> Contents \cup {Absent}] /\ dirPending \in BOOLEAN
      /\ filePending \subseteq Files /\ modified \subseteq Files /\ removed \subseteq Files
      /\ holdback \in BOOLEAN /\ missed \subseteq Files
  BY DEF MonitorInit
<1>. QED BY <1>1, <1>2, <1>3, <1>4 DEF MonitorTypeOK

-----------------------------------------------------------------------------
(* The invariant.                                                            *)
Core(l, t, serving, shots) ==
  Differ(l) /\ t = TempIds(l) /\ Owned(l) /\ Served(l, serving) /\ Due(l, shots)

LauncherInv == TypeOK /\ Core(list, temps, services, removals)

LEMMA CoreStems ==
  ASSUME NEW l, NEW t, NEW serving, NEW shots, Core(l, t, serving, shots),
         NEW new, Differ(new), Stems(new, l)
  PROVE  Core(new, TempIds(new), serving, shots)
<1>1. Owned(new)
  BY StemsOwned DEF Core
<1>2. Served(new, serving) /\ Due(new, shots)
  BY StemsServed DEF Core
<1>. QED BY <1>1, <1>2 DEF Core

LEMMA CorePermuted ==
  ASSUME NEW l, NEW t, NEW serving, NEW shots, Core(l, t, serving, shots),
         NEW new, Permuted(new, l)
  PROVE  Core(new, t, serving, shots)
<1>1. Differ(l) /\ l \in Seq(Item) /\ t = TempIds(l)
  BY DEF Core, Differ
<1>2. new \in Seq(Item) /\ Picked(new, l, DOMAIN l)
  BY <1>1, PermutedPicks
<1>3. /\ Differ(new) /\ Stems(new, l)
      /\ TempIds(new) = {l[k].id : k \in {n \in DOMAIN l : l[n].temp}}
  BY <1>1, <1>2, PickedDiffer
<1>4. TempIds(new) = t
  BY <1>1, <1>3 DEF TempIds
<1>. QED BY <1>3, <1>4, CoreStems

LEMMA PositionsTypes ==
  ASSUME NEW l \in Seq(Item)
  PROVE  PositionsIn(l) \in [Paths -> Nat \cup {NoPosition}]
<1>1. Len(l) \in Nat
  BY ItemsOf
<1>2. ASSUME NEW p \in Paths, Find(l, p) # 0 PROVE Find(l, p) - 1 \in Nat
  BY <1>1, <1>2, FindHolds
<1>. QED BY <1>2 DEF PositionsIn

LEMMA SavePositionsTypes ==
  ASSUME NEW l \in Seq(Item), SavePositions(l)
  PROVE  /\ saved' \in [Paths -> Nat \cup {NoPosition}]
         /\ savedWatched' \in BOOLEAN /\ savedPending' \in BOOLEAN
BY PositionsTypes DEF SavePositions

(* A new state of the model is put into its order and taken over.            *)
LEMMA AdoptKeeps ==
  ASSUME LauncherInv, NEW m, Good(m), NEW serving, NEW shots,
         Core(m.list, m.temps, serving, shots), Adopt(m)
  PROVE  /\ Core(list', temps', serving, shots) /\ list' \in Seq(Item) /\ temps' \subseteq Nat
         /\ hidden' \in [Files -> Nat] /\ saved' \in [Paths -> Nat \cup {NoPosition}]
         /\ savedWatched' \in BOOLEAN /\ savedPending' \in BOOLEAN
<1>1. PICK r : r = ReorderItems(m.list, saved)
  OBVIOUS
<1>2. list' = r /\ temps' = m.temps /\ hidden' = m.hidden /\ SavePositions(r)
  BY <1>1 DEF Adopt
<1>3. m.list \in Seq(Item) /\ m.temps \subseteq Nat /\ m.hidden \in [Files -> Nat]
  BY DEF Good, State
<1>4. saved \in [Paths -> Nat \cup {NoPosition}]
  BY DEF LauncherInv, TypeOK
<1>5. Permuted(r, m.list)
  BY <1>1, <1>3, <1>4, ReorderPermutes
<1>6. r \in Seq(Item)
  BY <1>3, <1>5, PermutedHolds
<1>7. Core(r, m.temps, serving, shots)
  BY <1>5, CorePermuted
<1>. QED BY <1>2, <1>3, <1>6, <1>7, SavePositionsTypes

LEMMA ModelGood ==
  ASSUME LauncherInv
  PROVE  Good(Model) /\ Model.list = list /\ Model.temps = temps
<1>1. /\ list \in Seq(Item) /\ temps \in SUBSET Nat /\ hidden \in [Files -> Nat]
      /\ Differ(list) /\ temps = TempIds(list)
  BY DEF LauncherInv, TypeOK, Core
<1>2. /\ Model \in State /\ Model.list = list /\ Model.temps = temps
  BY <1>1 DEF Model, State
<1>. QED BY <1>1, <1>2 DEF Good

-----------------------------------------------------------------------------
(* The steps, one after the other.                                           *)
LEMMA MonitorKeeps ==
  ASSUME LauncherInv, MonitorTypeOK', UNCHANGED modelVars
  PROVE  LauncherInv'
BY DEF LauncherInv, TypeOK, modelVars, Core, Differ, TempIds, Owned, TempsOwned, OneTempEach,
       NamedOnce, PermanentAreFiles, Served, Due, Item, Paths, PathsOf

LEMMA HoldbackKeeps ==
  ASSUME LauncherInv, HoldbackTimeout
  PROVE  LauncherInv'
<1>1. /\ category' = category /\ services' = services /\ removals' = removals
      /\ installing' = installing /\ claimed' = claimed /\ calls' = calls /\ HandOver
  BY DEF HoldbackTimeout
<1>2. MonitorTypeOK'
  BY <1>1, HandOverTypes DEF LauncherInv, TypeOK
<1>3. /\ Core(list', temps', services, removals) /\ list' \in Seq(Item) /\ temps' \subseteq Nat
      /\ hidden' \in [Files -> Nat] /\ saved' \in [Paths -> Nat \cup {NoPosition}]
      /\ savedWatched' \in BOOLEAN /\ savedPending' \in BOOLEAN
  <2>1. CASE NothingToUpdate
    <3>1. UNCHANGED <<list, temps, hidden, saved, savedWatched, savedPending>>
      BY <2>1 DEF HoldbackTimeout
    <3>. QED BY <3>1 DEF LauncherInv, TypeOK
  <2>2. CASE ~ NothingToUpdate
    <3>1. PICK m : m = FilesUpdated(Model, added, OnlyModified, removed)
      OBVIOUS
    <3>2. Adopt(m)
      BY <2>2, <3>1 DEF HoldbackTimeout
    <3>3. Good(Model) /\ Model.list = list
      BY ModelGood
    <3>4. /\ FilesHeld /\ added \in Seq(Files) /\ OnlyModified \in SUBSET Files
          /\ removed \in SUBSET Files
      BY DEF FilesHeld, OnlyModified, LauncherInv, TypeOK, MonitorTypeOK
    <3>5. Good(m) /\ Stems(m.list, list)
      BY <3>1, <3>3, <3>4, FilesUpdatedGood
    <3>6. Core(m.list, m.temps, services, removals)
      <4>1. Differ(m.list) /\ m.temps = TempIds(m.list)
        BY <3>5 DEF Good
      <4>2. Core(list, temps, services, removals)
        BY DEF LauncherInv
      <4>3. Core(m.list, TempIds(m.list), services, removals)
        BY <3>5, <4>1, <4>2, CoreStems
      <4>. QED BY <4>1, <4>3
    <3>. QED BY <3>2, <3>5, <3>6, AdoptKeeps
  <2>. QED BY <2>1, <2>2
<1>. QED BY <1>1, <1>2, <1>3 DEF LauncherInv, TypeOK

LEMMA MonitorStays ==
  ASSUME MonitorTypeOK, UNCHANGED monitorVars
  PROVE  MonitorTypeOK'
<1>1. Present' = Present
  BY DEF monitorVars, Present
<1>. QED BY <1>1 DEF MonitorTypeOK, monitorVars

LEMMA CalledTypes ==
  ASSUME calls \in 0 .. MaxCalls, Called
  PROVE  calls' \in 0 .. MaxCalls
BY CallsAssumption DEF Called

LEMMA OrderChangedKeeps ==
  ASSUME LauncherInv, NEW p \in Paths, NEW q \in Paths, OrderChangedOutside(p, q)
  PROVE  LauncherInv'
<1>1. /\ UNCHANGED <<monitorVars, list, temps, hidden, category, services, removals,
                     installing, claimed>>
      /\ Called /\ savedPending' = savedWatched /\ savedWatched' = FALSE
      /\ saved' = [saved EXCEPT ![p] = saved[q], ![q] = saved[p]]
  BY DEF OrderChangedOutside
<1>2. MonitorTypeOK'
  BY <1>1, MonitorStays DEF LauncherInv, TypeOK
<1>3. calls' \in 0 .. MaxCalls
  BY <1>1, CalledTypes DEF LauncherInv, TypeOK
<1>4. /\ saved' \in [Paths -> Nat \cup {NoPosition}]
      /\ savedWatched' \in BOOLEAN /\ savedPending' \in BOOLEAN
  BY <1>1 DEF LauncherInv, TypeOK
<1>5. Core(list', temps', services', removals')
  BY <1>1 DEF LauncherInv
<1>. QED BY <1>1, <1>2, <1>3, <1>4, <1>5 DEF LauncherInv, TypeOK

LEMMA LoadPositionsKeeps ==
  ASSUME LauncherInv, LoadPositions
  PROVE  LauncherInv'
<1>1. PICK r : r = ReorderItems(list, saved)
  OBVIOUS
<1>2. /\ UNCHANGED <<monitorVars, temps, hidden, category, services, removals, installing,
                     claimed, calls>>
      /\ list' = r
      /\ \/ SavePositions(r)
         \/ savedPending' = FALSE /\ UNCHANGED <<saved, savedWatched>>
  BY <1>1 DEF LoadPositions
<1>3. list \in Seq(Item) /\ saved \in [Paths -> Nat \cup {NoPosition}]
  BY DEF LauncherInv, TypeOK
<1>4. Permuted(r, list)
  BY <1>1, <1>3, ReorderPermutes
<1>5. r \in Seq(Item) /\ Core(r, temps, services, removals)
  BY <1>3, <1>4, PermutedHolds, CorePermuted DEF LauncherInv
<1>6. MonitorTypeOK'
  BY <1>2, MonitorStays DEF LauncherInv, TypeOK
<1>7. /\ saved' \in [Paths -> Nat \cup {NoPosition}]
      /\ savedWatched' \in BOOLEAN /\ savedPending' \in BOOLEAN
  BY <1>2, <1>5, SavePositionsTypes DEF LauncherInv, TypeOK
<1>8. Core(list', temps', services', removals')
  BY <1>2, <1>5
<1>. QED BY <1>2, <1>5, <1>6, <1>7, <1>8 DEF LauncherInv, TypeOK

LEMMA MoveKeeps ==
  ASSUME LauncherInv, NEW from \in DOMAIN list, NEW to \in DOMAIN list, Move(from, to)
  PROVE  LauncherInv'
<1>1. PICK r : r = MoveItem(list, from, to)
  OBVIOUS
<1>2. /\ UNCHANGED <<monitorVars, temps, hidden, category, services, removals, installing,
                     claimed>>
      /\ list' = r /\ SavePositions(r) /\ Called
  BY <1>1 DEF Move
<1>3. list \in Seq(Item)
  BY DEF LauncherInv, TypeOK
<1>4. Permuted(r, list)
  BY <1>1, <1>3, MovePermutes
<1>5. r \in Seq(Item) /\ Core(r, temps, services, removals)
  BY <1>3, <1>4, PermutedHolds, CorePermuted DEF LauncherInv
<1>6. MonitorTypeOK'
  BY <1>2, MonitorStays DEF LauncherInv, TypeOK
<1>7. /\ saved' \in [Paths -> Nat \cup {NoPosition}]
      /\ savedWatched' \in BOOLEAN /\ savedPending' \in BOOLEAN
  BY <1>2, <1>5, SavePositionsTypes
<1>8. Core(list', temps', services', removals')
  BY <1>2, <1>5
<1>9. calls' \in 0 .. MaxCalls
  BY <1>2, CalledTypes DEF LauncherInv, TypeOK
<1>. QED BY <1>2, <1>5, <1>6, <1>7, <1>8, <1>9 DEF LauncherInv, TypeOK

LEMMA SetCategoriesKeeps ==
  ASSUME LauncherInv, NEW cat \in DOMAIN InCategory, SetCategories(cat)
  PROVE  LauncherInv'
<1>1. /\ UNCHANGED <<list, temps, hidden, saved, savedWatched, savedPending, services,
                     removals, installing, claimed>>
      /\ category' = cat /\ Called /\ Rescan
  BY DEF SetCategories
<1>2. MonitorTypeOK'
  BY <1>1, RescanTypes DEF LauncherInv, TypeOK
<1>3. calls' \in 0 .. MaxCalls
  BY <1>1, CalledTypes DEF LauncherInv, TypeOK
<1>4. Core(list', temps', services', removals')
  BY <1>1 DEF LauncherInv
<1>. QED BY <1>1, <1>2, <1>3, <1>4 DEF LauncherInv, TypeOK

(* A launcher of the list is told that it starts, or no longer does.         *)
LEMMA LaunchingKeeps ==
  ASSUME LauncherInv, NEW k \in DOMAIN list, NEW isLaunching \in BOOLEAN,
         SetIsLaunching(k, isLaunching), LaunchingUnchanged, Called \/ UNCHANGED calls
  PROVE  LauncherInv'
<1>1. /\ UNCHANGED <<monitorVars, temps, hidden, category, saved, savedWatched, savedPending,
                     services, removals, installing, claimed>>
  BY DEF LaunchingUnchanged
<1>2. list \in Seq(Item) /\ Differ(list) /\ temps = TempIds(list)
  BY DEF LauncherInv, TypeOK, Core
<1>3. PICK item : item = [list[k] EXCEPT !.launching = isLaunching, !.timer = isLaunching]
  OBVIOUS
<1>4. list' = [list EXCEPT ![k] = item]
  BY <1>3 DEF SetIsLaunching
<1>5. list[k] \in Item
  BY <1>2, ItemsOf
<1>6. /\ item \in Item /\ item.id = list[k].id /\ item.path = list[k].path
      /\ item.temp = list[k].temp /\ item.updating = list[k].updating /\ item.pkg = list[k].pkg
  BY <1>3, <1>5 DEF Item
<1>7. list' \in Seq(Item)
  BY <1>2, <1>4, <1>6, ItemsOf, ExceptSeq
<1>8. /\ DOMAIN list' = DOMAIN list
      /\ \A n \in DOMAIN list : /\ list'[n].id = list[n].id /\ list'[n].path = list[n].path
                                /\ list'[n].temp = list[n].temp /\ list'[n].pkg = list[n].pkg
                                /\ list'[n].updating = list[n].updating
  BY <1>2, <1>4, <1>6
<1>9. Differ(list')
  BY <1>2, <1>7, <1>8 DEF Differ
<1>10. Stems(list', list)
  BY <1>8 DEF Stems, From
<1>11. TempIds(list') = TempIds(list)
  BY <1>8 DEF TempIds
<1>12. Core(list', temps', services', removals')
  <2>1. Core(list', TempIds(list'), services, removals)
    BY <1>9, <1>10, CoreStems DEF LauncherInv
  <2>. QED BY <1>1, <1>2, <1>11, <2>1
<1>13. MonitorTypeOK'
  BY <1>1, MonitorStays DEF LauncherInv, TypeOK
<1>14. calls' \in 0 .. MaxCalls
  BY CalledTypes DEF LauncherInv, TypeOK
<1>. QED BY <1>1, <1>7, <1>12, <1>13, <1>14 DEF LauncherInv, TypeOK

LEMMA LaunchesKeep ==
  ASSUME LauncherInv,
         \/ \E k \in DOMAIN list : LaunchApplication(k) \/ LaunchingTimeout(k)
         \/ \E path \in Paths : \E isLaunching \in BOOLEAN : NotifyLaunching(path, isLaunching)
  PROVE  LauncherInv'
<1>1. ASSUME NEW k \in DOMAIN list, LaunchApplication(k) PROVE LauncherInv'
  BY <1>1, LaunchingKeeps DEF LaunchApplication
<1>2. ASSUME NEW k \in DOMAIN list, LaunchingTimeout(k) PROVE LauncherInv'
  BY <1>2, LaunchingKeeps DEF LaunchingTimeout
<1>3. ASSUME NEW path \in Paths, NEW isLaunching \in BOOLEAN, NotifyLaunching(path, isLaunching)
      PROVE  LauncherInv'
  <2>1. PICK k : k = Find(list, path)
    OBVIOUS
  <2>2. list \in Seq(Item)
    BY DEF LauncherInv, TypeOK
  <2>3. k # 0 /\ SetIsLaunching(k, isLaunching) /\ LaunchingUnchanged /\ Called
    BY <1>3, <2>1 DEF NotifyLaunching
  <2>4. k \in DOMAIN list
    BY <2>1, <2>2, <2>3, FindHolds
  <2>. QED BY <2>3, <2>4, LaunchingKeeps
<1>. QED BY <1>1, <1>2, <1>3

LEMMA TempsAreTemp ==
  ASSUME NEW l, Differ(l), NEW k \in DOMAIN l
  PROVE  l[k].id \in TempIds(l) <=> l[k].temp
BY DEF TempIds, Differ

(* The single shot takes those that nothing is updating, and all of them.    *)
LEMMA RemoveTemporaryKeeps ==
  ASSUME LauncherInv, RemoveTemporaryLaunchers
  PROVE  LauncherInv'
<1>1. PICK S, r : /\ S = {k \in DOMAIN list : list[k].id \notin temps \/ list[k].updating}
                  /\ r = OnlyAt(list, S)
  OBVIOUS
<1>2. /\ UNCHANGED <<monitorVars, hidden, category, saved, savedWatched, savedPending,
                     services, installing, claimed, calls>>
      /\ removals > 0 /\ removals' = removals - 1 /\ list' = r
      /\ temps' = {i.id : i \in {j \in Range(r) : j.id \in temps}}
  BY <1>1 DEF RemoveTemporaryLaunchers
<1>3. list \in Seq(Item) /\ Differ(list) /\ temps = TempIds(list) /\ S \in SUBSET DOMAIN list
  BY <1>1 DEF LauncherInv, TypeOK, Core
<1>4. r \in Seq(Item) /\ Picked(r, list, S)
  BY <1>1, <1>3, OnlyAtPicks
<1>5. /\ Differ(r) /\ Stems(r, list)
      /\ TempIds(r) = {list[k].id : k \in {n \in S : list[n].temp}}
  BY <1>3, <1>4, PickedDiffer
<1>6. PICK way \in [DOMAIN r -> S] : \A n \in DOMAIN r : r[n] = list[way[n]]
  BY <1>4 DEF Picked
<1>7. \A n \in DOMAIN r : r[n].id \in temps <=> r[n].temp
  <2>. SUFFICES ASSUME NEW n \in DOMAIN r PROVE r[n].id \in temps <=> r[n].temp
    OBVIOUS
  <2>1. way[n] \in DOMAIN list /\ r[n] = list[way[n]]
    BY <1>3, <1>6
  <2>. QED BY <1>3, <2>1, TempsAreTemp
<1>8. temps' = TempIds(r)
  BY <1>2, <1>7 DEF Range, TempIds
<1>9. \A n \in DOMAIN r : r[n].temp => r[n].updating
  <2>. SUFFICES ASSUME NEW n \in DOMAIN r, r[n].temp PROVE r[n].updating
    OBVIOUS
  <2>1. way[n] \in S /\ r[n] = list[way[n]] /\ r[n].id \in temps
    BY <1>6, <1>7
  <2>. QED BY <1>1, <2>1
<1>10. Core(r, TempIds(r), services, removals)
  BY <1>5, CoreStems DEF LauncherInv
<1>11. Core(list', temps', services', removals')
  <2>1. Due(r, removals')
    BY <1>9 DEF Due
  <2>. QED BY <1>2, <1>8, <1>10, <2>1 DEF Core
<1>12. MonitorTypeOK'
  BY <1>2, MonitorStays DEF LauncherInv, TypeOK
<1>13. temps' \subseteq Nat
  BY <1>4, <1>8, ItemsOf DEF TempIds
<1>14. removals' \in Nat
  BY <1>2 DEF LauncherInv, TypeOK
<1>. QED BY <1>2, <1>4, <1>11, <1>12, <1>13, <1>14 DEF LauncherInv, TypeOK

(* The launcher of a package: the last that bears its name, or the guess.    *)
LEMMA MaxOf ==
  ASSUME NEW k \in Nat, NEW S \in SUBSET (1 .. k), S # {}
  PROVE  Max(S) \in S
<1>1. PICK T : T = {n \in Nat : \A y \in S : y <= n}
  OBVIOUS
<1>2. k \in T /\ T \in SUBSET Nat
  BY <1>1
<1>3. PICK x \in T : \A y \in T : x <= y
  BY <1>2, LeastOf
<1>4. x \in S
  <2>. SUFFICES ASSUME x \notin S PROVE FALSE
    OBVIOUS
  <2>1. \A y \in S : y \in Nat /\ y >= 1 /\ y <= x /\ y # x
    BY <1>1
  <2>2. x \in Nat /\ x - 1 \in Nat /\ \A y \in S : y <= x - 1
    <3>1. x \in Nat
      BY <1>1
    <3>2. PICK y \in S : TRUE
      OBVIOUS
    <3>3. y \in Nat /\ y >= 1 /\ y <= x
      BY <2>1, <3>2
    <3>. QED BY <2>1, <3>1, <3>3
  <2>3. x - 1 \in T
    BY <1>1, <2>2
  <2>4. x <= x - 1
    BY <1>3, <2>3
  <2>. QED BY <2>2, <2>4
<1>5. \A y \in S : x >= y
  BY <1>1
<1>6. \E z \in S : \A y \in S : z >= y
  BY <1>4, <1>5
<1>. QED BY <1>6 DEF Max

LEMMA FindPackageHolds ==
  ASSUME NEW l \in Seq(Item), NEW p \in Packages
  PROVE  /\ FindPackage(l, p) # 0 =>
              /\ FindPackage(l, p) \in DOMAIN l
              /\ \/ l[FindPackage(l, p)].pkg = p
                 \/ /\ l[FindPackage(l, p)].path = Guess[p]
                    /\ \A k \in DOMAIN l : l[k].pkg # p
         /\ FindPackage(l, p) = 0 => \A k \in DOMAIN l : l[k].pkg # p /\ l[k].path # Guess[p]
<1>1. Len(l) \in Nat /\ DOMAIN l = 1 .. Len(l)
  BY ItemsOf
<1>2. PICK S, last : /\ S = {i \in 1 .. Len(l) : l[i].pkg = p}
                     /\ last = SelectLastInSeq(l, LAMBDA i : i.pkg = p)
  OBVIOUS
<1>3. last = IF S # {} THEN Max(S) ELSE 0
  BY <1>2 DEF SelectLastInSeq
<1>4. S # {} => Max(S) \in S
  BY <1>1, <1>2, MaxOf
<1>5. FindPackage(l, p) = IF last # 0 THEN last ELSE Find(l, Guess[p])
  BY <1>2 DEF FindPackage
<1>6. CASE S # {}
  <2>1. last \in S /\ last \in 1 .. Len(l) /\ l[last].pkg = p
    BY <1>2, <1>3, <1>4, <1>6
  <2>2. last # 0
    BY <1>1, <2>1
  <2>. QED BY <1>1, <1>5, <2>1, <2>2
<1>7. CASE S = {}
  <2>1. FindPackage(l, p) = Find(l, Guess[p]) /\ \A k \in DOMAIN l : l[k].pkg # p
    BY <1>1, <1>2, <1>3, <1>5, <1>7
  <2>. QED BY <2>1, FindHolds
<1>. QED BY <1>6, <1>7

(* Launchers that are changed, but not in what concerns files.               *)
Alike(new, old) ==
  /\ DOMAIN new = DOMAIN old
  /\ \A n \in DOMAIN old : /\ new[n].path = old[n].path /\ new[n].temp = old[n].temp
                           /\ new[n].seen = old[n].seen

(* A launcher keeps what it is, and its package or its state changes.        *)
LEMMA SameLaunchers ==
  ASSUME NEW l, Differ(l), NEW r \in Seq(Item), DOMAIN r = DOMAIN l,
         \A n \in DOMAIN l : r[n].id = l[n].id /\ r[n].path = l[n].path /\ r[n].temp = l[n].temp
  PROVE  Differ(r) /\ TempIds(r) = TempIds(l)
BY DEF Differ, TempIds

LEMMA UpdatingProgressKeeps ==
  ASSUME LauncherInv, NEW p \in Packages, UpdatingProgress(p)
  PROVE  LauncherInv'
<1>1. PICK k : k = FindPackage(list, p)
  OBVIOUS
<1>2. PICK item : item = [list[k] EXCEPT !.updating = TRUE]
  OBVIOUS
<1>3. /\ UNCHANGED <<monitorVars, temps, hidden, category, saved, savedWatched, savedPending,
                     services, removals, installing, claimed>>
      /\ Called /\ k # 0 /\ list' = [list EXCEPT ![k].updating = TRUE]
  BY <1>1 DEF UpdatingProgress
<1>4. /\ list \in Seq(Item) /\ Differ(list) /\ temps = TempIds(list) /\ Owned(list)
      /\ Served(list, services) /\ Due(list, removals)
  BY DEF LauncherInv, TypeOK, Core
<1>5. /\ k \in DOMAIN list
      /\ list[k].pkg = p \/ list[k].path = Guess[p]
  BY <1>1, <1>3, <1>4, FindPackageHolds
<1>6. list[k] \in Item
  BY <1>4, <1>5, ItemsOf
<1>7. /\ item \in Item /\ item.id = list[k].id /\ item.path = list[k].path
      /\ item.temp = list[k].temp /\ item.pkg = list[k].pkg /\ item.updating = TRUE
  BY <1>2, <1>6 DEF Item
<1>8. list' = [list EXCEPT ![k] = item]
  BY <1>2, <1>3
<1>9. /\ list' \in Seq(Item) /\ Differ(list') /\ DOMAIN list' = DOMAIN list /\ list'[k] = item
      /\ \A n \in DOMAIN list : n # k => list'[n] = list[n]
      /\ \A n \in DOMAIN list : /\ list'[n].id = list[n].id /\ list'[n].path = list[n].path
                                /\ list'[n].temp = list[n].temp
      /\ TempIds(list') = TempIds(list)
  <2>0. PICK l : l = list
    OBVIOUS
  <2>1. PICK r : r = [l EXCEPT ![k] = item]
    OBVIOUS
  <2>2. /\ r \in Seq(Item) /\ Differ(r) /\ DOMAIN r = DOMAIN l /\ r[k] = item
        /\ \A n \in DOMAIN l : n # k => r[n] = l[n]
        /\ \A n \in DOMAIN l : r[n].id = l[n].id /\ r[n].path = l[n].path /\ r[n].temp = l[n].temp
        /\ TempIds(r) = TempIds(l)
    <3>1. /\ l \in Seq(Item) /\ Differ(l) /\ k \in DOMAIN l /\ item \in Item /\ item.id = l[k].id
          /\ item.path = l[k].path /\ item.temp = l[k].temp
      BY <1>4, <1>5, <1>7, <2>0
    <3>2. /\ DOMAIN r = DOMAIN l /\ r[k] = item
          /\ \A n \in DOMAIN l : n # k => r[n] = l[n]
      BY <2>1, <3>1, ItemsOf
    <3>3. \A n \in DOMAIN l : r[n].id = l[n].id /\ r[n].path = l[n].path /\ r[n].temp = l[n].temp
      BY <3>1, <3>2
    <3>4. r \in Seq(Item)
      BY <2>1, <3>1, ItemsOf, ExceptSeq
    <3>. QED BY <3>1, <3>2, <3>3, <3>4, SameLaunchers
  <2>3. list' = r
    BY <1>8, <2>0, <2>1
  <2>. QED BY <2>0, <2>2, <2>3
<1>10. \A n \in DOMAIN list : list'[n].pkg = list[n].pkg
  BY <1>7, <1>9
<1>11. Owned(list')
  BY <1>4, <1>9, <1>10 DEF Owned, TempsOwned, OneTempEach, NamedOnce, PermanentAreFiles
<1>12. Served(list', services)
  <2>. SUFFICES ASSUME NEW n \in DOMAIN list', list'[n].temp
                PROVE  IF list'[n].pkg = NoPackage
                       THEN list'[n].updating => list'[n].path \in {Guess[q] : q \in Packages}
                       ELSE services[list'[n].pkg] # NoService
    BY DEF Served
  <2>1. n \in DOMAIN list /\ list[n].temp
    BY <1>9
  <2>2. CASE n # k
    <3>1. list'[n] = list[n]
      BY <1>9, <2>1, <2>2
    <3>. QED BY <1>4, <2>1, <3>1 DEF Served
  <2>3. CASE n = k /\ list[k].pkg = NoPackage
    <3>1. list[k].path = Guess[p]
      BY <1>5, <2>3, PackagesNamed
    <3>. QED BY <1>7, <1>9, <2>3, <3>1
  <2>4. CASE n = k /\ list[k].pkg # NoPackage
    <3>1. services[list[k].pkg] # NoService
      BY <1>4, <2>1, <2>4 DEF Served
    <3>. QED BY <1>10, <2>1, <2>4, <3>1
  <2>. QED BY <2>2, <2>3, <2>4
<1>13. Due(list', removals)
  <2>. SUFFICES ASSUME NEW n \in DOMAIN list', list'[n].temp, ~ list'[n].updating
                PROVE  removals > 0
    BY DEF Due
  <2>1. n # k
    BY <1>7, <1>9
  <2>. QED BY <1>4, <1>9, <2>1 DEF Due
<1>14. Core(list', temps', services', removals')
  BY <1>3, <1>4, <1>9, <1>11, <1>12, <1>13 DEF Core
<1>15. MonitorTypeOK'
  BY <1>3, MonitorStays DEF LauncherInv, TypeOK
<1>16. calls' \in 0 .. MaxCalls
  BY <1>3, CalledTypes DEF LauncherInv, TypeOK
<1>. QED BY <1>3, <1>9, <1>14, <1>15, <1>16 DEF LauncherInv, TypeOK

(* updatingFinished of a package leaves no temporary launcher with its name. *)
LEMMA FinishKeeps ==
  ASSUME NEW l, NEW t, NEW serving, NEW shots \in Nat, Core(l, t, serving, shots),
         NEW p \in Packages, NEW m, m.list = l, m.removals = shots,
         NEW new, new = FinishUpdate(m, FindPackage(l, p)), m = [list |-> l, removals |-> shots]
  PROVE  /\ new.list \in Seq(Item) /\ new.removals \in Nat
         /\ new = [list |-> new.list, removals |-> new.removals]
         /\ Core(new.list, t, serving, new.removals)
         /\ DOMAIN new.list = DOMAIN l /\ Alike(new.list, l)
         /\ \A n \in DOMAIN l : new.list[n].pkg = l[n].pkg \/ new.list[n].pkg = NoPackage
         /\ \A n \in DOMAIN l : /\ new.list[n].temp = l[n].temp
                                /\ l[n].temp => new.list[n].pkg # p
<1>1. PICK k : k = FindPackage(l, p)
  OBVIOUS
<1>2. /\ l \in Seq(Item) /\ Differ(l) /\ t = TempIds(l) /\ Owned(l)
      /\ Served(l, serving) /\ Due(l, shots)
  BY DEF Core, Differ
<1>3. ASSUME NEW n \in DOMAIN l, l[n].temp, l[n].pkg = p
      PROVE  n = k
  <2>1. PICK q \in Packages : l[n].path \in PathsOf(q) /\ l[n].pkg \in {q, NoPackage}
    BY <1>2, <1>3 DEF Owned, TempsOwned
  <2>2. q = p
    BY <1>3, <2>1, PackagesNamed
  <2>3. k # 0 /\ k \in DOMAIN l /\ l[k].pkg = p
    BY <1>1, <1>2, <1>3, FindPackageHolds
  <2>4. n # k => l[n].pkg = NoPackage
    BY <1>2, <1>3, <2>1, <2>2, <2>3 DEF Owned, NamedOnce
  <2>. QED BY <1>3, <2>4, PackagesNamed
<1>4. CASE k = 0
  <2>1. new = m
    BY <1>1, <1>4 DEF FinishUpdate
  <2>2. \A n \in DOMAIN l : l[n].temp => l[n].pkg # p
    <3>1. k \notin DOMAIN l
      BY <1>2, <1>4, ItemsOf
    <3>. QED BY <1>3, <3>1
  <2>. QED BY <1>2, <2>1, <2>2 DEF Alike
<1>5. CASE k # 0
  <2>1. k \in DOMAIN l
    BY <1>1, <1>2, <1>5, FindPackageHolds
  <2>2. PICK item : item = [l[k] EXCEPT !.updating = FALSE, !.pkg = NoPackage]
    OBVIOUS
  <2>3. l[k] \in Item
    BY <1>2, <2>1, ItemsOf
  <2>4. /\ item \in Item /\ item.id = l[k].id /\ item.path = l[k].path
        /\ item.temp = l[k].temp /\ item.pkg = NoPackage /\ item.updating = FALSE
        /\ item.seen = l[k].seen
    BY <2>2, <2>3 DEF Item
  <2>5. PICK r, s : r = [l EXCEPT ![k] = item] /\ s = IF l[k].temp THEN shots + 1 ELSE shots
    OBVIOUS
  <2>6. new = [list |-> r, removals |-> s]
    BY <1>1, <1>5, <2>2, <2>5 DEF FinishUpdate
  <2>7. /\ r \in Seq(Item) /\ Differ(r) /\ DOMAIN r = DOMAIN l /\ r[k] = item
        /\ \A n \in DOMAIN l : n # k => r[n] = l[n]
        /\ \A n \in DOMAIN l : r[n].id = l[n].id /\ r[n].path = l[n].path /\ r[n].temp = l[n].temp
        /\ TempIds(r) = TempIds(l)
    <3>1. /\ DOMAIN r = DOMAIN l /\ r[k] = item
          /\ \A n \in DOMAIN l : n # k => r[n] = l[n]
      BY <1>2, <2>1, <2>5, ItemsOf
    <3>2. \A n \in DOMAIN l : r[n].id = l[n].id /\ r[n].path = l[n].path /\ r[n].temp = l[n].temp
      BY <2>4, <3>1
    <3>3. r \in Seq(Item)
      BY <1>2, <2>1, <2>4, <2>5, ItemsOf, ExceptSeq
    <3>. QED BY <1>2, <3>1, <3>2, <3>3, SameLaunchers
  <2>8. \A n \in DOMAIN l : r[n].pkg = l[n].pkg \/ r[n].pkg = NoPackage
    BY <2>4, <2>7
  <2>9. \A n \in DOMAIN l : l[n].temp => r[n].pkg # p
    <3>. SUFFICES ASSUME NEW n \in DOMAIN l, l[n].temp, r[n].pkg = p PROVE FALSE
      OBVIOUS
    <3>1. n # k
      BY <2>4, <2>7, PackagesNamed
    <3>2. r[n] = l[n]
      BY <2>7, <3>1
    <3>. QED BY <1>3, <3>1, <3>2
  <2>10. Owned(r)
    <3>1. TempsOwned(r)
      BY <1>2, <2>7, <2>8 DEF Owned, TempsOwned
    <3>2. OneTempEach(r) /\ PermanentAreFiles(r)
      BY <1>2, <2>7 DEF Owned, OneTempEach, PermanentAreFiles
    <3>3. NamedOnce(r)
      <4>. SUFFICES ASSUME NEW i \in DOMAIN r, NEW j \in DOMAIN r, NEW q \in Packages, i # j,
                           r[i].temp, r[i].path \in PathsOf(q), r[j].pkg = q
                    PROVE  /\ ~ r[j].temp /\ r[j].path \in Announced[q]
                           /\ r[i].pkg = NoPackage /\ r[i].path = Guess[q] /\ Guess[q] \in Guesses
        BY DEF NamedOnce
      <4>1. l[i].temp /\ l[i].path \in PathsOf(q) /\ l[j].pkg = q
        BY <2>7, <2>8, PackagesNamed
      <4>2. /\ ~ l[j].temp /\ l[j].path \in Announced[q]
            /\ l[i].pkg = NoPackage /\ l[i].path = Guess[q] /\ Guess[q] \in Guesses
        BY <1>2, <2>7, <4>1 DEF Owned, NamedOnce
      <4>. QED BY <2>7, <2>8, <4>2
    <3>. QED BY <3>1, <3>2, <3>3 DEF Owned
  <2>11. Served(r, serving)
    <3>. SUFFICES ASSUME NEW n \in DOMAIN r, r[n].temp
                  PROVE  IF r[n].pkg = NoPackage
                         THEN r[n].updating => r[n].path \in {Guess[q] : q \in Packages}
                         ELSE serving[r[n].pkg] # NoService
      BY DEF Served
    <3>1. CASE n = k
      BY <2>4, <2>7, <3>1
    <3>2. CASE n # k
      <4>1. r[n] = l[n] /\ n \in DOMAIN l
        BY <2>7, <3>2
      <4>. QED BY <1>2, <4>1 DEF Served
    <3>. QED BY <3>1, <3>2
  <2>12. s \in Nat /\ (shots > 0 => s > 0) /\ (l[k].temp => s > 0)
    BY <2>5
  <2>13. Due(r, s)
    <3>. SUFFICES ASSUME NEW n \in DOMAIN r, r[n].temp, ~ r[n].updating PROVE s > 0
      BY DEF Due
    <3>1. CASE n = k
      BY <2>4, <2>7, <2>12, <3>1
    <3>2. CASE n # k
      <4>1. r[n] = l[n] /\ n \in DOMAIN l
        BY <2>7, <3>2
      <4>. QED BY <1>2, <2>12, <4>1 DEF Due
    <3>. QED BY <3>1, <3>2
  <2>14. Core(r, t, serving, s)
    BY <1>2, <2>7, <2>10, <2>11, <2>13 DEF Core
  <2>15. Alike(r, l)
    BY <2>4, <2>7 DEF Alike
  <2>. QED BY <2>6, <2>7, <2>8, <2>9, <2>12, <2>14, <2>15
<1>. QED BY <1>4, <1>5

(* Services that are gone, of packages that no temporary launcher names.     *)
LEMMA UnservedKeeps ==
  ASSUME NEW l, NEW t, NEW serving, NEW shots, Core(l, t, serving, shots), NEW fewer,
         \A p \in Packages : (\E n \in DOMAIN l : l[n].temp /\ l[n].pkg = p)
                                => fewer[p] = serving[p]
  PROVE  Core(l, t, fewer, shots)
<1>1. l \in Seq(Item) /\ Served(l, serving)
  BY DEF Core, Differ
<1>2. \A n \in DOMAIN l : l[n].pkg # NoPackage => l[n].pkg \in Packages
  BY <1>1, ItemsOf DEF Item
<1>3. Served(l, fewer)
  <2>. SUFFICES ASSUME NEW n \in DOMAIN l, l[n].temp
                PROVE  IF l[n].pkg = NoPackage
                       THEN l[n].updating => l[n].path \in {Guess[p] : p \in Packages}
                       ELSE fewer[l[n].pkg] # NoService
    BY DEF Served
  <2>1. CASE l[n].pkg = NoPackage
    BY <1>1, <2>1 DEF Served
  <2>2. CASE l[n].pkg # NoPackage
    <3>1. serving[l[n].pkg] # NoService
      BY <1>1, <2>2 DEF Served
    <3>2. fewer[l[n].pkg] = serving[l[n].pkg]
      BY <1>2, <2>2
    <3>. QED BY <2>2, <3>1, <3>2
  <2>. QED BY <2>1, <2>2
<1>. QED BY <1>3 DEF Core

LEMMA UpdatingFinishedKeeps ==
  ASSUME LauncherInv, NEW p \in Packages, UpdatingFinished(p)
  PROVE  LauncherInv'
<1>1. PICK new : new = FinishUpdate(Updates, FindPackage(list, p))
  OBVIOUS
<1>2. /\ UNCHANGED <<monitorVars, temps, hidden, category, saved, savedWatched, savedPending,
                     claimed>>
      /\ Called /\ services' = [services EXCEPT ![p] = NoService]
      /\ installing' = [installing EXCEPT ![p] = NoService]
      /\ list' = new.list /\ removals' = new.removals
  BY <1>1 DEF UpdatingFinished
<1>3. removals \in Nat /\ Core(list, temps, services, removals)
  BY DEF LauncherInv, TypeOK
<1>4. Updates = [list |-> list, removals |-> removals]
  BY DEF Updates
<1>5. /\ new.list \in Seq(Item) /\ new.removals \in Nat
      /\ Core(new.list, temps, services, new.removals)
      /\ DOMAIN new.list = DOMAIN list
      /\ \A n \in DOMAIN list : /\ new.list[n].temp = list[n].temp
                                /\ list[n].temp => new.list[n].pkg # p
  BY <1>1, <1>3, <1>4, FinishKeeps
<1>6. services \in [Packages -> Services \cup {NoService}]
  BY DEF LauncherInv, TypeOK
<1>7. Core(new.list, temps, services', new.removals)
  <2>1. \A q \in Packages : q # p => services'[q] = services[q]
    BY <1>2, <1>6
  <2>2. \A q \in Packages : (\E n \in DOMAIN new.list : new.list[n].temp /\ new.list[n].pkg = q)
                               => services'[q] = services[q]
    BY <1>5, <2>1
  <2>. QED BY <1>5, <2>2, UnservedKeeps
<1>8. /\ services' \in [Packages -> Services \cup {NoService}]
      /\ installing' \in [Packages -> Services \cup {NoService}]
  BY <1>2 DEF LauncherInv, TypeOK
<1>9. MonitorTypeOK'
  BY <1>2, MonitorStays DEF LauncherInv, TypeOK
<1>10. calls' \in 0 .. MaxCalls
  BY <1>2, CalledTypes DEF LauncherInv, TypeOK
<1>11. Core(list', temps', services', removals')
  BY <1>2, <1>7
<1>. QED BY <1>2, <1>5, <1>8, <1>9, <1>10, <1>11 DEF LauncherInv, TypeOK

(* An order of finitely many packages goes through each of them.             *)
LEMMA OrdersGoThrough ==
  ASSUME NEW U, IsFiniteSet(U), NEW order \in SetToSeqs(U)
  PROVE  /\ Len(order) \in Nat /\ order \in [1 .. Len(order) -> U]
         /\ \A a \in U : \E i \in 1 .. Len(order) : order[i] = a
<1>1. PICK n : n = Cardinality(U)
  OBVIOUS
<1>2. n \in Nat
  BY <1>1, FS_CardinalityType
<1>3. order \in [1 .. n -> U] /\ \A i, j \in 1 .. n : i # j => order[i] # order[j]
  BY <1>1 DEF SetToSeqs
<1>4. Len(order) = n
  BY <1>2, <1>3, LenProperties, SeqDef
<1>5. order \in Injection(1 .. n, U)
  BY <1>3 DEF Injection, IsInjective
<1>6. Cardinality(1 .. n) = Cardinality(U)
  BY <1>1, <1>2, FS_Interval
<1>7. order \in Surjection(1 .. n, U)
  BY <1>5, <1>6, FS_Injection
<1>8. \A a \in U : \E i \in 1 .. n : order[i] = a
  BY <1>7 DEF Surjection
<1>. QED BY <1>2, <1>3, <1>4, <1>8

(* The packages of a service, finished one after the other.                  *)
LEMMA AllFinishedKeeps ==
  ASSUME LauncherInv, NEW k \in Nat, NEW order \in [1 .. k -> Packages], k = Len(order)
  PROVE  /\ AllFinished(order).list \in Seq(Item) /\ AllFinished(order).removals \in Nat
         /\ Core(AllFinished(order).list, temps, services, AllFinished(order).removals)
         /\ Alike(AllFinished(order).list, list)
         /\ \A n \in DOMAIN AllFinished(order).list : \A i \in 1 .. k :
               AllFinished(order).list[n].temp => AllFinished(order).list[n].pkg # order[i]
<1>. DEFINE S == {x \in [list : Seq(Item), removals : Nat] :
                     Core(x.list, temps, services, x.removals) /\ Alike(x.list, list)}
            Rest(x, n) == FinishUpdate(x, FindPackage(x.list, order[n]))
            G == [x \in S \X (1 .. k) |-> Rest(x[1], x[2])]
            Unnamed(x, n) == \A i \in DOMAIN x.list : \A j \in 1 .. n :
                                x.list[i].temp => x.list[i].pkg # order[j]
<1>1. Updates \in S
  BY DEF Updates, LauncherInv, TypeOK, Alike
<1>2. ASSUME NEW x \in S, NEW n \in 1 .. k
      PROVE  /\ Rest(x, n) \in S
             /\ Unnamed(x, n - 1) => Unnamed(Rest(x, n), n)
  <2>1. PICK l, s, new, p : l = x.list /\ s = x.removals /\ new = Rest(x, n) /\ p = order[n]
    OBVIOUS
  <2>2. /\ s \in Nat /\ Core(l, temps, services, s) /\ x = [list |-> l, removals |-> s]
        /\ Alike(l, list)
        /\ p \in Packages /\ new = FinishUpdate(x, FindPackage(l, p))
    BY <2>1
  <2>3. /\ new.list \in Seq(Item) /\ new.removals \in Nat
        /\ new = [list |-> new.list, removals |-> new.removals]
        /\ Core(new.list, temps, services, new.removals)
        /\ DOMAIN new.list = DOMAIN l /\ Alike(new.list, l)
        /\ \A i \in DOMAIN l : new.list[i].pkg = l[i].pkg \/ new.list[i].pkg = NoPackage
        /\ \A i \in DOMAIN l : new.list[i].temp = l[i].temp /\ (l[i].temp => new.list[i].pkg # p)
    BY <2>1, <2>2, FinishKeeps
  <2>4. new \in S
    <3>1. Alike(new.list, list)
      BY <2>2, <2>3 DEF Alike
    <3>. QED BY <2>3, <3>1
  <2>5. ASSUME Unnamed(x, n - 1) PROVE Unnamed(new, n)
    <3>. SUFFICES ASSUME NEW i \in DOMAIN new.list, NEW j \in 1 .. n, new.list[i].temp
                  PROVE  new.list[i].pkg # order[j]
      OBVIOUS
    <3>1. i \in DOMAIN l /\ l[i].temp
      BY <2>3
    <3>2. CASE j = n
      BY <2>1, <2>3, <3>1, <3>2
    <3>3. CASE j # n
      <4>1. j \in 1 .. n - 1 /\ order[j] \in Packages
        BY <3>3
      <4>2. l[i].pkg # order[j] /\ NoPackage # order[j]
        BY <2>1, <2>5, <3>1, <4>1, PackagesNamed
      <4>. QED BY <2>3, <3>1, <4>2
    <3>. QED BY <3>2, <3>3
  <2>. QED BY <2>1, <2>4, <2>5
<1>3. \A x \in S : /\ x.list \in Seq(Item) /\ x.removals \in Nat /\ Alike(x.list, list)
                   /\ Core(x.list, temps, services, x.removals)
  OBVIOUS
<1>. HIDE DEF S
<1>4. G \in [S \X (1 .. k) -> S]
  <2>. HIDE DEF Rest, Unnamed
  <2>. QED BY <1>2
<1>5. PICK f \in [0 .. k -> S] : Iterates(f, Updates, k, G)
  <2>. HIDE DEF G
  <2>. QED BY <1>1, <1>4, Iterated
<1>6. f = [n \in 0 .. k |-> IF n = 0 THEN Updates ELSE Rest(f[n - 1], n)]
  <2>. HIDE DEF Rest
  <2>1. \A n \in 0 .. k : f[n] = IF n = 0 THEN Updates ELSE Rest(f[n - 1], n)
    <3>. SUFFICES ASSUME NEW n \in 0 .. k, n # 0 PROVE f[n] = Rest(f[n - 1], n)
      BY <1>5 DEF Iterates
    <3>1. n \in 1 .. k /\ f[n - 1] \in S
      BY <1>5
    <3>2. f[n] = G[<<f[n - 1], n>>]
      BY <1>5, <3>1 DEF Iterates
    <3>. QED BY <3>1, <3>2
  <2>. QED BY <1>5, <2>1
<1>. DEFINE g == CHOOSE h : h = [n \in 0 .. k |-> IF n = 0 THEN Updates ELSE Rest(h[n - 1], n)]
<1>7. g = [n \in 0 .. k |-> IF n = 0 THEN Updates ELSE Rest(g[n - 1], n)]
  BY <1>6
<1>8. AllFinished(order) = g[k]
  BY DEF AllFinished
<1>. HIDE DEF g, Rest, Unnamed
<1>. DEFINE T == {n \in 0 .. k : g[n] \in S /\ Unnamed(g[n], n)}
<1>9. 0 \in T
  <2>1. Unnamed(g[0], 0)
    BY DEF Unnamed
  <2>. QED BY <1>1, <1>7, <2>1
<1>10. ASSUME NEW n \in 1 .. k, n - 1 \in T PROVE n \in T
  BY <1>2, <1>7, <1>10
<1>11. k \in T
  <2>. HIDE DEF T
  <2>1. 0 .. k \subseteq T
    BY <1>9, <1>10, CountedUp
  <2>2. k \in 0 .. k
    OBVIOUS
  <2>. QED BY <2>1, <2>2
<1>12. g[k] \in S /\ Unnamed(g[k], k)
  BY <1>11
<1>. QED BY <1>3, <1>8, <1>12 DEF Unnamed

LEMMA ServiceVanishesKeeps ==
  ASSUME LauncherInv, NEW service \in Services, ServiceVanishes(service)
  PROVE  LauncherInv'
<1>. DEFINE Without(f) == [p \in Packages |-> IF f[p] = service THEN NoService ELSE f[p]]
            U == {p \in Packages : services[p] = service}
<1>1. PICK order \in SetToSeqs(U) :
        list' = AllFinished(order).list /\ removals' = AllFinished(order).removals
  BY DEF ServiceVanishes
<1>2. /\ UNCHANGED <<monitorVars, temps, hidden, category, saved, savedWatched, savedPending,
                     claimed, calls>>
      /\ installing' = Without(installing) /\ services' = Without(services)
  BY DEF ServiceVanishes
<1>3. IsFiniteSet(U)
  BY PackageAssumption, FS_Subset
<1>4. PICK k : k = Len(order)
  OBVIOUS
<1>5. k \in Nat /\ order \in [1 .. k -> U] /\ \A p \in U : \E i \in 1 .. k : order[i] = p
  <2>. HIDE DEF U
  <2>. QED BY <1>3, <1>4, OrdersGoThrough
<1>6. order \in [1 .. k -> Packages]
  BY <1>5
<1>7. PICK m : m = AllFinished(order)
  OBVIOUS
<1>8. /\ m.list \in Seq(Item) /\ m.removals \in Nat
      /\ Core(m.list, temps, services, m.removals)
      /\ \A n \in DOMAIN m.list : \A i \in 1 .. k : m.list[n].temp => m.list[n].pkg # order[i]
  BY <1>4, <1>5, <1>6, <1>7, AllFinishedKeeps
<1>9. Core(m.list, temps, services', m.removals)
  <2>1. ASSUME NEW p \in Packages, NEW n \in DOMAIN m.list, m.list[n].temp, m.list[n].pkg = p
        PROVE  services'[p] = services[p]
    <3>1. p \notin U
      BY <1>5, <1>8, <2>1
    <3>. QED BY <1>2, <3>1
  <2>2. \A p \in Packages : (\E n \in DOMAIN m.list : m.list[n].temp /\ m.list[n].pkg = p)
                               => services'[p] = services[p]
    BY <2>1
  <2>. QED BY <1>8, <2>2, UnservedKeeps
<1>10. /\ services' \in [Packages -> Services \cup {NoService}]
       /\ installing' \in [Packages -> Services \cup {NoService}]
  <2>1. /\ services \in [Packages -> Services \cup {NoService}]
        /\ installing \in [Packages -> Services \cup {NoService}]
    BY DEF LauncherInv, TypeOK
  <2>. QED BY <1>2, <2>1
<1>11. MonitorTypeOK'
  BY <1>2, MonitorStays DEF LauncherInv, TypeOK
<1>12. list' = m.list /\ removals' = m.removals
  BY <1>1, <1>7
<1>13. Core(list', temps', services', removals')
  BY <1>2, <1>9, <1>12
<1>. QED BY <1>2, <1>8, <1>10, <1>11, <1>12, <1>13 DEF LauncherInv, TypeOK

(* The start: what the directory has, of no package and permanent.           *)
LEMMA FreshCore ==
  ASSUME NEW l, Differ(l), \A k \in DOMAIN l : Fresh(l[k]), NEW serving, NEW shots
  PROVE  Core(l, {}, serving, shots) /\ TempIds(l) = {}
<1>1. \A k \in DOMAIN l : ~ l[k].temp /\ l[k].path \in Files
  BY DEF Fresh
<1>2. TempIds(l) = {}
  BY <1>1 DEF TempIds
<1>3. Owned(l)
  BY <1>1 DEF Owned, TempsOwned, OneTempEach, NamedOnce, PermanentAreFiles
<1>4. Served(l, serving) /\ Due(l, shots)
  BY <1>1 DEF Served, Due
<1>. QED BY <1>2, <1>3, <1>4 DEF Core

LEMMA StartedGood ==
  ASSUME FilesHeld, NEW serving, NEW shots
  PROVE  Good(Started) /\ Core(Started.list, Started.temps, serving, shots) /\ Started.temps = {}
<1>1. PICK m, fresh : m = NoFiles /\ fresh = InOrder(Present)
  OBVIOUS
<1>2. fresh \in Seq(Files)
  <2>1. Present \in SUBSET Files /\ fresh \in Seq(Present)
    BY <1>1, PresentFiles, InOrderHolds
  <2>2. Len(fresh) \in Nat /\ DOMAIN fresh = 1 .. Len(fresh) /\ \A n \in DOMAIN fresh : fresh[n] \in Present
    BY <2>1, LenProperties, ElementOfSeq
  <2>3. fresh = [n \in 1 .. Len(fresh) |-> fresh[n]]
    BY <2>1, LenProperties
  <2>4. fresh \in [1 .. Len(fresh) -> Files]
    BY <2>1, <2>2, <2>3
  <2>. QED BY <2>2, <2>4, SeqDef
<1>3. /\ <<>> \in Seq(Item) /\ DOMAIN <<>> = {}
  BY EmptySeq
<1>4. m.list = <<>> /\ m.temps = {} /\ m \in State
  BY <1>1, <1>3 DEF NoFiles, State
<1>5. Differ(m.list) /\ TempIds(m.list) = {}
  BY <1>3, <1>4 DEF Differ, TempIds
<1>6. Good(m)
  BY <1>4, <1>5 DEF Good
<1>7. PICK new : new = FilesUpdated(m, fresh, {}, {})
  OBVIOUS
<1>8. Good(new) /\ Stems(new.list, m.list)
  BY <1>2, <1>6, <1>7, FilesUpdatedGood
<1>9. Differ(new.list) /\ new.temps = TempIds(new.list)
  BY <1>8 DEF Good
<1>10. \A k \in DOMAIN new.list : Fresh(new.list[k])
  BY <1>3, <1>4, <1>8 DEF Stems
<1>11. Core(new.list, {}, serving, shots) /\ TempIds(new.list) = {}
  BY <1>9, <1>10, FreshCore
<1>12. Started = new
  BY <1>1, <1>7 DEF Started
<1>. QED BY <1>8, <1>9, <1>11, <1>12

LEMMA RestartKeeps ==
  ASSUME LauncherInv, Restart
  PROVE  LauncherInv'
<1>1. /\ Called /\ MonitorStarted /\ services' = [p \in Packages |-> NoService]
      /\ removals' = 0 /\ claimed' = {} /\ UNCHANGED <<category, installing>>
  BY DEF Restart
<1>2. MonitorTypeOK'
  BY <1>1, StartedTypes DEF LauncherInv, TypeOK
<1>3. calls' \in 0 .. MaxCalls
  BY <1>1, CalledTypes DEF LauncherInv, TypeOK
<1>4. /\ Core(list', temps', services', removals') /\ list' \in Seq(Item) /\ temps' \subseteq Nat
      /\ hidden' \in [Files -> Nat] /\ saved' \in [Paths -> Nat \cup {NoPosition}]
      /\ savedWatched' \in BOOLEAN /\ savedPending' \in BOOLEAN
  <2>1. CASE Present = {}
    <3>1. /\ list' = <<>> /\ temps' = {} /\ hidden' = NoFiles.hidden
          /\ savedWatched' = TRUE /\ savedPending' = FALSE /\ saved' = saved
      BY <2>1 DEF Restart
    <3>2. <<>> \in Seq(Item) /\ DOMAIN <<>> = {}
      BY EmptySeq
    <3>3. Differ(list') /\ \A k \in DOMAIN list' : Fresh(list'[k])
      BY <3>1, <3>2 DEF Differ
    <3>4. Core(list', {}, services', removals')
      BY <3>3, FreshCore
    <3>5. hidden' \in [Files -> Nat]
      BY <3>1 DEF NoFiles
    <3>6. saved' \in [Paths -> Nat \cup {NoPosition}]
      BY <3>1 DEF LauncherInv, TypeOK
    <3>. QED BY <3>1, <3>2, <3>4, <3>5, <3>6
  <2>2. CASE Present # {}
    <3>1. PICK m, serving, shots : m = Started /\ serving = services' /\ shots = removals'
      OBVIOUS
    <3>2. Adopt(m)
      BY <2>2, <3>1 DEF Restart
    <3>3. FilesHeld
      BY DEF FilesHeld, LauncherInv, TypeOK, MonitorTypeOK
    <3>4. Good(m) /\ Core(m.list, m.temps, serving, shots)
      BY <3>1, <3>3, StartedGood
    <3>5. /\ Core(list', temps', serving, shots) /\ list' \in Seq(Item) /\ temps' \subseteq Nat
          /\ hidden' \in [Files -> Nat] /\ saved' \in [Paths -> Nat \cup {NoPosition}]
          /\ savedWatched' \in BOOLEAN /\ savedPending' \in BOOLEAN
      BY <3>2, <3>4, AdoptKeeps
    <3>. QED BY <3>1, <3>5
  <2>. QED BY <2>1, <2>2
<1>. QED BY <1>1, <1>2, <1>3, <1>4 DEF LauncherInv, TypeOK

LEMMA InitHolds == Init => LauncherInv
<1>. SUFFICES ASSUME Init PROVE LauncherInv
  OBVIOUS
<1>1. /\ MonitorInit /\ category = FirstCategory
      /\ list = ReorderItems(Started.list, [p \in Paths |-> NoPosition])
      /\ temps = {} /\ hidden = Started.hidden /\ saved = PositionsIn(list)
      /\ savedWatched = TRUE /\ savedPending = FALSE
      /\ services = [p \in Packages |-> NoService] /\ removals = 0
      /\ installing = [p \in Packages |-> NoService] /\ claimed = {} /\ calls = 0
  BY DEF Init
<1>2. MonitorTypeOK
  BY <1>1, InitTypes
<1>3. FilesHeld
  BY <1>2 DEF FilesHeld, MonitorTypeOK
<1>4. PICK m, order : m = Started /\ order = [p \in Paths |-> NoPosition]
  OBVIOUS
<1>5. Good(m) /\ Core(m.list, {}, services, removals)
  BY <1>3, <1>4, StartedGood
<1>6. m.list \in Seq(Item) /\ m.hidden \in [Files -> Nat]
  BY <1>5 DEF Good, State
<1>7. order \in [Paths -> Nat \cup {NoPosition}] /\ list = ReorderItems(m.list, order)
  BY <1>1, <1>4
<1>8. Permuted(list, m.list)
  BY <1>6, <1>7, ReorderPermutes
<1>9. list \in Seq(Item) /\ Core(list, {}, services, removals)
  BY <1>5, <1>6, <1>8, PermutedHolds, CorePermuted
<1>10. saved \in [Paths -> Nat \cup {NoPosition}]
  BY <1>1, <1>9, PositionsTypes
<1>11. category \in DOMAIN InCategory /\ calls \in 0 .. MaxCalls
  BY <1>1, CallsAssumption
<1>12. /\ services \in [Packages -> Services \cup {NoService}]
       /\ installing \in [Packages -> Services \cup {NoService}]
  BY <1>1
<1>13. hidden \in [Files -> Nat]
  BY <1>1, <1>4, <1>6
<1>. QED BY <1>1, <1>2, <1>9, <1>10, <1>11, <1>12, <1>13 DEF LauncherInv, TypeOK

-----------------------------------------------------------------------------
(* updatingStarted.  A temporary launcher that bears a package's name, or    *)
(* has one of its files, is that package's.                                  *)
LEMMA OwnedBy ==
  ASSUME NEW l, Owned(l), NEW n \in DOMAIN l, l[n].temp, NEW p \in Packages,
         l[n].pkg = p \/ l[n].path \in PathsOf(p)
  PROVE  l[n].path \in PathsOf(p) /\ l[n].pkg \in {p, NoPackage}
<1>1. PICK q \in Packages : l[n].path \in PathsOf(q) /\ l[n].pkg \in {q, NoPackage}
  BY DEF Owned, TempsOwned
<1>2. q = p
  BY <1>1, PackagesNamed, PackageAssumption
<1>. QED BY <1>1, <1>2

(* The package that starts has a service then; the others keep theirs.       *)
Serves(p, now, serving) ==
  now[p] # NoService /\ \A q \in Packages : serving[q] # NoService => now[q] # NoService

OthersStay(r, l, p) ==
  \A n \in DOMAIN r : r[n].temp => \/ r[n].pkg = p /\ r[n].updating
                                   \/ \E m \in DOMAIN l : l[m] = r[n]

LEMMA StartServes ==
  ASSUME NEW l \in Seq(Item), NEW serving, NEW shots, Served(l, serving), Due(l, shots),
         NEW p \in Packages, NEW now, Serves(p, now, serving), NEW r,
         OthersStay(r, l, p)
  PROVE  Served(r, now) /\ Due(r, shots)
<1>2. now[p] # NoService /\ \A q \in Packages : serving[q] # NoService => now[q] # NoService
  BY DEF Serves
<1>3. \A m \in DOMAIN l : l[m].pkg # NoPackage => l[m].pkg \in Packages
  BY ItemsOf DEF Item
<1>4. ASSUME NEW n \in DOMAIN r, r[n].temp
      PROVE  IF r[n].pkg = NoPackage
             THEN r[n].updating => r[n].path \in {Guess[q] : q \in Packages}
             ELSE now[r[n].pkg] # NoService
  <2>1. CASE r[n].pkg = p
    BY <1>2, <2>1, PackagesNamed
  <2>2. CASE r[n].pkg # p
    <3>1. PICK m \in DOMAIN l : l[m] = r[n]
      BY <1>4, <2>2 DEF OthersStay
    <3>2. IF l[m].pkg = NoPackage
          THEN l[m].updating => l[m].path \in {Guess[q] : q \in Packages}
          ELSE serving[l[m].pkg] # NoService
      BY <1>4, <3>1 DEF Served
    <3>3. l[m].pkg # NoPackage => now[l[m].pkg] # NoService
      BY <1>2, <1>3, <3>2
    <3>. QED BY <3>1, <3>2, <3>3
  <2>. QED BY <2>1, <2>2
<1>5. ASSUME NEW n \in DOMAIN r, r[n].temp, ~ r[n].updating PROVE shots > 0
  <2>1. PICK m \in DOMAIN l : l[m] = r[n]
    BY <1>5 DEF OthersStay
  <2>. QED BY <1>5, <2>1 DEF Due
<1>6. Served(r, now)
  BY <1>4 DEF Served
<1>7. Due(r, shots)
  BY <1>5 DEF Due
<1>. QED BY <1>6, <1>7

(* A package without a launcher gets a temporary one.                        *)
LEMMA InstalledCore ==
  ASSUME NEW l, NEW t, NEW serving, NEW shots,
         Core(l, t, serving, shots), NEW p \in Packages,
         NEW now, Serves(p, now, serving),
         NEW item \in Item, item.temp, item.updating, item.pkg = p,
         item.path \in PathsOf(p),
         \A k \in DOMAIN l : l[k].id # item.id /\ l[k].path \notin PathsOf(p) /\ l[k].pkg # p,
         NEW c \in Nat, DOMAIN l = 1 .. c, NEW r \in Seq(Item), DOMAIN r = 1 .. c + 1,
         r[c + 1] = item, \A n \in 1 .. c : r[n] = l[n],
         NEW ids, ids = t \cup {item.id}
  PROVE  Core(r, ids, now, shots)
<1>1. /\ l \in Seq(Item) /\ Differ(l) /\ t = TempIds(l) /\ Owned(l)
      /\ Served(l, serving) /\ Due(l, shots)
  BY DEF Core, Differ
<1>5. /\ \A n \in DOMAIN r : (n \in DOMAIN l /\ r[n] = l[n]) \/ (n = c + 1 /\ r[n] = item)
      /\ c + 1 \in DOMAIN r /\ \A n \in DOMAIN l : n \in DOMAIN r /\ r[n] = l[n]
  <2>1. /\ \A n \in 1 .. c + 1 : n \in 1 .. c \/ n = c + 1
        /\ c + 1 \in 1 .. c + 1 /\ \A n \in 1 .. c : n \in 1 .. c + 1
    OBVIOUS
  <2>. QED BY <2>1
<1>6. Differ(r)
  BY <1>1, <1>5 DEF Differ
<1>7. TempIds(r) = ids
  BY <1>1, <1>5 DEF TempIds
<1>8. TempsOwned(r)
  BY <1>1, <1>5 DEF Owned, TempsOwned
<1>9. \A q \in Packages : item.path \in PathsOf(q) => q = p
  BY PackageAssumption
<1>10. OneTempEach(r)
  <2>. SUFFICES ASSUME NEW i \in DOMAIN r, NEW j \in DOMAIN r, NEW q \in Packages,
                       r[i].temp, r[j].temp, r[i].path \in PathsOf(q), r[j].path \in PathsOf(q)
                PROVE  i = j
    BY DEF OneTempEach
  <2>1. CASE i = c + 1 \/ j = c + 1
    BY <1>5, <1>9, <2>1
  <2>2. CASE i # c + 1 /\ j # c + 1
    <3>1. i \in DOMAIN l /\ j \in DOMAIN l /\ r[i] = l[i] /\ r[j] = l[j]
      BY <1>5, <2>2
    <3>. QED BY <1>1, <3>1 DEF Owned, OneTempEach
  <2>. QED BY <2>1, <2>2
<1>11. NamedOnce(r)
  <2>. SUFFICES ASSUME NEW i \in DOMAIN r, NEW j \in DOMAIN r, NEW q \in Packages, i # j,
                       r[i].temp, r[i].path \in PathsOf(q), r[j].pkg = q
                PROVE  /\ ~ r[j].temp /\ r[j].path \in Announced[q]
                       /\ r[i].pkg = NoPackage /\ r[i].path = Guess[q] /\ Guess[q] \in Guesses
    BY DEF NamedOnce
  <2>1. CASE i = c + 1
    BY <1>5, <1>9, <2>1
  <2>2. CASE j = c + 1
    BY <1>5, <2>2
  <2>3. CASE i # c + 1 /\ j # c + 1
    <3>1. i \in DOMAIN l /\ j \in DOMAIN l /\ r[i] = l[i] /\ r[j] = l[j]
      BY <1>5, <2>3
    <3>. QED BY <1>1, <3>1 DEF Owned, NamedOnce
  <2>. QED BY <2>1, <2>2, <2>3
<1>12. PermanentAreFiles(r)
  BY <1>1, <1>5 DEF Owned, PermanentAreFiles
<1>13. Served(r, now) /\ Due(r, shots)
  <2>1. OthersStay(r, l, p)
    BY <1>5 DEF OthersStay
  <2>. QED BY <1>1, <2>1, StartServes
<1>. QED BY <1>6, <1>7, <1>8, <1>10, <1>11, <1>12, <1>13 DEF Core, Owned

(* The temporary launcher of a package gets the announced file.              *)
LEMMA ClaimedCore ==
  ASSUME NEW l, NEW t, NEW serving, NEW shots,
         Core(l, t, serving, shots), NEW p \in Packages,
         NEW now, Serves(p, now, serving),
         NEW k \in DOMAIN l, l[k].temp, l[k].path \in PathsOf(p),
         NEW item \in Item, item.id = l[k].id, item.path \in PathsOf(p), item.pkg = p,
         item.updating, ~ item.temp => item.path \in Files,
         \A n \in DOMAIN l : n # k => l[n].path # item.path /\ l[n].pkg # p,
         NEW r \in Seq(Item), DOMAIN r = DOMAIN l, r[k] = item,
         \A n \in DOMAIN l : n # k => r[n] = l[n],
         NEW ids, ids = IF item.temp THEN t ELSE t \ {item.id}
  PROVE  Core(r, ids, now, shots)
<1>1. /\ l \in Seq(Item) /\ Differ(l) /\ t = TempIds(l) /\ Owned(l)
      /\ Served(l, serving) /\ Due(l, shots)
  BY DEF Core, Differ
<1>2. \A n \in DOMAIN l : n # k => r[n] = l[n] /\ l[n].id # item.id
  BY <1>1 DEF Differ
<1>3. Differ(r)
  <2>1. \A i, j \in DOMAIN l : r[i].id = r[j].id => i = j
    BY <1>1, <1>2 DEF Differ
  <2>2. \A i, j \in DOMAIN l : r[i].path = r[j].path => i = j
    BY <1>1, <1>2 DEF Differ
  <2>. QED BY <2>1, <2>2 DEF Differ
<1>4. TempIds(r) = ids
  <2>1. CASE item.temp
    <3>1. \A n \in DOMAIN l : (r[n].temp <=> l[n].temp) /\ r[n].id = l[n].id
      BY <1>2, <2>1
    <3>. QED BY <1>1, <2>1, <3>1 DEF TempIds
  <2>2. CASE ~ item.temp
    <3>1. \A n \in DOMAIN l : (r[n].temp <=> l[n].temp /\ n # k) /\ r[n].id = l[n].id
      BY <1>2, <2>2
    <3>2. \A n \in DOMAIN l : n # k <=> l[n].id # item.id
      BY <1>2
    <3>. QED BY <1>1, <2>2, <3>1, <3>2 DEF TempIds
  <2>. QED BY <2>1, <2>2
<1>5. \A n \in DOMAIN l : n # k /\ l[n].temp => l[n].path \notin PathsOf(p)
  BY <1>1 DEF Owned, OneTempEach
<1>6. \A q \in Packages : item.path \in PathsOf(q) => q = p
  BY PackageAssumption
<1>7. TempsOwned(r)
  BY <1>1, <1>2 DEF Owned, TempsOwned
<1>8. OneTempEach(r)
  <2>. SUFFICES ASSUME NEW i \in DOMAIN l, NEW j \in DOMAIN l, NEW q \in Packages,
                       r[i].temp, r[j].temp, r[i].path \in PathsOf(q), r[j].path \in PathsOf(q),
                       i # j
                PROVE  FALSE
    BY DEF OneTempEach
  <2>1. i # k /\ j # k
    BY <1>2, <1>5, <1>6
  <2>. QED BY <1>1, <1>2, <2>1 DEF Owned, OneTempEach
<1>9. NamedOnce(r)
  <2>. SUFFICES ASSUME NEW i \in DOMAIN l, NEW j \in DOMAIN l, NEW q \in Packages, i # j,
                       r[i].temp, r[i].path \in PathsOf(q), r[j].pkg = q
                PROVE  /\ ~ r[j].temp /\ r[j].path \in Announced[q]
                       /\ r[i].pkg = NoPackage /\ r[i].path = Guess[q] /\ Guess[q] \in Guesses
    BY DEF NamedOnce
  <2>1. i # k /\ j # k
    BY <1>2, <1>5, <1>6
  <2>2. r[i] = l[i] /\ r[j] = l[j]
    BY <1>2, <2>1
  <2>. QED BY <1>1, <2>2 DEF Owned, NamedOnce
<1>10. PermanentAreFiles(r)
  BY <1>1, <1>2 DEF Owned, PermanentAreFiles
<1>11. Served(r, now) /\ Due(r, shots)
  <2>1. OthersStay(r, l, p)
    BY <1>2 DEF OthersStay
  <2>. QED BY <1>1, <2>1, StartServes
<1>. QED BY <1>3, <1>4, <1>7, <1>8, <1>9, <1>10, <1>11 DEF Core, Owned

(* A permanent launcher gets the package; its temporary one is superseded.   *)
LEMMA SupersededCore ==
  ASSUME NEW l, NEW t, NEW serving, NEW shots, Core(l, t, serving, shots),
         NEW p \in Packages, NEW now, Serves(p, now, serving),
         NEW k \in DOMAIN l, ~ l[k].temp, NEW s \in DOMAIN l, l[s].temp, l[s].pkg = p,
         NEW item \in Item, item.id = l[k].id, item.path = l[k].path, item.temp = l[k].temp,
         item.pkg = p,
         NEW mid \in Seq(Item), DOMAIN mid = DOMAIN l, mid[k] = item,
         \A n \in DOMAIN l : n # k => mid[n] = l[n],
         NEW r \in Seq(Item), Picked(r, mid, DOMAIN mid \ {s})
  PROVE  Core(r, t \ {l[s].id}, now, shots)
<1>1. /\ l \in Seq(Item) /\ Differ(l) /\ t = TempIds(l) /\ Owned(l)
      /\ Served(l, serving) /\ Due(l, shots)
  BY DEF Core, Differ
<1>2. \A n \in DOMAIN l : mid[n].id = l[n].id /\ mid[n].path = l[n].path /\ mid[n].temp = l[n].temp
  OBVIOUS
<1>3. Differ(mid) /\ TempIds(mid) = t
  BY <1>1, <1>2, SameLaunchers
<1>4. PICK D : D = DOMAIN mid \ {s}
  OBVIOUS
<1>5. Picked(r, mid, D) /\ D \in SUBSET DOMAIN mid
  BY <1>4
<1>6. /\ Differ(r)
      /\ TempIds(r) = {mid[n].id : n \in {i \in D : mid[i].temp}}
  BY <1>3, <1>5, PickedDiffer
<1>7. TempIds(r) = t \ {l[s].id}
  <2>1. \A n \in DOMAIN l : n # s <=> l[n].id # l[s].id
    BY <1>1 DEF Differ
  <2>2. \A n \in D : mid[n].id = l[n].id /\ mid[n].temp = l[n].temp
    BY <1>2, <1>4
  <2>3. D = DOMAIN l \ {s}
    BY <1>4
  <2>4. ASSUME NEW x \in TempIds(r) PROVE x \in t \ {l[s].id}
    <3>1. PICK n \in D : mid[n].temp /\ x = mid[n].id
      BY <1>6
    <3>2. n \in DOMAIN l /\ n # s /\ l[n].temp /\ x = l[n].id
      BY <2>2, <2>3, <3>1
    <3>. QED BY <1>1, <2>1, <3>2 DEF TempIds
  <2>5. ASSUME NEW x \in t \ {l[s].id} PROVE x \in TempIds(r)
    <3>1. PICK n \in DOMAIN l : l[n].temp /\ x = l[n].id
      BY <1>1 DEF TempIds
    <3>2. n \in D /\ mid[n].temp /\ x = mid[n].id
      BY <2>2, <2>3, <3>1
    <3>. QED BY <1>6, <3>2
  <2>. QED BY <2>4, <2>5
<1>8. PICK way \in [DOMAIN r -> D] :
        /\ \A a, b \in DOMAIN r : way[a] = way[b] => a = b
        /\ \A n \in DOMAIN r : r[n] = mid[way[n]]
  BY <1>5 DEF Picked
<1>9. \A n \in DOMAIN r : /\ way[n] \in DOMAIN l /\ way[n] # s /\ r[n] = mid[way[n]]
                          /\ r[n].path = l[way[n]].path /\ r[n].temp = l[way[n]].temp
  BY <1>2, <1>4, <1>8
<1>10. \A n \in DOMAIN r : r[n].temp => way[n] # k /\ r[n] = l[way[n]]
  BY <1>9
<1>11. l[s].path \in PathsOf(p)
  BY <1>1, OwnedBy
<1>12. \A n \in DOMAIN r : r[n].temp => r[n].path \notin PathsOf(p)
  BY <1>1, <1>9, <1>10, <1>11 DEF Owned, OneTempEach
<1>13. TempsOwned(r)
  BY <1>1, <1>9, <1>10 DEF Owned, TempsOwned
<1>14. OneTempEach(r)
  BY <1>1, <1>8, <1>9 DEF Owned, OneTempEach
<1>15. NamedOnce(r)
  <2>. SUFFICES ASSUME NEW i \in DOMAIN r, NEW j \in DOMAIN r, NEW q \in Packages, i # j,
                       r[i].temp, r[i].path \in PathsOf(q), r[j].pkg = q
                PROVE  /\ ~ r[j].temp /\ r[j].path \in Announced[q]
                       /\ r[i].pkg = NoPackage /\ r[i].path = Guess[q] /\ Guess[q] \in Guesses
    BY DEF NamedOnce
  <2>1. q # p
    BY <1>12
  <2>2. way[j] # k /\ r[j] = l[way[j]]
    BY <1>9, <2>1
  <2>3. way[i] # way[j] /\ r[i] = l[way[i]] /\ way[i] \in DOMAIN l /\ way[j] \in DOMAIN l
    BY <1>8, <1>9, <1>10
  <2>. QED BY <1>1, <2>2, <2>3 DEF Owned, NamedOnce
<1>16. PermanentAreFiles(r)
  BY <1>1, <1>9 DEF Owned, PermanentAreFiles
<1>17. Served(r, now) /\ Due(r, shots)
  <2>1. OthersStay(r, l, p)
    BY <1>9, <1>10 DEF OthersStay
  <2>. QED BY <1>1, <2>1, StartServes
<1>. QED BY <1>6, <1>7, <1>13, <1>14, <1>15, <1>16, <1>17 DEF Core, Owned

(* A permanent launcher gets the package; a temporary one that is left is    *)
(* at the guess, without the name.                                           *)
LEMMA NamedCore ==
  ASSUME NEW l, NEW t, NEW serving, NEW shots, Core(l, t, serving, shots),
         NEW p \in Packages, NEW now, Serves(p, now, serving),
         NEW k \in DOMAIN l, ~ l[k].temp,
         NEW item \in Item, item.id = l[k].id, item.path = l[k].path, item.temp = l[k].temp,
         item.pkg = p,
         \A i \in DOMAIN l : l[i].temp /\ l[i].path \in PathsOf(p) =>
            /\ l[k].path \in Announced[p]
            /\ l[i].pkg = NoPackage /\ l[i].path = Guess[p] /\ Guess[p] \in Guesses,
         NEW r \in Seq(Item), DOMAIN r = DOMAIN l, r[k] = item,
         \A n \in DOMAIN l : n # k => r[n] = l[n]
  PROVE  Core(r, t, now, shots)
<1>1. /\ l \in Seq(Item) /\ Differ(l) /\ t = TempIds(l) /\ Owned(l)
      /\ Served(l, serving) /\ Due(l, shots)
  BY DEF Core, Differ
<1>2. \A n \in DOMAIN l : r[n].id = l[n].id /\ r[n].path = l[n].path /\ r[n].temp = l[n].temp
  OBVIOUS
<1>3. Differ(r) /\ TempIds(r) = t
  BY <1>1, <1>2, SameLaunchers
<1>4. \A n \in DOMAIN l : r[n].temp => n # k /\ r[n] = l[n]
  BY <1>2
<1>5. TempsOwned(r)
  BY <1>1, <1>4 DEF Owned, TempsOwned
<1>6. OneTempEach(r)
  BY <1>1, <1>2 DEF Owned, OneTempEach
<1>7. NamedOnce(r)
  <2>. SUFFICES ASSUME NEW i \in DOMAIN l, NEW j \in DOMAIN l, NEW q \in Packages, i # j,
                       r[i].temp, r[i].path \in PathsOf(q), r[j].pkg = q
                PROVE  /\ ~ r[j].temp /\ r[j].path \in Announced[q]
                       /\ r[i].pkg = NoPackage /\ r[i].path = Guess[q] /\ Guess[q] \in Guesses
    BY DEF NamedOnce
  <2>1. r[i] = l[i]
    BY <1>4
  <2>2. CASE j = k
    BY <1>2, <2>1, <2>2
  <2>3. CASE j # k
    BY <1>1, <2>1, <2>3 DEF Owned, NamedOnce
  <2>. QED BY <2>2, <2>3
<1>8. PermanentAreFiles(r)
  BY <1>1, <1>2 DEF Owned, PermanentAreFiles
<1>9. Served(r, now) /\ Due(r, shots)
  <2>1. OthersStay(r, l, p)
    BY <1>4 DEF OthersStay
  <2>. QED BY <1>1, <2>1, StartServes
<1>. QED BY <1>3, <1>5, <1>6, <1>7, <1>8, <1>9 DEF Core, Owned

(* What the pieces of updatingStarted make of the list.                      *)
Starts(b, m, k, p) ==
  /\ b \in State /\ b.temps = m.temps /\ DOMAIN b.list = DOMAIN m.list
  /\ \A n \in DOMAIN m.list : n # k => b.list[n] = m.list[n]
  /\ b.list[k] \in Item /\ b.list[k].id = m.list[k].id
  /\ b.list[k].path = m.list[k].path /\ b.list[k].temp = m.list[k].temp
  /\ b.list[k].pkg = p /\ b.list[k].updating = TRUE /\ b.list[k].seen = m.list[k].seen

LEMMA StartUpdateIs ==
  ASSUME NEW m \in State, NEW k \in DOMAIN m.list, NEW p \in Packages
  PROVE  Starts(StartUpdate(m, k, p), m, k, p)
<1>1. PICK l : l = m.list
  OBVIOUS
<1>2. l \in Seq(Item) /\ k \in DOMAIN l
  BY <1>1 DEF State
<1>3. l[k] \in Item
  BY <1>2, ItemsOf
<1>4. PICK item : item = [l[k] EXCEPT !.updating = TRUE, !.pkg = p]
  OBVIOUS
<1>5. /\ item \in Item /\ item.id = l[k].id /\ item.path = l[k].path /\ item.temp = l[k].temp
      /\ item.pkg = p /\ item.updating = TRUE /\ item.seen = l[k].seen
  BY <1>3, <1>4 DEF Item
<1>6. PICK r : r = [l EXCEPT ![k] = item]
  OBVIOUS
<1>7. DOMAIN r = DOMAIN l /\ r[k] = item /\ \A n \in DOMAIN l : n # k => r[n] = l[n]
  BY <1>2, <1>6, ItemsOf
<1>8. r \in Seq(Item)
  BY <1>2, <1>5, <1>6, ItemsOf, ExceptSeq
<1>9. StartUpdate(m, k, p) = [m EXCEPT !.list = r]
  BY <1>1, <1>2, <1>4, <1>6 DEF StartUpdate, State
<1>10. /\ StartUpdate(m, k, p) \in State /\ StartUpdate(m, k, p).temps = m.temps
       /\ StartUpdate(m, k, p).list = r
  BY <1>8, <1>9 DEF State
<1>. QED BY <1>1, <1>5, <1>7, <1>10 DEF Starts

Claims(b, m, k, path) ==
  /\ b \in State /\ DOMAIN b.list = DOMAIN m.list
  /\ \A n \in DOMAIN m.list : n # k => b.list[n] = m.list[n]
  /\ b.list[k] \in Item /\ b.list[k].id = m.list[k].id /\ b.list[k].path = path
  /\ \/ b.list[k].temp = m.list[k].temp /\ b.temps = m.temps
     \/ /\ b.list[k].temp = FALSE /\ path \in Files /\ ContentOf(path) # Absent
        /\ b.temps = m.temps \ {m.list[k].id}

LEMMA ClaimIs ==
  ASSUME FilesHeld, NEW m \in State, NEW k \in DOMAIN m.list, NEW path \in Paths
  PROVE  Claims(Claim(m, k, path), m, k, path)
<1>1. PICK l, content : l = m.list /\ content = ContentOf(path)
  OBVIOUS
<1>2. l \in Seq(Item) /\ k \in DOMAIN l
  BY <1>1 DEF State
<1>3. l[k] \in Item
  BY <1>2, ItemsOf
<1>4. content \in Contents \cup {Absent} /\ (content # Absent => path \in Files)
  BY <1>1 DEF ContentOf, FilesHeld
<1>5. PICK item : item = [l[k] EXCEPT !.path = path, !.seen = content]
  OBVIOUS
<1>6. /\ item \in Item /\ item.id = l[k].id /\ item.path = path /\ item.temp = l[k].temp
  BY <1>3, <1>4, <1>5 DEF Item
<1>7. PICK r : r = [l EXCEPT ![k] = item]
  OBVIOUS
<1>8. DOMAIN r = DOMAIN l /\ r[k] = item /\ \A n \in DOMAIN l : n # k => r[n] = l[n]
  BY <1>2, <1>7, ItemsOf
<1>9. r \in Seq(Item)
  BY <1>2, <1>6, <1>7, ItemsOf, ExceptSeq
<1>10. PICK taken : taken = [m EXCEPT !.list = r]
  OBVIOUS
<1>11. taken = [m EXCEPT !.list[k].path = path, !.list[k].seen = content]
  BY <1>1, <1>2, <1>5, <1>7, <1>10 DEF State
<1>12. taken \in State /\ taken.list = r /\ taken.temps = m.temps
  BY <1>9, <1>10 DEF State
<1>13. Claim(m, k, path) = IF content = Absent THEN taken ELSE UnsetTemporary(taken, k)
  BY <1>1, <1>11 DEF Claim
<1>14. CASE content = Absent
  BY <1>1, <1>6, <1>8, <1>12, <1>13, <1>14 DEF Claims
<1>15. CASE content # Absent
  <2>1. PICK done : done = [item EXCEPT !.temp = FALSE]
    OBVIOUS
  <2>2. done \in Item /\ done.id = item.id /\ done.path = path /\ done.temp = FALSE
    BY <1>6, <2>1 DEF Item
  <2>3. PICK u : u = [r EXCEPT ![k] = done]
    OBVIOUS
  <2>4. DOMAIN u = DOMAIN l /\ u[k] = done /\ \A n \in DOMAIN l : n # k => u[n] = l[n]
    BY <1>2, <1>8, <1>9, <2>3, ItemsOf
  <2>5. u \in Seq(Item)
    BY <1>2, <1>8, <1>9, <2>2, <2>3, ItemsOf, ExceptSeq
  <2>6. UnsetTemporary(taken, k) = [taken EXCEPT !.list = u, !.temps = m.temps \ {item.id}]
    BY <1>2, <1>8, <1>12, <2>1, <2>3 DEF UnsetTemporary, State
  <2>7. PICK new : new = UnsetTemporary(taken, k)
    OBVIOUS
  <2>8. new \in State /\ new.list = u /\ new.temps = m.temps \ {item.id}
    BY <1>12, <2>5, <2>6, <2>7 DEF State
  <2>9. Claim(m, k, path) = new
    BY <1>13, <1>15, <2>7
  <2>. QED BY <1>1, <1>4, <1>6, <1>15, <2>2, <2>4, <2>8, <2>9 DEF Claims
<1>. QED BY <1>14, <1>15

Installs(b, m, path, c) ==
  /\ b \in State /\ DOMAIN b.list = 1 .. c + 1
  /\ \A n \in 1 .. c : b.list[n] = m.list[n]
  /\ b.list[c + 1].path = path /\ b.list[c + 1].temp = TRUE
  /\ b.temps = m.temps \cup {b.list[c + 1].id}
  /\ \A n \in 1 .. c : m.list[n].id # b.list[c + 1].id

LEMMA InstallIs ==
  ASSUME FilesHeld, NEW m, Good(m), NEW path \in Paths, NEW c \in Nat, DOMAIN m.list = 1 .. c
  PROVE  Installs(Install(m, path), m, path, c)
<1>1. PICK l, fresh : l = m.list /\ fresh = NewItem(m, path)
  OBVIOUS
<1>2. m \in State /\ l \in Seq(Item)
  BY <1>1 DEF Good, State
<1>3. /\ fresh \in Item /\ fresh.path = path /\ \A n \in 1 .. c : l[n].id # fresh.id
  <2>1. /\ NewItem(m, path) \in Item /\ NewItem(m, path).path = path
        /\ \A n \in DOMAIN m.list : m.list[n].id # NewItem(m, path).id
    BY NewItemHolds
  <2>. QED BY <1>1, <2>1
<1>4. PICK item : item = [fresh EXCEPT !.temp = TRUE]
  OBVIOUS
<1>5. item \in Item /\ item.path = path /\ item.temp = TRUE /\ item.id = fresh.id
  BY <1>3, <1>4 DEF Item
<1>6. PICK r : r = Append(l, item)
  OBVIOUS
<1>7. Len(l) = c
  BY <1>1, <1>2, LenProperties
<1>8. /\ r \in Seq(Item) /\ Len(r) = c + 1 /\ r[c + 1] = item
      /\ \A n \in 1 .. c : r[n] = l[n]
  BY <1>2, <1>5, <1>6, <1>7, AppendProperties
<1>9. DOMAIN r = 1 .. c + 1
  BY <1>8, ItemsOf
<1>10. Install(m, path) = [m EXCEPT !.list = r, !.temps = m.temps \cup {item.id}]
  BY <1>1, <1>4, <1>6 DEF Install
<1>11. item.id \in Nat
  BY <1>5 DEF Item
<1>12. PICK new : new = Install(m, path)
  OBVIOUS
<1>13. new \in State /\ new.list = r /\ new.temps = m.temps \cup {item.id}
  <2>1. PICK ids : ids = m.temps \cup {item.id}
    OBVIOUS
  <2>2. ids \in SUBSET Nat
    BY <1>2, <1>11, <2>1 DEF State
  <2>3. new = [m EXCEPT !.list = r, !.temps = ids]
    BY <1>10, <1>12, <2>1
  <2>4. new \in State /\ new.list = r /\ new.temps = ids
    BY <1>2, <1>8, <2>2, <2>3 DEF State
  <2>. QED BY <2>1, <2>4
<1>. QED BY <1>1, <1>3, <1>5, <1>8, <1>9, <1>12, <1>13 DEF Installs

LEMMA AnnouncedPath ==
  ASSUME NEW p \in Packages, NEW d \in Announced[p], NEW path,
         path = IF d = NoPath THEN Guess[p] ELSE d
  PROVE  /\ path \in Paths /\ path \in PathsOf(p)
         /\ d # NoPath => path \in Files
         /\ \A f \in PathsOf(p) : f # path => f \in Announced[p] \/ f = Guess[p]
<1>1. PICK f \in Files : Announced[p] \subseteq {f, NoPath} /\ Guess[p] \in {f} \cup Guesses
  BY PackageAssumption
<1>2. d # NoPath => d \in Files /\ d = f
  BY <1>1
<1>3. Guess[p] \in Paths
  BY <1>1 DEF Paths
<1>. QED BY <1>2, <1>3 DEF PathsOf, Paths

(* When the launcher that is found is permanent, a temporary one of the      *)
(* package that does not bear its name is at the guess, which does not exist.*)
LEMMA LeftAtGuess ==
  ASSUME NEW l, Differ(l), Owned(l), NEW p \in Packages, NEW k \in DOMAIN l, ~ l[k].temp,
         \/ l[k].path \in PathsOf(p)
         \/ l[k].pkg = p,
         NEW i \in DOMAIN l, l[i].temp, l[i].path \in PathsOf(p), l[i].pkg # p
  PROVE  /\ l[k].path \in Announced[p]
         /\ l[i].pkg = NoPackage /\ l[i].path = Guess[p] /\ Guess[p] \in Guesses
<1>1. i # k /\ l[i].pkg = NoPackage
  BY OwnedBy
<1>2. CASE l[k].pkg = p
  BY <1>1, <1>2 DEF Owned, NamedOnce
<1>3. CASE l[k].path \in PathsOf(p)
  <2>1. PICK d \in Files : Announced[p] \subseteq {d, NoPath} /\ Guess[p] \in {d} \cup Guesses
    BY PackageAssumption
  <2>2. l[k].path \in Files
    BY DEF Owned, PermanentAreFiles
  <2>3. l[i].path # l[k].path
    BY <1>1 DEF Differ
  <2>4. l[k].path = d
    BY <1>3, <2>1, <2>2, PathsAssumption DEF PathsOf
  <2>5. l[i].path = Guess[p] /\ Guess[p] # d
    BY <2>1, <2>3, <2>4 DEF PathsOf
  <2>6. Guess[p] \in Guesses
    BY <2>1, <2>5
  <2>7. l[k].path \in Announced[p]
    BY <1>3, <2>4, <2>5 DEF PathsOf
  <2>. QED BY <1>1, <2>5, <2>6, <2>7
<1>. QED BY <1>2, <1>3

Superseded(l, t, p) == SelectInSeq(l, LAMBDA i : i.id \in t /\ i.pkg = p)

LEMMA SupersededHolds ==
  ASSUME NEW l \in Seq(Item), NEW t, NEW p, NEW s, s = Superseded(l, t, p)
  PROVE  /\ s # 0 => s \in DOMAIN l /\ l[s].id \in t /\ l[s].pkg = p
         /\ s = 0 => \A n \in DOMAIN l : ~ (l[n].id \in t /\ l[n].pkg = p)
<1>1. Len(l) \in Nat /\ DOMAIN l = 1 .. Len(l)
  BY ItemsOf
<1>2. PICK S : S = {i \in 1 .. Len(l) : l[i].id \in t /\ l[i].pkg = p}
  OBVIOUS
<1>3. s = IF S # {} THEN Min(S) ELSE 0
  BY <1>2 DEF Superseded, SelectInSeq
<1>4. S # {} => Min(S) \in S
  <2>1. S \in SUBSET Nat
    BY <1>1, <1>2
  <2>. QED BY <2>1, MinOf
<1>. QED BY <1>1, <1>2, <1>3, <1>4

(* The launchers after updatingStarted, case by case.                        *)
Holds(m, serving, shots) == m \in State /\ Core(m.list, m.temps, serving, shots)

LEMMA StartedAnew ==
  ASSUME FilesHeld, NEW m, Good(m), NEW serving, NEW shots, Core(m.list, m.temps, serving, shots),
         NEW p \in Packages, NEW now, Serves(p, now, serving),
         NEW path \in Paths, path \in PathsOf(p),
         \A n \in DOMAIN m.list : m.list[n].path \notin PathsOf(p) /\ m.list[n].pkg # p
  PROVE  Holds(StartUpdate(Install(m, path), Len(m.list) + 1, p), now, shots)
<1>1. PICK l : l = m.list
  OBVIOUS
<1>2. l \in Seq(Item) /\ m \in State
  BY <1>1 DEF Good, State
<1>3. PICK c \in Nat : c = Len(l) /\ DOMAIN l = 1 .. c
  BY <1>2, ItemsOf
<1>4. PICK a : a = Install(m, path)
  OBVIOUS
<1>5. /\ a \in State /\ DOMAIN a.list = 1 .. c + 1
      /\ \A n \in 1 .. c : a.list[n] = l[n]
      /\ a.list[c + 1].path = path /\ a.list[c + 1].temp = TRUE
      /\ a.temps = m.temps \cup {a.list[c + 1].id}
      /\ \A n \in 1 .. c : l[n].id # a.list[c + 1].id
  <2>1. Installs(a, m, path, c)
    BY <1>1, <1>3, <1>4, InstallIs
  <2>. QED BY <1>1, <2>1 DEF Installs
<1>6. PICK b : b = StartUpdate(a, c + 1, p)
  OBVIOUS
<1>7. c + 1 \in DOMAIN a.list /\ \A n \in 1 .. c : n \in DOMAIN a.list /\ n # c + 1
  <2>1. c + 1 \in 1 .. c + 1 /\ \A n \in 1 .. c : n \in 1 .. c + 1 /\ n # c + 1
    OBVIOUS
  <2>. QED BY <1>5, <2>1
<1>8. /\ b \in State /\ b.temps = a.temps /\ DOMAIN b.list = DOMAIN a.list
      /\ \A n \in DOMAIN a.list : n # c + 1 => b.list[n] = a.list[n]
      /\ b.list[c + 1] \in Item /\ b.list[c + 1].id = a.list[c + 1].id
      /\ b.list[c + 1].path = a.list[c + 1].path /\ b.list[c + 1].temp = a.list[c + 1].temp
      /\ b.list[c + 1].pkg = p /\ b.list[c + 1].updating = TRUE
  <2>1. Starts(b, a, c + 1, p)
    BY <1>5, <1>6, <1>7, StartUpdateIs
  <2>. QED BY <2>1 DEF Starts
<1>9. PICK r, item : r = b.list /\ item = b.list[c + 1]
  OBVIOUS
<1>10. /\ r \in Seq(Item) /\ DOMAIN r = 1 .. c + 1 /\ r[c + 1] = item
       /\ \A n \in 1 .. c : r[n] = l[n]
  BY <1>5, <1>7, <1>8, <1>9 DEF State
<1>11. /\ item \in Item /\ item.temp = TRUE /\ item.updating = TRUE /\ item.pkg = p
       /\ item.path \in PathsOf(p)
  BY <1>5, <1>8, <1>9
<1>12. \A n \in DOMAIN l : l[n].id # item.id /\ l[n].path \notin PathsOf(p) /\ l[n].pkg # p
  BY <1>1, <1>3, <1>5, <1>8, <1>9
<1>13. Core(l, m.temps, serving, shots)
  BY <1>1
<1>14. PICK t, ids : t = m.temps /\ ids = b.temps
  OBVIOUS
<1>15. ids = t \cup {item.id}
  BY <1>5, <1>8, <1>9, <1>14
<1>16. Core(l, t, serving, shots)
  BY <1>13, <1>14
<1>17. Core(r, ids, now, shots)
  BY <1>3, <1>10, <1>11, <1>12, <1>15, <1>16, InstalledCore
<1>18. Holds(b, now, shots)
  BY <1>8, <1>9, <1>14, <1>17 DEF Holds
<1>. QED BY <1>1, <1>3, <1>4, <1>6, <1>18

LEMMA StartedClaimed ==
  ASSUME FilesHeld, NEW m, Good(m), NEW serving, NEW shots, Core(m.list, m.temps, serving, shots),
         NEW p \in Packages, NEW now, Serves(p, now, serving),
         NEW path \in Paths, path \in PathsOf(p),
         NEW k \in DOMAIN m.list, m.list[k].temp, m.list[k].path \in PathsOf(p),
         \A n \in DOMAIN m.list : n # k => m.list[n].path # path /\ m.list[n].pkg # p
  PROVE  Holds(StartUpdate(Claim(m, k, path), k, p), now, shots)
<1>1. PICK l : l = m.list
  OBVIOUS
<1>2. l \in Seq(Item) /\ m \in State /\ k \in DOMAIN l
  BY <1>1 DEF Good, State
<1>3. l[k].temp = TRUE
  BY <1>1, <1>2, ItemsOf
<1>4. PICK a : a = Claim(m, k, path)
  OBVIOUS
<1>5. /\ a \in State /\ DOMAIN a.list = DOMAIN l
      /\ \A n \in DOMAIN l : n # k => a.list[n] = l[n]
      /\ a.list[k] \in Item /\ a.list[k].id = l[k].id /\ a.list[k].path = path
      /\ \/ a.list[k].temp = l[k].temp /\ a.temps = m.temps
         \/ a.list[k].temp = FALSE /\ path \in Files /\ a.temps = m.temps \ {l[k].id}
  <2>1. Claims(a, m, k, path)
    BY <1>2, <1>4, ClaimIs
  <2>. QED BY <1>1, <2>1 DEF Claims
<1>6. PICK b : b = StartUpdate(a, k, p)
  OBVIOUS
<1>7. /\ b \in State /\ b.temps = a.temps /\ DOMAIN b.list = DOMAIN a.list
      /\ \A n \in DOMAIN a.list : n # k => b.list[n] = a.list[n]
      /\ b.list[k] \in Item /\ b.list[k].id = a.list[k].id
      /\ b.list[k].path = a.list[k].path /\ b.list[k].temp = a.list[k].temp
      /\ b.list[k].pkg = p /\ b.list[k].updating = TRUE
  <2>1. Starts(b, a, k, p)
    BY <1>2, <1>5, <1>6, StartUpdateIs
  <2>. QED BY <2>1 DEF Starts
<1>8. PICK r, item : r = b.list /\ item = b.list[k]
  OBVIOUS
<1>9. /\ r \in Seq(Item) /\ DOMAIN r = DOMAIN l /\ r[k] = item
      /\ \A n \in DOMAIN l : n # k => r[n] = l[n]
  BY <1>5, <1>7, <1>8 DEF State
<1>10. /\ item \in Item /\ item.id = l[k].id /\ item.updating = TRUE /\ item.pkg = p
       /\ item.path = path
  BY <1>5, <1>7, <1>8
<1>11. /\ ~ item.temp => path \in Files
       /\ b.temps = IF item.temp THEN m.temps ELSE m.temps \ {item.id}
  BY <1>3, <1>5, <1>7, <1>8
<1>12. \A n \in DOMAIN l : n # k => l[n].path # item.path /\ l[n].pkg # p
  BY <1>1, <1>10
<1>13. Core(l, m.temps, serving, shots)
  BY <1>1
<1>14. l[k].temp /\ l[k].path \in PathsOf(p) /\ item.path \in PathsOf(p)
  BY <1>1, <1>10
<1>15. PICK t, ids : t = m.temps /\ ids = b.temps
  OBVIOUS
<1>16. Core(l, t, serving, shots) /\ ids = IF item.temp THEN t ELSE t \ {item.id}
  BY <1>11, <1>13, <1>15
<1>17. Core(r, ids, now, shots)
  BY <1>2, <1>9, <1>10, <1>11, <1>12, <1>14, <1>16, ClaimedCore
<1>18. Holds(b, now, shots)
  BY <1>7, <1>8, <1>15, <1>17 DEF Holds
<1>. QED BY <1>4, <1>6, <1>18

LEMMA StartedNamed ==
  ASSUME NEW m, Good(m), NEW serving, NEW shots, Core(m.list, m.temps, serving, shots),
         NEW p \in Packages, NEW now, Serves(p, now, serving),
         NEW k \in DOMAIN m.list, ~ m.list[k].temp,
         m.list[k].path \in PathsOf(p) \/ m.list[k].pkg = p,
         \A n \in DOMAIN m.list : ~ (m.list[n].temp /\ m.list[n].pkg = p)
  PROVE  Holds(StartUpdate(m, k, p), now, shots)
<1>1. PICK l : l = m.list
  OBVIOUS
<1>2. l \in Seq(Item) /\ m \in State /\ k \in DOMAIN l /\ Differ(l)
  BY <1>1 DEF Good, State
<1>3. Owned(l) /\ Core(l, m.temps, serving, shots) /\ ~ l[k].temp
  BY <1>1 DEF Core
<1>4. PICK b : b = StartUpdate(m, k, p)
  OBVIOUS
<1>5. /\ b \in State /\ b.temps = m.temps /\ DOMAIN b.list = DOMAIN l
      /\ \A n \in DOMAIN l : n # k => b.list[n] = l[n]
      /\ b.list[k] \in Item /\ b.list[k].id = l[k].id
      /\ b.list[k].path = l[k].path /\ b.list[k].temp = l[k].temp
      /\ b.list[k].pkg = p
  <2>1. Starts(b, m, k, p)
    BY <1>2, <1>4, StartUpdateIs
  <2>. QED BY <1>1, <2>1 DEF Starts
<1>6. PICK r, item : r = b.list /\ item = b.list[k]
  OBVIOUS
<1>7. /\ r \in Seq(Item) /\ DOMAIN r = DOMAIN l /\ r[k] = item
      /\ \A n \in DOMAIN l : n # k => r[n] = l[n]
  BY <1>5, <1>6 DEF State
<1>8. /\ item \in Item /\ item.id = l[k].id /\ item.path = l[k].path /\ item.temp = l[k].temp
      /\ item.pkg = p
  BY <1>5, <1>6
<1>9. ASSUME NEW i \in DOMAIN l, l[i].temp, l[i].path \in PathsOf(p)
      PROVE  /\ l[k].path \in Announced[p]
             /\ l[i].pkg = NoPackage /\ l[i].path = Guess[p] /\ Guess[p] \in Guesses
  <2>1. l[i].pkg # p
    BY <1>1, <1>9
  <2>2. l[k].path \in PathsOf(p) \/ l[k].pkg = p
    BY <1>1
  <2>. QED BY <1>2, <1>3, <1>9, <2>1, <2>2, LeftAtGuess
<1>10. Core(r, m.temps, now, shots)
  BY <1>2, <1>3, <1>7, <1>8, <1>9, NamedCore
<1>11. Holds(b, now, shots)
  BY <1>5, <1>6, <1>10 DEF Holds
<1>. QED BY <1>4, <1>11

LEMMA StartedSuperseding ==
  ASSUME NEW m, Good(m), NEW serving, NEW shots, Core(m.list, m.temps, serving, shots),
         NEW p \in Packages, NEW now, Serves(p, now, serving),
         NEW k \in DOMAIN m.list, ~ m.list[k].temp,
         NEW s \in DOMAIN m.list, m.list[s].temp, m.list[s].pkg = p
  PROVE  Holds(DropAt(StartUpdate(m, k, p), s), now, shots)
<1>1. PICK l : l = m.list
  OBVIOUS
<1>2. l \in Seq(Item) /\ m \in State /\ k \in DOMAIN l /\ s \in DOMAIN l /\ s # k
  BY <1>1 DEF Good, State
<1>3. Core(l, m.temps, serving, shots) /\ ~ l[k].temp /\ l[s].temp /\ l[s].pkg = p
  BY <1>1
<1>4. PICK b : b = StartUpdate(m, k, p)
  OBVIOUS
<1>5. /\ b \in State /\ b.temps = m.temps /\ DOMAIN b.list = DOMAIN l
      /\ \A n \in DOMAIN l : n # k => b.list[n] = l[n]
      /\ b.list[k] \in Item /\ b.list[k].id = l[k].id
      /\ b.list[k].path = l[k].path /\ b.list[k].temp = l[k].temp
      /\ b.list[k].pkg = p
  <2>1. Starts(b, m, k, p)
    BY <1>2, <1>4, StartUpdateIs
  <2>. QED BY <1>1, <2>1 DEF Starts
<1>6. PICK mid, item : mid = b.list /\ item = b.list[k]
  OBVIOUS
<1>7. /\ mid \in Seq(Item) /\ DOMAIN mid = DOMAIN l /\ mid[k] = item
      /\ \A n \in DOMAIN l : n # k => mid[n] = l[n]
  BY <1>5, <1>6 DEF State
<1>8. /\ item \in Item /\ item.id = l[k].id /\ item.path = l[k].path /\ item.temp = l[k].temp
      /\ item.pkg = p
  BY <1>5, <1>6
<1>9. PICK r : r = RemoveAt(mid, s)
  OBVIOUS
<1>10. r \in Seq(Item) /\ Picked(r, mid, DOMAIN mid \ {s})
  BY <1>2, <1>7, <1>9, RemoveAtPicks
<1>11. Core(r, m.temps \ {l[s].id}, now, shots)
  BY <1>2, <1>3, <1>7, <1>8, <1>10, SupersededCore
<1>12. DropAt(b, s) = [b EXCEPT !.list = r, !.temps = m.temps \ {l[s].id}]
  BY <1>2, <1>5, <1>6, <1>7, <1>9 DEF DropAt
<1>13. PICK new : new = DropAt(b, s)
  OBVIOUS
<1>14. new \in State /\ new.list = r /\ new.temps = m.temps \ {l[s].id}
  BY <1>2, <1>5, <1>10, <1>12, <1>13 DEF State
<1>15. Holds(new, now, shots)
  BY <1>11, <1>14 DEF Holds
<1>. QED BY <1>4, <1>13, <1>15

LEMMA UpdatingStartedKeeps ==
  ASSUME LauncherInv, NEW p \in Packages, NEW service \in Services, NEW d \in Announced[p],
         UpdatingStarted(p, service, d)
  PROVE  LauncherInv'
<1>1. PICK path : path = IF d = NoPath THEN Guess[p] ELSE d
  OBVIOUS
<1>2. PICK k : k = IF Find(list, path) # 0 THEN Find(list, path) ELSE FindPackage(list, p)
  OBVIOUS
<1>3. PICK s : s = Superseded(list, temps, p)
  OBVIOUS
<1>4. PICK m : m = IF k = 0
                   THEN StartUpdate(Install(Model, path), Len(list) + 1, p)
                   ELSE IF list[k].temp
                   THEN StartUpdate(Claim(Model, k, path), k, p)
                   ELSE IF s # 0
                   THEN DropAt(StartUpdate(Model, k, p), s)
                   ELSE StartUpdate(Model, k, p)
  OBVIOUS
<1>5. /\ Called
      /\ d = NoPath => \A f \in Announced[p] : Find(list, f) = 0
      /\ services' = [services EXCEPT ![p] = service]
      /\ list' = m.list /\ temps' = m.temps
      /\ installing' = [installing EXCEPT ![p] = service]
      /\ claimed' = IF k = 0 \/ list[k].temp
                    THEN claimed \cup ({path} \cap (told \cup Present)) ELSE claimed
      /\ UNCHANGED <<monitorVars, hidden, category, saved, savedWatched, savedPending, removals>>
  BY <1>1, <1>2, <1>3, <1>4 DEF UpdatingStarted, Superseded
<1>6. /\ list \in Seq(Item) /\ Differ(list) /\ temps = TempIds(list) /\ Owned(list)
      /\ Core(list, temps, services, removals)
      /\ services \in [Packages -> Services \cup {NoService}]
      /\ installing \in [Packages -> Services \cup {NoService}]
  BY DEF LauncherInv, TypeOK, Core
<1>7. FilesHeld
  BY DEF FilesHeld, LauncherInv, TypeOK, MonitorTypeOK
<1>8. /\ path \in Paths /\ path \in PathsOf(p)
      /\ d # NoPath => path \in Files
      /\ \A f \in PathsOf(p) : f # path => f \in Announced[p] \/ f = Guess[p]
  BY <1>1, AnnouncedPath
<1>9. Good(Model) /\ Model.list = list /\ Model.temps = temps
  BY ModelGood
<1>10. PICK now : now = services'
  OBVIOUS
<1>11. Serves(p, now, services)
  <2>1. now = [services EXCEPT ![p] = service]
    BY <1>5, <1>10
  <2>. QED BY <1>6, <2>1, PackageAssumption DEF Serves
<1>12. PICK a : a = Model
  OBVIOUS
<1>13. /\ Good(a) /\ a.list = list /\ a.temps = temps
       /\ Core(a.list, a.temps, services, removals)
  BY <1>6, <1>9, <1>12
<1>14. k # 0 => /\ k \in DOMAIN list
                /\ \/ list[k].path = path
                   \/ /\ \A n \in DOMAIN list : list[n].path # path
                      /\ \/ list[k].pkg = p
                         \/ list[k].path = Guess[p] /\ \A n \in DOMAIN list : list[n].pkg # p
  BY <1>2, <1>6, FindHolds, FindPackageHolds
<1>15. k = 0 => \A n \in DOMAIN list : /\ list[n].path # path /\ list[n].pkg # p
                                       /\ list[n].path # Guess[p]
  BY <1>2, <1>6, FindHolds, FindPackageHolds
<1>16. d = NoPath => \A n \in DOMAIN list : list[n].path \notin Announced[p]
  BY <1>5, <1>6, FindHolds
<1>17. /\ s # 0 => s \in DOMAIN list /\ list[s].id \in temps /\ list[s].pkg = p
       /\ s = 0 => \A n \in DOMAIN list : ~ (list[n].id \in temps /\ list[n].pkg = p)
  BY <1>3, <1>6, SupersededHolds
<1>18. k # 0 => list[k].path \in PathsOf(p) \/ list[k].pkg = p
  BY <1>8, <1>14 DEF PathsOf
<1>19. Holds(m, now, removals)
  <2>1. CASE k = 0
    <3>1. m = StartUpdate(Install(a, path), Len(a.list) + 1, p)
      BY <1>4, <1>12, <1>13, <2>1
    <3>2. ASSUME NEW n \in DOMAIN list PROVE list[n].path \notin PathsOf(p) /\ list[n].pkg # p
      <4>1. d # NoPath => path = d
        BY <1>1
      <4>2. PICK f \in Files : Announced[p] \subseteq {f, NoPath}
        BY PackageAssumption
      <4>3. list[n].path \in Announced[p] \ {NoPath} => d = NoPath \/ list[n].path = path
        BY <4>1, <4>2
      <4>4. list[n].path \notin Announced[p] \ {NoPath}
        BY <1>15, <1>16, <2>1, <4>3
      <4>. QED BY <1>15, <2>1, <4>4 DEF PathsOf
    <3>3. Holds(m, now, removals)
      BY <1>7, <1>8, <1>11, <1>13, <3>1, <3>2, StartedAnew
    <3>. QED BY <3>3
  <2>2. CASE k # 0 /\ list[k].temp
    <3>1. m = StartUpdate(Claim(a, k, path), k, p)
      BY <1>4, <1>12, <2>2
    <3>2. k \in DOMAIN list /\ list[k].path \in PathsOf(p) /\ list[k].pkg \in {p, NoPackage}
      BY <1>6, <1>14, <1>18, <2>2, OwnedBy
    <3>3. ASSUME NEW n \in DOMAIN list, n # k PROVE list[n].path # path
      BY <1>6, <1>14, <2>2, <3>2, <3>3 DEF Differ
    <3>4. ASSUME NEW n \in DOMAIN list, n # k PROVE list[n].pkg # p
      <4>. SUFFICES ASSUME list[n].pkg = p PROVE FALSE
        OBVIOUS
      <4>1. /\ list[n].path \in Announced[p] /\ list[k].pkg = NoPackage
            /\ list[k].path = Guess[p] /\ Guess[p] \in Guesses
        BY <1>6, <2>2, <3>2, <3>4 DEF Owned, NamedOnce
      <4>2. list[k].path = path
        BY <1>14, <2>2, <4>1, PackagesNamed
      <4>3. d = NoPath
        BY <1>8, <4>1, <4>2, PathsAssumption
      <4>. QED BY <1>16, <4>1, <4>3
    <3>5. Holds(m, now, removals)
      <4>1. /\ k \in DOMAIN a.list /\ a.list[k].temp /\ a.list[k].path \in PathsOf(p)
            /\ \A n \in DOMAIN a.list : n # k => a.list[n].path # path /\ a.list[n].pkg # p
        BY <1>13, <2>2, <3>2, <3>3, <3>4
      <4>. QED BY <1>7, <1>8, <1>11, <1>13, <3>1, <4>1, StartedClaimed
    <3>. QED BY <3>5
  <2>3. CASE k # 0 /\ ~ list[k].temp /\ s # 0
    <3>1. m = DropAt(StartUpdate(a, k, p), s)
      BY <1>4, <1>12, <2>3
    <3>2. list[s].temp
      BY <1>6, <1>17, <2>3, TempsAreTemp
    <3>3. /\ k \in DOMAIN a.list /\ ~ a.list[k].temp
          /\ s \in DOMAIN a.list /\ a.list[s].temp /\ a.list[s].pkg = p
      BY <1>13, <1>14, <1>17, <2>3, <3>2
    <3>4. Holds(m, now, removals)
      BY <1>11, <1>13, <3>1, <3>3, StartedSuperseding
    <3>. QED BY <3>4
  <2>4. CASE k # 0 /\ ~ list[k].temp /\ s = 0
    <3>1. m = StartUpdate(a, k, p)
      BY <1>4, <1>12, <2>4
    <3>2. \A n \in DOMAIN list : ~ (list[n].temp /\ list[n].pkg = p)
      BY <1>6, <1>17, <2>4, TempsAreTemp
    <3>3. /\ k \in DOMAIN a.list /\ ~ a.list[k].temp
          /\ a.list[k].path \in PathsOf(p) \/ a.list[k].pkg = p
          /\ \A n \in DOMAIN a.list : ~ (a.list[n].temp /\ a.list[n].pkg = p)
      BY <1>13, <1>14, <1>18, <2>4, <3>2
    <3>4. Holds(m, now, removals)
      BY <1>11, <1>13, <3>1, <3>3, StartedNamed
    <3>. QED BY <3>4
  <2>. QED BY <2>1, <2>2, <2>3, <2>4
<1>20. Core(list', temps', services', removals') /\ list' \in Seq(Item) /\ temps' \subseteq Nat
  BY <1>5, <1>10, <1>19 DEF Holds, State
<1>21. MonitorTypeOK'
  <2>1. UNCHANGED monitorVars
    BY <1>5
  <2>. QED BY <2>1, MonitorStays DEF LauncherInv, TypeOK
<1>22. calls' \in 0 .. MaxCalls
  BY <1>5, CalledTypes DEF LauncherInv, TypeOK
<1>23. claimed' \subseteq Files
  <2>1. claimed \subseteq Files /\ told \subseteq Files
    BY DEF LauncherInv, TypeOK, MonitorTypeOK
  <2>. QED BY <1>5, <2>1, PresentFiles
<1>24. /\ services' \in [Packages -> Services \cup {NoService}]
       /\ installing' \in [Packages -> Services \cup {NoService}]
  BY <1>5, <1>6
<1>. QED BY <1>5, <1>20, <1>21, <1>22, <1>23, <1>24 DEF LauncherInv, TypeOK

LEMMA LauncherInductive == Spec => []LauncherInv
<1>1. Init => LauncherInv
  BY InitHolds
<1>2. LauncherInv /\ [Next]_vars => LauncherInv'
  <2>. SUFFICES ASSUME LauncherInv, [Next]_vars PROVE LauncherInv'
    OBVIOUS
  <2>1. MonitorTypeOK
    BY DEF LauncherInv, TypeOK
  <2>2. CASE DirectoryChanges /\ UNCHANGED modelVars
    BY <2>1, <2>2, ChangesTypes, MonitorKeeps
  <2>3. CASE Deliver /\ UNCHANGED modelVars
    BY <2>1, <2>3, DeliverTypes, MonitorKeeps
  <2>4. CASE HoldbackTimeout
    BY <2>4, HoldbackKeeps
  <2>5. CASE \E p, q \in Paths : OrderChangedOutside(p, q)
    BY <2>5, OrderChangedKeeps
  <2>6. CASE LoadPositions
    BY <2>6, LoadPositionsKeeps
  <2>7. CASE \E from, to \in DOMAIN list : Move(from, to)
    BY <2>7, MoveKeeps
  <2>8. CASE \E cat \in DOMAIN InCategory : SetCategories(cat)
    BY <2>8, SetCategoriesKeeps
  <2>9. CASE \E p \in Packages :
                \/ \E s \in Services : \E d \in Announced[p] : UpdatingStarted(p, s, d)
                \/ UpdatingProgress(p)
                \/ UpdatingFinished(p)
    BY <2>9, UpdatingStartedKeeps, UpdatingProgressKeeps, UpdatingFinishedKeeps
  <2>10. CASE \E s \in Services : ServiceVanishes(s)
    BY <2>10, ServiceVanishesKeeps
  <2>11. CASE RemoveTemporaryLaunchers
    BY <2>11, RemoveTemporaryKeeps
  <2>12. CASE \/ \E k \in DOMAIN list : LaunchApplication(k) \/ LaunchingTimeout(k)
              \/ \E path \in Paths : \E isLaunching \in BOOLEAN : NotifyLaunching(path, isLaunching)
    BY <2>12, LaunchesKeep
  <2>13. CASE Restart
    BY <2>13, RestartKeeps
  <2>14. CASE UNCHANGED vars
    <3>1. UNCHANGED monitorVars /\ UNCHANGED modelVars
      BY <2>14 DEF vars
    <3>. QED BY <2>1, <3>1, MonitorStays, MonitorKeeps
  <2>. QED BY <2>2, <2>3, <2>4, <2>5, <2>6, <2>7, <2>8, <2>9, <2>10, <2>11, <2>12, <2>13,
              <2>14 DEF Next
<1>. QED BY <1>1, <1>2, PTL DEF Spec

(* The list of launchers and the temporary ones agree, no file has two, and  *)
(* a temporary launcher with a package has a service, one that is finished a *)
(* removal, that will free it: whatever files come and go, in any order with *)
(* the installations that any number of services announce, report, finish or *)
(* abandon by vanishing, with moves, changes of the saved order and of the   *)
(* categories, and restarts.  Without a package only one whose file was      *)
(* guessed is updating.  Of permanent launchers nothing of this is said.     *)
THEOREM ListStaysConsistent == Spec => []ListConsistent
<1>1. LauncherInv => ListConsistent
  <2>. SUFFICES ASSUME LauncherInv PROVE ListConsistent
    OBVIOUS
  <2>1. /\ TypeOK /\ Differ(list) /\ temps = TempIds(list) /\ list \in Seq(Item)
        /\ Served(list, services) /\ Due(list, removals)
    BY DEF LauncherInv, Core, TypeOK
  <2>2. ListedOnce
    BY <2>1 DEF ListedOnce, Differ
  <2>3. TemporariesListed
    BY <2>1 DEF TemporariesListed, TempIds, Range
  <2>4. \A i \in Range(list) : \E n \in DOMAIN list : i = list[n]
    BY DEF Range
  <2>5. SomeoneUpdates
    BY <2>1, <2>4 DEF SomeoneUpdates, Served
  <2>6. RemovalPending
    BY <2>1, <2>4 DEF RemovalPending, Due
  <2>. QED BY <2>1, <2>2, <2>3, <2>5, <2>6 DEF ListConsistent
<1>. QED BY <1>1, LauncherInductive, PTL

-----------------------------------------------------------------------------
(* What a list says of a file: the contents its permanent launchers show,    *)
(* and whether a temporary one is there; and what it should show.            *)
Shows(l, f) == {l[k].seen : k \in {n \in DOMAIN l : l[n].path = f /\ ~ l[n].temp}}

TempAt(l, f) == \E k \in DOMAIN l : l[k].temp /\ l[k].path = f

Wanted(f, cat) == IF files[f] \in Valid /\ Displays(files[f], cat) THEN {files[f]} ELSE {}

Keeps(new, old, f) == Shows(new, f) = Shows(old, f) /\ (TempAt(new, f) => TempAt(old, f))

LEMMA KeepsItself == \A l, f : Keeps(l, l, f)
BY DEF Keeps

LEMMA KeepsTwice ==
  ASSUME NEW old, NEW mid, NEW new, NEW f, Keeps(mid, old, f), Keeps(new, mid, f)
  PROVE  Keeps(new, old, f)
BY DEF Keeps

LEMMA ShowsAt ==
  ASSUME NEW l, Differ(l), NEW k \in DOMAIN l
  PROVE  /\ Shows(l, l[k].path) = IF l[k].temp THEN {} ELSE {l[k].seen}
         /\ TempAt(l, l[k].path) => l[k].temp
<1>1. \A n \in DOMAIN l : l[n].path = l[k].path => n = k
  BY DEF Differ
<1>. QED BY <1>1 DEF Shows, TempAt

LEMMA ShowsNone ==
  ASSUME NEW l, NEW f, \A k \in DOMAIN l : l[k].path # f
  PROVE  Shows(l, f) = {} /\ ~ TempAt(l, f)
BY DEF Shows, TempAt

LEMMA PickedKeeps ==
  ASSUME NEW old, NEW S \in SUBSET DOMAIN old, NEW new, Picked(new, old, S), NEW f,
         \A n \in DOMAIN old \ S : old[n].path # f \/ old[n].temp
  PROVE  Keeps(new, old, f)
<1>1. PICK way \in [DOMAIN new -> S] :
     /\ \A n \in S : \E a \in DOMAIN new : way[a] = n
     /\ \A n \in DOMAIN new : new[n] = old[way[n]]
  BY DEF Picked
<1>2. ASSUME NEW c \in Shows(new, f) PROVE c \in Shows(old, f)
  BY <1>1, <1>2 DEF Shows
<1>3. ASSUME NEW c \in Shows(old, f) PROVE c \in Shows(new, f)
  <2>1. PICK n \in DOMAIN old : old[n].path = f /\ ~ old[n].temp /\ c = old[n].seen
    BY <1>3 DEF Shows
  <2>2. n \in S
    BY <2>1
  <2>3. PICK a \in DOMAIN new : new[a] = old[n]
    BY <1>1, <2>2
  <2>. QED BY <2>1, <2>3 DEF Shows
<1>4. TempAt(new, f) => TempAt(old, f)
  BY <1>1 DEF TempAt
<1>. QED BY <1>2, <1>3, <1>4 DEF Keeps

(* Another launcher at one place, which is not at f, nor was permanent there. *)
LEMMA ChangedKeeps ==
  ASSUME NEW l, NEW k \in DOMAIN l, NEW item, NEW f,
         item.path # f, l[k].path # f \/ l[k].temp
  PROVE  Keeps([l EXCEPT ![k] = item], l, f)
<1>1. PICK r : r = [l EXCEPT ![k] = item]
  OBVIOUS
<1>2. DOMAIN r = DOMAIN l /\ r[k] = item /\ \A n \in DOMAIN l \ {k} : r[n] = l[n]
  BY <1>1
<1>3. Shows(r, f) = Shows(l, f)
  BY <1>2 DEF Shows
<1>4. TempAt(r, f) => TempAt(l, f)
  BY <1>2 DEF TempAt
<1>. QED BY <1>1, <1>3, <1>4 DEF Keeps

LEMMA AppendedKeeps ==
  ASSUME NEW l \in Seq(Item), NEW item \in Item, NEW f, item.path # f
  PROVE  Keeps(Append(l, item), l, f)
<1>1. PICK c, r : c = Len(l) /\ r = Append(l, item)
  OBVIOUS
<1>2. /\ c \in Nat /\ DOMAIN l = 1 .. c /\ r \in Seq(Item) /\ Len(r) = c + 1
      /\ (\A n \in 1 .. c : r[n] = l[n]) /\ r[c + 1] = item
  BY <1>1, ItemsOf, AppendProperties
<1>3. DOMAIN r = 1 .. c + 1
  BY <1>2, ItemsOf
<1>4. \A n \in 1 .. c + 1 : n \in 1 .. c \/ n = c + 1
  BY <1>2
<1>5. \A n \in 1 .. c : n \in 1 .. c + 1
  BY <1>2
<1>6. \A n \in DOMAIN r : r[n].path = f => n \in DOMAIN l /\ r[n] = l[n]
  BY <1>2, <1>3, <1>4
<1>7. \A n \in DOMAIN l : n \in DOMAIN r /\ r[n] = l[n]
  BY <1>2, <1>3, <1>5
<1>8. Shows(r, f) = Shows(l, f)
  BY <1>6, <1>7 DEF Shows
<1>9. TempAt(r, f) => TempAt(l, f)
  BY <1>6 DEF TempAt
<1>. QED BY <1>1, <1>8, <1>9 DEF Keeps

LEMMA AlikeKeeps ==
  ASSUME NEW old, NEW new, Alike(new, old), NEW f
  PROVE  Keeps(new, old, f)
BY DEF Alike, Keeps, Shows, TempAt

-----------------------------------------------------------------------------
(* onFilesUpdated, file by file: what the list says of the file and of the   *)
(* others.                                                                   *)
LEMMA DropAtShows ==
  ASSUME NEW m, Good(m), NEW k \in DOMAIN m.list, NEW new, new = DropAt(m, k).list
  PROVE  /\ \A n \in DOMAIN new : new[n].path # m.list[k].path
         /\ \A g : g # m.list[k].path \/ m.list[k].temp => Keeps(new, m.list, g)
<1>1. m.list \in Seq(Item) /\ Differ(m.list) /\ m \in State
  BY DEF Good, Differ
<1>2. new = RemoveAt(m.list, k)
  BY <1>1 DEF DropAt, State
<1>3. Picked(new, m.list, DOMAIN m.list \ {k})
  BY <1>1, <1>2, RemoveAtPicks
<1>4. \A n \in DOMAIN new : new[n].path # m.list[k].path
  BY <1>1, <1>3 DEF Picked, Differ
<1>5. ASSUME NEW g, g # m.list[k].path \/ m.list[k].temp PROVE Keeps(new, m.list, g)
  <2>1. \A n \in DOMAIN m.list \ (DOMAIN m.list \ {k}) : m.list[n].path # g \/ m.list[n].temp
    BY <1>5
  <2>. QED BY <1>3, <2>1, PickedKeeps
<1>. QED BY <1>4, <1>5

LEMMA RemoveFileShows ==
  ASSUME NEW m, Good(m), NEW f \in Files, NEW new, new = RemoveFile(m, f).list
  PROVE  /\ Shows(new, f) = {} /\ ~ TempAt(new, f)
         /\ \A g : g # f => Keeps(new, m.list, g)
<1>1. m.list \in Seq(Item) /\ Differ(m.list)
  BY DEF Good, Differ
<1>2. PICK k : k = Find(m.list, f)
  OBVIOUS
<1>3. CASE k # 0
  <2>1. k \in DOMAIN m.list /\ m.list[k].path = f
    BY <1>1, <1>2, <1>3, FindHolds
  <2>2. new = DropAt(m, k).list
    BY <1>2, <1>3 DEF RemoveFile
  <2>. QED BY <2>1, <2>2, DropAtShows, ShowsNone
<1>4. CASE k = 0
  <2>1. new = m.list
    BY <1>2, <1>4, TakeHiddenGood DEF RemoveFile
  <2>2. \A n \in DOMAIN m.list : m.list[n].path # f
    BY <1>1, <1>2, <1>4, FindHolds
  <2>. QED BY <2>1, <2>2, ShowsNone, KeepsItself
<1>. QED BY <1>3, <1>4

LEMMA AddItemIfValidShows ==
  ASSUME FilesHeld, NEW m, Good(m), NEW f \in Files, \A k \in DOMAIN m.list : m.list[k].path # f,
         NEW new, new = AddItemIfValid(m, f)
  PROVE  /\ Shows(new.list, f) = Wanted(f, category) /\ ~ TempAt(new.list, f)
         /\ \A g : g # f => Keeps(new.list, m.list, g)
         /\ new.refresh = m.refresh
<1>1. m \in State /\ m.list \in Seq(Item)
  BY DEF Good, Differ
<1>2. CASE Wanted(f, category) = {}
  <2>1. new = m \/ new = [m EXCEPT !.hidden[f] = @ + 1]
    BY <1>2 DEF AddItemIfValid, Wanted
  <2>2. new.list = m.list /\ new.refresh = m.refresh
    BY <1>1, <2>1 DEF State
  <2>. QED BY <1>2, <2>2, ShowsNone, KeepsItself
<1>3. CASE Wanted(f, category) # {}
  <2>1. PICK item : item = NewItem(m, f)
    OBVIOUS
  <2>2. new = [m EXCEPT !.list = Append(@, item)] /\ Wanted(f, category) = {files[f]}
    BY <1>3, <2>1 DEF AddItemIfValid, Wanted
  <2>3. new.list = Append(m.list, item) /\ new.refresh = m.refresh
    BY <1>1, <2>2 DEF State
  <2>4. f \in Paths
    BY DEF Paths
  <2>5. item \in Item /\ item.path = f /\ item.temp = FALSE /\ item.seen = files[f]
    BY <2>1, <2>4, NewItemHolds DEF NewItem, ContentOf
  <2>6. \A g : g # f => Keeps(new.list, m.list, g)
    BY <1>1, <2>3, <2>5, AppendedKeeps
  <2>7. Good(new)
    BY AddItemIfValidGood
  <2>8. PICK k : k = Len(m.list) + 1
    OBVIOUS
  <2>9. k \in DOMAIN new.list /\ new.list[k] = item
    <3>1. Len(m.list) \in Nat /\ new.list \in Seq(Item) /\ Len(new.list) = k /\ new.list[k] = item
      BY <1>1, <2>3, <2>5, <2>8, ItemsOf, AppendProperties
    <3>2. k \in 1 .. k
      BY <2>8, <3>1
    <3>. QED BY <3>1, <3>2, ItemsOf
  <2>10. Shows(new.list, f) = {files[f]} /\ ~ TempAt(new.list, f)
    <3>1. PICK l : l = new.list
      OBVIOUS
    <3>2. Differ(l) /\ k \in DOMAIN l /\ l[k].path = f /\ l[k].temp = FALSE /\ l[k].seen = files[f]
      BY <2>5, <2>7, <2>9, <3>1 DEF Good
    <3>3. Shows(l, f) = {files[f]} /\ ~ TempAt(l, f)
      BY <3>2, ShowsAt
    <3>. QED BY <3>1, <3>3
  <2>. QED BY <2>2, <2>3, <2>6, <2>10
<1>. QED BY <1>2, <1>3

(* A launcher that gets the path f, or is at it, and is permanent now.       *)
LEMMA PutAtShows ==
  ASSUME NEW m, Good(m), NEW k \in DOMAIN m.list, NEW f, NEW item, item.path = f, ~ item.temp,
         m.list[k].path = f \/ m.list[k].temp,
         NEW new, Good(new), new.list = [m.list EXCEPT ![k] = item]
  PROVE  /\ Shows(new.list, f) = {item.seen} /\ ~ TempAt(new.list, f)
         /\ \A g : g # f => Keeps(new.list, m.list, g)
<1>1. k \in DOMAIN new.list /\ new.list[k] = item /\ Differ(new.list)
  BY DEF Good
<1>2. Shows(new.list, f) = {item.seen} /\ ~ TempAt(new.list, f)
  BY <1>1, ShowsAt
<1>3. \A g : g # f => Keeps(new.list, m.list, g)
  BY ChangedKeeps
<1>. QED BY <1>2, <1>3

LEMMA AddFileShows ==
  ASSUME FilesHeld, NEW m, Good(m), NEW f \in Files, NEW new, new = AddFile(m, f)
  PROVE  /\ f \in new.refresh \/ Shows(new.list, f) = Wanted(f, category)
         /\ ~ TempAt(new.list, f)
         /\ \A g : g # f => Keeps(new.list, m.list, g)
         /\ new.refresh \in {m.refresh, m.refresh \cup {f}}
<1>. DEFINE Arrived(n, i) == [UnsetTemporary(n, i) EXCEPT !.refresh = @ \cup {f}]
<1>1. m \in State /\ m.list \in Seq(Item) /\ Differ(m.list) /\ m.temps = TempIds(m.list)
  BY DEF Good, Differ
<1>2. PICK k, t : k = Find(m.list, f) /\ t = TemporaryToReplace(m)
  OBVIOUS
<1>3. new = IF k # 0 THEN Arrived(m, k)
            ELSE IF t # 0 /\ files[f] \in Displayable
            THEN Arrived([m EXCEPT !.list[t].path = f, !.list[t].seen = files[f]], t)
            ELSE AddItemIfValid(m, f)
  BY <1>2 DEF AddFile
<1>4. Good(new)
  BY AddFileGood
<1>5. CASE k # 0
  <2>1. k \in DOMAIN m.list /\ m.list[k].path = f /\ m.list[k] \in Item
    BY <1>1, <1>2, <1>5, FindHolds, ItemsOf
  <2>2. PICK item : item = [m.list[k] EXCEPT !.temp = FALSE]
    OBVIOUS
  <2>3. item.path = f /\ ~ item.temp
    BY <2>1, <2>2 DEF Item
  <2>4. new.list = [m.list EXCEPT ![k] = item] /\ new.refresh = m.refresh \cup {f}
    <3>1. PICK u : u = UnsetTemporary(m, k)
      OBVIOUS
    <3>2. u.list = [m.list EXCEPT ![k] = item] /\ u.refresh = m.refresh /\ u \in State
      BY <1>1, <2>1, <2>2, <3>1, UnsetTemporaryGood DEF UnsetTemporary, State, Good
    <3>3. new = [u EXCEPT !.refresh = @ \cup {f}]
      BY <1>3, <1>5, <3>1
    <3>. QED BY <3>2, <3>3 DEF State
  <2>5. /\ ~ TempAt(new.list, f)
        /\ \A g : g # f => Keeps(new.list, m.list, g)
    <3>1. PICK x : x = new
      OBVIOUS
    <3>2. Good(x) /\ x.list = [m.list EXCEPT ![k] = item]
      BY <1>4, <2>4, <3>1
    <3>3. k \in DOMAIN m.list /\ item.path = f /\ ~ item.temp
      BY <2>1, <2>3
    <3>4. m.list[k].path = f \/ m.list[k].temp
      BY <2>1
    <3>5. ~ TempAt(x.list, f)
      BY <3>2, <3>3, <3>4, PutAtShows
    <3>6. \A g : g # f => Keeps(x.list, m.list, g)
      BY <3>2, <3>3, <3>4, ChangedKeeps
    <3>. QED BY <3>1, <3>5, <3>6
  <2>. QED BY <2>4, <2>5
<1>6. CASE k = 0 /\ t # 0 /\ files[f] \in Displayable
  <2>1. t \in DOMAIN m.list /\ m.list[t].temp = TRUE /\ m.list[t] \in Item
    BY <1>1, <1>2, <1>6, TemporaryToReplaceHolds, ItemsOf
  <2>2. PICK item : item = [m.list[t] EXCEPT !.path = f, !.seen = files[f], !.temp = FALSE]
    OBVIOUS
  <2>3. item.path = f /\ ~ item.temp
    BY <2>1, <2>2 DEF Item
  <2>4. new.list = [m.list EXCEPT ![t] = item] /\ new.refresh = m.refresh \cup {f}
    <3>1. PICK a, l : /\ a = [m EXCEPT !.list[t].path = f, !.list[t].seen = files[f]]
                      /\ l = [m.list EXCEPT ![t] = [m.list[t] EXCEPT !.path = f, !.seen = files[f]]]
      OBVIOUS
    <3>2. a = [m EXCEPT !.list = l]
      BY <1>1, <2>1, <3>1 DEF State
    <3>3. [l EXCEPT ![t].temp = FALSE] = [m.list EXCEPT ![t] = item]
      BY <1>1, <2>1, <2>2, <3>1 DEF Item
    <3>4. PICK u : u = UnsetTemporary(a, t)
      OBVIOUS
    <3>5. PICK ids : u = [m EXCEPT !.list = [m.list EXCEPT ![t] = item], !.temps = ids]
      BY <1>1, <3>2, <3>3, <3>4 DEF UnsetTemporary, State
    <3>6. new = [u EXCEPT !.refresh = @ \cup {f}]
      BY <1>3, <1>6, <3>1, <3>4
    <3>. QED BY <1>1, <3>5, <3>6 DEF State
  <2>5. /\ ~ TempAt(new.list, f)
        /\ \A g : g # f => Keeps(new.list, m.list, g)
    <3>1. PICK x : x = new
      OBVIOUS
    <3>2. Good(x) /\ x.list = [m.list EXCEPT ![t] = item]
      BY <1>4, <2>4, <3>1
    <3>3. t \in DOMAIN m.list /\ item.path = f /\ ~ item.temp
      BY <2>1, <2>3
    <3>4. m.list[t].path = f \/ m.list[t].temp
      BY <2>1
    <3>5. ~ TempAt(x.list, f)
      BY <3>2, <3>3, <3>4, PutAtShows
    <3>6. \A g : g # f => Keeps(x.list, m.list, g)
      BY <3>2, <3>3, <3>4, ChangedKeeps
    <3>. QED BY <3>1, <3>5, <3>6
  <2>. QED BY <2>4, <2>5
<1>7. CASE k = 0 /\ ~ (t # 0 /\ files[f] \in Displayable)
  <2>1. \A n \in DOMAIN m.list : m.list[n].path # f
    BY <1>1, <1>2, <1>7, FindHolds
  <2>2. new = AddItemIfValid(m, f)
    BY <1>3, <1>7
  <2>. QED BY <2>1, <2>2, AddItemIfValidShows
<1>. QED BY <1>5, <1>6, <1>7

LEMMA RefreshFileShows ==
  ASSUME FilesHeld, NEW m, Good(m), NEW f \in Files, NEW new, new = RefreshFile(m, f).list
  PROVE  /\ ~ TempAt(m.list, f) => Shows(new, f) = Wanted(f, category) /\ ~ TempAt(new, f)
         /\ \A g : g # f => Keeps(new, m.list, g)
<1>1. m \in State /\ m.list \in Seq(Item) /\ Differ(m.list)
  BY DEF Good, Differ
<1>2. PICK k : k = Find(m.list, f)
  OBVIOUS
<1>3. CASE k = 0
  <2>1. PICK u : u = TakeHidden(m, f)
    OBVIOUS
  <2>2. Good(u) /\ u.list = m.list
    BY <2>1, TakeHiddenGood
  <2>3. \A n \in DOMAIN u.list : u.list[n].path # f
    <3>1. \A n \in DOMAIN m.list : m.list[n].path # f
      BY <1>1, <1>2, <1>3, FindHolds
    <3>. QED BY <2>2, <3>1
  <2>4. new = AddItemIfValid(u, f).list
    BY <1>2, <1>3, <2>1 DEF RefreshFile
  <2>. QED BY <2>2, <2>3, <2>4, AddItemIfValidShows
<1>4. CASE k # 0
  <2>1. k \in DOMAIN m.list /\ m.list[k].path = f /\ m.list[k] \in Item
    BY <1>1, <1>2, <1>4, FindHolds, ItemsOf
  <2>2. PICK seen : seen = IF m.list[k].temp THEN m.list[k].seen ELSE files[f]
    OBVIOUS
  <2>3. PICK shown : shown = ((m.list[k].temp \/ seen \in Valid) /\ Displays(seen, category))
    OBVIOUS
  <2>4. RefreshFile(m, f) = IF shown THEN [m EXCEPT !.list[k].seen = seen] ELSE DropAt(m, k)
    BY <1>2, <1>4, <2>2, <2>3 DEF RefreshFile
  <2>5. TempAt(m.list, f) \/ m.list[k].temp = FALSE
    BY <2>1 DEF TempAt, Item
  <2>6. CASE ~ shown
    <3>1. new = DropAt(m, k).list
      BY <2>4, <2>6
    <3>2. (\A n \in DOMAIN new : new[n].path # f) /\ \A g : g # f => Keeps(new, m.list, g)
      BY <2>1, <3>1, DropAtShows
    <3>3. ~ TempAt(m.list, f) => Wanted(f, category) = {}
      BY <2>2, <2>3, <2>5, <2>6 DEF Wanted
    <3>. QED BY <3>2, <3>3, ShowsNone
  <2>7. CASE shown
    <3>1. PICK item : item = [m.list[k] EXCEPT !.seen = seen]
      OBVIOUS
    <3>2. item.path = f /\ item.temp = m.list[k].temp /\ item.seen = seen
      BY <2>1, <3>1 DEF Item
    <3>3. PICK u : u = RefreshFile(m, f)
      OBVIOUS
    <3>4. u = [m EXCEPT !.list[k].seen = seen]
      BY <2>4, <2>7, <3>3
    <3>5. u.list = [m.list EXCEPT ![k] = item] /\ u.list = new
      BY <1>1, <2>1, <3>1, <3>3, <3>4 DEF State
    <3>6. \A g : g # f => Keeps(new, m.list, g)
      BY <2>1, <3>2, <3>5, ChangedKeeps
    <3>7. ASSUME ~ TempAt(m.list, f)
          PROVE  Shows(new, f) = Wanted(f, category) /\ ~ TempAt(new, f)
      <4>1. Good(u)
        BY <3>3, RefreshFileGood
      <4>2. m.list[k].temp = FALSE
        BY <2>5, <3>7
      <4>3. Shows(new, f) = {seen} /\ ~ TempAt(new, f)
        BY <2>1, <3>2, <3>5, <4>1, <4>2, PutAtShows
      <4>4. Wanted(f, category) = {seen}
        BY <2>2, <2>3, <2>7, <4>2 DEF Wanted
      <4>. QED BY <4>3, <4>4
    <3>. QED BY <3>6, <3>7
  <2>. QED BY <2>6, <2>7
<1>. QED BY <1>3, <1>4

-----------------------------------------------------------------------------
(* onFilesUpdated, pass by pass.                                             *)
LEMMA OrderSays ==
  ASSUME NEW S \in SUBSET Files, NEW order, order = InOrder(S)
  PROVE  order \in Seq(Files) /\ \A f : (\E i \in DOMAIN order : order[i] = f) <=> f \in S
<1>1. order \in Seq(S) /\ \A x \in S : \E n \in DOMAIN order : order[n] = x
  BY InOrderHolds
<1>2. \A n \in DOMAIN order : order[n] \in S
  BY <1>1, ElementOfSeq, LenProperties
<1>3. order \in Seq(Files)
  BY <1>1, SeqMonotonic
<1>. QED BY <1>1, <1>2, <1>3

LEMMA RefreshKept ==
  ASSUME FilesHeld, NEW m, Good(m), NEW f \in Files, NEW g, g # f
  PROVE  g \in AddFile(m, f).refresh <=> g \in m.refresh
<1>1. AddFile(m, f).refresh \in {m.refresh, m.refresh \cup {f}}
  BY AddFileShows
<1>. QED BY <1>1

LEMMA AllRemovedShows ==
  ASSUME NEW m, Good(m), NEW order \in Seq(Files), NEW f \in Files,
         NEW new, new = AllRemoved(m, order)
  PROVE  IF \E i \in DOMAIN order : order[i] = f
         THEN Shows(new.list, f) = {} /\ ~ TempAt(new.list, f)
         ELSE Keeps(new.list, m.list, f)
<1>1. PICK k \in Nat : k = Len(order) /\ DOMAIN order = 1 .. k
  BY LenProperties
<1>2. \A n \in 1 .. k : order[n] \in Files
  BY <1>1, ElementOfSeq
<1>3. PICK g : /\ g[0] = m /\ g[k] = new
               /\ \A n \in 1 .. k : g[n] = RemoveFile(g[n - 1], order[n])
               /\ \A n \in 0 .. k : Good(g[n])
  <2>1. \E g : /\ g[0] = m /\ g[k] = AllRemoved(m, order)
               /\ \A n \in 1 .. k : g[n] = RemoveFile(g[n - 1], order[n])
               /\ \A n \in 0 .. k : Good(g[n]) /\ Stems(g[n].list, m.list)
    BY <1>1, AllRemovedSteps
  <2>. QED BY <2>1
<1>. DEFINE P(n) == IF \E i \in 1 .. n : order[i] = f
                    THEN Shows(g[n].list, f) = {} /\ ~ TempAt(g[n].list, f)
                    ELSE Keeps(g[n].list, m.list, f)
            T == {n \in 0 .. k : P(n)}
<1>4. 0 \in T
  BY <1>3, KeepsItself
<1>5. ASSUME NEW n \in 1 .. k, n - 1 \in T PROVE n \in T
  <2>1. PICK x, y : x = g[n - 1] /\ y = g[n]
    OBVIOUS
  <2>2. n - 1 \in 0 .. k /\ n \in 0 .. k /\ Good(x) /\ y = RemoveFile(x, order[n]) /\ order[n] \in Files
    BY <1>2, <1>3, <1>5, <2>1
  <2>3. P(n - 1)
    BY <1>5
  <2>4. \A i \in 1 .. n : i \in 1 .. n - 1 \/ i = n
    BY <2>2
  <2>5. \A i \in 1 .. n - 1 : i \in 1 .. n
    BY <2>2
  <2>6. n \in 1 .. n
    BY <2>2
  <2>7. CASE order[n] = f
    <3>1. Shows(y.list, f) = {} /\ ~ TempAt(y.list, f)
      BY <2>1, <2>2, <2>3, <2>7, RemoveFileShows
    <3>. QED BY <2>1, <2>2, <2>6, <2>7, <3>1
  <2>8. CASE order[n] # f
    <3>1. Keeps(y.list, x.list, f)
      BY <2>2, <2>8, RemoveFileShows
    <3>2. (\E i \in 1 .. n : order[i] = f) <=> \E i \in 1 .. n - 1 : order[i] = f
      BY <2>4, <2>5, <2>8
    <3>3. P(n)
      BY <2>1, <2>3, <3>1, <3>2 DEF Keeps
    <3>. QED BY <2>2, <3>3
  <2>. QED BY <2>7, <2>8
<1>6. 0 .. k \subseteq T
  <2>. HIDE DEF T
  <2>. QED BY <1>4, <1>5, CountedUp
<1>7. P(k)
  <2>1. k \in 0 .. k
    OBVIOUS
  <2>. QED BY <1>6, <2>1
<1>. QED BY <1>1, <1>3, <1>7

LEMMA AllAddedShows ==
  ASSUME FilesHeld, NEW m, Good(m), NEW order \in Seq(Files), NEW f \in Files,
         NEW new, new = AllAdded(m, order)
  PROVE  IF \E i \in DOMAIN order : order[i] = f
         THEN (f \in new.refresh \/ Shows(new.list, f) = Wanted(f, category)) /\ ~ TempAt(new.list, f)
         ELSE Keeps(new.list, m.list, f) /\ (f \in new.refresh <=> f \in m.refresh)
<1>1. PICK k \in Nat : k = Len(order) /\ DOMAIN order = 1 .. k
  BY LenProperties
<1>2. \A n \in 1 .. k : order[n] \in Files
  BY <1>1, ElementOfSeq
<1>3. PICK g : /\ g[0] = m /\ g[k] = new
               /\ \A n \in 1 .. k : g[n] = AddFile(g[n - 1], order[n])
               /\ \A n \in 0 .. k : Good(g[n])
  <2>1. \E g : /\ g[0] = m /\ g[k] = AllAdded(m, order)
               /\ \A n \in 1 .. k : g[n] = AddFile(g[n - 1], order[n])
               /\ \A n \in 0 .. k : Good(g[n]) /\ Stems(g[n].list, m.list)
    BY <1>1, AllAddedSteps
  <2>. QED BY <2>1
<1>. DEFINE P(n) == IF \E i \in 1 .. n : order[i] = f
                    THEN (f \in g[n].refresh \/ Shows(g[n].list, f) = Wanted(f, category)) /\ ~ TempAt(g[n].list, f)
                    ELSE Keeps(g[n].list, m.list, f) /\ (f \in g[n].refresh <=> f \in m.refresh)
            T == {n \in 0 .. k : P(n)}
<1>4. 0 \in T
  BY <1>3, KeepsItself
<1>5. ASSUME NEW n \in 1 .. k, n - 1 \in T PROVE n \in T
  <2>1. PICK x, y : x = g[n - 1] /\ y = g[n]
    OBVIOUS
  <2>2. n - 1 \in 0 .. k /\ n \in 0 .. k /\ Good(x) /\ y = AddFile(x, order[n]) /\ order[n] \in Files
    BY <1>2, <1>3, <1>5, <2>1
  <2>3. P(n - 1)
    BY <1>5
  <2>4. \A i \in 1 .. n : i \in 1 .. n - 1 \/ i = n
    BY <2>2
  <2>5. \A i \in 1 .. n - 1 : i \in 1 .. n
    BY <2>2
  <2>6. n \in 1 .. n
    BY <2>2
  <2>7. CASE order[n] = f
    <3>1. (f \in y.refresh \/ Shows(y.list, f) = Wanted(f, category)) /\ ~ TempAt(y.list, f)
      BY <2>1, <2>2, <2>3, <2>7, AddFileShows
    <3>. QED BY <2>1, <2>2, <2>6, <2>7, <3>1
  <2>8. CASE order[n] # f
    <3>1. Keeps(y.list, x.list, f) /\ (f \in y.refresh <=> f \in x.refresh)
      BY <2>2, <2>8, AddFileShows, RefreshKept
    <3>2. (\E i \in 1 .. n : order[i] = f) <=> \E i \in 1 .. n - 1 : order[i] = f
      BY <2>4, <2>5, <2>8
    <3>3. P(n)
      BY <2>1, <2>3, <3>1, <3>2 DEF Keeps
    <3>. QED BY <2>2, <3>3
  <2>. QED BY <2>7, <2>8
<1>6. 0 .. k \subseteq T
  <2>. HIDE DEF T
  <2>. QED BY <1>4, <1>5, CountedUp
<1>7. P(k)
  <2>1. k \in 0 .. k
    OBVIOUS
  <2>. QED BY <1>6, <2>1
<1>. QED BY <1>1, <1>3, <1>7

LEMMA AllRefreshedShows ==
  ASSUME FilesHeld, NEW m, Good(m), NEW order \in Seq(Files), NEW f \in Files,
         NEW new, new = AllRefreshed(m, order)
  PROVE  IF \E i \in DOMAIN order : order[i] = f
         THEN (~ TempAt(m.list, f) => Shows(new.list, f) = Wanted(f, category) /\ ~ TempAt(new.list, f))
         ELSE Keeps(new.list, m.list, f)
<1>1. PICK k \in Nat : k = Len(order) /\ DOMAIN order = 1 .. k
  BY LenProperties
<1>2. \A n \in 1 .. k : order[n] \in Files
  BY <1>1, ElementOfSeq
<1>3. PICK g : /\ g[0] = m /\ g[k] = new
               /\ \A n \in 1 .. k : g[n] = RefreshFile(g[n - 1], order[n])
               /\ \A n \in 0 .. k : Good(g[n])
  <2>1. \E g : /\ g[0] = m /\ g[k] = AllRefreshed(m, order)
               /\ \A n \in 1 .. k : g[n] = RefreshFile(g[n - 1], order[n])
               /\ \A n \in 0 .. k : Good(g[n]) /\ Stems(g[n].list, m.list)
    BY <1>1, AllRefreshedSteps
  <2>. QED BY <2>1
<1>. DEFINE P(n) == IF \E i \in 1 .. n : order[i] = f
                    THEN (~ TempAt(m.list, f) => Shows(g[n].list, f) = Wanted(f, category) /\ ~ TempAt(g[n].list, f))
                    ELSE Keeps(g[n].list, m.list, f)
            T == {n \in 0 .. k : P(n)}
<1>4. 0 \in T
  BY <1>3, KeepsItself
<1>5. ASSUME NEW n \in 1 .. k, n - 1 \in T PROVE n \in T
  <2>1. PICK x, y : x = g[n - 1] /\ y = g[n]
    OBVIOUS
  <2>2. n - 1 \in 0 .. k /\ n \in 0 .. k /\ Good(x) /\ y = RefreshFile(x, order[n]) /\ order[n] \in Files
    BY <1>2, <1>3, <1>5, <2>1
  <2>3. P(n - 1)
    BY <1>5
  <2>4. \A i \in 1 .. n : i \in 1 .. n - 1 \/ i = n
    BY <2>2
  <2>5. \A i \in 1 .. n - 1 : i \in 1 .. n
    BY <2>2
  <2>6. n \in 1 .. n
    BY <2>2
  <2>7. CASE order[n] = f
    <3>1. (~ TempAt(m.list, f) => Shows(y.list, f) = Wanted(f, category) /\ ~ TempAt(y.list, f))
      BY <2>1, <2>2, <2>3, <2>7, RefreshFileShows DEF Keeps
    <3>. QED BY <2>1, <2>2, <2>6, <2>7, <3>1
  <2>8. CASE order[n] # f
    <3>1. Keeps(y.list, x.list, f)
      BY <2>2, <2>8, RefreshFileShows
    <3>2. (\E i \in 1 .. n : order[i] = f) <=> \E i \in 1 .. n - 1 : order[i] = f
      BY <2>4, <2>5, <2>8
    <3>3. P(n)
      BY <2>1, <2>3, <3>1, <3>2 DEF Keeps
    <3>. QED BY <2>2, <3>3
  <2>. QED BY <2>7, <2>8
<1>6. 0 .. k \subseteq T
  <2>. HIDE DEF T
  <2>. QED BY <1>4, <1>5, CountedUp
<1>7. P(k)
  <2>1. k \in 0 .. k
    OBVIOUS
  <2>. QED BY <1>6, <2>1
<1>. QED BY <1>1, <1>3, <1>7

(* onFilesUpdated: a file that is added, or changed and not that of a        *)
(* temporary launcher, is shown as it is; one that is gone is not shown, and *)
(* of the others the list says what it said.                                 *)
Updated(new, old, fresh, changed, gone) ==
  \A f \in Files :
     /\ f \in Range(fresh) \/ (f \in changed /\ ~ TempAt(old, f))
           => Shows(new, f) = Wanted(f, category) /\ ~ TempAt(new, f)
     /\ f \in gone \ (Range(fresh) \cup changed) => Shows(new, f) = {} /\ ~ TempAt(new, f)
     /\ f \notin Range(fresh) \cup changed \cup gone => Keeps(new, old, f)

LEMMA FilesUpdatedShows ==
  ASSUME FilesHeld, NEW m, Good(m), NEW fresh \in Seq(Files),
         NEW changed \in SUBSET Files, NEW gone \in SUBSET Files
  PROVE  Updated(FilesUpdated(m, fresh, changed, gone).list, m.list, fresh, changed, gone)
<1>. PICK new : new = FilesUpdated(m, fresh, changed, gone).list
  OBVIOUS
<1>. SUFFICES ASSUME NEW f \in Files
     PROVE  /\ f \in Range(fresh) \/ (f \in changed /\ ~ TempAt(m.list, f))
                  => Shows(new, f) = Wanted(f, category) /\ ~ TempAt(new, f)
            /\ f \in gone \ (Range(fresh) \cup changed) => Shows(new, f) = {} /\ ~ TempAt(new, f)
            /\ f \notin Range(fresh) \cup changed \cup gone => Keeps(new, m.list, f)
  BY DEF Updated
<1>1. PICK a, b, c, d, leaving, last :
        /\ leaving = InOrder(gone) /\ a = AllRemoved(m, leaving)
        /\ b = [a EXCEPT !.refresh = changed] /\ c = AllAdded(b, fresh)
        /\ last = InOrder(c.refresh) /\ d = AllRefreshed(c, last)
  OBVIOUS
<1>2. leaving \in Seq(Files) /\ ((\E i \in DOMAIN leaving : leaving[i] = f) <=> f \in gone)
  BY <1>1, OrderSays
<1>3. Good(a) /\ IF f \in gone THEN Shows(a.list, f) = {} /\ ~ TempAt(a.list, f)
                                ELSE Keeps(a.list, m.list, f)
  <2>1. Good(a)
    BY <1>1, <1>2, AllRemovedGood
  <2>2. IF \E i \in DOMAIN leaving : leaving[i] = f
        THEN Shows(a.list, f) = {} /\ ~ TempAt(a.list, f) ELSE Keeps(a.list, m.list, f)
    <3>1. a = AllRemoved(m, leaving) /\ leaving \in Seq(Files)
      BY <1>1, <1>2
    <3>. QED BY <3>1, AllRemovedShows
  <2>. QED BY <1>2, <2>1, <2>2
<1>4. Good(b) /\ b.list = a.list /\ b.refresh = changed
  <2>1. b \in State /\ b.list = a.list /\ b.temps = a.temps /\ b.refresh = changed
    BY <1>1, <1>3 DEF Good, State
  <2>. QED BY <1>3, <2>1, SameListGood
<1>5. (\E i \in DOMAIN fresh : fresh[i] = f) <=> f \in Range(fresh)
  BY DEF Range
<1>6. /\ Good(c)
      /\ IF f \in Range(fresh)
         THEN (f \in c.refresh \/ Shows(c.list, f) = Wanted(f, category)) /\ ~ TempAt(c.list, f)
         ELSE Keeps(c.list, b.list, f) /\ (f \in c.refresh <=> f \in changed)
  <2>1. Good(c)
    BY <1>1, <1>4, AllAddedGood
  <2>2. IF \E i \in DOMAIN fresh : fresh[i] = f
        THEN (f \in c.refresh \/ Shows(c.list, f) = Wanted(f, category)) /\ ~ TempAt(c.list, f)
        ELSE Keeps(c.list, b.list, f) /\ (f \in c.refresh <=> f \in b.refresh)
    <3>1. c = AllAdded(b, fresh) /\ Good(b)
      BY <1>1, <1>4
    <3>. QED BY <3>1, AllAddedShows
  <2>. QED BY <1>4, <1>5, <2>1, <2>2
<1>7. last \in Seq(Files) /\ ((\E i \in DOMAIN last : last[i] = f) <=> f \in c.refresh)
  <2>1. c.refresh \in SUBSET Files
    BY <1>6 DEF Good, State
  <2>2. last = InOrder(c.refresh)
    BY <1>1
  <2>. QED BY <2>1, <2>2, OrderSays
<1>8. f \in c.refresh /\ ~ TempAt(c.list, f)
           => Shows(d.list, f) = Wanted(f, category) /\ ~ TempAt(d.list, f)
  <2>. SUFFICES ASSUME f \in c.refresh, ~ TempAt(c.list, f)
                PROVE  Shows(d.list, f) = Wanted(f, category) /\ ~ TempAt(d.list, f)
    OBVIOUS
  <2>. QED BY <1>1, <1>6, <1>7, AllRefreshedShows
<1>9. f \notin c.refresh => Keeps(d.list, c.list, f)
  <2>. SUFFICES ASSUME f \notin c.refresh PROVE Keeps(d.list, c.list, f)
    OBVIOUS
  <2>1. \A i \in DOMAIN last : last[i] # f
    BY <1>7
  <2>. QED BY <1>1, <1>6, <1>7, <2>1, AllRefreshedShows
<1>10. new = d.list
  BY <1>1 DEF FilesUpdated
<1>. QED BY <1>3, <1>4, <1>6, <1>8, <1>9, <1>10 DEF Keeps

-----------------------------------------------------------------------------
(* What the monitor knows, what it has collected, and what the model was     *)
(* told, until the next batch.  A file that is removed is neither listed nor *)
(* collected otherwise; and what the model was told of is listed, or its     *)
(* removal is collected, or is one of those the monitor cannot see.          *)
Tracked ==
  /\ watched \subseteq known
  /\ known # Present => dirPending
  /\ ~ holdback => added = <<>> /\ modified = {} /\ removed = {}
  /\ known \cup modified \cup filePending \subseteq told \cup Range(added)
  /\ removed \subseteq told
  /\ removed \cap (known \cup modified \cup filePending \cup Range(added)) = {}
  /\ told \cup Range(added) \subseteq known \cup removed \cup missed

(* The list follows: of a file the model was told of it has no temporary     *)
(* launcher, of another no permanent one, and of a listed file with no news  *)
(* under way what the file says.                                             *)
Untemporary == \A f \in told \ claimed : ~ TempAt(list, f)

Unlisted == \A f \in Files \ (told \cup claimed) : Shows(list, f) = {}

News == Range(added) \cup modified \cup filePending \cup missed

UpToDate ==
  \A f \in (known \cap Present) \ (News \cup claimed) : Shows(list, f) = Wanted(f, category)

Followed == Untemporary /\ Unlisted /\ UpToDate

CurrentInv == LauncherInv /\ Tracked /\ Followed

(* A change of one file leaves what is wanted of the others.                 *)
LEMMA OtherFiles ==
  ASSUME FilesHeld, NEW f \in Files, NEW content, Change(f, content)
  PROVE  /\ \A g \in Files : g # f => (g \in Present' <=> g \in Present)
         /\ f \in Present' <=> content # Absent
         /\ \A g \in Files : g # f => \A cat : Wanted(g, cat)' = Wanted(g, cat')
<1>1. files' = [files EXCEPT ![f] = content] /\ DOMAIN files = Files
  BY DEF Change, FilesHeld
<1>2. files'[f] = content /\ \A g \in Files : g # f => files'[g] = files[g]
  BY <1>1
<1>. QED BY <1>2 DEF Present, Wanted, Displays

(* onDirectoryChanged, in sets. *)
Scanned(gone, fresh, changed, lost) ==
  /\ Present' = Present /\ known' = Present
  /\ watched' = (watched \ gone) \cup fresh
  /\ modified' = changed \ (gone \cup fresh)
  /\ Range(added') = (Range(added) \ gone) \cup (fresh \ removed)
  /\ removed' = (removed \cup (gone \ Range(added))) \ fresh
  /\ missed' = (missed \ gone) \cup ((gone \cap Range(added)) \cap told)
                   \cup (fresh \cap removed) \cup lost

LEMMA ScanSays ==
  ASSUME MonitorTypeOK, NEW knowing, NEW changed, Scan(knowing, changed), files' = files
  PROVE  Scanned(knowing \ Present, Present \ knowing, changed, known \ (knowing \cup Present))
<1>. DEFINE gone == knowing \ Present
            fresh == Present \ knowing
<1>1. PICK S, a, b : /\ S = {n \in DOMAIN added : added[n] \notin gone}
                     /\ a = OnlyAt(added, S) /\ b = InOrder(fresh \ removed)
  OBVIOUS
<1>2. added' = a \o b
  BY <1>1 DEF Scan
<1>3. a \in Seq(Files) /\ Picked(a, added, S)
  <2>1. added \in Seq(Files) /\ S \in SUBSET DOMAIN added
    BY <1>1 DEF MonitorTypeOK
  <2>. QED BY <1>1, <2>1, OnlyAtPicks
<1>4. b \in Seq(Files) /\ \A f : (\E i \in DOMAIN b : b[i] = f) <=> f \in fresh \ removed
  <2>1. PICK T : T = fresh \ removed
    OBVIOUS
  <2>2. T \in SUBSET Files /\ b = InOrder(T)
    BY <1>1, <2>1, PresentFiles
  <2>3. b \in Seq(Files) /\ \A f : (\E i \in DOMAIN b : b[i] = f) <=> f \in T
    BY <2>2, OrderSays
  <2>. QED BY <2>1, <2>3
<1>5. Range(a) = Range(added) \ gone
  <2>1. PICK way \in [DOMAIN a -> S] :
          /\ \A n \in S : \E i \in DOMAIN a : way[i] = n
          /\ \A i \in DOMAIN a : a[i] = added[way[i]]
    BY <1>3 DEF Picked
  <2>2. ASSUME NEW f \in Range(a) PROVE f \in Range(added) \ gone
    BY <1>1, <2>1 DEF Range
  <2>3. ASSUME NEW f \in Range(added) \ gone PROVE f \in Range(a)
    <3>1. PICK n \in S : added[n] = f
      BY <1>1 DEF Range
    <3>2. PICK i \in DOMAIN a : a[i] = f
      BY <2>1, <3>1
    <3>. QED BY <3>2 DEF Range
  <2>. QED BY <2>2, <2>3
<1>6. Range(b) = fresh \ removed
  BY <1>4 DEF Range
<1>7. Range(a \o b) = Range(a) \cup Range(b)
  <2>1. PICK m \in Nat, n \in Nat : m = Len(a) /\ n = Len(b) /\ DOMAIN a = 1 .. m /\ DOMAIN b = 1 .. n
    BY <1>3, <1>4, LenProperties
  <2>2. PICK c : c = a \o b
    OBVIOUS
  <2>3. /\ DOMAIN c = 1 .. m + n
        /\ \A i \in 1 .. m + n : c[i] = IF i <= m THEN a[i] ELSE b[i - m]
    <3>1. c \in Seq(Files) /\ Len(c) = m + n
      BY <1>3, <1>4, <2>1, <2>2, ConcatProperties
    <3>2. \A i \in 1 .. m + n : c[i] = IF i <= m THEN a[i] ELSE b[i - m]
      BY <1>3, <1>4, <2>1, <2>2, ConcatProperties
    <3>. QED BY <3>1, <3>2, LenProperties
  <2>4. ASSUME NEW i \in 1 .. m + n PROVE c[i] \in Range(a) \cup Range(b)
    <3>1. i <= m \/ i - m \in 1 .. n
      OBVIOUS
    <3>2. i <= m => i \in 1 .. m
      OBVIOUS
    <3>. QED BY <2>1, <2>3, <3>1, <3>2 DEF Range
  <2>5. ASSUME NEW i \in 1 .. m PROVE a[i] \in Range(c)
    <3>1. i \in 1 .. m + n /\ i <= m
      OBVIOUS
    <3>. QED BY <2>3, <3>1 DEF Range
  <2>6. ASSUME NEW i \in 1 .. n PROVE b[i] \in Range(c)
    <3>1. m + i \in 1 .. m + n /\ ~ (m + i <= m) /\ (m + i) - m = i
      OBVIOUS
    <3>. QED BY <2>3, <3>1 DEF Range
  <2>7. Range(c) \subseteq Range(a) \cup Range(b)
    BY <2>3, <2>4 DEF Range
  <2>8. Range(a) \cup Range(b) \subseteq Range(c)
    <3>1. Range(a) \subseteq Range(c)
      BY <2>1, <2>5 DEF Range
    <3>2. Range(b) \subseteq Range(c)
      BY <2>1, <2>6 DEF Range
    <3>. QED BY <3>1, <3>2
  <2>. QED BY <2>2, <2>7, <2>8
<1>8. Present' = Present
  BY DEF Present
<1>. QED BY <1>2, <1>5, <1>6, <1>7, <1>8 DEF Scan, Scanned

(* A change in the directory. *)
LEMMA ChangesFollowed ==
  ASSUME CurrentInv, DirectoryChanges, UNCHANGED modelVars
  PROVE  Tracked' /\ Followed'
<1>1. FilesHeld /\ watched \subseteq Present /\ Tracked /\ Followed
  BY DEF CurrentInv, LauncherInv, TypeOK, MonitorTypeOK, FilesHeld
<1>2. PICK f \in Files :
        \/ \E content \in Contents : Write(f, content) \/ Replace(f, content) \/ Create(f, content)
        \/ Delete(f)
  BY DEF DirectoryChanges
<1>3. \E content : Change(f, content)
  BY <1>2 DEF Write, Replace, Create, Delete
<1>4. /\ \A g \in Files : g # f => (g \in Present' <=> g \in Present)
      /\ \A g \in Files : g # f => Wanted(g, category)' = Wanted(g, category)
  BY <1>1, <1>3, OtherFiles DEF modelVars
<1>5. /\ UNCHANGED <<known, added, modified, removed, holdback, told, list, category, claimed>>
      /\ watched' \subseteq watched /\ filePending' \subseteq filePending \cup (watched \cap {f})
      /\ filePending \subseteq filePending' /\ missed \subseteq missed'
      /\ missed' \subseteq missed \cup {f}
  BY <1>2 DEF Write, Replace, Create, Delete, Noticed, modelVars
<1>6. f \in known \cap Present' => f \in filePending' \cup missed'
  <2>1. ASSUME NEW content \in Contents, Write(f, content) \/ Replace(f, content)
        PROVE  f \in known => f \in filePending' \cup missed'
    BY <2>1 DEF Write, Replace, Noticed
  <2>2. ASSUME NEW content \in Contents, Create(f, content)
        PROVE  f \in known => f \in filePending' \cup missed'
    BY <2>2 DEF Create
  <2>3. Delete(f) => f \notin Present'
    BY <1>1, OtherFiles DEF Delete
  <2>. QED BY <1>2, <2>1, <2>2, <2>3
<1>7. known # Present' => dirPending'
  <2>1. ASSUME NEW content \in Contents, Write(f, content)
        PROVE  Present' = Present /\ dirPending' = dirPending
    <3>1. f \in Present' /\ f \in Present
      BY <1>1, <2>1, AbsentAssumption, OtherFiles DEF Write
    <3>2. Present' \subseteq Files /\ Present \subseteq Files
      BY DEF Present
    <3>. QED BY <1>4, <2>1, <3>1, <3>2 DEF Write
  <2>2. (\E content : Write(f, content)) \/ dirPending'
    BY <1>2 DEF Replace, Create, Delete
  <2>. QED BY <1>1, <1>2, <2>1, <2>2 DEF Tracked, Replace, Create, Delete
<1>8. Tracked'
  BY <1>1, <1>5, <1>7 DEF Tracked
<1>9. Followed'
  <2>1. Untemporary' /\ Unlisted'
    BY <1>1, <1>5 DEF Followed, Untemporary, Unlisted
  <2>2. UpToDate'
    <3>1. \A g \in Files : g \in Present' /\ g # f => g \in Present
      BY <1>4
    <3>2. Present' \subseteq Files
      BY DEF Present
    <3>. QED BY <1>1, <1>4, <1>5, <1>6, <3>1, <3>2 DEF Followed, UpToDate, News
  <2>. QED BY <2>1, <2>2 DEF Followed
<1>. QED BY <1>8, <1>9

(* The events are delivered. *)
LEMMA DeliverFollowed ==
  ASSUME CurrentInv, Deliver, UNCHANGED modelVars
  PROVE  Tracked' /\ Followed'
<1>1. MonitorTypeOK /\ watched \subseteq Present /\ Tracked /\ Followed
  BY DEF CurrentInv, LauncherInv, TypeOK, MonitorTypeOK
<1>2. /\ UNCHANGED <<files, told, list, category, claimed>>
      /\ dirPending' = FALSE /\ filePending' = {} /\ holdback' = TRUE
  BY DEF Deliver, modelVars
<1>3. Untemporary' /\ Unlisted'
  BY <1>1, <1>2 DEF Followed, Untemporary, Unlisted
<1>4. Present' = Present /\ \A g : Wanted(g, category)' = Wanted(g, category)
  BY <1>2 DEF Present, Wanted, Displays
<1>5. CASE dirPending
  <2>1. PICK gone, fresh, changed :
          gone = known \ Present /\ fresh = Present \ known /\ changed = modified \cup filePending
    OBVIOUS
  <2>2. Scan(known, changed) /\ files' = files
    BY <1>2, <1>5, <2>1 DEF Deliver
  <2>3. /\ known' = Present
        /\ watched' = (watched \ gone) \cup fresh
        /\ modified' = changed \ (gone \cup fresh)
        /\ Range(added') = (Range(added) \ gone) \cup (fresh \ removed)
        /\ removed' = (removed \cup (gone \ Range(added))) \ fresh
        /\ missed' = (missed \ gone) \cup ((gone \cap Range(added)) \cap told)
                         \cup (fresh \cap removed)
    <3>1. Scanned(known \ Present, Present \ known, changed, known \ (known \cup Present))
      BY <1>1, <2>2, ScanSays
    <3>2. known \ (known \cup Present) = {}
      OBVIOUS
    <3>. QED BY <2>1, <3>1, <3>2 DEF Scanned
  <2>4. Tracked'
    <3>1. watched' \subseteq known' /\ (known' # Present' => dirPending')
      BY <1>1, <1>4, <2>1, <2>3
    <3>2. known' \cup modified' \cup filePending' \subseteq told' \cup Range(added')
      BY <1>1, <1>2, <2>1, <2>3 DEF Tracked
    <3>3. removed' \subseteq told'
      BY <1>1, <1>2, <2>1, <2>3 DEF Tracked
    <3>4. removed' \cap (known' \cup modified' \cup filePending' \cup Range(added')) = {}
      BY <1>1, <1>2, <2>1, <2>3 DEF Tracked
    <3>5. told' \cup Range(added') \subseteq known' \cup removed' \cup missed'
      BY <1>1, <1>2, <2>1, <2>3 DEF Tracked
    <3>. QED BY <1>2, <3>1, <3>2, <3>3, <3>4, <3>5 DEF Tracked
  <2>5. UpToDate'
    <3>1. ASSUME NEW f \in (known' \cap Present') \ (News' \cup claimed')
          PROVE  f \in (known \cap Present) \ (News \cup claimed)
      BY <1>1, <1>2, <1>4, <2>1, <2>3, <3>1 DEF Tracked, News
    <3>. QED BY <1>1, <1>2, <1>4, <3>1 DEF Followed, UpToDate
  <2>. QED BY <1>3, <2>4, <2>5 DEF Followed
<1>6. CASE ~ dirPending
  <2>1. modified' = modified \cup filePending /\ UNCHANGED <<watched, known, added, removed, missed>>
    BY <1>6 DEF Deliver
  <2>2. Tracked'
    BY <1>1, <1>2, <1>4, <1>6, <2>1 DEF Tracked
  <2>3. UpToDate'
    BY <1>1, <1>2, <1>4, <2>1 DEF Followed, UpToDate, News
  <2>. QED BY <1>3, <2>2, <2>3 DEF Followed
<1>. QED BY <1>5, <1>6

(* Other categories: every file that is present is collected again. *)
LEMMA CategoriesFollowed ==
  ASSUME CurrentInv, NEW cat, SetCategories(cat)
  PROVE  Tracked' /\ Followed'
<1>1. MonitorTypeOK /\ watched \subseteq Present /\ Tracked /\ Followed
  BY DEF CurrentInv, LauncherInv, TypeOK, MonitorTypeOK
<1>2. /\ UNCHANGED <<files, told, list, claimed, dirPending, filePending>>
      /\ holdback' = TRUE /\ Scan({}, modified)
  BY DEF SetCategories, Rescan
<1>3. Scanned({} \ Present, Present \ {}, modified, known \ ({} \cup Present))
  BY <1>1, <1>2, ScanSays
<1>4. /\ Present' = Present /\ known' = Present
      /\ watched' = watched \cup Present
      /\ modified' = modified \ Present
      /\ Range(added') = Range(added) \cup (Present \ removed)
      /\ removed' = removed \ Present
      /\ missed' = missed \cup (Present \cap removed) \cup (known \ Present)
  BY <1>3 DEF Scanned
<1>5. Tracked'
  BY <1>1, <1>2, <1>4 DEF Tracked
<1>6. UpToDate'
  BY <1>2, <1>4 DEF UpToDate, News
<1>7. Untemporary' /\ Unlisted'
  BY <1>1, <1>2 DEF Followed, Untemporary, Unlisted
<1>. QED BY <1>5, <1>6, <1>7 DEF Followed

(* What is handed over is tracked no longer.  *)
LEMMA HandOverTracked ==
  ASSUME CurrentInv, HandOver
  PROVE  Tracked'
<1>1. Tracked
  BY DEF CurrentInv
<1>2. /\ UNCHANGED <<files, watched, dirPending, filePending, known>>
      /\ holdback' = FALSE /\ added' = <<>> /\ modified' = {} /\ removed' = {}
      /\ missed' = missed \ (((Range(added) \cup OnlyModified) \cap known) \cup removed)
      /\ told' = (told \ removed) \cup Range(added)
  BY DEF HandOver
<1>3. Present' = Present
  BY <1>2 DEF Present
<1>4. Range(added') = {}
  BY <1>2 DEF Range
<1>5. watched' \subseteq known' /\ (known' # Present' => dirPending')
  BY <1>1, <1>2, <1>3 DEF Tracked
<1>6. known' \cup modified' \cup filePending' \subseteq told' \cup Range(added')
  BY <1>1, <1>2 DEF Tracked
<1>7. told' \cup Range(added') \subseteq known' \cup removed' \cup missed'
  <2>1. ASSUME NEW f \in told' PROVE f \in known \cup missed'
    BY <1>1, <1>2, <2>1 DEF Tracked
  <2>. QED BY <1>2, <1>4, <2>1
<1>. QED BY <1>2, <1>5, <1>6, <1>7 DEF Tracked

(* The list in another order. *)
LEMMA PermutedKeeps ==
  ASSUME NEW old \in Seq(Item), NEW new, Permuted(new, old), NEW f
  PROVE  Keeps(new, old, f)
<1>1. Picked(new, old, DOMAIN old)
  BY PermutedPicks
<1>. QED BY <1>1, PickedKeeps

(* onHoldbackTimerTimeout. *)
LEMMA HoldbackFollowed ==
  ASSUME CurrentInv, HoldbackTimeout
  PROVE  Tracked' /\ Followed'
<1>1. /\ LauncherInv /\ MonitorTypeOK /\ FilesHeld /\ Tracked /\ Followed
      /\ list \in Seq(Item) /\ saved \in [Paths -> Nat \cup {NoPosition}]
  BY DEF CurrentInv, LauncherInv, TypeOK, MonitorTypeOK, FilesHeld
<1>2. HandOver /\ UNCHANGED <<category, claimed>>
  BY DEF HoldbackTimeout
<1>3. /\ UNCHANGED <<files, filePending, known>> /\ added' = <<>> /\ modified' = {}
      /\ missed' = missed \ (((Range(added) \cup OnlyModified) \cap known) \cup removed)
      /\ told' = (told \ removed) \cup Range(added)
  BY <1>2 DEF HandOver
<1>4. /\ Present' = Present /\ Range(added') = {}
      /\ \A f : Wanted(f, category)' = Wanted(f, category)
  BY <1>2, <1>3 DEF Present, Range, Wanted, Displays
<1>5. \A f \in Files :
        /\ f \in Range(added) \/ (f \in OnlyModified /\ ~ TempAt(list, f))
               => Shows(list', f) = Wanted(f, category) /\ ~ TempAt(list', f)
        /\ f \in removed \ (Range(added) \cup OnlyModified) => Shows(list', f) = {} /\ ~ TempAt(list', f)
        /\ f \notin Range(added) \cup OnlyModified \cup removed => Keeps(list', list, f)
  <2>1. CASE NothingToUpdate
    <3>1. list' = list /\ added = <<>> /\ OnlyModified = {} /\ removed = {}
      BY <2>1 DEF HoldbackTimeout, NothingToUpdate
    <3>2. Range(added) = {}
      BY <3>1 DEF Range
    <3>. QED BY <3>1, <3>2, KeepsItself
  <2>2. CASE ~ NothingToUpdate
    <3>1. Good(Model) /\ Model.list = list
      BY <1>1, ModelGood
    <3>2. /\ added \in Seq(Files) /\ OnlyModified \in SUBSET Files /\ removed \in SUBSET Files
      BY <1>1 DEF MonitorTypeOK, OnlyModified
    <3>3. PICK m : m = FilesUpdated(Model, added, OnlyModified, removed)
      OBVIOUS
    <3>4. Good(m) /\ Adopt(m)
      BY <1>1, <2>2, <3>1, <3>2, <3>3, FilesUpdatedGood DEF HoldbackTimeout
    <3>5. m.list \in Seq(Item) /\ Permuted(list', m.list)
      BY <1>1, <3>4, ReorderPermutes DEF Adopt, Good, State
    <3>6. ASSUME NEW f \in Files PROVE Keeps(list', m.list, f)
      BY <3>5, PermutedKeeps
    <3>7. ASSUME NEW f \in Files
          PROVE  /\ f \in Range(added) \/ (f \in OnlyModified /\ ~ TempAt(list, f))
                       => Shows(m.list, f) = Wanted(f, category) /\ ~ TempAt(m.list, f)
                 /\ f \in removed \ (Range(added) \cup OnlyModified)
                       => Shows(m.list, f) = {} /\ ~ TempAt(m.list, f)
                 /\ f \notin Range(added) \cup OnlyModified \cup removed => Keeps(m.list, list, f)
      <4>1. Updated(m.list, list, added, OnlyModified, removed)
        BY <1>1, <3>1, <3>2, <3>3, FilesUpdatedShows
      <4>. QED BY <4>1 DEF Updated
    <3>. QED BY <3>6, <3>7 DEF Keeps
  <2>. QED BY <2>1, <2>2
<1>6. OnlyModified = modified \ (Range(added) \cup removed)
  BY DEF OnlyModified
<1>7. told' \subseteq Files /\ known \subseteq Files
  BY <1>1, <1>3 DEF MonitorTypeOK, Range
<1>8. modified \subseteq told \cup Range(added) /\ removed \cap known = {} /\ removed \cap Range(added) = {}
  BY <1>1 DEF Tracked
<1>9. Untemporary'
  <2>1. ASSUME NEW f \in told' \ claimed PROVE ~ TempAt(list', f)
    <3>1. f \in Range(added) \/ (f \in told /\ f \notin removed /\ ~ TempAt(list, f))
      BY <1>1, <1>3, <2>1 DEF Followed, Untemporary
    <3>. QED BY <1>5, <1>7, <2>1, <3>1 DEF Keeps
  <2>. QED BY <1>2, <2>1 DEF Untemporary
<1>10. Unlisted'
  <2>1. ASSUME NEW f \in Files \ (told' \cup claimed) PROVE Shows(list', f) = {}
    <3>1. f \notin Range(added) /\ (f \in removed \/ f \notin told)
      BY <1>3, <2>1
    <3>2. f \notin told => Shows(list, f) = {}
      BY <1>1, <2>1 DEF Followed, Unlisted
    <3>. QED BY <1>5, <1>6, <1>8, <2>1, <3>1, <3>2 DEF Keeps
  <2>. QED BY <1>2, <2>1 DEF Unlisted
<1>11. UpToDate'
  <2>1. ASSUME NEW f \in (known \cap Present) \ (filePending \cup missed' \cup claimed)
        PROVE  Shows(list', f) = Wanted(f, category)
    <3>1. f \in Files /\ f \notin removed
      BY <1>7, <1>8, <2>1
    <3>2. CASE f \in Range(added)
      BY <1>5, <3>1, <3>2
    <3>3. CASE f \notin Range(added) /\ f \in modified
      <4>1. f \in told \ claimed
        BY <1>8, <2>1, <3>3
      <4>2. ~ TempAt(list, f)
        BY <1>1, <4>1 DEF Followed, Untemporary
      <4>. QED BY <1>5, <1>6, <3>1, <3>3, <4>2
    <3>4. CASE f \notin Range(added) /\ f \notin modified
      <4>1. f \notin missed
        BY <1>3, <1>6, <2>1, <3>1, <3>4
      <4>2. Shows(list, f) = Wanted(f, category)
        BY <1>1, <2>1, <3>4, <4>1 DEF Followed, UpToDate, News
      <4>. QED BY <1>5, <1>6, <3>1, <3>4, <4>2 DEF Keeps
    <3>. QED BY <3>2, <3>3, <3>4
  <2>. QED BY <1>2, <1>3, <1>4, <2>1 DEF UpToDate, News
<1>12. Tracked'
  BY <1>2, HandOverTracked
<1>. QED BY <1>9, <1>10, <1>11, <1>12 DEF Followed

-----------------------------------------------------------------------------
(* A step of the model alone leaves what the list says of every file, but    *)
(* for those that an installation takes.                                     *)
Follows(new, old, taken) ==
  \A f \in Files \ taken : /\ Shows(new, f) = Shows(old, f)
                           /\ f \in told /\ TempAt(new, f) => TempAt(old, f)

LEMMA KeepsFollows ==
  ASSUME NEW old, NEW new, \A f \in Files : Keeps(new, old, f), NEW taken
  PROVE  Follows(new, old, taken)
BY DEF Follows, Keeps

LEMMA AlikeFollows ==
  ASSUME NEW old, NEW new, Alike(new, old), NEW taken
  PROVE  Follows(new, old, taken)
BY AlikeKeeps, KeepsFollows

LEMMA PermutedFollows ==
  ASSUME NEW old \in Seq(Item), NEW new, Permuted(new, old), NEW taken
  PROVE  Follows(new, old, taken)
BY PermutedKeeps, KeepsFollows

LEMMA FollowsTwice ==
  ASSUME NEW old, NEW mid, NEW new, NEW taken, Follows(mid, old, taken), Follows(new, mid, taken)
  PROVE  Follows(new, old, taken)
BY DEF Follows

(* The permanent launchers were permanent before, in the same order, but for *)
(* those at files that an installation takes.                                *)
Steady(new, old, taken) ==
  \A i, j \in DOMAIN new :
     i < j /\ (\A n \in {i, j} : ~ new[n].temp /\ new[n].path \notin taken)
     => \E a, b \in DOMAIN old :
           /\ a < b /\ old[a].path = new[i].path /\ old[b].path = new[j].path
           /\ ~ old[a].temp /\ ~ old[b].temp

Stays(new, old, taken) == Follows(new, old, taken) /\ Steady(new, old, taken)

LEMMA SteadyTwice ==
  ASSUME NEW old, NEW mid, NEW new, NEW taken, Steady(mid, old, taken), Steady(new, mid, taken)
  PROVE  Steady(new, old, taken)
<1>. SUFFICES ASSUME NEW i \in DOMAIN new, NEW j \in DOMAIN new, i < j,
                     \A n \in {i, j} : ~ new[n].temp /\ new[n].path \notin taken
              PROVE  \E a, b \in DOMAIN old :
                        /\ a < b /\ old[a].path = new[i].path /\ old[b].path = new[j].path
                        /\ ~ old[a].temp /\ ~ old[b].temp
  BY DEF Steady
<1>1. PICK x \in DOMAIN mid, y \in DOMAIN mid :
        /\ x < y /\ mid[x].path = new[i].path /\ mid[y].path = new[j].path
        /\ ~ mid[x].temp /\ ~ mid[y].temp
  BY DEF Steady
<1>2. \A n \in {x, y} : ~ mid[n].temp /\ mid[n].path \notin taken
  BY <1>1
<1>3. PICK a \in DOMAIN old, b \in DOMAIN old :
        /\ a < b /\ old[a].path = mid[x].path /\ old[b].path = mid[y].path
        /\ ~ old[a].temp /\ ~ old[b].temp
  BY <1>1, <1>2 DEF Steady
<1>. QED BY <1>1, <1>3

LEMMA StaysTwice ==
  ASSUME NEW old, NEW mid, NEW new, NEW taken, Stays(mid, old, taken), Stays(new, mid, taken)
  PROVE  Stays(new, old, taken)
BY FollowsTwice, SteadyTwice DEF Stays

LEMMA AlikeStays ==
  ASSUME NEW old, NEW new, Alike(new, old), NEW taken
  PROVE  Stays(new, old, taken)
<1>1. Steady(new, old, taken)
  BY DEF Alike, Steady
<1>. QED BY <1>1, AlikeFollows DEF Stays

LEMMA InTurnStays ==
  ASSUME NEW old, NEW new, InTurn(new, old), \A f \in Files : Keeps(new, old, f), NEW taken
  PROVE  Stays(new, old, taken)
<1>1. PICK way \in [DOMAIN new -> DOMAIN old] :
        /\ \A a, b \in DOMAIN new : a < b => way[a] < way[b]
        /\ \A n \in DOMAIN new : new[n] = old[way[n]]
  BY DEF InTurn
<1>2. Steady(new, old, taken)
  BY <1>1 DEF Steady
<1>. QED BY <1>2, KeepsFollows DEF Stays

LEMMA ModelFollowed ==
  ASSUME CurrentInv, UNCHANGED <<monitorVars, category>>, claimed \subseteq claimed',
         Follows(list', list, claimed')
  PROVE  Tracked' /\ Followed'
<1>1. Tracked /\ Followed /\ told \subseteq Files
  BY DEF CurrentInv, LauncherInv, TypeOK, MonitorTypeOK
<1>2. UNCHANGED <<files, watched, dirPending, filePending, known, added, modified, removed,
                  holdback, told, missed>>
  BY DEF monitorVars
<1>3. Present' = Present /\ \A f : Wanted(f, category)' = Wanted(f, category)
  BY <1>2 DEF Present, Wanted, Displays
<1>4. Tracked'
  BY <1>1, <1>2, <1>3 DEF Tracked
<1>5. Untemporary'
  BY <1>1, <1>2 DEF Followed, Untemporary, Follows
<1>6. Unlisted'
  BY <1>1, <1>2 DEF Followed, Unlisted, Follows
<1>7. UpToDate'
  <2>1. Present \subseteq Files
    BY DEF Present
  <2>. QED BY <1>1, <1>2, <1>3, <2>1 DEF Followed, UpToDate, News, Follows
<1>. QED BY <1>4, <1>5, <1>6, <1>7 DEF Followed

LEMMA OrderFollowed ==
  ASSUME CurrentInv,
         \/ \E p, q \in Paths : OrderChangedOutside(p, q)
         \/ LoadPositions
         \/ \E from, to \in DOMAIN list : Move(from, to)
  PROVE  Tracked' /\ Followed'
<1>1. list \in Seq(Item) /\ saved \in [Paths -> Nat \cup {NoPosition}]
  BY DEF CurrentInv, LauncherInv, TypeOK
<1>2. UNCHANGED <<monitorVars, category, claimed>>
  BY DEF OrderChangedOutside, LoadPositions, Move
<1>3. Permuted(list', list)
  <2>1. Permuted(list, list)
    BY <1>1, PermutedItself
  <2>2. ASSUME NEW from \in DOMAIN list, NEW to \in DOMAIN list, Move(from, to)
        PROVE  Permuted(list', list)
    BY <1>1, <2>2, MovePermutes DEF Move
  <2>3. LoadPositions => Permuted(list', list)
    BY <1>1, ReorderPermutes DEF LoadPositions
  <2>4. (\E p, q \in Paths : OrderChangedOutside(p, q)) => list' = list
    BY DEF OrderChangedOutside
  <2>. QED BY <2>1, <2>2, <2>3, <2>4
<1>4. Follows(list', list, claimed')
  BY <1>1, <1>3, PermutedFollows
<1>. QED BY <1>2, <1>4, ModelFollowed

LEMMA LaunchesAlike ==
  ASSUME LauncherInv,
         \/ \E k \in DOMAIN list : LaunchApplication(k) \/ LaunchingTimeout(k)
         \/ \E path \in Paths : \E isLaunching \in BOOLEAN : NotifyLaunching(path, isLaunching)
  PROVE  Alike(list', list) /\ UNCHANGED <<monitorVars, category, claimed, saved, savedWatched>>
<1>1. list \in Seq(Item)
  BY DEF LauncherInv, TypeOK
<1>2. UNCHANGED <<monitorVars, category, claimed, saved, savedWatched>>
  BY DEF LaunchApplication, LaunchingTimeout, NotifyLaunching, LaunchingUnchanged
<1>3. PICK k \in DOMAIN list, isLaunching \in BOOLEAN : SetIsLaunching(k, isLaunching)
  BY <1>1, FindHolds DEF LaunchApplication, LaunchingTimeout, NotifyLaunching
<1>4. PICK item : item = [list[k] EXCEPT !.launching = isLaunching, !.timer = isLaunching]
  OBVIOUS
<1>5. list' = [list EXCEPT ![k] = item]
  BY <1>3, <1>4 DEF SetIsLaunching
<1>6. item.path = list[k].path /\ item.temp = list[k].temp /\ item.seen = list[k].seen
  BY <1>1, <1>4, ItemsOf DEF Item
<1>7. Alike(list', list)
  BY <1>5, <1>6 DEF Alike
<1>. QED BY <1>2, <1>7

LEMMA LaunchesFollowed ==
  ASSUME CurrentInv,
         \/ \E k \in DOMAIN list : LaunchApplication(k) \/ LaunchingTimeout(k)
         \/ \E path \in Paths : \E isLaunching \in BOOLEAN : NotifyLaunching(path, isLaunching)
  PROVE  Tracked' /\ Followed'
<1>1. LauncherInv
  BY DEF CurrentInv
<1>2. Alike(list', list) /\ UNCHANGED <<monitorVars, category, claimed>>
  BY <1>1, LaunchesAlike
<1>. QED BY <1>2, AlikeFollows, ModelFollowed

LEMMA UpdatesAlike ==
  ASSUME LauncherInv,
         \/ \E p \in Packages : UpdatingProgress(p) \/ UpdatingFinished(p)
         \/ \E s \in Services : ServiceVanishes(s)
  PROVE  Alike(list', list) /\ UNCHANGED <<monitorVars, category, claimed, saved, savedWatched>>
<1>1. LauncherInv /\ list \in Seq(Item) /\ removals \in Nat /\ Core(list, temps, services, removals)
  BY DEF LauncherInv, TypeOK
<1>2. UNCHANGED <<monitorVars, category, claimed, saved, savedWatched>>
  BY DEF UpdatingProgress, UpdatingFinished, ServiceVanishes
<1>3. ASSUME NEW p \in Packages, UpdatingProgress(p) PROVE Alike(list', list)
  <2>1. PICK k : k = FindPackage(list, p)
    OBVIOUS
  <2>2. k \in DOMAIN list
    BY <1>1, <1>3, <2>1, FindPackageHolds DEF UpdatingProgress
  <2>3. PICK item : item = [list[k] EXCEPT !.updating = TRUE]
    OBVIOUS
  <2>4. list' = [list EXCEPT ![k] = item]
    BY <1>3, <2>1, <2>3 DEF UpdatingProgress
  <2>5. item.path = list[k].path /\ item.temp = list[k].temp /\ item.seen = list[k].seen
    BY <1>1, <2>2, <2>3, ItemsOf DEF Item
  <2>. QED BY <2>4, <2>5 DEF Alike
<1>4. ASSUME NEW p \in Packages, UpdatingFinished(p) PROVE Alike(list', list)
  <2>1. PICK new : new = FinishUpdate(Updates, FindPackage(list, p))
    OBVIOUS
  <2>2. Updates = [list |-> list, removals |-> removals] /\ list' = new.list
    BY <1>4, <2>1 DEF Updates, UpdatingFinished
  <2>3. Alike(new.list, list)
    BY <1>1, <2>1, <2>2, FinishKeeps
  <2>. QED BY <2>2, <2>3
<1>5. ASSUME NEW service \in Services, ServiceVanishes(service) PROVE Alike(list', list)
  <2>1. PICK U : U = {p \in Packages : services[p] = service}
    OBVIOUS
  <2>2. PICK order \in SetToSeqs(U) : list' = AllFinished(order).list
    BY <1>5, <2>1 DEF ServiceVanishes
  <2>3. IsFiniteSet(U) /\ U \subseteq Packages
    BY <2>1, PackageAssumption, FS_Subset
  <2>4. PICK k : k = Len(order)
    OBVIOUS
  <2>5. k \in Nat /\ order \in [1 .. k -> U]
    BY <2>3, <2>4, OrdersGoThrough
  <2>6. order \in [1 .. k -> Packages]
    BY <2>3, <2>5
  <2>7. Alike(AllFinished(order).list, list)
    BY <1>1, <2>4, <2>5, <2>6, AllFinishedKeeps
  <2>. QED BY <2>2, <2>7
<1>6. Alike(list', list)
  BY <1>3, <1>4, <1>5
<1>. QED BY <1>2, <1>6

LEMMA UpdatesFollowed ==
  ASSUME CurrentInv,
         \/ \E p \in Packages : UpdatingProgress(p) \/ UpdatingFinished(p)
         \/ \E s \in Services : ServiceVanishes(s)
  PROVE  Tracked' /\ Followed'
<1>1. LauncherInv
  BY DEF CurrentInv
<1>2. Alike(list', list) /\ UNCHANGED <<monitorVars, category, claimed>>
  BY <1>1, UpdatesAlike
<1>. QED BY <1>2, AlikeFollows, ModelFollowed

LEMMA RemoveTemporaryStays ==
  ASSUME LauncherInv, RemoveTemporaryLaunchers
  PROVE  /\ Stays(list', list, claimed')
         /\ UNCHANGED <<monitorVars, category, claimed, saved, savedWatched>>
<1>1. list \in Seq(Item) /\ Differ(list) /\ temps = TempIds(list)
  BY DEF LauncherInv, TypeOK, Core
<1>2. PICK S : S = {k \in DOMAIN list : list[k].id \notin temps \/ list[k].updating}
  OBVIOUS
<1>3. /\ UNCHANGED <<monitorVars, category, claimed, saved, savedWatched>>
      /\ list' = OnlyAt(list, S)
  BY <1>2 DEF RemoveTemporaryLaunchers
<1>4. S \in SUBSET DOMAIN list /\ Picked(list', list, S) /\ InTurn(list', list)
  <2>1. S \in SUBSET DOMAIN list
    BY <1>2
  <2>. QED BY <1>1, <1>3, <2>1, OnlyAtPicks
<1>5. \A n \in DOMAIN list \ S : list[n].temp
  BY <1>1, <1>2, TempsAreTemp
<1>6. \A f \in Files : Keeps(list', list, f)
  BY <1>4, <1>5, PickedKeeps
<1>7. Stays(list', list, claimed')
  BY <1>4, <1>6, InTurnStays
<1>. QED BY <1>3, <1>7

LEMMA RemoveTemporaryFollowed ==
  ASSUME CurrentInv, RemoveTemporaryLaunchers
  PROVE  Tracked' /\ Followed'
<1>1. LauncherInv
  BY DEF CurrentInv
<1>2. Follows(list', list, claimed') /\ UNCHANGED <<monitorVars, category, claimed>>
  BY <1>1, RemoveTemporaryStays DEF Stays
<1>. QED BY <1>2, ModelFollowed

-----------------------------------------------------------------------------
(* updatingStarted: what is installed or claimed is temporary, or at a file  *)
(* that the installation takes.                                              *)
LEMMA ClaimStays ==
  ASSUME NEW l, NEW k \in DOMAIN l, l[k].temp, NEW r, DOMAIN r = DOMAIN l,
         \A n \in DOMAIN l : n # k => r[n] = l[n],
         NEW taken, r[k].path \in taken \/ (r[k].temp /\ r[k].path \notin told)
  PROVE  Stays(r, l, taken)
<1>0. Steady(r, l, taken)
  BY DEF Steady
<1>. SUFFICES ASSUME NEW f \in Files \ taken
     PROVE  Shows(r, f) = Shows(l, f) /\ (f \in told /\ TempAt(r, f) => TempAt(l, f))
  BY <1>0 DEF Follows, Stays
<1>1. r[k].path # f \/ r[k].temp
  OBVIOUS
<1>2. {n \in DOMAIN r : r[n].path = f /\ ~ r[n].temp} = {n \in DOMAIN l : l[n].path = f /\ ~ l[n].temp}
  BY <1>1
<1>3. Shows(r, f) = Shows(l, f)
  BY <1>2 DEF Shows
<1>4. f \in told /\ TempAt(r, f) => TempAt(l, f)
  BY DEF TempAt
<1>. QED BY <1>3, <1>4

LEMMA InstallStays ==
  ASSUME NEW l, NEW c \in Nat, DOMAIN l = 1 .. c, NEW r, DOMAIN r = 1 .. c + 1,
         \A n \in 1 .. c : r[n] = l[n],
         r[c + 1].temp, NEW taken, r[c + 1].path \in taken \/ r[c + 1].path \notin told
  PROVE  Stays(r, l, taken)
<1>0. Steady(r, l, taken)
  <2>1. \A n \in 1 .. c + 1 : ~ r[n].temp => n \in 1 .. c /\ r[n] = l[n]
    OBVIOUS
  <2>. QED BY <2>1 DEF Steady
<1>. SUFFICES ASSUME NEW f \in Files \ taken
     PROVE  Shows(r, f) = Shows(l, f) /\ (f \in told /\ TempAt(r, f) => TempAt(l, f))
  BY <1>0 DEF Follows, Stays
<1>1. \A n \in 1 .. c + 1 : n \in 1 .. c \/ n = c + 1
  OBVIOUS
<1>2. \A n \in 1 .. c : n \in 1 .. c + 1
  OBVIOUS
<1>3. \A n \in DOMAIN r : r[n].path = f /\ ~ r[n].temp => n \in DOMAIN l /\ r[n] = l[n]
  BY <1>1
<1>4. \A n \in DOMAIN l : n \in DOMAIN r /\ r[n] = l[n]
  BY <1>2
<1>5. Shows(r, f) = Shows(l, f)
  BY <1>3, <1>4 DEF Shows
<1>6. f \in told /\ TempAt(r, f) => TempAt(l, f)
  BY <1>1 DEF TempAt
<1>. QED BY <1>5, <1>6

LEMMA StartAlike ==
  ASSUME NEW m \in State, NEW k \in DOMAIN m.list, NEW p \in Packages
  PROVE  StartUpdate(m, k, p) \in State /\ Alike(StartUpdate(m, k, p).list, m.list)
<1>1. Starts(StartUpdate(m, k, p), m, k, p)
  BY StartUpdateIs
<1>. QED BY <1>1 DEF Starts, Alike

LEMMA UpdatingStartedStays ==
  ASSUME LauncherInv, NEW p \in Packages, NEW service \in Services, NEW d \in Announced[p],
         UpdatingStarted(p, service, d)
  PROVE  /\ claimed \subseteq claimed' /\ Stays(list', list, claimed')
         /\ UNCHANGED <<monitorVars, category, saved, savedWatched>>
<1>1. PICK path : path = IF d = NoPath THEN Guess[p] ELSE d
  OBVIOUS
<1>2. PICK k : k = IF Find(list, path) # 0 THEN Find(list, path) ELSE FindPackage(list, p)
  OBVIOUS
<1>3. PICK s : s = Superseded(list, temps, p)
  OBVIOUS
<1>4. PICK m : m = IF k = 0
                   THEN StartUpdate(Install(Model, path), Len(list) + 1, p)
                   ELSE IF list[k].temp
                   THEN StartUpdate(Claim(Model, k, path), k, p)
                   ELSE IF s # 0
                   THEN DropAt(StartUpdate(Model, k, p), s)
                   ELSE StartUpdate(Model, k, p)
  OBVIOUS
<1>5. PICK taken : taken = claimed'
  OBVIOUS
<1>6. /\ list' = m.list
      /\ claimed' = IF k = 0 \/ list[k].temp
                    THEN claimed \cup ({path} \cap (told \cup Present)) ELSE claimed
      /\ UNCHANGED <<monitorVars, category, saved, savedWatched>>
  BY <1>1, <1>2, <1>3, <1>4 DEF UpdatingStarted, Superseded
<1>7. /\ list \in Seq(Item) /\ Differ(list) /\ temps = TempIds(list) /\ FilesHeld
      /\ told \subseteq Files
  BY DEF FilesHeld, LauncherInv, TypeOK, MonitorTypeOK, Core
<1>8. path \in Paths
  BY <1>1, AnnouncedPath
<1>9. k # 0 => k \in DOMAIN list
  BY <1>2, <1>7, FindHolds, FindPackageHolds
<1>10. PICK a : a = Model
  OBVIOUS
<1>11. Good(a) /\ a \in State /\ a.list = list /\ a.temps = temps
  BY <1>7, <1>10, ModelGood DEF Good
<1>12. Stays(m.list, list, taken)
  <2>1. CASE k = 0
    <3>1. PICK c \in Nat : c = Len(list) /\ DOMAIN list = 1 .. c
      BY <1>7, ItemsOf
    <3>2. PICK b : b = Install(a, path)
      OBVIOUS
    <3>3. /\ b \in State /\ DOMAIN b.list = 1 .. c + 1 /\ b.list[c + 1].temp = TRUE
          /\ b.list[c + 1].path = path /\ \A n \in 1 .. c : b.list[n] = list[n]
      <4>1. Installs(b, a, path, c)
        BY <1>7, <1>8, <1>11, <3>1, <3>2, InstallIs
      <4>. QED BY <1>11, <4>1 DEF Installs
    <3>4. path \in taken \/ path \notin told
      BY <1>5, <1>6, <2>1
    <3>5. Stays(b.list, list, taken)
      <4>1. PICK l, r : l = list /\ r = b.list
        OBVIOUS
      <4>2. Stays(r, l, taken)
        BY <3>1, <3>3, <3>4, <4>1, InstallStays
      <4>. QED BY <4>1, <4>2
    <3>6. c + 1 \in DOMAIN b.list
      BY <3>3
    <3>7. Alike(StartUpdate(b, c + 1, p).list, b.list)
      BY <3>3, <3>6, StartAlike
    <3>8. m = StartUpdate(b, c + 1, p)
      BY <1>4, <1>10, <2>1, <3>1, <3>2
    <3>9. Stays(m.list, b.list, taken)
      BY <3>7, <3>8, AlikeStays
    <3>. QED BY <3>5, <3>9, StaysTwice
  <2>2. CASE k # 0 /\ list[k].temp
    <3>1. PICK b : b = Claim(a, k, path)
      OBVIOUS
    <3>2. /\ b \in State /\ DOMAIN b.list = DOMAIN list
          /\ \A n \in DOMAIN list : n # k => b.list[n] = list[n]
          /\ b.list[k].path = path
          /\ \/ b.list[k].temp = list[k].temp
             \/ path \in Files /\ ContentOf(path) # Absent
      <4>1. Claims(b, a, k, path)
        BY <1>7, <1>8, <1>9, <1>11, <2>2, <3>1, ClaimIs
      <4>. QED BY <1>11, <4>1 DEF Claims
    <3>3. path \in taken \/ (b.list[k].temp /\ path \notin told)
      <4>1. path \in Files /\ ContentOf(path) # Absent => path \in Present
        BY DEF ContentOf, Present
      <4>. QED BY <1>5, <1>6, <2>2, <3>2, <4>1
    <3>4. Stays(b.list, list, taken)
      <4>1. PICK l, r : l = list /\ r = b.list
        OBVIOUS
      <4>2. Stays(r, l, taken)
        BY <1>9, <2>2, <3>2, <3>3, <4>1, ClaimStays
      <4>. QED BY <4>1, <4>2
    <3>5. Alike(StartUpdate(b, k, p).list, b.list)
      BY <1>9, <2>2, <3>2, StartAlike
    <3>6. m = StartUpdate(b, k, p)
      BY <1>4, <1>10, <2>2, <3>1
    <3>7. Stays(m.list, b.list, taken)
      BY <3>5, <3>6, AlikeStays
    <3>. QED BY <3>4, <3>7, StaysTwice
  <2>3. CASE k # 0 /\ ~ list[k].temp
    <3>1. PICK b : b = StartUpdate(a, k, p)
      OBVIOUS
    <3>2. b \in State /\ Alike(b.list, list)
      <4>1. k \in DOMAIN a.list
        BY <1>9, <1>11, <2>3
      <4>2. b \in State /\ Alike(b.list, a.list)
        BY <1>11, <3>1, <4>1, StartAlike
      <4>. QED BY <1>11, <4>2
    <3>3. Stays(b.list, list, taken)
      BY <3>2, AlikeStays
    <3>4. CASE s = 0
      <4>1. m = b
        BY <1>4, <1>10, <2>3, <3>1, <3>4
      <4>. QED BY <3>3, <4>1
    <3>5. CASE s # 0
      <4>1. s \in DOMAIN list /\ list[s].id \in temps
        BY <1>3, <1>7, <3>5, SupersededHolds
      <4>2. s \in DOMAIN b.list /\ b.list[s].temp
        BY <1>7, <3>2, <4>1, TempsAreTemp DEF Alike
      <4>3. m.list = RemoveAt(b.list, s)
        BY <1>4, <1>10, <2>3, <3>1, <3>2, <3>5 DEF DropAt, State
      <4>4. PICK l : l = b.list
        OBVIOUS
      <4>5. l \in Seq(Item) /\ s \in DOMAIN l /\ l[s].temp
        BY <3>2, <4>2, <4>4 DEF State
      <4>6. Picked(RemoveAt(l, s), l, DOMAIN l \ {s}) /\ InTurn(RemoveAt(l, s), l)
        BY <4>5, RemoveAtPicks
      <4>7. \A f \in Files : Keeps(RemoveAt(l, s), l, f)
        <5>1. DOMAIN l \ {s} \in SUBSET DOMAIN l /\ \A n \in DOMAIN l \ (DOMAIN l \ {s}) : l[n].temp
          BY <4>5
        <5>. QED BY <4>6, <5>1, PickedKeeps
      <4>8. Stays(RemoveAt(l, s), l, taken)
        BY <4>6, <4>7, InTurnStays
      <4>9. Stays(m.list, b.list, taken)
        BY <4>3, <4>4, <4>8
      <4>. QED BY <3>3, <4>9, StaysTwice
    <3>. QED BY <3>4, <3>5
  <2>. QED BY <2>1, <2>2, <2>3
<1>. QED BY <1>5, <1>6, <1>12

LEMMA UpdatingStartedFollowed ==
  ASSUME CurrentInv, NEW p \in Packages, NEW service \in Services, NEW d \in Announced[p],
         UpdatingStarted(p, service, d)
  PROVE  Tracked' /\ Followed'
<1>1. LauncherInv
  BY DEF CurrentInv
<1>2. /\ claimed \subseteq claimed' /\ Follows(list', list, claimed')
      /\ UNCHANGED <<monitorVars, category>>
  BY <1>1, UpdatingStartedStays DEF Stays
<1>. QED BY <1>2, ModelFollowed

-----------------------------------------------------------------------------
(* The start, and the end of the process: the list is what the directory has. *)
ShowsAll(l) ==
  \A f \in Files : IF f \in Present THEN Shows(l, f) = Wanted(f, category) /\ ~ TempAt(l, f)
                                    ELSE Shows(l, f) = {}

LEMMA StartedShows ==
  ASSUME FilesHeld, NEW order \in [Paths -> Nat \cup {NoPosition}]
  PROVE  ShowsAll(ReorderItems(Started.list, order))
<1>1. PICK m, fresh, none : m = NoFiles /\ fresh = InOrder(Present) /\ none = {}
  OBVIOUS
<1>2. fresh \in Seq(Files) /\ Range(fresh) = Present
  <2>1. PICK P : P = Present
    OBVIOUS
  <2>2. P \in SUBSET Files /\ fresh = InOrder(P)
    BY <1>1, <2>1, PresentFiles
  <2>3. fresh \in Seq(Files) /\ \A f : (\E i \in DOMAIN fresh : fresh[i] = f) <=> f \in P
    BY <2>2, OrderSays
  <2>. QED BY <2>1, <2>3 DEF Range
<1>3. <<>> \in Seq(Item) /\ DOMAIN <<>> = {}
  BY EmptySeq
<1>4. m.list = <<>> /\ m.temps = {} /\ m \in State
  BY <1>1, <1>3 DEF NoFiles, State
<1>5. Differ(m.list) /\ TempIds(m.list) = {}
  BY <1>3, <1>4 DEF Differ, TempIds
<1>6. Good(m)
  BY <1>4, <1>5 DEF Good
<1>7. PICK l : l = Started.list
  OBVIOUS
<1>8. l = FilesUpdated(m, fresh, none, none).list
  BY <1>1, <1>7 DEF Started
<1>9. l \in Seq(Item)
  BY <1>7, StartedGood DEF Good, State
<1>10. Updated(l, m.list, fresh, none, none)
  <2>1. none \in SUBSET Files
    BY <1>1
  <2>. QED BY <1>2, <1>6, <1>8, <2>1, FilesUpdatedShows
<1>11. \A f \in Files : Shows(m.list, f) = {}
  BY <1>3, <1>4 DEF Shows
<1>12. ShowsAll(l)
  BY <1>1, <1>2, <1>10, <1>11 DEF Updated, ShowsAll, Keeps
<1>13. PICK r : r = ReorderItems(l, order)
  OBVIOUS
<1>14. \A f \in Files : Keeps(r, l, f)
  BY <1>9, <1>13, ReorderPermutes, PermutedKeeps
<1>15. ShowsAll(r)
  BY <1>12, <1>14 DEF ShowsAll, Keeps
<1>. QED BY <1>7, <1>13, <1>15

LEMMA RestartFollowed ==
  ASSUME CurrentInv, Restart
  PROVE  Tracked' /\ Followed'
<1>1. /\ FilesHeld /\ saved \in [Paths -> Nat \cup {NoPosition}]
  BY DEF CurrentInv, LauncherInv, TypeOK, MonitorTypeOK, FilesHeld
<1>2. /\ UNCHANGED <<files, category>> /\ watched' = Present /\ known' = Present
      /\ filePending' = {} /\ added' = <<>> /\ modified' = {} /\ removed' = {}
      /\ told' = Present /\ missed' = {} /\ claimed' = {}
  BY DEF Restart, MonitorStarted
<1>3. /\ Present' = Present /\ \A f : Wanted(f, category)' = Wanted(f, category)
  BY <1>2 DEF Present, Wanted, Displays
<1>4. Range(added') = {}
  BY <1>2 DEF Range
<1>5. Tracked'
  BY <1>2, <1>3, <1>4 DEF Tracked
<1>6. ShowsAll(list')
  <2>1. CASE Present = {}
    <3>1. list' = <<>> /\ DOMAIN <<>> = {}
      BY <2>1, EmptySeq DEF Restart
    <3>. QED BY <2>1, <3>1 DEF ShowsAll, Shows
  <2>2. CASE Present # {}
    <3>1. list' = ReorderItems(Started.list, saved)
      BY <2>2 DEF Restart, Adopt
    <3>. QED BY <1>1, <3>1, StartedShows
  <2>. QED BY <2>1, <2>2
<1>7. Present \subseteq Files
  BY DEF Present
<1>8. Followed'
  BY <1>2, <1>3, <1>6, <1>7 DEF ShowsAll, Followed, Untemporary, Unlisted, UpToDate
<1>. QED BY <1>5, <1>8

LEMMA InitFollowed == Init => CurrentInv
<1>. SUFFICES ASSUME Init PROVE CurrentInv
  OBVIOUS
<1>1. LauncherInv
  BY InitHolds
<1>2. /\ watched = Present /\ known = Present /\ filePending = {} /\ added = <<>>
      /\ modified = {} /\ removed = {} /\ told = Present /\ missed = {} /\ claimed = {}
      /\ list = ReorderItems(Started.list, [p \in Paths |-> NoPosition])
  BY DEF Init, MonitorInit
<1>3. FilesHeld
  BY <1>1 DEF LauncherInv, TypeOK, MonitorTypeOK, FilesHeld
<1>4. Range(added) = {}
  BY <1>2 DEF Range
<1>5. Tracked
  BY <1>2, <1>4 DEF Tracked
<1>6. ShowsAll(list)
  <2>1. PICK order : order = [p \in Paths |-> NoPosition]
    OBVIOUS
  <2>2. order \in [Paths -> Nat \cup {NoPosition}] /\ list = ReorderItems(Started.list, order)
    BY <1>2, <2>1
  <2>. QED BY <1>3, <2>2, StartedShows
<1>7. Present \subseteq Files
  BY DEF Present
<1>8. Followed
  BY <1>2, <1>6, <1>7 DEF ShowsAll, Followed, Untemporary, Unlisted, UpToDate
<1>. QED BY <1>1, <1>5, <1>8 DEF CurrentInv

LEMMA CurrentInductive == Spec => []CurrentInv
<1>1. Init => CurrentInv
  BY InitFollowed
<1>2. CurrentInv /\ [Next]_vars /\ LauncherInv' => CurrentInv'
  <2>. SUFFICES ASSUME CurrentInv, [Next]_vars PROVE Tracked' /\ Followed'
    BY DEF CurrentInv
  <2>1. CASE DirectoryChanges /\ UNCHANGED modelVars
    BY <2>1, ChangesFollowed
  <2>2. CASE Deliver /\ UNCHANGED modelVars
    BY <2>2, DeliverFollowed
  <2>3. CASE HoldbackTimeout
    BY <2>3, HoldbackFollowed
  <2>4. CASE \/ \E p, q \in Paths : OrderChangedOutside(p, q)
             \/ LoadPositions
             \/ \E from, to \in DOMAIN list : Move(from, to)
    BY <2>4, OrderFollowed
  <2>5. CASE \E cat \in DOMAIN InCategory : SetCategories(cat)
    BY <2>5, CategoriesFollowed
  <2>6. CASE \E p \in Packages : \E s \in Services : \E d \in Announced[p] : UpdatingStarted(p, s, d)
    BY <2>6, UpdatingStartedFollowed
  <2>7. CASE \/ \E p \in Packages : UpdatingProgress(p) \/ UpdatingFinished(p)
             \/ \E s \in Services : ServiceVanishes(s)
    BY <2>7, UpdatesFollowed
  <2>8. CASE RemoveTemporaryLaunchers
    BY <2>8, RemoveTemporaryFollowed
  <2>9. CASE \/ \E k \in DOMAIN list : LaunchApplication(k) \/ LaunchingTimeout(k)
             \/ \E path \in Paths : \E isLaunching \in BOOLEAN : NotifyLaunching(path, isLaunching)
    BY <2>9, LaunchesFollowed
  <2>10. CASE Restart
    BY <2>10, RestartFollowed
  <2>11. CASE UNCHANGED vars
    <3>1. UNCHANGED <<monitorVars, category>> /\ claimed' = claimed /\ list' = list
      BY <2>11 DEF vars, modelVars
    <3>2. Follows(list', list, claimed')
      BY <3>1, KeepsItself, KeepsFollows
    <3>. QED BY <3>1, <3>2, ModelFollowed
  <2>. QED BY <2>1, <2>2, <2>3, <2>4, <2>5, <2>6, <2>7, <2>8, <2>9, <2>10, <2>11 DEF Next
<1>. QED BY <1>1, <1>2, LauncherInductive, PTL DEF Spec

(* Whatever files are written, replaced, deleted and created, and however    *)
(* the events of it are collected, cancelled against one another, delivered  *)
(* late and handed over between installations, moves, other categories and   *)
(* restarts: once the events are delivered and the holdback is over, the     *)
(* permanent launchers are those of the displayable files, as they are.      *)
(* Not so a file with a change that the monitor does not hand over (missed), *)
(* nor one that was there, or known, when an installation took it (claimed). *)
THEOREM SettledListIsCurrent == Spec => []SettledIsCurrent
<1>1. CurrentInv => SettledIsCurrent
  <2>. SUFFICES ASSUME CurrentInv, Settled, NEW f \in Files \ (missed \cup claimed)
                PROVE  LET shown == {i \in Range(list) : i.path = f /\ ~ i.temp}
                       IN IF files[f] \in Valid /\ Displays(files[f], category)
                          THEN \E i \in shown : i.seen = files[f]
                          ELSE shown = {}
    BY DEF SettledIsCurrent, IsCurrent
  <2>1. Tracked /\ Followed
    BY DEF CurrentInv
  <2>2. /\ known = Present /\ added = <<>> /\ modified = {} /\ removed = {} /\ filePending = {}
    BY <2>1 DEF Settled, Delivered, Tracked
  <2>3. Range(added) = {}
    BY <2>2 DEF Range
  <2>4. Shows(list, f) = Wanted(f, category)
    <3>1. CASE f \in Present
      BY <2>1, <2>2, <2>3, <3>1 DEF Followed, UpToDate, News
    <3>2. CASE f \notin Present
      <4>1. f \notin told
        BY <2>1, <2>2, <3>2 DEF Tracked
      <4>2. files[f] \notin Valid
        BY <3>2, ValidAssumption, AbsentAssumption DEF Present
      <4>. QED BY <2>1, <4>1, <4>2 DEF Followed, Unlisted, Wanted
    <3>. QED BY <3>1, <3>2
  <2>5. CASE files[f] \in Valid /\ Displays(files[f], category)
    <3>1. files[f] \in Shows(list, f)
      BY <2>4, <2>5 DEF Wanted
    <3>2. PICK k \in DOMAIN list : list[k].path = f /\ ~ list[k].temp /\ files[f] = list[k].seen
      BY <3>1 DEF Shows
    <3>. QED BY <2>5, <3>2 DEF Range
  <2>6. CASE ~ (files[f] \in Valid /\ Displays(files[f], category))
    <3>1. Shows(list, f) = {}
      BY <2>4, <2>6 DEF Wanted
    <3>2. \A k \in DOMAIN list : ~ (list[k].path = f /\ ~ list[k].temp)
      BY <3>1 DEF Shows
    <3>. QED BY <2>6, <3>2 DEF Range
  <2>. QED BY <2>5, <2>6
<1>. QED BY <1>1, CurrentInductive, PTL

-----------------------------------------------------------------------------
(* The order that is saved.  reorderItems puts the launchers whose position  *)
(* is theirs alone in the order of their positions.                          *)
Sole(l, order, k) ==
  /\ Position(order, l[k].path) # NoPosition
  /\ \A n \in DOMAIN l : Position(order, l[n].path) = Position(order, l[k].path) => n = k

LEMMA ReorderOrders ==
  ASSUME NEW l, Differ(l), NEW order \in [Paths -> Nat \cup {NoPosition}],
         NEW r, r = ReorderItems(l, order), NEW k \in DOMAIN r, NEW n \in DOMAIN r,
         Sole(r, order, k), Sole(r, order, n),
         Position(order, r[k].path) < Position(order, r[n].path)
  PROVE  k < n
<1>1. l \in Seq(Item) /\ Permuted(r, l)
  BY ReorderPermutes DEF Differ
<1>2. PICK c \in Nat : c = Len(l) /\ DOMAIN l = 1 .. c
  BY <1>1, ItemsOf
<1>3. \A i \in DOMAIN l : l[i].path \in Paths
  BY <1>1, ItemsOf
<1>4. PICK ps, ts : /\ ps = [i \in DOMAIN l |-> Position(order, l[i].path)]
                    /\ ts = [i \in DOMAIN l |-> Title[l[i].path]]
  OBVIOUS
<1>5. PICK S, R : S = {i \in DOMAIN l : ps[i] # NoPosition} /\ R = DOMAIN l \ S
  OBVIOUS
<1>6. /\ S \in SUBSET DOMAIN l /\ R \in SUBSET DOMAIN l /\ S \subseteq Nat /\ R \subseteq Nat
      /\ S \cap R = {} /\ IsFiniteSet(S) /\ IsFiniteSet(R)
      /\ Cardinality(S) \in Nat /\ Cardinality(R) \in Nat /\ Cardinality(S) + Cardinality(R) = c
  <2>1. S \in SUBSET (1 .. c) /\ R = (1 .. c) \ S /\ 1 .. c \subseteq Nat
    BY <1>2, <1>5
  <2>2. IsFiniteSet(1 .. c) /\ Cardinality(1 .. c) = c
    BY FS_Interval
  <2>3. S \cap R = {} /\ S \cup R = 1 .. c /\ R \in SUBSET (1 .. c)
    BY <2>1
  <2>4. IsFiniteSet(S) /\ IsFiniteSet(R)
    BY <2>1, <2>2, <2>3, FS_Subset
  <2>5. Cardinality(S) \in Nat /\ Cardinality(R) \in Nat /\ Cardinality(S \cap R) = 0
    BY <2>3, <2>4, FS_CardinalityType, FS_EmptySet
  <2>6. Cardinality(S \cup R) = Cardinality(S) + Cardinality(R) - Cardinality(S \cap R)
    BY <2>4, FS_Union
  <2>7. Cardinality(S \cup R) = c
    BY <2>2, <2>3, Zenon
  <2>8. Cardinality(S) + Cardinality(R) = c
    BY <2>5, <2>6, <2>7
  <2>. QED BY <1>2, <2>1, <2>3, <2>4, <2>5, <2>8
<1>7. \A i \in S : ps[i] \in Nat
  <2>. SUFFICES ASSUME NEW i \in S PROVE ps[i] \in Nat
    OBVIOUS
  <2>1. ps[i] = Position(order, l[i].path) /\ ps[i] # NoPosition /\ l[i].path \in Paths
    BY <1>3, <1>4, <1>5
  <2>. QED BY <2>1, PathsAssumption DEF Position
<1>8. \A i \in R : ts[i] \in Nat
  BY <1>3, <1>4, <1>6, PathsAssumption
<1>9. PICK a, b : a = OnePerKey(S, ps) /\ b = OnePerKey(R, ts)
  OBVIOUS
<1>10. /\ a \in Seq(S) /\ Len(a) <= Cardinality(S)
       /\ \A x \in S : (\A y \in S : ps[y] = ps[x] => y = x) => \E m \in DOMAIN a : a[m] = x
       /\ \A i, j \in DOMAIN a : i < j => ps[a[i]] < ps[a[j]]
  BY <1>6, <1>7, <1>9, OnePerKeyHolds
<1>11. /\ b \in Seq(R) /\ Len(b) <= Cardinality(R)
       /\ \A i, j \in DOMAIN b : i < j => ts[b[i]] < ts[b[j]]
  BY <1>6, <1>8, <1>9, OnePerKeyHolds
<1>12. PICK p : p = a \o b
  OBVIOUS
<1>13. PICK ca \in Nat : ca = Len(a) /\ DOMAIN a = 1 .. ca /\ \A i \in 1 .. ca : a[i] \in S
  BY <1>10, LenProperties, ElementOfSeq
<1>14. PICK cb \in Nat : cb = Len(b) /\ DOMAIN b = 1 .. cb /\ \A i \in 1 .. cb : b[i] \in R
  BY <1>11, LenProperties, ElementOfSeq
<1>15. /\ p \in Seq(DOMAIN l) /\ Len(p) = ca + cb /\ DOMAIN p = 1 .. ca + cb
       /\ \A i \in 1 .. ca + cb : p[i] = IF i <= ca THEN a[i] ELSE b[i - ca]
  <2>1. a \in Seq(DOMAIN l) /\ b \in Seq(DOMAIN l)
    BY <1>6, <1>10, <1>11, SeqMonotonic
  <2>2. /\ p \in Seq(DOMAIN l) /\ Len(p) = ca + cb
        /\ \A i \in 1 .. ca + cb : p[i] = IF i <= ca THEN a[i] ELSE b[i - ca]
    BY <1>12, <1>13, <1>14, <2>1, ConcatProperties
  <2>. QED BY <2>2, LenProperties
<1>16. \A i, j \in DOMAIN p : p[i] = p[j] => i = j
  <2>1. \A i, j \in 1 .. ca : a[i] = a[j] => i = j
    <3>. SUFFICES ASSUME NEW i \in 1 .. ca, NEW j \in 1 .. ca, a[i] = a[j] PROVE ~ i < j
      OBVIOUS
    <3>1. ps[a[i]] \in Nat /\ ps[a[j]] = ps[a[i]]
      BY <1>7, <1>13
    <3>2. ~ ps[a[i]] < ps[a[j]]
      BY <3>1
    <3>. QED BY <1>10, <1>13, <3>2
  <2>2. \A i, j \in 1 .. cb : b[i] = b[j] => i = j
    <3>. SUFFICES ASSUME NEW i \in 1 .. cb, NEW j \in 1 .. cb, b[i] = b[j] PROVE ~ i < j
      OBVIOUS
    <3>1. ts[b[i]] \in Nat /\ ts[b[j]] = ts[b[i]]
      BY <1>8, <1>14
    <3>2. ~ ts[b[i]] < ts[b[j]]
      BY <3>1
    <3>. QED BY <1>11, <1>14, <3>2
  <2>3. \A i \in 1 .. ca + cb : \/ i \in 1 .. ca /\ i <= ca
                                \/ i - ca \in 1 .. cb /\ ~ i <= ca
    OBVIOUS
  <2>. SUFFICES ASSUME NEW i \in 1 .. ca + cb, NEW j \in 1 .. ca + cb, p[i] = p[j]
                PROVE  i = j
    BY <1>15
  <2>4. CASE i <= ca /\ j <= ca
    BY <1>15, <2>1, <2>3, <2>4
  <2>5. CASE ~ i <= ca /\ ~ j <= ca
    <3>1. i - ca = j - ca
      BY <1>15, <2>2, <2>3, <2>5
    <3>. QED BY <3>1
  <2>6. CASE i <= ca /\ ~ j <= ca
    BY <1>6, <1>13, <1>14, <1>15, <2>3, <2>6
  <2>7. CASE ~ i <= ca /\ j <= ca
    BY <1>6, <1>13, <1>14, <1>15, <2>3, <2>7
  <2>. QED BY <2>4, <2>5, <2>6, <2>7
<1>17. r = Placed(l, p)
  BY <1>4, <1>5, <1>9, <1>12 DEF ReorderItems
<1>18. \A m \in DOMAIN p : r[m] = l[p[m]]
  <2>1. Distinct(l, p)
    BY <1>16 DEF Distinct, Differ
  <2>2. Len(p) <= Len(l)
    BY <1>2, <1>6, <1>10, <1>11, <1>13, <1>14, <1>15
  <2>. QED BY <1>1, <1>15, <1>17, <2>1, <2>2, PlacedPermutes
<1>19. DOMAIN r = 1 .. c /\ Differ(r)
  <2>1. r \in Seq(Item) /\ Picked(r, l, DOMAIN l) /\ DOMAIN r = DOMAIN l
    BY <1>1, PermutedPicks, PermutedHolds
  <2>. QED BY <1>2, <2>1, PickedDiffer
<1>20. ASSUME NEW i \in DOMAIN r, Sole(r, order, i)
       PROVE  i \in 1 .. ca /\ ps[a[i]] = Position(order, r[i].path)
  <2>1. PICK way \in [DOMAIN l -> DOMAIN l] :
          /\ \A m \in DOMAIN l : \E x \in DOMAIN l : way[x] = m
          /\ r = [m \in DOMAIN l |-> l[way[m]]]
    BY <1>1 DEF Permuted
  <2>2. PICK x \in DOMAIN l : r[i] = l[x]
    BY <1>2, <1>19, <2>1
  <2>3. x \in S /\ ps[x] = Position(order, r[i].path)
    BY <1>4, <1>5, <1>20, <2>2 DEF Sole
  <2>4. ASSUME NEW y \in S, ps[y] = ps[x] PROVE y = x
    <3>1. y \in DOMAIN l
      BY <1>6
    <3>2. PICK j \in DOMAIN r : r[j] = l[y]
      BY <1>2, <1>19, <2>1, <3>1
    <3>3. Position(order, r[j].path) = Position(order, r[i].path)
      BY <1>4, <2>3, <2>4, <3>1, <3>2
    <3>4. j = i
      BY <1>20, <3>3 DEF Sole
    <3>. QED BY <2>2, <3>1, <3>2, <3>4 DEF Differ
  <2>5. PICK m \in 1 .. ca : a[m] = x
    BY <1>10, <1>13, <2>3, <2>4
  <2>6. m \in DOMAIN p /\ p[m] = x
    BY <1>13, <1>14, <1>15, <2>5
  <2>7. r[m] = r[i] /\ m \in DOMAIN r
    <3>1. m \in 1 .. c
      BY <1>2, <1>6, <1>10, <1>13, <2>5
    <3>. QED BY <1>18, <1>19, <2>2, <2>6, <3>1
  <2>8. m = i
    BY <1>19, <2>7 DEF Differ
  <2>. QED BY <2>3, <2>5, <2>8
<1>21. k \in 1 .. ca /\ n \in 1 .. ca /\ ps[a[k]] < ps[a[n]] /\ ps[a[k]] \in Nat /\ ps[a[n]] \in Nat
  BY <1>7, <1>13, <1>20
<1>22. ~ n < k /\ n # k
  <2>1. ~ ps[a[n]] < ps[a[k]] /\ ps[a[n]] # ps[a[k]]
    BY <1>21
  <2>. QED BY <1>10, <1>13, <1>21, <2>1
<1>. QED BY <1>21, <1>22

(* While the file of the order is watched, the permanent launchers that have *)
(* a saved position are in that order, but for those an installation took.   *)
Fixed(l, order, taken, n) ==
  ~ l[n].temp /\ l[n].path \notin taken /\ order[l[n].path] # NoPosition

Sorted(l, order, taken) ==
  \A i, j \in DOMAIN l :
     i < j /\ Fixed(l, order, taken, i) /\ Fixed(l, order, taken, j)
     => order[l[i].path] < order[l[j].path]

InSavedOrder == savedWatched => Sorted(list, saved, claimed)

OrderInv == LauncherInv /\ InSavedOrder

LEMMA SavedSorted ==
  ASSUME NEW l, Differ(l), NEW taken
  PROVE  Sorted(l, PositionsIn(l), taken)
<1>1. l \in Seq(Item)
  BY DEF Differ
<1>2. Len(l) \in Nat /\ DOMAIN l = 1 .. Len(l) /\ \A n \in DOMAIN l : l[n].path \in Paths
  BY <1>1, ItemsOf
<1>3. ASSUME NEW n \in DOMAIN l PROVE PositionsIn(l)[l[n].path] = n - 1
  <2>1. Find(l, l[n].path) = n
    BY FindsIt
  <2>2. PositionsIn(l)[l[n].path]
          = IF Find(l, l[n].path) = 0 THEN NoPosition ELSE Find(l, l[n].path) - 1
    BY <1>2 DEF PositionsIn
  <2>3. n # 0
    BY <1>2
  <2>. QED BY <2>1, <2>2, <2>3
<1>4. \A i, j \in DOMAIN l : i < j => i - 1 < j - 1
  BY <1>2
<1>. QED BY <1>3, <1>4 DEF Sorted

LEMMA SavedInOrder ==
  ASSUME NEW l, Differ(l), SavePositions(l), list' = l
  PROVE  InSavedOrder'
<1>1. \A taken : Sorted(l, PositionsIn(l), taken)
  BY SavedSorted
<1>2. saved' = PositionsIn(l)
  BY DEF SavePositions
<1>. QED BY <1>1, <1>2 DEF InSavedOrder

LEMMA SteadySorted ==
  ASSUME NEW old, NEW order, NEW taken, Sorted(old, order, taken),
         NEW more, taken \subseteq more, NEW new, Steady(new, old, more)
  PROVE  Sorted(new, order, more)
<1>. SUFFICES ASSUME NEW i \in DOMAIN new, NEW j \in DOMAIN new, i < j,
                     Fixed(new, order, more, i), Fixed(new, order, more, j)
              PROVE  order[new[i].path] < order[new[j].path]
  BY DEF Sorted
<1>1. \A n \in {i, j} : ~ new[n].temp /\ new[n].path \notin more
  BY DEF Fixed
<1>2. PICK a \in DOMAIN old, b \in DOMAIN old :
        /\ a < b /\ old[a].path = new[i].path /\ old[b].path = new[j].path
        /\ ~ old[a].temp /\ ~ old[b].temp
  BY <1>1 DEF Steady
<1>3. Fixed(old, order, taken, a) /\ Fixed(old, order, taken, b)
  BY <1>1, <1>2 DEF Fixed
<1>. QED BY <1>2, <1>3 DEF Sorted

LEMMA StaysInOrder ==
  ASSUME InSavedOrder, claimed \subseteq claimed', Stays(list', list, claimed'),
         UNCHANGED <<saved, savedWatched>>
  PROVE  InSavedOrder'
<1>1. Sorted(list, saved, claimed) => Sorted(list', saved, claimed')
  BY SteadySorted DEF Stays
<1>. QED BY <1>1 DEF InSavedOrder

LEMMA AdoptInOrder ==
  ASSUME LauncherInv, NEW m, Good(m), Adopt(m)
  PROVE  InSavedOrder'
<1>1. PICK r : r = ReorderItems(m.list, saved)
  OBVIOUS
<1>2. list' = r /\ SavePositions(r)
  BY <1>1 DEF Adopt
<1>3. Differ(m.list) /\ m.list \in Seq(Item) /\ saved \in [Paths -> Nat \cup {NoPosition}]
  BY DEF LauncherInv, TypeOK, Good, State
<1>4. r \in Seq(Item) /\ Picked(r, m.list, DOMAIN m.list)
  BY <1>1, <1>3, ReorderPermutes, PermutedPicks
<1>5. Differ(r)
  BY <1>3, <1>4, PickedDiffer
<1>. QED BY <1>2, <1>5, SavedInOrder

LEMMA HoldbackInOrder ==
  ASSUME OrderInv, HoldbackTimeout
  PROVE  InSavedOrder'
<1>1. LauncherInv /\ InSavedOrder /\ claimed' = claimed
  BY DEF OrderInv, HoldbackTimeout
<1>2. CASE NothingToUpdate
  <2>1. UNCHANGED <<list, saved, savedWatched>>
    BY <1>2 DEF HoldbackTimeout
  <2>. QED BY <1>1, <2>1 DEF InSavedOrder
<1>3. CASE ~ NothingToUpdate
  <2>1. PICK m : m = FilesUpdated(Model, added, OnlyModified, removed)
    OBVIOUS
  <2>2. /\ FilesHeld /\ added \in Seq(Files) /\ OnlyModified \in SUBSET Files
        /\ removed \in SUBSET Files
    BY <1>1 DEF FilesHeld, OnlyModified, LauncherInv, TypeOK, MonitorTypeOK
  <2>3. Good(m) /\ Adopt(m)
    BY <1>1, <1>3, <2>1, <2>2, ModelGood, FilesUpdatedGood DEF HoldbackTimeout
  <2>. QED BY <1>1, <2>3, AdoptInOrder
<1>. QED BY <1>2, <1>3

LEMMA ReordersInOrder ==
  ASSUME OrderInv,
         \/ \E p, q \in Paths : OrderChangedOutside(p, q)
         \/ LoadPositions
         \/ \E from, to \in DOMAIN list : Move(from, to)
  PROVE  InSavedOrder'
<1>1. /\ Differ(list) /\ list \in Seq(Item) /\ saved \in [Paths -> Nat \cup {NoPosition}]
      /\ InSavedOrder
  BY DEF OrderInv, LauncherInv, TypeOK, Core
<1>2. ASSUME NEW r, Permuted(r, list), list' = r, SavePositions(r) PROVE InSavedOrder'
  <2>1. r \in Seq(Item) /\ Picked(r, list, DOMAIN list)
    BY <1>1, <1>2, PermutedPicks
  <2>2. Differ(r)
    BY <1>1, <2>1, PickedDiffer
  <2>. QED BY <1>2, <2>2, SavedInOrder
<1>3. ASSUME NEW p \in Paths, NEW q \in Paths, OrderChangedOutside(p, q) PROVE InSavedOrder'
  BY <1>3 DEF OrderChangedOutside, InSavedOrder
<1>4. ASSUME LoadPositions PROVE InSavedOrder'
  <2>1. PICK r : r = ReorderItems(list, saved)
    OBVIOUS
  <2>2. CASE list' # list
    <3>1. list' = r /\ SavePositions(r)
      BY <1>4, <2>1, <2>2 DEF LoadPositions
    <3>2. Permuted(r, list)
      BY <1>1, <2>1, ReorderPermutes
    <3>. QED BY <1>2, <3>1, <3>2
  <2>3. CASE list' = list
    <3>1. UNCHANGED <<list, saved, savedWatched, claimed>>
      BY <1>4, <2>3 DEF LoadPositions
    <3>. QED BY <1>1, <3>1 DEF InSavedOrder
  <2>. QED BY <2>2, <2>3
<1>5. ASSUME NEW from \in DOMAIN list, NEW to \in DOMAIN list, Move(from, to) PROVE InSavedOrder'
  <2>1. PICK r : r = MoveItem(list, from, to)
    OBVIOUS
  <2>2. list' = r /\ SavePositions(r)
    BY <1>5, <2>1 DEF Move
  <2>3. Permuted(r, list)
    BY <1>1, <2>1, MovePermutes
  <2>. QED BY <1>2, <2>2, <2>3
<1>. QED BY <1>3, <1>4, <1>5

LEMMA RestartInOrder ==
  ASSUME OrderInv, Restart
  PROVE  InSavedOrder'
<1>1. LauncherInv
  BY DEF OrderInv
<1>2. CASE Present = {}
  <2>1. list' = <<>> /\ DOMAIN <<>> = {}
    BY <1>2, EmptySeq DEF Restart
  <2>. QED BY <2>1 DEF InSavedOrder, Sorted
<1>3. CASE Present # {}
  <2>1. PICK m : m = Started
    OBVIOUS
  <2>2. FilesHeld
    BY <1>1 DEF FilesHeld, LauncherInv, TypeOK, MonitorTypeOK
  <2>3. Good(m) /\ Adopt(m)
    BY <1>3, <2>1, <2>2, StartedGood DEF Restart
  <2>. QED BY <1>1, <2>3, AdoptInOrder
<1>. QED BY <1>2, <1>3

LEMMA InitInOrder == Init => OrderInv
<1>. SUFFICES ASSUME Init PROVE OrderInv
  OBVIOUS
<1>1. LauncherInv
  BY InitHolds
<1>2. Differ(list) /\ saved = PositionsIn(list)
  BY <1>1 DEF LauncherInv, Core, Init
<1>3. InSavedOrder
  BY <1>2, SavedSorted DEF InSavedOrder
<1>. QED BY <1>1, <1>3 DEF OrderInv

LEMMA OrderInductive == Spec => []OrderInv
<1>1. Init => OrderInv
  BY InitInOrder
<1>2. OrderInv /\ [Next]_vars /\ LauncherInv' => OrderInv'
  <2>. SUFFICES ASSUME OrderInv, [Next]_vars PROVE InSavedOrder'
    BY DEF OrderInv
  <2>0. LauncherInv /\ InSavedOrder
    BY DEF OrderInv
  <2>1. ASSUME UNCHANGED <<list, saved, savedWatched, claimed>> PROVE InSavedOrder'
    BY <2>0, <2>1 DEF InSavedOrder
  <2>2. CASE \/ DirectoryChanges /\ UNCHANGED modelVars
             \/ Deliver /\ UNCHANGED modelVars
             \/ \E cat \in DOMAIN InCategory : SetCategories(cat)
             \/ UNCHANGED vars
    BY <2>1, <2>2 DEF modelVars, vars, SetCategories
  <2>3. CASE HoldbackTimeout
    BY <2>3, HoldbackInOrder
  <2>4. CASE \/ \E p, q \in Paths : OrderChangedOutside(p, q)
             \/ LoadPositions
             \/ \E from, to \in DOMAIN list : Move(from, to)
    BY <2>4, ReordersInOrder
  <2>5. CASE \E p \in Packages : \E s \in Services : \E d \in Announced[p] : UpdatingStarted(p, s, d)
    BY <2>0, <2>5, UpdatingStartedStays, StaysInOrder
  <2>6. CASE \/ \E p \in Packages : UpdatingProgress(p) \/ UpdatingFinished(p)
             \/ \E s \in Services : ServiceVanishes(s)
    <3>1. Alike(list', list) /\ UNCHANGED <<claimed, saved, savedWatched>>
      BY <2>0, <2>6, UpdatesAlike
    <3>. QED BY <2>0, <3>1, AlikeStays, StaysInOrder
  <2>7. CASE RemoveTemporaryLaunchers
    BY <2>0, <2>7, RemoveTemporaryStays, StaysInOrder
  <2>8. CASE \/ \E k \in DOMAIN list : LaunchApplication(k) \/ LaunchingTimeout(k)
             \/ \E path \in Paths : \E isLaunching \in BOOLEAN : NotifyLaunching(path, isLaunching)
    <3>1. Alike(list', list) /\ UNCHANGED <<claimed, saved, savedWatched>>
      BY <2>0, <2>8, LaunchesAlike
    <3>. QED BY <2>0, <3>1, AlikeStays, StaysInOrder
  <2>9. CASE Restart
    BY <2>9, RestartInOrder
  <2>. QED BY <2>2, <2>3, <2>4, <2>5, <2>6, <2>7, <2>8, <2>9 DEF Next
<1>. QED BY <1>1, <1>2, LauncherInductive, PTL DEF Spec

LEMMA ClaimedAlone ==
  ASSUME NEW r, Differ(r), NEW order, NEW k \in DOMAIN r, Claimed(r, order, r[k].path),
         Position(order, r[k].path) # NoPosition
  PROVE  Sole(r, order, k)
<1>1. PICK A : A = {i \in Range(r) : Position(order, i.path) = Position(order, r[k].path)}
  OBVIOUS
<1>2. Cardinality(A) = 1 /\ A \subseteq Range(r)
  BY <1>1 DEF Claimed
<1>3. r \in Seq(Item) /\ IsFiniteSet(DOMAIN r)
  BY ItemsOf, FS_Interval DEF Differ
<1>4. IsFiniteSet(A)
  <2>1. PICK R : R = Range(r)
    OBVIOUS
  <2>2. r \in Surjection(DOMAIN r, R)
    BY <1>3, <2>1, LenProperties DEF Range, Surjection
  <2>3. IsFiniteSet(R)
    BY <1>3, <2>2, FS_Surjection
  <2>. QED BY <1>2, <2>1, <2>3, FS_Subset
<1>5. PICK x : A = {x}
  BY <1>2, <1>4, FS_Singleton
<1>6. ASSUME NEW n \in DOMAIN r, Position(order, r[n].path) = Position(order, r[k].path)
      PROVE  n = k
  <2>1. r[n] \in A /\ r[k] \in A
    BY <1>1, <1>6 DEF Range
  <2>2. r[n] = r[k]
    BY <1>5, <2>1
  <2>. QED BY <2>2 DEF Differ
<1>. QED BY <1>6 DEF Sole

(* Whatever the user, installations, the monitor and other processes did to  *)
(* the list and its order before the process ended, and whatever files came  *)
(* and went: two permanent launchers whose saved positions are theirs alone  *)
(* in the new list are in the order there that they had in the old one.      *)
THEOREM OrderOutlivesTheProcess == Spec => OrderSurvives
<1>. DEFINE Survives ==
       Restart => \A i, j \in DOMAIN list : \A k, l \in DOMAIN list' :
          /\ i < j
          /\ list'[k].path = list[i].path /\ list'[l].path = list[j].path
          /\ \A n \in {i, j} :
                /\ ~ list[n].temp /\ list[n].path \notin claimed
                /\ saved[list[n].path] # NoPosition
                /\ Claimed(list', saved, list[n].path)
          /\ ~ savedPending /\ savedWatched
          => k < l
<1>1. OrderInv /\ [Next]_vars => [Survives]_vars
  <2>. SUFFICES ASSUME OrderInv, Restart,
                       NEW i \in DOMAIN list, NEW j \in DOMAIN list,
                       NEW k \in DOMAIN list', NEW l \in DOMAIN list', i < j,
                       list'[k].path = list[i].path, list'[l].path = list[j].path,
                       \A n \in {i, j} : /\ ~ list[n].temp /\ list[n].path \notin claimed
                                         /\ saved[list[n].path] # NoPosition
                                         /\ Claimed(list', saved, list[n].path),
                       savedWatched
                PROVE  k < l
    OBVIOUS
  <2>1. PICK r : r = list'
    OBVIOUS
  <2>2. Present # {}
    <3>1. Present = {} => list' = <<>>
      BY DEF Restart
    <3>. QED BY <3>1, EmptySeq
  <2>3. PICK s : s = Started.list
    OBVIOUS
  <2>4. r = ReorderItems(s, saved)
    BY <2>1, <2>2, <2>3 DEF Restart, Adopt
  <2>5. Differ(s) /\ s \in Seq(Item) /\ saved \in [Paths -> Nat \cup {NoPosition}]
    <3>1. FilesHeld /\ saved \in [Paths -> Nat \cup {NoPosition}]
      BY DEF OrderInv, FilesHeld, LauncherInv, TypeOK, MonitorTypeOK
    <3>2. Good(Started)
      BY <3>1, StartedGood
    <3>. QED BY <2>3, <3>1, <3>2 DEF Good, Differ
  <2>6. Differ(r)
    <3>1. r \in Seq(Item) /\ Picked(r, s, DOMAIN s)
      BY <2>4, <2>5, ReorderPermutes, PermutedPicks
    <3>. QED BY <2>5, <3>1, PickedDiffer
  <2>7. Fixed(list, saved, claimed, i) /\ Fixed(list, saved, claimed, j)
    BY DEF Fixed
  <2>8. saved[list[i].path] < saved[list[j].path]
    BY <2>7 DEF OrderInv, InSavedOrder, Sorted
  <2>9. /\ Position(saved, r[k].path) = saved[list[i].path] /\ Claimed(r, saved, r[k].path)
        /\ Position(saved, r[l].path) = saved[list[j].path] /\ Claimed(r, saved, r[l].path)
    BY <2>1 DEF Position
  <2>10. Sole(r, saved, k) /\ Sole(r, saved, l)
    BY <2>1, <2>6, <2>9, ClaimedAlone
  <2>. QED BY <2>1, <2>4, <2>5, <2>8, <2>9, <2>10, ReorderOrders
<1>2. OrderSurvives <=> [][Survives]_vars
  BY DEF OrderSurvives
<1>. QED BY <1>1, <1>2, OrderInductive, PTL DEF Spec
=============================================================================
