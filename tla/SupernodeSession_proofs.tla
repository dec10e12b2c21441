---------------------- MODULE SupernodeSession_proofs ----------------------
(***************************************************************************)
(* Any number of supernodes, in any order, with any payloads, timers and   *)
(* attempts, over any network: TypeOK, RegisteredWithCurrent,              *)
(* LastSupIsReal and FailOverJustified hold of SupernodeSession; and with  *)
(* an address of its own the edge never drops a supernode from its list    *)
(* (BackupsKept).                                                          *)
(*                                                                         *)
(* First the recursive functions of SupernodeList: that they exist, and    *)
(* what the list operations compute; then the session.                     *)
(***************************************************************************)
EXTENDS SupernodeSession, SequenceTheorems, FiniteSetTheorems, WellFoundedInduction, TLAPS

(***************************************************************************)
(* Recursion on the natural numbers.                                       *)
(***************************************************************************)

\* A set of natural numbers has a least element.
LEMMA LeastNumber ==
    ASSUME NEW T, T \subseteq Nat, T # {}
    PROVE  \E i \in T : \A j \in T : i <= j
<1>1. PICK i \in T : \A j \in T : <<j, i>> \notin OpToRel(<, Nat)
  BY NatLessThanWellFounded, WFMin
<1>2. \A j \in T : ~ (j < i)
  BY <1>1 DEF OpToRel
<1> QED BY <1>2

\* Induction, over a set.
LEMMA Induction ==
    ASSUME NEW T, 0 \in T, \A n \in Nat : n \in T => n + 1 \in T
    PROVE  \A n \in Nat : n \in T
<1> DEFINE C == {n \in Nat : n \notin T}
<1> SUFFICES ASSUME C # {} PROVE FALSE
  OBVIOUS
<1>1. PICK i \in C : \A j \in C : i <= j
  BY LeastNumber
<1>2. i # 0 /\ i - 1 \in Nat
  OBVIOUS
<1>3. i - 1 \in T
  BY <1>1, <1>2
<1> QED BY <1>2, <1>3

\* f repeats the steps of F from b on.
Iterates(f, b, F) == f[0] = b /\ \A n \in Nat : f[n + 1] = F[n + 1][f[n]]

\* What a recursive function on the numbers needs to exist: a first value and a step.
LEMMA Iteration ==
    ASSUME NEW V, NEW b \in V, NEW F \in [Nat -> [V -> V]]
    PROVE  \E f \in [Nat -> V] : Iterates(f, b, F)
<1> DEFINE Begun(n) == {g \in [0 .. n -> V] :
                          g[0] = b /\ \A k \in 0 .. n - 1 : g[k + 1] = F[k + 1][g[k]]}
           T == {n \in Nat : Begun(n) # {}}
<1>1. 0 \in T
  <2>1. [k \in 0 .. 0 |-> b] \in Begun(0)
    OBVIOUS
  <2> QED BY <2>1
<1>2. ASSUME NEW n \in Nat, n \in T PROVE n + 1 \in T
  <2>1. PICK g \in [0 .. n -> V] : g[0] = b /\ \A k \in 0 .. n - 1 : g[k + 1] = F[k + 1][g[k]]
    BY <1>2
  <2> DEFINE h == [k \in 0 .. n + 1 |-> IF k = n + 1 THEN F[n + 1][g[n]] ELSE g[k]]
  <2>2. n \in 0 .. n /\ g[n] \in V /\ n + 1 \in Nat
    BY <2>1
  <2>3. F[n + 1][g[n]] \in V
    BY <2>2
  <2>4. h \in [0 .. n + 1 -> V]
    BY <2>1, <2>3
  <2>5. h[0] = b /\ \A k \in 0 .. n : h[k + 1] = F[k + 1][h[k]]
    BY <2>1
  <2>6. h \in Begun(n + 1)
    <3>1. (n + 1) - 1 = n
      OBVIOUS
    <3> HIDE DEF h
    <3> QED BY <2>4, <2>5, <3>1
  <2> HIDE DEF Begun
  <2> QED BY <2>2, <2>6
<1>3. \A n \in Nat : n \in T
  <2> HIDE DEF T
  <2> QED BY <1>1, <1>2, Induction
<1> DEFINE G == [n \in Nat |-> CHOOSE g \in Begun(n) : TRUE]
<1>4. ASSUME NEW n \in Nat PROVE G[n] \in Begun(n)
  <2>1. Begun(n) # {}
    BY <1>3
  <2> HIDE DEF Begun
  <2> QED BY <2>1
<1>5. ASSUME NEW n \in Nat, NEW k \in Nat, k <= n PROVE G[n][k] = G[n + 1][k]
  <2> DEFINE E == {j \in Nat : j <= n => G[n][j] = G[n + 1][j]}
  <2> HIDE DEF G
  <2>1. 0 \in E
    BY <1>4
  <2>2. ASSUME NEW j \in Nat, j \in E PROVE j + 1 \in E
    <3>1. CASE j + 1 <= n
      <4>1. j \in 0 .. n - 1 /\ j \in 0 .. (n + 1) - 1
        BY <3>1
      <4>2. G[n][j + 1] = F[j + 1][G[n][j]]
        BY <1>4, <4>1
      <4>3. G[n + 1][j + 1] = F[j + 1][G[n + 1][j]]
        <5>1. G[n + 1] \in Begun(n + 1)
          BY <1>4
        <5> QED BY <4>1, <5>1
      <4> QED BY <2>2, <4>1, <4>2, <4>3
    <3> QED BY <3>1
  <2>3. \A j \in Nat : j \in E
    <3> HIDE DEF E
    <3> QED BY <2>1, <2>2, Induction
  <2> QED BY <1>5, <2>3
<1> DEFINE f == [n \in Nat |-> G[n][n]]
<1>6. f \in [Nat -> V]
  <2> HIDE DEF G
  <2>1. \A n \in Nat : G[n][n] \in V
    BY <1>4
  <2> QED BY <2>1
<1>7. f[0] = b
  <2> HIDE DEF G
  <2> QED BY <1>4
<1>8. ASSUME NEW n \in Nat PROVE f[n + 1] = F[n + 1][f[n]]
  <2> HIDE DEF G
  <2>1. n \in 0 .. (n + 1) - 1 /\ n + 1 \in Nat
    OBVIOUS
  <2>2. G[n + 1][n + 1] = F[n + 1][G[n + 1][n]]
    BY <1>4, <2>1
  <2>3. G[n][n] = G[n + 1][n]
    BY <1>5
  <2> QED BY <2>1, <2>2, <2>3
<1> HIDE DEF f
<1> QED BY <1>6, <1>7, <1>8 DEF Iterates

(***************************************************************************)
(* Lists.                                                                  *)
(***************************************************************************)

\* A sequence is typed by its elements.
LEMMA SeqOf ==
    ASSUME NEW S, NEW n \in Nat, NEW w \in [1 .. n -> S]
    PROVE  w \in Seq(S) /\ Len(w) = n /\ DOMAIN w = 1 .. n
OBVIOUS

LEMMA SeqIs ==
    ASSUME NEW S, NEW w \in Seq(S)
    PROVE  /\ Len(w) \in Nat /\ DOMAIN w = 1 .. Len(w) /\ w \in [1 .. Len(w) -> S]
           /\ \A i \in 1 .. Len(w) : w[i] \in S
           /\ w # <<>> <=> Len(w) > 0
OBVIOUS

LEMMA Appended ==
    ASSUME NEW S, NEW w \in Seq(S), NEW e \in S
    PROVE  /\ Append(w, e) \in Seq(S) /\ Append(w, e) # <<>>
           /\ Len(Append(w, e)) = Len(w) + 1 /\ DOMAIN Append(w, e) = 1 .. Len(w) + 1
           /\ \A i \in 1 .. Len(w) : Append(w, e)[i] = w[i]
           /\ Append(w, e)[Len(w) + 1] = e
OBVIOUS

\* One more entry of a list, if there is one.
Longer(l, w) ==
    IF w = <<>> \/ l.next[w[Len(w)]] = Nil THEN w ELSE Append(w, l.next[w[Len(w)]])

LEMMA ChainIterates ==
    ASSUME NEW l \in Lists, NEW s \in Sns \cup {Nil}
    PROVE  \E f \in [Nat -> Seq(Sns)] :
              /\ Chain(l, s) = f[Cardinality(Sns) - 1]
              /\ f[0] = (IF s = Nil THEN <<>> ELSE <<s>>)
              /\ \A n \in Nat : f[n + 1] = Longer(l, f[n])
<1> DEFINE first == IF s = Nil THEN <<>> ELSE <<s>>
           F == [n \in Nat |-> [w \in Seq(Sns) |-> Longer(l, w)]]
<1>1. first \in Seq(Sns)
  OBVIOUS
<1>2. ASSUME NEW w \in Seq(Sns) PROVE Longer(l, w) \in Seq(Sns)
  <2>1. CASE w = <<>> \/ l.next[w[Len(w)]] = Nil
    BY <2>1 DEF Longer
  <2>2. CASE ~(w = <<>> \/ l.next[w[Len(w)]] = Nil)
    <3>1. w[Len(w)] \in Sns
      BY <2>2
    <3>2. l.next[w[Len(w)]] \in Sns
      BY <2>2, <3>1 DEF Lists, Links
    <3> QED BY <2>2, <3>2 DEF Longer
  <2> QED BY <2>1, <2>2
<1>3. F \in [Nat -> [Seq(Sns) -> Seq(Sns)]]
  BY <1>2
<1> HIDE DEF F, first
<1>4. PICK f \in [Nat -> Seq(Sns)] : f[0] = first /\ \A n \in Nat : f[n + 1] = F[n + 1][f[n]]
  <2> DEFINE V == Seq(Sns)
  <2>1. first \in V /\ F \in [Nat -> [V -> V]]
    BY <1>1, <1>3
  <2> HIDE DEF V
  <2>2. \E f \in [Nat -> V] : Iterates(f, first, F)
    BY <2>1, Iteration
  <2> QED BY <2>2 DEF V, Iterates
<1>5. \A n \in Nat : f[n + 1] = Longer(l, f[n])
  <2>1. \A n \in Nat : n + 1 \in Nat /\ f[n] \in Seq(Sns)
    BY <1>4
  <2> QED BY <1>4, <2>1 DEF F
<1> DEFINE IsWalk(g) == g = [n \in Nat |-> IF n = 0 THEN first ELSE Longer(l, g[n - 1])]
<1>6. IsWalk(f)
  <2>1. ASSUME NEW n \in Nat PROVE f[n] = IF n = 0 THEN first ELSE Longer(l, f[n - 1])
    <3>1. CASE n # 0
      <4>1. n - 1 \in Nat /\ n = (n - 1) + 1
        BY <3>1
      <4> QED BY <1>5, <3>1, <4>1
    <3> QED BY <1>4, <3>1
  <2> QED BY <1>4, <2>1
<1> DEFINE walk == CHOOSE g : IsWalk(g)
<1>7. IsWalk(walk)
  <2> HIDE DEF IsWalk
  <2> QED BY <1>6
<1>8. Chain(l, s) = walk[Cardinality(Sns) - 1]
  BY DEF Chain, Longer, first
<1> HIDE DEF walk
<1>9. walk[0] = first /\ \A n \in Nat : walk[n + 1] = Longer(l, walk[n])
  BY <1>7
<1>10. \A n \in Nat : walk[n] \in Seq(Sns)
  <2> DEFINE T == {n \in Nat : walk[n] \in Seq(Sns)}
  <2>1. 0 \in T
    BY <1>1, <1>9
  <2>2. ASSUME NEW n \in Nat, n \in T PROVE n + 1 \in T
    <3>1. walk[n + 1] = Longer(l, walk[n]) /\ walk[n] \in Seq(Sns)
      BY <1>9, <2>2
    <3>2. Longer(l, walk[n]) \in Seq(Sns)
      BY <1>2, <3>1
    <3>3. n + 1 \in Nat /\ walk[n + 1] \in Seq(Sns)
      BY <3>1, <3>2
    <3> QED BY <3>3
  <2>3. \A n \in Nat : n \in T
    <3> HIDE DEF T
    <3> QED BY <2>1, <2>2, Induction
  <2> QED BY <2>3
<1>11. walk \in [Nat -> Seq(Sns)]
  BY <1>7, <1>10
<1> QED BY <1>8, <1>9, <1>11 DEF first

Begins(w, s) == w # <<>> /\ w[1] = s

LEMMA AppendedBegins ==
    ASSUME NEW w \in Seq(Sns), NEW e \in Sns, NEW s, Begins(w, s)
    PROVE  Begins(Append(w, e), s)
<1>1. Len(w) \in Nat /\ Len(w) > 0
  BY SeqIs DEF Begins
<1> QED BY <1>1, Appended DEF Begins

\* The way from an entry on begins with the entry.
LEMMA ChainTyped ==
    ASSUME NEW l \in Lists, NEW s \in Sns
    PROVE  Chain(l, s) \in Seq(Sns) /\ Chain(l, s) # <<>> /\ Chain(l, s)[1] = s
<1>1. PICK f \in [Nat -> Seq(Sns)] :
         /\ Chain(l, s) = f[Cardinality(Sns) - 1]
         /\ f[0] = (IF s = Nil THEN <<>> ELSE <<s>>)
         /\ \A n \in Nat : f[n + 1] = Longer(l, f[n])
  BY ChainIterates
<1> DEFINE T == {n \in Nat : Begins(f[n], s)}
<1>2. 0 \in T
  <2>1. f[0] = <<s>>
    BY <1>1, SnsAssumption
  <2> QED BY <2>1 DEF Begins
<1>3. ASSUME NEW n \in Nat, n \in T PROVE n + 1 \in T
  <2>1. /\ f[n] \in Seq(Sns) /\ f[n] # <<>> /\ Begins(f[n], s)
        /\ f[n + 1] = Longer(l, f[n])
    BY <1>1, <1>3 DEF Begins
  <2>2. CASE f[n + 1] = f[n]
    BY <2>1, <2>2
  <2>3. CASE f[n + 1] # f[n]
    <3>1. Len(f[n]) \in Nat /\ Len(f[n]) \in 1 .. Len(f[n]) /\ 1 \in 1 .. Len(f[n])
      BY <2>1, SeqIs
    <3>2. f[n][Len(f[n])] \in Sns
      BY <2>1, <3>1, SeqIs
    <3>3. /\ l.next[f[n][Len(f[n])]] # Nil
          /\ f[n + 1] = Append(f[n], l.next[f[n][Len(f[n])]])
      BY <2>1, <2>3 DEF Longer
    <3>4. l.next[f[n][Len(f[n])]] \in Sns
      BY <3>2, <3>3 DEF Lists, Links
    <3> DEFINE e == l.next[f[n][Len(f[n])]]
    <3> HIDE DEF e
    <3>5. e \in Sns /\ f[n + 1] = Append(f[n], e)
      BY <3>3, <3>4 DEF e
    <3>6. Begins(Append(f[n], e), s)
      BY <2>1, <3>5, AppendedBegins
    <3>7. Begins(f[n + 1], s)
      BY <3>5, <3>6
    <3>8. n + 1 \in Nat
      OBVIOUS
    <3> QED BY <3>7, <3>8
  <2> QED BY <2>2, <2>3
<1>4. \A n \in Nat : n \in T
  <2> HIDE DEF T
  <2> QED BY <1>2, <1>3, Induction
<1>5. Cardinality(Sns) - 1 \in Nat
  BY SnsAssumption, FS_CardinalityType, FS_EmptySet
<1> QED BY <1>1, <1>4, <1>5 DEF Begins

----------------------------------------------------------------------------
(* Sorting.                                                                *)

\* g is a rearrangement of 1 .. n.
Permutes(g, n) ==
    /\ g \in [1 .. n -> 1 .. n]
    /\ \A p, q \in 1 .. n : g[p] = g[q] => p = q
    /\ \A i \in 1 .. n : \E p \in 1 .. n : g[p] = i

\* A stable sort rearranges the list.
LEMMA SortPermutes ==
    ASSUME NEW w \in Seq(Sns), NEW crit \in [Sns -> Nat]
    PROVE  \E g : /\ Permutes(g, Len(w))
                  /\ StableSort(w, crit) = [p \in 1 .. Len(w) |-> w[g[p]]]
<1> DEFINE n == Len(w)
           Under(i) == {j \in 1 .. n : Before(w, crit, j, i)}
           r == [i \in 1 .. n |-> Cardinality(Under(i)) + 1]
<1>1. n \in Nat /\ DOMAIN w = 1 .. n /\ \A i \in 1 .. n : crit[w[i]] \in Nat
  BY SeqIs
<1> HIDE DEF n
<1>2. IsFiniteSet(1 .. n) /\ Cardinality(1 .. n) = n
  BY <1>1, FS_Interval
<1>3. ASSUME NEW i \in 1 .. n
      PROVE  IsFiniteSet(Under(i)) /\ Cardinality(Under(i)) \in Nat /\ Cardinality(Under(i)) < n
  <2>1. Under(i) \subseteq (1 .. n) \ {i}
    BY <1>1 DEF Before
  <2>2. IsFiniteSet((1 .. n) \ {i}) /\ Cardinality((1 .. n) \ {i}) = n - 1
    BY <1>2, FS_RemoveElement
  <2> HIDE DEF Under
  <2>3. IsFiniteSet(Under(i)) /\ Cardinality(Under(i)) <= n - 1
    BY <2>1, <2>2, FS_Subset
  <2>4. Cardinality(Under(i)) \in Nat
    BY <2>3, FS_CardinalityType
  <2> QED BY <1>1, <2>3, <2>4
<1>4. ASSUME NEW i \in 1 .. n, NEW k \in 1 .. n, Before(w, crit, i, k)
      PROVE  Cardinality(Under(i)) < Cardinality(Under(k))
  <2>1. Under(i) \subseteq Under(k) \ {i} /\ i \in Under(k)
    <3>1. crit[w[i]] \in Nat /\ crit[w[k]] \in Nat /\ \A j \in 1 .. n : crit[w[j]] \in Nat
      BY <1>1
    <3> QED BY <1>4, <3>1 DEF Before
  <2>2. IsFiniteSet(Under(k)) /\ Cardinality(Under(k)) \in Nat /\ Cardinality(Under(i)) \in Nat
    BY <1>3
  <2> HIDE DEF Under
  <2>3. IsFiniteSet(Under(k) \ {i}) /\ Cardinality(Under(k) \ {i}) = Cardinality(Under(k)) - 1
    BY <2>1, <2>2, FS_RemoveElement
  <2>4. Cardinality(Under(i)) <= Cardinality(Under(k) \ {i})
    BY <2>1, <2>3, FS_Subset
  <2> QED BY <2>2, <2>3, <2>4
<1>5. ASSUME NEW i \in 1 .. n, NEW k \in 1 .. n, r[i] = r[k] PROVE i = k
  <2>1. Cardinality(Under(i)) = Cardinality(Under(k))
    <3> HIDE DEF Under
    <3> QED BY <1>3, <1>5
  <2>2. i = k \/ Before(w, crit, i, k) \/ Before(w, crit, k, i)
    BY <1>1 DEF Before
  <2> HIDE DEF Under
  <2> QED BY <1>3, <1>4, <2>1, <2>2
<1>6. r \in [1 .. n -> 1 .. n]
  <2> HIDE DEF Under
  <2> QED BY <1>1, <1>3
<1> HIDE DEF r
<1>7. r \in Surjection(1 .. n, 1 .. n)
  <2>1. r \in Injection(1 .. n, 1 .. n)
    BY <1>5, <1>6 DEF Injection, IsInjective
  <2> QED BY <1>2, <2>1, FS_Injection
<1>8. \A p \in 1 .. n : \E i \in 1 .. n : r[i] = p
  BY <1>7 DEF Surjection
<1> DEFINE c(p) == CHOOSE i \in 1 .. n : Cardinality(Under(i)) + 1 = p
           g == [p \in 1 .. n |-> c(p)]
<1>10. StableSort(w, crit) = [p \in 1 .. n |-> w[g[p]]]
  BY <1>1 DEF StableSort
<1>9. \A p \in 1 .. n : g[p] \in 1 .. n /\ r[g[p]] = p
  <2> HIDE DEF Under
  <2>1. \A p \in 1 .. n : \E i \in 1 .. n : Cardinality(Under(i)) + 1 = p
    BY <1>8 DEF r
  <2>2. \A p \in 1 .. n : c(p) \in 1 .. n /\ Cardinality(Under(c(p))) + 1 = p
    BY <2>1
  <2> HIDE DEF c
  <2> QED BY <2>2 DEF r
<1> HIDE DEF c
<1>12. g \in [1 .. n -> 1 .. n]
  BY <1>9
<1> HIDE DEF g
<1>11. Permutes(g, n)
  <2>1. g \in [1 .. n -> 1 .. n]
    BY <1>12
  <2>2. \A p, q \in 1 .. n : g[p] = g[q] => p = q
    BY <1>9
  <2>3. \A i \in 1 .. n : g[r[i]] = i /\ r[i] \in 1 .. n
    BY <1>5, <1>6, <1>9
  <2> QED BY <2>1, <2>2, <2>3 DEF Permutes
<1> QED BY <1>10, <1>11 DEF n

\* The entries from one on are threaded in the order of the sort; the others keep their
\* links.
LEMMA RethreadTyped ==
    ASSUME NEW l \in Lists, NEW s \in Sns, NEW crit \in [Sns -> Nat]
    PROVE  /\ Rethread(l, s, crit).first \in Sns
           /\ Rethread(l, s, crit).list \in Lists
<1> DEFINE w == StableSort(Chain(l, s), crit)
           n == Len(Chain(l, s))
           pos(t) == CHOOSE p \in DOMAIN w : w[p] = t
           sorted == {w[p] : p \in DOMAIN w}
           nexts == [t \in Sns |-> IF t \notin sorted THEN l.next[t]
                                   ELSE IF pos(t) = Len(w) THEN Nil ELSE w[pos(t) + 1]]
           prevs == [t \in Sns |-> IF t \notin sorted THEN l.prev[t]
                                   ELSE IF pos(t) = 1 THEN Nil ELSE w[pos(t) - 1]]
<1>1. Chain(l, s) \in Seq(Sns) /\ n \in Nat /\ n > 0
  BY ChainTyped, SeqIs
<1>2. PICK g : Permutes(g, n) /\ w = [p \in 1 .. n |-> Chain(l, s)[g[p]]]
  BY <1>1, SortPermutes
<1>3. w \in [1 .. n -> Sns]
  BY <1>1, <1>2 DEF Permutes
<1>4. Rethread(l, s, crit) =
         [first |-> w[1], list |-> [l EXCEPT !.tail = w[Len(w)], !.next = nexts, !.prev = prevs]]
  BY DEF Rethread
<1> HIDE DEF w, n
<1>5. DOMAIN w = 1 .. n /\ Len(w) = n
  BY <1>1, <1>3, SeqOf
<1>6. \A t \in sorted : pos(t) \in 1 .. n
  BY <1>5
<1> HIDE DEF pos, sorted
<1>7. nexts \in Links /\ prevs \in Links
  <2>1. \A t \in Sns : l.next[t] \in Sns \cup {Nil} /\ l.prev[t] \in Sns \cup {Nil}
    BY DEF Lists, Links
  <2>2. ASSUME NEW t \in Sns, t \in sorted
        PROVE  /\ pos(t) # n => w[pos(t) + 1] \in Sns
               /\ pos(t) # 1 => w[pos(t) - 1] \in Sns
    <3>1. pos(t) \in 1 .. n
      BY <1>6, <2>2
    <3>2. pos(t) # n => pos(t) + 1 \in 1 .. n
      BY <1>1, <3>1
    <3>3. pos(t) # 1 => pos(t) - 1 \in 1 .. n
      BY <1>1, <3>1
    <3> QED BY <1>3, <3>2, <3>3
  <2> QED BY <1>5, <2>1, <2>2 DEF Links
<1> HIDE DEF nexts, prevs
<1>8. w[1] \in Sns /\ w[Len(w)] \in Sns
  BY <1>1, <1>3, <1>5
<1> DEFINE threaded == [l EXCEPT !.tail = w[Len(w)], !.next = nexts, !.prev = prevs]
<1>9. threaded \in Lists
  BY <1>7, <1>8 DEF Lists
<1>10. Rethread(l, s, crit).first = w[1] /\ Rethread(l, s, crit).list = threaded
  BY <1>4
<1> QED BY <1>8, <1>9, <1>10

\* sn_selection_sort leaves a list with a head.
LEMMA SelectionSortTyped ==
    ASSUME NEW l \in Lists, l.head \in Sns, NEW crit \in [Sns -> Nat]
    PROVE  SelectionSort(l, crit) \in Lists /\ SelectionSort(l, crit).head \in Sns
<1> DEFINE r == Rethread(l, l.head, crit)
<1>1. r.first \in Sns /\ r.list \in Lists
  BY RethreadTyped
<1>2. SelectionSort(l, crit) = [r.list EXCEPT !.head = r.first]
  BY DEF SelectionSort
<1> HIDE DEF r
<1> QED BY <1>1, <1>2 DEF Lists

\* So does sorting what follows an entry.
LEMMA SortRemainingTyped ==
    ASSUME NEW l \in Lists, l.head \in Sns, NEW s \in Sns, l.next[s] \in Sns,
           NEW crit \in [Sns -> Nat]
    PROVE  SortRemaining(l, s, crit) \in Lists /\ SortRemaining(l, s, crit).head \in Sns
<1> DEFINE r == Rethread(l, l.next[s], crit)
<1>1. r.first \in Sns /\ r.list \in Lists
  BY RethreadTyped
<1>2. r.list.head = l.head
  BY DEF Rethread, Lists
<1>3. SortRemaining(l, s, crit) = [r.list EXCEPT !.next = [r.list.next EXCEPT ![s] = r.first]]
  BY DEF SortRemaining
<1> HIDE DEF r
<1>4. [r.list.next EXCEPT ![s] = r.first] \in Links
  BY <1>1 DEF Lists, Links
<1> QED BY <1>1, <1>2, <1>3, <1>4 DEF Lists

----------------------------------------------------------------------------
(* Deleting and adding.                                                    *)

\* The fields of a list after HASH_DEL of an entry.
LEMMA DeletedFields ==
    ASSUME NEW l \in Lists, NEW s \in Sns
    PROVE  LET d == HASH_DEL(l, s)
           IN  /\ d \in Lists
               /\ l.prev[s] = Nil /\ l.next[s] = Nil => d.head = Nil
               /\ l.prev[s] # Nil \/ l.next[s] # Nil =>
                     /\ d.head = IF l.prev[s] = Nil THEN l.next[s] ELSE l.head
                     /\ d.tail = IF l.tail = s THEN l.prev[s] ELSE l.tail
                     /\ d.next = IF l.prev[s] = Nil THEN l.next
                                 ELSE [l.next EXCEPT ![l.prev[s]] = l.next[s]]
                     /\ d.prev = IF l.next[s] = Nil THEN l.prev
                                 ELSE [l.prev EXCEPT ![l.next[s]] = l.prev[s]]
<1>1. CASE l.prev[s] = Nil /\ l.next[s] = Nil
  BY <1>1 DEF HASH_DEL, Lists
<1>2. CASE ~(l.prev[s] = Nil /\ l.next[s] = Nil)
  <2> DEFINE nexts == IF l.prev[s] = Nil THEN l.next
                      ELSE [l.next EXCEPT ![l.prev[s]] = l.next[s]]
             prevs == IF l.next[s] = Nil THEN l.prev
                      ELSE [l.prev EXCEPT ![l.next[s]] = l.prev[s]]
             tail == IF l.tail = s THEN l.prev[s] ELSE l.tail
             head == IF l.prev[s] = Nil THEN l.next[s] ELSE l.head
  <2>1. HASH_DEL(l, s) = [l EXCEPT !.tail = tail, !.head = head, !.next = nexts, !.prev = prevs]
    BY <1>2 DEF HASH_DEL
  <2>2. l.prev[s] \in Sns \cup {Nil} /\ l.next[s] \in Sns \cup {Nil}
    BY DEF Lists, Links
  <2>3. nexts \in Links /\ prevs \in Links
    BY <2>2 DEF Lists, Links
  <2>4. tail \in Sns \cup {Nil} /\ head \in Sns \cup {Nil}
    BY <2>2 DEF Lists
  <2> HIDE DEF nexts, prevs, tail, head
  <2>5. /\ HASH_DEL(l, s) \in Lists
        /\ HASH_DEL(l, s).head = head /\ HASH_DEL(l, s).tail = tail
        /\ HASH_DEL(l, s).next = nexts /\ HASH_DEL(l, s).prev = prevs
    BY <2>1, <2>3, <2>4 DEF Lists
  <2> QED BY <1>2, <2>5 DEF nexts, prevs, tail, head
<1> QED BY <1>1, <1>2

\* The fields of a list after HASH_ADD_PEER of an entry.
LEMMA AddedFields ==
    ASSUME NEW l \in Lists, NEW s \in Sns
    PROVE  LET d == HASH_ADD_PEER(l, s)
           IN  /\ d \in Lists /\ d.head \in Sns
               /\ d.head = IF l.head = Nil THEN s ELSE l.head
               /\ d.tail = s
               /\ d.next = IF l.head = Nil THEN [l.next EXCEPT ![s] = Nil]
                           ELSE [l.next EXCEPT ![s] = Nil, ![l.tail] = s]
               /\ d.prev = [l.prev EXCEPT ![s] = IF l.head = Nil THEN Nil ELSE l.tail]
<1> DEFINE nexts == IF l.head = Nil THEN [l.next EXCEPT ![s] = Nil]
                    ELSE [l.next EXCEPT ![s] = Nil, ![l.tail] = s]
           prevs == [l.prev EXCEPT ![s] = IF l.head = Nil THEN Nil ELSE l.tail]
           head == IF l.head = Nil THEN s ELSE l.head
<1>1. HASH_ADD_PEER(l, s) = [head |-> head, tail |-> s, next |-> nexts, prev |-> prevs]
  <2>1. CASE l.head = Nil
    BY <2>1 DEF HASH_ADD_PEER
  <2>2. CASE l.head # Nil
    BY <2>2 DEF HASH_ADD_PEER, Lists
  <2> QED BY <2>1, <2>2
<1>2. nexts \in Links /\ prevs \in Links /\ head \in Sns
  BY DEF Lists, Links
<1> HIDE DEF nexts, prevs, head
<1>3. HASH_ADD_PEER(l, s) \in Lists
  BY <1>1, <1>2 DEF Lists
<1> QED BY <1>1, <1>2, <1>3 DEF nexts, prevs, head

\* Setting the MAC address of an entry leaves a list with a head.
LEMMA WithMacTyped ==
    ASSUME NEW l \in Lists, l.head \in Sns, NEW s \in Sns
    PROVE  WithMac(l, s) \in Lists /\ WithMac(l, s).head \in Sns
<1>1. HASH_DEL(l, s) \in Lists
  BY DeletedFields
<1> QED BY <1>1, AddedFields DEF WithMac

\* f is what b becomes by the steps of F.
Repeats(f, b, F, N) == f = [n \in 0 .. N |-> IF n = 0 THEN b ELSE F[n][f[n - 1]]]

\* Recursion over the elements of a sequence.
LEMMA Recursion ==
    ASSUME NEW V, NEW b \in V, NEW N \in Nat, NEW F \in [1 .. N -> [V -> V]]
    PROVE  \E f \in [0 .. N -> V] : Repeats(f, b, F, N)
<1> DEFINE G == [n \in Nat |-> IF n \in 1 .. N THEN F[n] ELSE [v \in V |-> v]]
<1>1. G \in [Nat -> [V -> V]]
  OBVIOUS
<1>2. PICK g \in [Nat -> V] : Iterates(g, b, G)
  <2> HIDE DEF G
  <2> QED BY <1>1, Iteration
<1> DEFINE f == [n \in 0 .. N |-> g[n]]
<1>3. f \in [0 .. N -> V]
  OBVIOUS
<1>4. ASSUME NEW n \in 0 .. N PROVE g[n] = IF n = 0 THEN b ELSE F[n][g[n - 1]]
  <2>1. CASE n = 0
    BY <1>2, <2>1 DEF Iterates
  <2>2. CASE n # 0
    <3>1. n - 1 \in Nat /\ (n - 1) + 1 = n /\ n \in 1 .. N /\ n \in Nat
      BY <2>2
    <3>2. g[n] = G[n][g[n - 1]]
      BY <1>2, <3>1 DEF Iterates
    <3> QED BY <2>2, <3>1, <3>2
  <2> QED BY <2>1, <2>2
<1>5. f = [n \in 0 .. N |-> IF n = 0 THEN b ELSE F[n][f[n - 1]]]
  <2>1. \A n \in 0 .. N : n # 0 => n - 1 \in 0 .. N
    OBVIOUS
  <2> QED BY <1>4, <2>1
<1> HIDE DEF f
<1> QED BY <1>3, <1>5 DEF Repeats

Headed == {l \in Lists : l.head \in Sns}

\* What a list of the payload does to the list with one supernode it names.
Named(l, known, s) ==
    IF s \in known THEN l
    ELSE IF s \in Listed(l) THEN HASH_ADD_PEER(HASH_DEL(l, s), s) ELSE HASH_ADD_PEER(l, s)

LEMMA NamedTyped ==
    ASSUME NEW l \in Headed, NEW known, NEW s \in Sns
    PROVE  Named(l, known, s) \in Headed
<1>1. HASH_DEL(l, s) \in Lists
  BY DeletedFields DEF Headed
<1> QED BY <1>1, AddedFields DEF Headed, Named

Names(f, l, known, w) ==
    /\ f[0] = l /\ f[Len(w)] = WithPayload(l, known, w)
    /\ \A n \in 1 .. Len(w) : f[n] = Named(f[n - 1], known, w[n])

\* WithPayload takes the supernodes one by one.
LEMMA PayloadSteps ==
    ASSUME NEW l \in Headed, NEW known, NEW w \in Seq(Sns)
    PROVE  \E f \in [0 .. Len(w) -> Headed] : Names(f, l, known, w)
<1> DEFINE N == Len(w)
           F == [n \in 1 .. N |-> [v \in Headed |-> Named(v, known, w[n])]]
           IsAdd(g) == g = [n \in 0 .. N |-> IF n = 0 THEN l ELSE Named(g[n - 1], known, w[n])]
           add == CHOOSE g : IsAdd(g)
<1>1. WithPayload(l, known, w) = add[N]
  BY DEF WithPayload, Named
<1>2. N \in Nat /\ \A n \in 1 .. N : w[n] \in Sns
  BY SeqIs
<1> HIDE DEF N
<1>3. F \in [1 .. N -> [Headed -> Headed]]
  BY <1>2, NamedTyped
<1>4. PICK f \in [0 .. N -> Headed] : Repeats(f, l, F, N)
  <2> HIDE DEF F
  <2> QED BY <1>2, <1>3, Recursion
<1>5. \A n \in 1 .. N : n - 1 \in 0 .. N /\ n \in 0 .. N /\ n # 0
  BY <1>2
<1>6. IsAdd(f)
  <2>1. \A n \in 0 .. N : n # 0 => n \in 1 .. N /\ f[n - 1] \in Headed
    BY <1>2
  <2> QED BY <1>4, <2>1 DEF Repeats
<1>7. IsAdd(add)
  <2> HIDE DEF IsAdd
  <2> QED BY <1>6
<1> HIDE DEF add
<1>8. add[0] = l /\ \A n \in 1 .. N : add[n] = Named(add[n - 1], known, w[n])
  BY <1>2, <1>5, <1>7
<1> DEFINE T == {n \in Nat : n <= N => add[n] \in Headed}
<1>9. ASSUME NEW n \in Nat, n \in T PROVE n + 1 \in T
  <2>1. CASE n + 1 <= N
    <3>1. n + 1 \in 1 .. N /\ (n + 1) - 1 = n /\ n <= N
      BY <1>2, <2>1
    <3>2. add[n + 1] = Named(add[n], known, w[n + 1]) /\ add[n] \in Headed
      BY <1>8, <1>9, <3>1
    <3>3. add[n + 1] \in Headed
      BY <1>2, <3>1, <3>2, NamedTyped
    <3> QED BY <3>3
  <2>2. CASE ~(n + 1 <= N)
    BY <2>2
  <2> QED BY <2>1, <2>2
<1>10. \A n \in Nat : n \in T
  <2>1. 0 \in T
    BY <1>8
  <2> HIDE DEF T
  <2> QED BY <1>9, <2>1, Induction
<1>11. add \in [0 .. N -> Headed]
  <2>1. \A n \in 0 .. N : add[n] \in Headed
    BY <1>2, <1>10
  <2>2. add = [n \in 0 .. N |-> add[n]]
    BY <1>7
  <2> QED BY <2>1, <2>2
<1> QED BY <1>1, <1>2, <1>8, <1>11 DEF N, Names

LEMMA WithPayloadTyped ==
    ASSUME NEW l \in Headed, NEW known, NEW w \in Seq(Sns)
    PROVE  WithPayload(l, known, w) \in Headed
<1>1. Len(w) \in 0 .. Len(w)
  BY SeqIs
<1> QED BY <1>1, PayloadSteps DEF Names

\* ListOf adds the supernodes one by one to the empty list.
LEMMA ListSteps ==
    ASSUME NEW w \in Seq(Sns)
    PROVE  \E f \in [0 .. Len(w) -> Lists] :
              /\ f[0] = EmptyList /\ f[Len(w)] = ListOf(w)
              /\ \A n \in 1 .. Len(w) : f[n] = HASH_ADD_PEER(f[n - 1], w[n])
<1> DEFINE N == Len(w)
           F == [n \in 1 .. N |-> [v \in Lists |-> HASH_ADD_PEER(v, w[n])]]
           IsAdd(g) == g = [n \in 0 .. N |->
                              IF n = 0 THEN EmptyList ELSE HASH_ADD_PEER(g[n - 1], w[n])]
           add == CHOOSE g : IsAdd(g)
<1>1. ListOf(w) = add[N]
  BY DEF ListOf
<1>2. N \in Nat /\ \A n \in 1 .. N : w[n] \in Sns
  BY SeqIs
<1> HIDE DEF N
<1>3. F \in [1 .. N -> [Lists -> Lists]]
  BY <1>2, AddedFields
<1>12. EmptyList \in Lists
  BY DEF EmptyList, Lists, Links
<1>4. PICK f \in [0 .. N -> Lists] : Repeats(f, EmptyList, F, N)
  <2> HIDE DEF F
  <2> QED BY <1>2, <1>3, <1>12, Recursion
<1>5. \A n \in 1 .. N : n - 1 \in 0 .. N /\ n \in 0 .. N /\ n # 0
  BY <1>2
<1>6. IsAdd(f)
  <2>1. \A n \in 0 .. N : n # 0 => n \in 1 .. N /\ f[n - 1] \in Lists
    BY <1>2
  <2> QED BY <1>4, <2>1 DEF Repeats
<1>7. IsAdd(add)
  <2> HIDE DEF IsAdd
  <2> QED BY <1>6
<1> HIDE DEF add
<1>8. add[0] = EmptyList /\ \A n \in 1 .. N : add[n] = HASH_ADD_PEER(add[n - 1], w[n])
  BY <1>2, <1>5, <1>7
<1> DEFINE T == {n \in Nat : n <= N => add[n] \in Lists}
<1>9. ASSUME NEW n \in Nat, n \in T PROVE n + 1 \in T
  <2>1. CASE n + 1 <= N
    <3>1. n + 1 \in 1 .. N /\ (n + 1) - 1 = n /\ n <= N
      BY <1>2, <2>1
    <3>2. add[n + 1] = HASH_ADD_PEER(add[n], w[n + 1]) /\ add[n] \in Lists
      BY <1>8, <1>9, <3>1
    <3>3. add[n + 1] \in Lists
      <4> DEFINE d == add[n]
                 e == w[n + 1]
      <4>1. d \in Lists /\ e \in Sns /\ add[n + 1] = HASH_ADD_PEER(d, e)
        BY <1>2, <3>1, <3>2
      <4> HIDE DEF d, e
      <4>2. HASH_ADD_PEER(d, e) \in Lists
        BY <4>1, AddedFields
      <4> QED BY <4>1, <4>2
    <3> QED BY <3>3
  <2>2. CASE ~(n + 1 <= N)
    BY <2>2
  <2> QED BY <2>1, <2>2
<1>10. \A n \in Nat : n \in T
  <2>1. 0 \in T
    BY <1>8, <1>12
  <2> HIDE DEF T
  <2> QED BY <1>9, <2>1, Induction
<1>11. add \in [0 .. N -> Lists]
  <2>1. \A n \in 0 .. N : add[n] \in Lists
    BY <1>2, <1>10
  <2>2. add = [n \in 0 .. N |-> add[n]]
    BY <1>7
  <2> QED BY <2>1, <2>2
<1> QED BY <1>1, <1>2, <1>8, <1>11 DEF N

LEMMA ListOfTyped ==
    ASSUME NEW w \in Seq(Sns), Len(w) > 0
    PROVE  ListOf(w) \in Headed
<1>1. Len(w) \in Nat /\ Len(w) \in 1 .. Len(w) /\ Len(w) - 1 \in 0 .. Len(w) /\ w[Len(w)] \in Sns
  BY SeqIs
<1>2. PICK f \in [0 .. Len(w) -> Lists] :
         /\ f[0] = EmptyList /\ f[Len(w)] = ListOf(w)
         /\ \A n \in 1 .. Len(w) : f[n] = HASH_ADD_PEER(f[n - 1], w[n])
  BY ListSteps
<1>3. ListOf(w) = HASH_ADD_PEER(f[Len(w) - 1], w[Len(w)]) /\ f[Len(w) - 1] \in Lists
  BY <1>1, <1>2
<1> DEFINE d == f[Len(w) - 1]
           e == w[Len(w)]
<1>4. d \in Lists /\ e \in Sns /\ ListOf(w) = HASH_ADD_PEER(d, e)
  BY <1>1, <1>3
<1> HIDE DEF d, e
<1> QED BY <1>4, AddedFields DEF Headed

\* What is listed are supernodes.
LEMMA ListedTyped ==
    ASSUME NEW l \in Headed
    PROVE  Listed(l) \subseteq Sns
<1>1. l \in Lists /\ l.head \in Sns
  BY DEF Headed
<1> DEFINE w == Chain(l, l.head)
<1>2. w \in Seq(Sns)
  BY <1>1, ChainTyped
<1>3. Listed(l) = {w[i] : i \in DOMAIN w}
  BY DEF Listed
<1> HIDE DEF w
<1>4. DOMAIN w = 1 .. Len(w) /\ \A i \in 1 .. Len(w) : w[i] \in Sns
  BY <1>2, SeqIs
<1> QED BY <1>3, <1>4

----------------------------------------------------------------------------
(* Types.                                                                  *)

ThreadTyped ==
    /\ runlevel \in 0 .. 6 /\ pc \in {"select", "update", "sweep"}
    /\ reqAge \in 0 .. RegisterInterval /\ sweepAge \in 0 .. SweepTime + 1

FlagsTyped ==
    /\ late \in BOOLEAN /\ sn_wait \in BOOLEAN /\ sn_pong \in BOOLEAN
    /\ last_sup \in BOOLEAN /\ realAck \in BOOLEAN

ListTyped ==
    /\ supernodes \in Headed /\ mac \subseteq Sns
    /\ criterion \in [Sns -> Criteria]

SessionTyped ==
    /\ curr_sn \in Sns /\ last_cookie \in [Sns -> Cookies]
    /\ sup_attempts \in 0 .. SupAttempts
    /\ close_socket_counter \in 0 .. CloseSocketMax - 1

GhostTyped == holder \in Sns \cup {Nil} /\ tries \in 0 .. SupAttempts + 1

NetTyped ==
    /\ net \subseteq Answers /\ IsFiniteSet(net) /\ Cardinality(net) <= MaxNet
    /\ up \subseteq Sns

\* The attempts left and the registrations tried make SupAttempts at least; the
\* bootstrap takes none of the attempts.
AttemptsCounted ==
    /\ runlevel < 5 => sup_attempts = SupAttempts /\ pc = "select"
    /\ tries + sup_attempts >= SupAttempts

Typed ==
    /\ ThreadTyped /\ FlagsTyped /\ ListTyped /\ SessionTyped /\ GhostTyped /\ NetTyped
    /\ AttemptsCounted

LEMMA TypedImplies == Typed => TypeOK
BY DEF Typed, TypeOK, ThreadTyped, FlagsTyped, ListTyped, SessionTyped, GhostTyped, NetTyped, Headed

LEMMA Numbers ==
    /\ SupAttempts \in Nat \ {0} /\ RegisterInterval \in Nat \ {0}
    /\ SweepTime \in Nat \ {0} /\ CloseSocketMax \in Nat \ {0} /\ MaxNet \in Nat \ {0}
    /\ Peers \in Nat
BY SessionAssumption

LEMMA CookiesTyped ==
    /\ Cardinality(Sns) \in Nat /\ NoCookie \in Cookies
    /\ IsFiniteSet(Cookies \ {NoCookie})
    /\ Cardinality(Cookies \ {NoCookie}) = Cardinality(Sns) + MaxNet + 1
<1>1. Cardinality(Sns) \in Nat
  BY SnsAssumption, FS_CardinalityType
<1> DEFINE N == Cardinality(Sns) + MaxNet + 1
<1>2. N \in Nat
  BY <1>1, Numbers
<1>3. Cookies = 0 .. N /\ NoCookie = 0
  BY DEF Cookies, NoCookie
<1> HIDE DEF N
<1>4. Cookies \ {NoCookie} = 1 .. N /\ NoCookie \in Cookies
  BY <1>2, <1>3
<1>5. IsFiniteSet(1 .. N) /\ Cardinality(1 .. N) = N
  BY <1>2, FS_Interval
<1> QED BY <1>1, <1>4, <1>5 DEF N

\* There always is a cookie that nobody remembers.
LEMMA FreshCookieIsFresh ==
    ASSUME NetTyped, SessionTyped
    PROVE  /\ FreshCookie \in Cookies \ {NoCookie}
           /\ \A a \in net : a.type = "ACK" => a.cookie # FreshCookie
           /\ \A s \in Sns : last_cookie[s] # FreshCookie
<1> DEFINE acks == {a \in net : a.type = "ACK"}
           A == {c \in Cookies : \E a \in acks : a.cookie = c}
           B == {c \in Cookies : \E s \in Sns : last_cookie[s] = c}
<1>1. IsFiniteSet(acks) /\ Cardinality(acks) <= MaxNet /\ Cardinality(acks) \in Nat
  <2>1. acks \subseteq net /\ IsFiniteSet(net) /\ Cardinality(net) <= MaxNet
    BY DEF NetTyped
  <2>2. Cardinality(net) \in Nat
    BY <2>1, FS_CardinalityType
  <2> HIDE DEF acks
  <2>3. IsFiniteSet(acks) /\ Cardinality(acks) <= Cardinality(net)
    BY <2>1, FS_Subset
  <2>4. Cardinality(acks) \in Nat
    BY <2>3, FS_CardinalityType
  <2> QED BY <2>1, <2>2, <2>3, <2>4, Numbers
<1>2. IsFiniteSet(A) /\ Cardinality(A) <= Cardinality(acks)
  <2> DEFINE f == [a \in acks |-> a.cookie]
  <2>1. \A a \in acks : a.cookie \in A
    BY DEF NetTyped, Answers
  <2>2. f \in Surjection(acks, A)
    <3> HIDE DEF acks
    <3> QED BY <2>1 DEF Surjection
  <2> HIDE DEF f, acks, A
  <2> QED BY <1>1, <2>2, FS_Surjection
<1>3. IsFiniteSet(B) /\ Cardinality(B) <= Cardinality(Sns)
  <2>1. last_cookie \in Surjection(Sns, B)
    BY DEF SessionTyped, Surjection
  <2> HIDE DEF B
  <2> QED BY <2>1, SnsAssumption, FS_Surjection
<1> HIDE DEF acks, A, B
<1>4. IsFiniteSet(A \cup B) /\ Cardinality(A \cup B) <= Cardinality(A) + Cardinality(B)
  <2>1. /\ IsFiniteSet(A \cup B) /\ IsFiniteSet(A \cap B)
        /\ Cardinality(A \cup B) = Cardinality(A) + Cardinality(B) - Cardinality(A \cap B)
    BY <1>2, <1>3, FS_Union, FS_Intersection
  <2>2. Cardinality(A) \in Nat /\ Cardinality(B) \in Nat /\ Cardinality(A \cap B) \in Nat
    BY <1>2, <1>3, <2>1, FS_CardinalityType
  <2> QED BY <2>1, <2>2
<1>5. PICK c \in Cookies \ {NoCookie} : c \notin A \cup B
  <2> SUFFICES ASSUME Cookies \ {NoCookie} \subseteq A \cup B PROVE FALSE
    OBVIOUS
  <2>1. Cardinality(Cookies \ {NoCookie}) <= Cardinality(A \cup B)
    BY <1>4, FS_Subset
  <2>2. /\ Cardinality(A \cup B) \in Nat /\ Cardinality(A) \in Nat
        /\ Cardinality(B) \in Nat
    BY <1>2, <1>3, <1>4, FS_CardinalityType
  <2> QED BY <1>1, <1>2, <1>3, <1>4, <2>1, <2>2, CookiesTyped, Numbers
<1>6. /\ \A a \in net : a.type = "ACK" => a.cookie # c
      /\ \A s \in Sns : last_cookie[s] # c
  BY <1>5 DEF A, B, acks
<1> QED BY <1>5, <1>6 DEF FreshCookie

----------------------------------------------------------------------------
(* The network.                                                            *)

\* What a supernode answers to a registration: nothing, one acknowledgement with the
\* cookie that is fresh now, or a refusal.
LEMMA RegisterAnswersAre ==
    ASSUME NetTyped, SessionTyped, NEW s \in Sns, NEW answers \in RegisterAnswers(s)
    PROVE  /\ answers \subseteq Answers /\ IsFiniteSet(answers)
           /\ \A a \in answers : a.type = "ACK" =>
                 a.sn = s /\ a.cookie = FreshCookie /\ a.real = (runlevel = 5)
<1>1. FreshCookie \in Cookies
  BY FreshCookieIsFresh
<1>2. CASE answers = {}
  BY <1>2, FS_EmptySet
<1>3. CASE \E others \in Payloads : answers = {Ack(s, FreshCookie, runlevel = 5, others)}
  <2>1. PICK others \in Payloads : answers = {Ack(s, FreshCookie, runlevel = 5, others)}
    BY <1>3
  <2> DEFINE a == Ack(s, FreshCookie, runlevel = 5, others)
  <2>2. /\ a \in Answers /\ a.sn = s /\ a.cookie = FreshCookie
        /\ a.real = (runlevel = 5)
    BY <1>1 DEF Ack, Answers
  <2> HIDE DEF a
  <2> QED BY <2>1, <2>2, FS_Singleton DEF a
<1>4. CASE answers = {Nak(s)}
  <2>1. Nak(s) \in Answers /\ Nak(s).type = "NAK"
    BY DEF Nak, Answers
  <2> QED BY <1>4, <2>1, FS_Singleton
<1> QED BY <1>2, <1>3, <1>4 DEF RegisterAnswers

LEMMA PongsAre ==
    ASSUME NetTyped, NEW pinged, NEW loads \in PongsTo(pinged)
    PROVE  /\ PongsOf(loads) \subseteq Answers /\ IsFiniteSet(PongsOf(loads))
           /\ \A a \in PongsOf(loads) : a.type = "PONG"
<1> DEFINE D == pinged \cap up
           f == [s \in D |-> Pong(s, loads[s])]
<1>1. loads \in [D -> Loads] /\ DOMAIN loads = D /\ D \subseteq Sns
  BY DEF PongsTo, NetTyped
<1> HIDE DEF D
<1>2. \A s \in D : Pong(s, loads[s]) \in Answers /\ Pong(s, loads[s]).type = "PONG"
  BY <1>1 DEF Pong, Answers
<1>3. f \in Surjection(D, PongsOf(loads))
  BY <1>1 DEF PongsOf, Surjection
<1>4. IsFiniteSet(D)
  BY <1>1, SnsAssumption, FS_Subset
<1>5. IsFiniteSet(PongsOf(loads))
  <2> HIDE DEF f
  <2> QED BY <1>3, <1>4, FS_Surjection
<1>6. \A a \in PongsOf(loads) : \E s \in D : a = Pong(s, loads[s])
  BY <1>1 DEF PongsOf
<1> QED BY <1>2, <1>5, <1>6

\* What is in flight was in flight before or is an answer.
LEMMA InFlightIs ==
    ASSUME NEW before, NEW answers, InFlight(before, answers),
           IsFiniteSet(before), IsFiniteSet(answers)
    PROVE  /\ net' \subseteq before \cup answers
           /\ IsFiniteSet(net') /\ Cardinality(net') <= MaxNet
<1>1. net' \subseteq before \cup answers
  BY DEF InFlight
<1>2. IsFiniteSet(before \cup answers)
  BY FS_Union
<1>3. IsFiniteSet(net')
  BY <1>1, <1>2, FS_Subset
<1>4. Cardinality(net') = MaxNet \/ Cardinality(net') < MaxNet
  BY DEF InFlight
<1>5. Cardinality(net') \in Nat
  BY <1>3, FS_CardinalityType
<1> QED BY <1>1, <1>3, <1>4, <1>5, Numbers

\* The load of the current supernode counts for less.
LEMMA LoadTyped ==
    ASSUME NEW x \in Loads
    PROVE  x \in Criteria /\ (x * Peers) \div (Peers + 1) \in Criteria
<1>1. x \in Nat /\ x < 100 /\ Peers \in Nat
  BY SessionAssumption
<1>2. ASSUME NEW y \in Nat, y < 100, NEW P \in Nat PROVE (y * P) \div (P + 1) \in 0 .. 99
  <2>1. y * P \in Nat /\ y * P <= 99 * P
    BY <1>2
  <2>2. ASSUME NEW m \in Nat, m <= 99 * P PROVE m \div (P + 1) \in 0 .. 99
    <3> DEFINE q == m \div (P + 1)
    <3>1. q \in Int /\ q * (P + 1) <= m /\ m < q * (P + 1) + (P + 1)
      BY <2>2
    <3> HIDE DEF q
    <3>2. q < 100
      BY <2>2, <3>1
    <3>3. q >= 0
      BY <3>1
    <3> QED BY <3>1, <3>2, <3>3 DEF q
  <2> QED BY <2>1, <2>2
<1>3. (x * Peers) \div (Peers + 1) \in 0 .. 99
  BY <1>1, <1>2
<1> HIDE DEF Criteria
<1> QED BY <1>1, <1>3 DEF Criteria, CriterionBad

\* Fewer answers in flight are still answers in flight.
LEMMA FewerAnswers ==
    ASSUME NetTyped, net' \subseteq net, up' \subseteq Sns
    PROVE  NetTyped'
<1>1. IsFiniteSet(net') /\ Cardinality(net') <= Cardinality(net)
  BY FS_Subset DEF NetTyped
<1>2. Cardinality(net') \in Nat /\ Cardinality(net) \in Nat
  BY <1>1, FS_CardinalityType DEF NetTyped
<1> QED BY <1>1, <1>2, Numbers DEF NetTyped

\* So are those of now and the answers to a request.
LEMMA MoreAnswers ==
    ASSUME NetTyped, up' = up, NEW answers \in SUBSET Answers, IsFiniteSet(answers),
           InFlight(net, answers) \/ InFlight({}, answers)
    PROVE  NetTyped' /\ net' \subseteq net \cup answers
<1>1. IsFiniteSet(net) /\ IsFiniteSet({})
  BY FS_EmptySet DEF NetTyped
<1>2. net' \subseteq net \cup answers /\ IsFiniteSet(net') /\ Cardinality(net') <= MaxNet
  BY <1>1, InFlightIs
<1> QED BY <1>2 DEF NetTyped

\* Time passes.
LEMMA ElapseTyped ==
    ASSUME Typed, Waiting, NEW ticks \in {0, 1}, Elapse(ticks)
    PROVE  /\ pc' \in {"select", "update", "sweep"} /\ late' \in BOOLEAN
           /\ reqAge' \in 0 .. RegisterInterval /\ sweepAge' \in 0 .. SweepTime + 1
           /\ runlevel < 5 => pc' = pc
           /\ runlevel \in {1, 3, 5}
<1>1. runlevel \in {1, 3, 5}
  BY DEF Waiting
<1>2. /\ reqAge \in 0 .. RegisterInterval /\ sweepAge \in 0 .. SweepTime + 1
      /\ pc \in {"select", "update", "sweep"}
  BY DEF Typed, ThreadTyped
<1>5. late \in BOOLEAN
  BY DEF Typed, FlagsTyped
<1>3. CASE runlevel < 5
  <2>1. /\ late' = (late \/ ticks > 0) /\ pc' = pc /\ reqAge' = reqAge
        /\ sweepAge' = sweepAge
    BY <1>3 DEF Elapse
  <2>2. late' \in BOOLEAN
    BY <1>5, <2>1
  <2> QED BY <1>1, <1>2, <2>1, <2>2
<1>4. CASE ~(runlevel < 5)
  <2>1. late' \in BOOLEAN
    BY <1>4, <1>5 DEF Elapse
  <2> QED BY <1>1, <1>2, <1>4, <2>1, Numbers DEF Elapse, AtMost
<1> QED BY <1>3, <1>4

\* An answer arrives.
LEMMA ReceiveTyped ==
    ASSUME Typed, NEW a, Receive(a)
    PROVE  /\ net' \subseteq net /\ NetTyped'
           /\ pc' \in {"select", "update", "sweep"} /\ late' \in BOOLEAN
           /\ reqAge' \in 0 .. RegisterInterval /\ sweepAge' \in 0 .. SweepTime + 1
           /\ runlevel < 5 => pc' = pc
           /\ runlevel \in {1, 3, 5}
<1>1. net' \subseteq net /\ up' = up
  BY DEF Receive
<1>2. NetTyped'
  BY <1>1, FewerAnswers DEF Typed, NetTyped
<1>3. PICK ticks \in {0, 1} : Elapse(ticks)
  BY DEF Receive
<1>4. Waiting
  BY DEF Receive
<1> QED BY <1>1, <1>2, <1>3, <1>4, ElapseTyped

LEMMA InitTyped == Init => Typed
<1> SUFFICES ASSUME Init PROVE Typed
  OBVIOUS
<1>1. ThreadTyped
  BY Numbers DEF Init, ThreadTyped
<1>2. ListTyped
  <2>1. ListOf(Configured) \in Headed
    BY ListOfTyped, SessionAssumption
  <2>2. CriterionDefault \in Criteria
    BY DEF CriterionDefault, Criteria, CriterionBad
  <2> QED BY <2>1, <2>2 DEF Init, ListTyped
<1>3. SessionTyped
  <2>1. Configured[1] \in Sns
    BY SessionAssumption, SeqIs
  <2>2. CloseSocketMax - 1 \in Nat /\ 0 \in 0 .. CloseSocketMax - 1
    BY Numbers
  <2>3. SupAttempts \in 0 .. SupAttempts
    BY Numbers
  <2> QED BY <2>1, <2>2, <2>3, CookiesTyped DEF Init, SessionTyped
<1>4. GhostTyped
  BY Numbers DEF Init, GhostTyped
<1>5. NetTyped
  <2>1. up \subseteq Sns
    BY DEF Init
  <2> QED BY <2>1, FS_EmptySet, Numbers DEF Init, NetTyped
<1>6. AttemptsCounted
  BY Numbers DEF Init, AttemptsCounted
<1>9. FlagsTyped
  BY DEF Init, FlagsTyped
<1> QED BY <1>9, <1>1, <1>2, <1>3, <1>4, <1>5, <1>6 DEF Typed

\* The bootstrap.
LEMMA PingTyped == Typed /\ Ping => Typed'
<1> SUFFICES ASSUME Typed, Ping PROVE Typed'
  OBVIOUS
<1> USE DEF Typed
<1>1. PICK loads \in PongsTo(Listed(supernodes)) : InFlight(net, PongsOf(loads))
  BY DEF Ping
<1>2. NetTyped'
  BY <1>1, PongsAre, MoreAnswers DEF Ping
<1>3. ThreadTyped'
  BY DEF Ping, ThreadTyped
<1>4. ListTyped' /\ SessionTyped' /\ GhostTyped'
  BY DEF Ping, list, session, ghosts, ListTyped, SessionTyped, GhostTyped
<1>5. AttemptsCounted'
  BY DEF Ping, session, ghosts, AttemptsCounted
<1>9. FlagsTyped'
  BY DEF Ping, session, ghosts, FlagsTyped
<1> QED BY <1>9, <1>2, <1>3, <1>4, <1>5

LEMMA FirstPongTyped == Typed /\ FirstPong => Typed'
<1> SUFFICES ASSUME Typed, FirstPong PROVE Typed'
  OBVIOUS
<1> USE DEF Typed
<1>1. supernodes' \in Headed
  <2>1. criterion \in [Sns -> Nat]
    BY DEF ListTyped, Criteria, CriterionBad
  <2>2. supernodes' = SelectionSort(supernodes, criterion)
    BY DEF FirstPong
  <2> QED BY <2>1, <2>2, SelectionSortTyped DEF ListTyped, Headed
<1>2. ListTyped'
  BY <1>1 DEF FirstPong, ListTyped
<1>3. SessionTyped'
  BY <1>1 DEF FirstPong, SessionTyped, Headed
<1>4. ThreadTyped' /\ GhostTyped' /\ NetTyped'
  BY DEF FirstPong, timers, ghosts, ThreadTyped, GhostTyped, NetTyped
<1>5. AttemptsCounted'
  BY DEF FirstPong, ghosts, AttemptsCounted
<1>9. FlagsTyped'
  BY DEF FirstPong, timers, ghosts, FlagsTyped
<1> QED BY <1>9, <1>2, <1>3, <1>4, <1>5

LEMMA PongTimeoutTyped == Typed /\ PongTimeout => Typed'
BY DEF Typed, PongTimeout, timers, list, session, ghosts, ThreadTyped, FlagsTyped, ListTyped,
       SessionTyped, GhostTyped, NetTyped, AttemptsCounted

LEMMA LaterPongTyped == Typed /\ LaterPong => Typed'
<1> SUFFICES ASSUME Typed, LaterPong PROVE Typed'
  OBVIOUS
<1> USE DEF Typed
<1>1. supernodes' \in Headed
  <2>1. criterion \in [Sns -> Nat]
    BY DEF ListTyped, Criteria, CriterionBad
  <2>2. supernodes.next[curr_sn] \in Sns \cup {Nil}
    BY DEF ListTyped, SessionTyped, Headed, Lists, Links
  <2>3. CASE supernodes.next[curr_sn] = Nil
    BY <2>3 DEF LaterPong, ListTyped
  <2>4. CASE supernodes.next[curr_sn] # Nil
    <3>1. supernodes' = SortRemaining(supernodes, curr_sn, criterion)
      BY <2>4 DEF LaterPong
    <3>2. supernodes.next[curr_sn] \in Sns /\ curr_sn \in Sns
      BY <2>2, <2>4 DEF SessionTyped
    <3> QED BY <2>1, <3>1, <3>2, SortRemainingTyped DEF ListTyped, Headed
  <2> QED BY <2>3, <2>4
<1>2. ListTyped'
  BY <1>1 DEF LaterPong, ListTyped
<1>3. SessionTyped' /\ ThreadTyped' /\ GhostTyped' /\ NetTyped'
  BY DEF LaterPong, thread, timers, session, ghosts, ThreadTyped, SessionTyped, GhostTyped,
         NetTyped
<1>4. AttemptsCounted'
  BY DEF LaterPong, thread, session, ghosts, AttemptsCounted
<1>9. FlagsTyped'
  BY DEF LaterPong, timers, session, ghosts, FlagsTyped
<1> QED BY <1>9, <1>2, <1>3, <1>4

LEMMA AskForAddressTyped == Typed /\ AskForAddress => Typed'
<1> SUFFICES ASSUME Typed, AskForAddress PROVE Typed'
  OBVIOUS
<1> USE DEF Typed
<1>1. PICK answers \in RegisterAnswers(curr_sn) : InFlight(net, answers)
  BY DEF AskForAddress
<1>2. curr_sn \in Sns
  BY DEF SessionTyped
<1>3. NetTyped'
  BY <1>1, <1>2, RegisterAnswersAre, MoreAnswers DEF AskForAddress
<1>4. SessionTyped'
  BY FreshCookieIsFresh DEF AskForAddress, send_register_super, SessionTyped
<1>5. ThreadTyped' /\ ListTyped' /\ GhostTyped'
  BY DEF AskForAddress, list, ghosts, ThreadTyped, ListTyped, GhostTyped
<1>6. AttemptsCounted'
  BY DEF AskForAddress, ghosts, AttemptsCounted
<1>9. FlagsTyped'
  BY DEF AskForAddress, ghosts, FlagsTyped
<1> QED BY <1>9, <1>3, <1>4, <1>5, <1>6

LEMMA AddressTimeoutTyped == Typed /\ AddressTimeout => Typed'
<1> SUFFICES ASSUME Typed, AddressTimeout PROVE Typed'
  OBVIOUS
<1> USE DEF Typed
<1>1. curr_sn' \in Sns
  <2>1. /\ supernodes.next[curr_sn] \in Sns \cup {Nil} /\ supernodes.head \in Sns
    BY DEF ListTyped, SessionTyped, Headed, Lists, Links
  <2> QED BY <2>1 DEF AddressTimeout
<1>2. SessionTyped'
  BY <1>1 DEF AddressTimeout, SessionTyped
<1>3. ThreadTyped' /\ ListTyped' /\ GhostTyped' /\ NetTyped'
  BY DEF AddressTimeout, timers, list, ghosts, ThreadTyped, ListTyped, GhostTyped, NetTyped
<1>4. AttemptsCounted'
  BY DEF AddressTimeout, ghosts, AttemptsCounted
<1>9. FlagsTyped'
  BY DEF AddressTimeout, timers, ghosts, FlagsTyped
<1> QED BY <1>9, <1>2, <1>3, <1>4

LEMMA BootstrappedTyped == Typed /\ Bootstrapped => Typed'
<1> SUFFICES ASSUME Typed, Bootstrapped PROVE Typed'
  OBVIOUS
<1> USE DEF Typed
<1>1. criterion' \in [Sns -> Criteria]
  <2>1. criterion' = Reshaped(supernodes, criterion)
    BY DEF Bootstrapped
  <2>2. \A s \in Sns : criterion[s] \in Criteria
    BY DEF ListTyped
  <2>3. CriterionGood \in Criteria /\ CriterionDefault \in Criteria
    BY DEF CriterionGood, CriterionDefault, Criteria, CriterionBad
  <2> QED BY <2>1, <2>2, <2>3 DEF Reshaped
<1>2. supernodes' \in Headed
  <2>1. criterion' \in [Sns -> Nat]
    BY <1>1 DEF Criteria, CriterionBad
  <2>2. supernodes' = SelectionSort(supernodes, criterion')
    BY DEF Bootstrapped
  <2> QED BY <2>1, <2>2, SelectionSortTyped DEF ListTyped, Headed
<1>3. ListTyped'
  BY <1>1, <1>2 DEF Bootstrapped, ListTyped
<1>4. ThreadTyped'
  BY Numbers DEF Bootstrapped, ThreadTyped
<1>5. SessionTyped' /\ GhostTyped' /\ NetTyped'
  BY Numbers DEF Bootstrapped, SessionTyped, GhostTyped, NetTyped
<1>6. AttemptsCounted'
  BY Numbers DEF Bootstrapped, AttemptsCounted
<1>9. FlagsTyped'
  BY DEF Bootstrapped, FlagsTyped
<1> QED BY <1>9, <1>3, <1>4, <1>5, <1>6

\* What select() waits for.
LEMMA NothingCameTyped == Typed /\ NothingCame => Typed'
<1> SUFFICES ASSUME Typed, NothingCame PROVE Typed'
  OBVIOUS
<1> USE DEF Typed
<1>1. Waiting /\ Elapse(1) /\ 1 \in {0, 1}
  BY DEF NothingCame
<1>2. /\ pc' \in {"select", "update", "sweep"} /\ late' \in BOOLEAN
      /\ reqAge' \in 0 .. RegisterInterval /\ sweepAge' \in 0 .. SweepTime + 1
      /\ runlevel < 5 => pc' = pc
  BY <1>1, ElapseTyped
<1>3. ThreadTyped'
  BY <1>2 DEF NothingCame, ThreadTyped
<1>4. FlagsTyped'
  BY <1>2 DEF NothingCame, session, ghosts, FlagsTyped
<1>5. ListTyped' /\ SessionTyped' /\ GhostTyped' /\ NetTyped'
  BY DEF NothingCame, list, session, ghosts, ListTyped, SessionTyped, GhostTyped, NetTyped
<1>6. AttemptsCounted'
  BY <1>2 DEF NothingCame, session, ghosts, AttemptsCounted
<1> QED BY <1>3, <1>4, <1>5, <1>6

LEMMA FromUnknownTyped == ASSUME NEW a \in net PROVE Typed /\ FromUnknown(a) => Typed'
<1> SUFFICES ASSUME Typed, FromUnknown(a) PROVE Typed'
  OBVIOUS
<1> USE DEF Typed
<1>1. Receive(a)
  BY DEF FromUnknown
<1>2. /\ pc' \in {"select", "update", "sweep"} /\ late' \in BOOLEAN
      /\ reqAge' \in 0 .. RegisterInterval /\ sweepAge' \in 0 .. SweepTime + 1
      /\ runlevel < 5 => pc' = pc
      /\ NetTyped'
  BY <1>1, ReceiveTyped
<1>3. ThreadTyped'
  BY <1>2 DEF FromUnknown, ThreadTyped
<1>4. FlagsTyped'
  BY <1>2 DEF FromUnknown, session, ghosts, FlagsTyped
<1>5. ListTyped' /\ SessionTyped' /\ GhostTyped'
  BY DEF FromUnknown, list, session, ghosts, ListTyped, SessionTyped, GhostTyped
<1>6. AttemptsCounted'
  BY <1>2 DEF FromUnknown, session, ghosts, AttemptsCounted
<1> QED BY <1>2, <1>3, <1>4, <1>5, <1>6

\* An acknowledgement is awaited and carries the cookie of the current supernode.
Accepted(a) == sn_wait /\ a.cookie = last_cookie[curr_sn]

LEMMA ReceiveAckTyped == ASSUME NEW a \in net PROVE Typed /\ ReceiveAck(a) => Typed'
<1> SUFFICES ASSUME Typed, ReceiveAck(a) PROVE Typed'
  OBVIOUS
<1> USE DEF Typed
<1>1. Receive(a) /\ a.type = "ACK"
  BY DEF ReceiveAck
<1>2. /\ pc' \in {"select", "update", "sweep"} /\ late' \in BOOLEAN
      /\ reqAge' \in 0 .. RegisterInterval /\ sweepAge' \in 0 .. SweepTime + 1
      /\ runlevel < 5 => pc' = pc
      /\ NetTyped'
  BY <1>1, ReceiveTyped
<1>3. a.sn \in Sns /\ a.real \in BOOLEAN /\ a.others \in Payloads
  BY <1>1 DEF NetTyped, Answers
<1>4. /\ runlevel' = runlevel /\ curr_sn' = curr_sn /\ last_cookie' = last_cookie
      /\ close_socket_counter' = close_socket_counter /\ sn_pong' = sn_pong
  BY DEF ReceiveAck
<1>5. ThreadTyped'
  BY <1>2, <1>4 DEF ThreadTyped
<1>6. CASE Accepted(a)
  <2> DEFINE known == mac \cup {curr_sn}
             others == {a.others[i] : i \in DOMAIN a.others}
             l == WithMac(supernodes, curr_sn)
  <2>1. /\ supernodes' = WithPayload(l, known, a.others)
        /\ mac' = known \cup others
        /\ criterion' = [s \in Sns |->
              IF s \in others \ (known \cup Listed(supernodes))
              THEN CriterionDefault ELSE criterion[s]]
    BY <1>6 DEF ReceiveAck, Accepted
  <2>2. /\ last_sup' = (last_sup \/ runlevel = 5) /\ sn_wait' = FALSE
        /\ realAck' = (realAck \/ a.real)
        /\ sup_attempts' = SupAttempts /\ holder' = a.sn /\ tries' = 0
    BY <1>6 DEF ReceiveAck, Accepted
  <2>3. a.others \in Seq(Sns) /\ others \subseteq Sns
    <3>1. a.others \in Seq(Sns)
      BY <1>3, SessionAssumption
    <3> QED BY <3>1, SeqIs
  <2>4. l \in Headed
    BY WithMacTyped DEF ListTyped, SessionTyped, Headed
  <2> HIDE DEF l
  <2>5. supernodes' \in Headed
    BY <2>1, <2>3, <2>4, WithPayloadTyped
  <2>6. criterion' \in [Sns -> Criteria]
    <3>1. CriterionDefault \in Criteria
      BY DEF CriterionDefault, Criteria, CriterionBad
    <3> QED BY <2>1, <3>1 DEF ListTyped
  <2>7. ListTyped'
    BY <2>1, <2>3, <2>5, <2>6 DEF ListTyped, SessionTyped
  <2>8. FlagsTyped'
    BY <1>2, <1>3, <1>4, <2>2 DEF FlagsTyped
  <2>9. SessionTyped' /\ GhostTyped'
    BY <1>3, <1>4, <2>2, Numbers DEF SessionTyped, GhostTyped
  <2>10. AttemptsCounted'
    BY <1>2, <1>4, <2>2, Numbers DEF AttemptsCounted
  <2> QED BY <1>2, <1>5, <2>7, <2>8, <2>9, <2>10
<1>7. CASE ~Accepted(a)
  <2>1. UNCHANGED <<list, last_sup, sn_wait, sup_attempts, ghosts>>
    BY <1>7 DEF ReceiveAck, Accepted
  <2>2. FlagsTyped'
    BY <1>2, <1>4, <2>1 DEF ghosts, FlagsTyped
  <2>3. ListTyped' /\ SessionTyped' /\ GhostTyped'
    BY <1>4, <2>1 DEF list, ghosts, ListTyped, SessionTyped, GhostTyped
  <2>4. AttemptsCounted'
    BY <1>2, <1>4, <2>1 DEF ghosts, AttemptsCounted
  <2> QED BY <1>2, <1>5, <2>2, <2>3, <2>4
<1> QED BY <1>6, <1>7

LEMMA ReceivePongTyped == ASSUME NEW a \in net PROVE Typed /\ ReceivePong(a) => Typed'
<1> SUFFICES ASSUME Typed, ReceivePong(a) PROVE Typed'
  OBVIOUS
<1> USE DEF Typed
<1>1. Receive(a) /\ a.type = "PONG"
  BY DEF ReceivePong
<1>2. /\ pc' \in {"select", "update", "sweep"} /\ late' \in BOOLEAN
      /\ reqAge' \in 0 .. RegisterInterval /\ sweepAge' \in 0 .. SweepTime + 1
      /\ runlevel < 5 => pc' = pc
      /\ NetTyped'
  BY <1>1, ReceiveTyped
<1>3. a.sn \in Sns /\ a.load \in Loads
  BY <1>1 DEF NetTyped, Answers
<1>4. ThreadTyped'
  BY <1>2 DEF ReceivePong, ThreadTyped
<1>5. FlagsTyped'
  BY <1>2 DEF ReceivePong, session, ghosts, FlagsTyped
<1>6. supernodes' \in Headed
  BY <1>3, WithMacTyped DEF ReceivePong, ListTyped, Headed
<1>7. criterion' \in [Sns -> Criteria]
  <2> DEFINE v == IF a.sn = curr_sn THEN (a.load * Peers) \div (Peers + 1) ELSE a.load
  <2>1. v \in Criteria
    BY <1>3, LoadTyped
  <2>2. criterion' = [criterion EXCEPT ![a.sn] = v]
    BY DEF ReceivePong
  <2> HIDE DEF v
  <2> QED BY <2>1, <2>2 DEF ListTyped
<1>8. ListTyped'
  BY <1>3, <1>6, <1>7 DEF ReceivePong, ListTyped
<1>9. SessionTyped' /\ GhostTyped'
  BY DEF ReceivePong, session, ghosts, SessionTyped, GhostTyped
<1>10. AttemptsCounted'
  BY <1>2 DEF ReceivePong, session, ghosts, AttemptsCounted
<1> QED BY <1>2, <1>4, <1>5, <1>8, <1>9, <1>10

LEMMA ReceiveNakTyped == ASSUME NEW a \in net PROVE Typed /\ ReceiveNak(a) => Typed'
<1> SUFFICES ASSUME Typed, ReceiveNak(a) PROVE Typed'
  OBVIOUS
<1> USE DEF Typed
<1>1. Receive(a)
  BY DEF ReceiveNak
<1>2. /\ pc' \in {"select", "update", "sweep"} /\ late' \in BOOLEAN
      /\ reqAge' \in 0 .. RegisterInterval /\ sweepAge' \in 0 .. SweepTime + 1
      /\ NetTyped'
  BY <1>1, ReceiveTyped
<1>3. ThreadTyped'
  BY <1>2 DEF ReceiveNak, ThreadTyped
<1>4. FlagsTyped'
  BY <1>2 DEF ReceiveNak, session, ghosts, FlagsTyped
<1>5. ListTyped' /\ SessionTyped' /\ GhostTyped'
  BY DEF ReceiveNak, list, session, ghosts, ListTyped, SessionTyped, GhostTyped
<1>6. AttemptsCounted'
  BY DEF ReceiveNak, session, ghosts, AttemptsCounted
<1> QED BY <1>2, <1>3, <1>4, <1>5, <1>6

\* The main loop.
LEMMA NotDueTyped == Typed /\ NotDue => Typed'
BY DEF Typed, NotDue, timers, list, session, ghosts, ThreadTyped, FlagsTyped, ListTyped,
       SessionTyped, GhostTyped, NetTyped, AttemptsCounted

LEMMA NoSweepTyped == Typed /\ NoSweep => Typed'
BY DEF Typed, NoSweep, timers, list, session, ghosts, ThreadTyped, FlagsTyped, ListTyped,
       SessionTyped, GhostTyped, NetTyped, AttemptsCounted

LEMMA RebootTyped == ASSUME NEW s \in Reboots PROVE Typed /\ Reboot(s) => Typed'
<1> SUFFICES ASSUME Typed, Reboot(s) PROVE Typed'
  OBVIOUS
<1> USE DEF Typed
<1>1. up' \subseteq Sns
  BY SessionAssumption DEF Reboot, NetTyped
<1>2. NetTyped'
  BY <1>1 DEF Reboot, NetTyped
<1>3. FlagsTyped' /\ ThreadTyped'
  BY DEF Reboot, thread, timers, session, ghosts, FlagsTyped, ThreadTyped
<1>4. ListTyped' /\ SessionTyped' /\ GhostTyped'
  BY DEF Reboot, list, session, ghosts, ListTyped, SessionTyped, GhostTyped
<1>5. AttemptsCounted'
  BY DEF Reboot, thread, session, ghosts, AttemptsCounted
<1> QED BY <1>2, <1>3, <1>4, <1>5

LEMMA RegisterTyped == Typed /\ Register => Typed'
<1> SUFFICES ASSUME Typed, Register PROVE Typed'
  OBVIOUS
<1> USE DEF Typed
<1>1. /\ runlevel' = runlevel /\ late' = late /\ sweepAge' = sweepAge /\ mac' = mac
      /\ sn_pong' = sn_pong /\ last_sup' = last_sup /\ up' = up /\ holder' = holder
      /\ sn_wait' = TRUE /\ reqAge' = 0 /\ pc' = "sweep" /\ runlevel = 5
  BY DEF Register
<1>2. ThreadTyped'
  BY <1>1, Numbers DEF ThreadTyped
<1>3. /\ supernodes' \in Headed /\ criterion' \in [Sns -> Criteria] /\ curr_sn' \in Sns
      /\ sup_attempts' \in 0 .. SupAttempts /\ tries' \in 0 .. SupAttempts + 1
      /\ close_socket_counter' \in 0 .. CloseSocketMax - 1
      /\ tries' + sup_attempts' >= SupAttempts
  <2>1. CASE sup_attempts = 0
    <3>1. FailOver
      BY <2>1 DEF Register, OutOfAttempts
    <3>2. CriterionBad \in Criteria
      BY DEF Criteria, CriterionBad
    <3>3. criterion' \in [Sns -> Criteria]
      BY <3>1, <3>2 DEF FailOver, ListTyped
    <3>4. supernodes' \in Headed
      <4>1. criterion' \in [Sns -> Nat]
        BY <3>3 DEF Criteria, CriterionBad
      <4>2. supernodes' = SelectionSort(supernodes, criterion')
        BY <3>1 DEF FailOver
      <4> QED BY <4>1, <4>2, SelectionSortTyped DEF ListTyped, Headed
    <3>5. curr_sn' \in Sns
      BY <3>1, <3>4 DEF FailOver, Headed
    <3>6. close_socket_counter' \in 0 .. CloseSocketMax - 1
      <4>1. (close_socket_counter + 1) % CloseSocketMax \in 0 .. CloseSocketMax - 1
        BY Numbers DEF SessionTyped
      <4> QED BY <3>1, <4>1 DEF FailOver, SessionTyped
    <3>7. sup_attempts' = SupAttempts /\ tries' = 1
      BY <3>1 DEF FailOver
    <3> QED BY <3>3, <3>4, <3>5, <3>6, <3>7, Numbers
  <2>2. CASE sup_attempts # 0
    <3>1. TryAgain
      BY <2>2 DEF Register, OutOfAttempts
    <3>2. sup_attempts' \in 0 .. SupAttempts /\ sup_attempts' = sup_attempts - 1
      BY <2>2, <3>1, Numbers DEF TryAgain, SessionTyped
    <3>3. tries' \in 0 .. SupAttempts + 1 /\ tries' = AtMost(tries + 1, SupAttempts + 1)
      BY <3>1, Numbers DEF TryAgain, GhostTyped, AtMost
    <3>4. tries' + sup_attempts' >= SupAttempts
      BY <3>2, <3>3, Numbers DEF AttemptsCounted, SessionTyped, GhostTyped, AtMost
    <3> QED BY <3>1, <3>2, <3>3, <3>4 DEF TryAgain, ListTyped, SessionTyped
  <2> QED BY <2>1, <2>2
<1>4. /\ NetTyped' /\ last_cookie' \in [Sns -> Cookies] /\ realAck' \in BOOLEAN
  <2> DEFINE before == IF SocketReopened THEN {} ELSE net
  <2>1. before = {} \/ before = net
    OBVIOUS
  <2> HIDE DEF before
  <2>2. CASE /\ send_register_super(curr_sn')
             /\ \E answers \in RegisterAnswers(curr_sn') : InFlight(before, answers)
             /\ UNCHANGED realAck
    <3>1. PICK answers \in RegisterAnswers(curr_sn') : InFlight(before, answers)
      BY <2>2
    <3>2. answers \in SUBSET Answers /\ IsFiniteSet(answers)
      BY <1>3, RegisterAnswersAre
    <3>3. NetTyped'
      BY <1>1, <2>1, <3>1, <3>2, MoreAnswers
    <3>4. last_cookie' \in [Sns -> Cookies]
      BY <2>2, FreshCookieIsFresh DEF send_register_super, SessionTyped
    <3> QED BY <2>2, <3>3, <3>4 DEF FlagsTyped
  <2>3. CASE realAck' = TRUE /\ UNCHANGED last_cookie /\ InFlight(before, {})
    <3>1. NetTyped'
      BY <1>1, <2>1, <2>3, FS_EmptySet, MoreAnswers
    <3> QED BY <2>3, <3>1 DEF SessionTyped
  <2> QED BY <2>2, <2>3 DEF Register, before
<1>5. FlagsTyped'
  BY <1>1, <1>4 DEF FlagsTyped
<1>6. ListTyped' /\ SessionTyped' /\ GhostTyped'
  BY <1>1, <1>3, <1>4 DEF ListTyped, SessionTyped, GhostTyped
<1>7. AttemptsCounted'
  BY <1>1, <1>3 DEF AttemptsCounted
<1> QED BY <1>2, <1>4, <1>5, <1>6, <1>7

LEMMA SweepTyped == Typed /\ Sweep => Typed'
<1> SUFFICES ASSUME Typed, Sweep PROVE Typed'
  OBVIOUS
<1> USE DEF Typed
<1>1. /\ runlevel' = runlevel /\ runlevel = 5 /\ late' = late /\ reqAge' = reqAge
      /\ mac' = mac /\ close_socket_counter' = close_socket_counter
      /\ last_sup' = last_sup /\ up' = up /\ holder' = holder /\ realAck' = realAck
      /\ sweepAge' = 0 /\ sn_pong' = FALSE /\ pc' = "select"
  BY DEF Sweep
<1>2. ThreadTyped'
  BY <1>1, Numbers DEF ThreadTyped
<1>3. supernodes' \in Headed
  <2>1. criterion \in [Sns -> Nat]
    BY DEF ListTyped, Criteria, CriterionBad
  <2>2. SelectionSort(supernodes, criterion) \in Headed
    BY <2>1, SelectionSortTyped DEF ListTyped, Headed
  <2> QED BY <2>2 DEF Sweep, ListTyped
<1>4. supernodes'.head \in Sns
  BY <1>3 DEF Headed
<1>5. /\ curr_sn' \in Sns /\ sup_attempts' \in 0 .. SupAttempts
      /\ tries' \in 0 .. SupAttempts + 1 /\ tries' + sup_attempts' >= SupAttempts
      /\ last_cookie' \in [Sns -> Cookies] /\ sn_wait' \in BOOLEAN
  <2>1. CASE curr_sn # supernodes'.head
    <3>1. Switch(supernodes'.head)
      BY <2>1 DEF Sweep
    <3>2. last_cookie' \in [Sns -> Cookies]
      BY <3>1, FreshCookieIsFresh DEF Switch, send_register_super, SessionTyped
    <3> QED BY <1>4, <3>1, <3>2, Numbers DEF Switch
  <2>2. CASE curr_sn = supernodes'.head
    <3>1. UNCHANGED <<curr_sn, sup_attempts, tries, last_cookie, sn_wait>>
      BY <2>2 DEF Sweep
    <3> QED BY <3>1 DEF SessionTyped, GhostTyped, FlagsTyped, AttemptsCounted
  <2> QED BY <2>1, <2>2
<1>6. criterion' \in [Sns -> Criteria]
  <2>1. CriterionGood \in Criteria /\ CriterionDefault \in Criteria
    BY DEF CriterionGood, CriterionDefault, Criteria, CriterionBad
  <2>2. criterion' = [s \in Sns |->
           IF s \notin Listed(supernodes) THEN criterion[s]
           ELSE IF s = curr_sn' THEN CriterionGood ELSE CriterionDefault]
    BY DEF Sweep
  <2> QED BY <2>1, <2>2 DEF ListTyped
<1>7. NetTyped'
  <2>1. PICK answers \in IF curr_sn # supernodes'.head
                         THEN RegisterAnswers(supernodes'.head) ELSE {{}},
             loads \in PongsTo(Listed(supernodes)) :
                InFlight(net, answers \cup PongsOf(loads))
    BY DEF Sweep
  <2>2. answers \subseteq Answers /\ IsFiniteSet(answers)
    <3>1. CASE curr_sn # supernodes'.head
      BY <1>4, <2>1, <3>1, RegisterAnswersAre
    <3>2. CASE curr_sn = supernodes'.head
      BY <2>1, <3>2, FS_EmptySet
    <3> QED BY <3>1, <3>2
  <2>3. PongsOf(loads) \subseteq Answers /\ IsFiniteSet(PongsOf(loads))
    BY <2>1, PongsAre
  <2> DEFINE both == answers \cup PongsOf(loads)
  <2>4. both \in SUBSET Answers /\ IsFiniteSet(both) /\ InFlight(net, both)
    BY <2>1, <2>2, <2>3, FS_Union
  <2> HIDE DEF both
  <2> QED BY <1>1, <2>4, MoreAnswers
<1>8. FlagsTyped'
  BY <1>1, <1>5 DEF FlagsTyped
<1>9. ListTyped' /\ SessionTyped' /\ GhostTyped'
  BY <1>1, <1>3, <1>5, <1>6 DEF ListTyped, SessionTyped, GhostTyped
<1>10. AttemptsCounted'
  BY <1>1, <1>5 DEF AttemptsCounted
<1> QED BY <1>2, <1>7, <1>8, <1>9, <1>10

LEMMA NextTyped == Typed /\ [Next]_vars => Typed'
<1> SUFFICES ASSUME Typed, [Next]_vars PROVE Typed'
  OBVIOUS
<1>1. CASE Bootstrap
  BY <1>1, PingTyped, FirstPongTyped, PongTimeoutTyped, LaterPongTyped, AskForAddressTyped,
     AddressTimeoutTyped, BootstrappedTyped DEF Bootstrap
<1>2. CASE MainLoop
  BY <1>2, NotDueTyped, RegisterTyped, NoSweepTyped, SweepTyped DEF MainLoop
<1>3. CASE NothingCame
  BY <1>3, NothingCameTyped
<1>4. ASSUME NEW a \in net, ProcessUdp(a) PROVE Typed'
  BY <1>4, FromUnknownTyped, ReceiveAckTyped, ReceivePongTyped, ReceiveNakTyped DEF ProcessUdp
<1>5. ASSUME NEW s \in Reboots, Reboot(s) PROVE Typed'
  BY <1>5, RebootTyped
<1>6. CASE UNCHANGED vars
  BY <1>6 DEF vars, thread, timers, list, session, ghosts, Typed, ThreadTyped, FlagsTyped,
     ListTyped, SessionTyped, GhostTyped, NetTyped, AttemptsCounted
<1> QED BY <1>1, <1>2, <1>3, <1>4, <1>5, <1>6 DEF Next

\* All of the session's variables always have their types, and the list of
\* supernodes always has a first entry.
THEOREM SessionTypeCorrect == Spec => []TypeOK
<1>1. Init => Typed
  BY InitTyped
<1>2. Typed /\ [Next]_vars => Typed'
  BY NextTyped
<1> QED BY <1>1, <1>2, TypedImplies, PTL DEF Spec

----------------------------------------------------------------------------
(* Failing over.                                                           *)

\* update_supernode_reg gives up on a supernode only after SupAttempts
\* registrations that it did not answer: what is left of the attempts and what was
\* tried never make less.
THEOREM FailOverIsJustified == Spec => FailOverJustified
<1> DEFINE Justified == pc = "update" /\ curr_sn' # curr_sn => tries >= SupAttempts
<1>1. Typed /\ [Next]_vars => [Justified]_vars
  <2> SUFFICES ASSUME Typed, Next, pc = "update", curr_sn' # curr_sn
               PROVE  tries >= SupAttempts
    BY DEF vars, session
  <2>1. runlevel >= 5 /\ runlevel \in 0 .. 6
    BY DEF Typed, ThreadTyped, AttemptsCounted
  <2>2. ~Bootstrap
    BY <2>1 DEF Bootstrap, Ping, FirstPong, PongTimeout, LaterPong, AskForAddress,
       AddressTimeout, Bootstrapped
  <2>3. ~NothingCame /\ (\A a \in net : ~ProcessUdp(a)) /\ (\A s \in Reboots : ~Reboot(s))
    BY DEF NothingCame, ProcessUdp, FromUnknown, ReceiveAck, ReceivePong, ReceiveNak, Reboot,
       session
  <2>4. Register
    BY <2>2, <2>3 DEF Next, MainLoop, NotDue, NoSweep, Sweep, session
  <2>5. sup_attempts = 0
    BY <2>4 DEF Register, OutOfAttempts, TryAgain
  <2> QED BY <2>5, Numbers DEF Typed, AttemptsCounted, GhostTyped
<1>2. Init => Typed
  BY InitTyped
<1>3. Typed /\ [Next]_vars => Typed'
  BY NextTyped
<1> QED BY <1>1, <1>2, <1>3, PTL DEF Spec, FailOverJustified

----------------------------------------------------------------------------
(* Acknowledgements.                                                       *)

\* A cookie belongs to one supernode: that of the acknowledgements in flight with it.
CookiesOwned ==
    \A a \in net : a.type = "ACK" =>
        a.cookie # NoCookie /\ \A s \in Sns : last_cookie[s] = a.cookie => s = a.sn

\* In run_edge_loop only an acknowledgement of a REGISTER_SUPER with a MAC address
\* can be accepted, unless one was or the next registration is due.
OnlyRealAwaited ==
    runlevel = 5 =>
        \/ realAck
        \/ pc = "update" /\ RegistrationDue
        \/ \A a \in net : a.type = "ACK" /\ a.cookie = last_cookie[curr_sn] => a.real

Answered ==
    /\ CookiesOwned /\ RegisteredWithCurrent
    /\ LastSupIsReal /\ OnlyRealAwaited

\* A step sends no registration, or one to s.
Silent == last_cookie' = last_cookie /\ \A a \in net' : a.type = "ACK" => a \in net

SentTo(s) ==
    /\ last_cookie' = [last_cookie EXCEPT ![s] = FreshCookie]
    /\ \A a \in net' : a.type = "ACK" =>
          a \in net \/ (a.sn = s /\ a.cookie = FreshCookie /\ a.real = (runlevel = 5))

LEMMA CookiesStayOwned ==
    ASSUME Typed, CookiesOwned, NEW s \in Sns, Silent \/ SentTo(s)
    PROVE  CookiesOwned'
<1>1. CASE Silent
  BY <1>1 DEF Silent, CookiesOwned
<1>2. CASE SentTo(s)
  <2>1. /\ FreshCookie # NoCookie
        /\ \A a \in net : a.type = "ACK" => a.cookie # FreshCookie
        /\ \A t \in Sns : last_cookie[t] # FreshCookie
    BY FreshCookieIsFresh DEF Typed
  <2>2. last_cookie \in [Sns -> Cookies]
    BY DEF Typed, SessionTyped
  <2>3. \A t \in Sns : last_cookie'[t] = IF t = s THEN FreshCookie ELSE last_cookie[t]
    BY <1>2, <2>2 DEF SentTo
  <2> SUFFICES ASSUME NEW a \in net', a.type = "ACK"
               PROVE  a.cookie # NoCookie /\ \A t \in Sns : last_cookie'[t] = a.cookie => t = a.sn
    BY DEF CookiesOwned
  <2>4. CASE a \in net
    BY <2>1, <2>3, <2>4 DEF CookiesOwned
  <2>5. CASE a \notin net
    <3>1. a.sn = s /\ a.cookie = FreshCookie
      BY <1>2, <2>5 DEF SentTo
    <3> QED BY <2>1, <2>3, <3>1
  <2> QED BY <2>4, <2>5
<1> QED BY <1>1, <1>2

\* After a registration at run level 5 only its own acknowledgement can be accepted.
LEMMA SentIsReal ==
    ASSUME Typed, NEW s \in Sns, SentTo(s), runlevel = 5, curr_sn' = s
    PROVE  OnlyRealAwaited'
<1>1. last_cookie'[curr_sn'] = FreshCookie
  BY DEF Typed, SessionTyped, SentTo
<1>2. \A a \in net : a.type = "ACK" => a.cookie # FreshCookie
  BY FreshCookieIsFresh DEF Typed
<1>3. ASSUME NEW a \in net', a.type = "ACK", a.cookie = last_cookie'[curr_sn'] PROVE a.real
  BY <1>1, <1>2, <1>3 DEF SentTo
<1> QED BY <1>3 DEF OnlyRealAwaited

LEMMA Sending ==
    ASSUME Typed, NEW s \in Sns, NEW answers \in RegisterAnswers(s), NEW pongs,
           \A a \in pongs : a.type = "PONG", IsFiniteSet(pongs),
           InFlight(net, answers \cup pongs) \/ InFlight({}, answers \cup pongs),
           send_register_super(s)
    PROVE  SentTo(s)
<1> DEFINE both == answers \cup pongs
<1>1. /\ IsFiniteSet(answers)
      /\ \A a \in answers : a.type = "ACK" =>
            a.sn = s /\ a.cookie = FreshCookie /\ a.real = (runlevel = 5)
  BY RegisterAnswersAre DEF Typed
<1>2. IsFiniteSet(both) /\ IsFiniteSet(net) /\ IsFiniteSet({})
  BY <1>1, FS_Union, FS_EmptySet DEF Typed, NetTyped
<1>3. net' \subseteq net \cup both
  <2> HIDE DEF both
  <2>1. InFlight(net, both) \/ InFlight({}, both)
    BY DEF both
  <2> QED BY <1>2, <2>1, InFlightIs
<1>4. \A a \in net' : a.type = "ACK" => a \in net \/ a \in answers
  BY <1>3
<1>5. \A a \in net' : a.type = "ACK" =>
          a \in net \/ (a.sn = s /\ a.cookie = FreshCookie /\ a.real = (runlevel = 5))
  <2> TAKE a \in net'
  <2> HAVE a.type = "ACK"
  <2>1. CASE a \in net
    BY <2>1
  <2>2. CASE a \in answers
    <3> HIDE DEF both
    <3> QED BY <1>1, <2>2, Zenon
  <2> QED BY <1>4, <2>1, <2>2
<1> HIDE DEF both
<1> QED BY <1>5 DEF SentTo, send_register_super

\* A step that sends no registration and accepts no acknowledgement.
LEMMA NothingAnswered ==
    ASSUME Typed, Answered, Silent, curr_sn' = curr_sn, sn_wait' = sn_wait,
           last_sup' = last_sup, holder' = holder, realAck' = realAck,
           runlevel' = runlevel \/ (runlevel < 5 /\ runlevel' < 3) \/ runlevel' = 6,
           pc = "update" => ~RegistrationDue
    PROVE  Answered'
<1>1. CookiesOwned'
  BY CookiesStayOwned DEF Typed, SessionTyped, Answered
<1>2. runlevel \in 0 .. 6
  BY DEF Typed, ThreadTyped
<1>3. RegisteredWithCurrent'
  BY <1>2 DEF Answered, RegisteredWithCurrent
<1>4. LastSupIsReal'
  BY DEF Answered, LastSupIsReal
<1>5. OnlyRealAwaited'
  <2> SUFFICES ASSUME runlevel' = 5, ~realAck, NEW a \in net', a.type = "ACK",
                      a.cookie = last_cookie'[curr_sn']
               PROVE  a.real
    BY DEF OnlyRealAwaited
  <2>1. runlevel = 5 /\ a \in net /\ a.cookie = last_cookie[curr_sn]
    BY <1>2 DEF Silent
  <2> QED BY <2>1 DEF Answered, OnlyRealAwaited
<1> QED BY <1>1, <1>3, <1>4, <1>5 DEF Answered

LEMMA InitAnswered == Init => Answered
BY DEF Init, Answered, CookiesOwned, RegisteredWithCurrent, LastSupIsReal, OnlyRealAwaited

LEMMA BootstrapAnswered == Typed /\ Answered /\ Bootstrap => Answered'
<1> SUFFICES ASSUME Typed, Answered, Bootstrap PROVE Answered'
  OBVIOUS
<1>1. pc # "update" \/ runlevel \notin 0 .. 4
  BY DEF Typed, AttemptsCounted, ThreadTyped
<1>2. CASE Ping
  <2>1. PICK loads \in PongsTo(Listed(supernodes)) : InFlight(net, PongsOf(loads))
    BY <1>2 DEF Ping
  <2>2. IsFiniteSet(PongsOf(loads)) /\ \A a \in PongsOf(loads) : a.type = "PONG"
    BY PongsAre DEF Typed
  <2>3. net' \subseteq net \cup PongsOf(loads)
    BY <2>1, <2>2, InFlightIs DEF Typed, NetTyped
  <2>4. Silent
    BY <1>2, <2>2, <2>3 DEF Silent, Ping, session
  <2> QED BY <1>1, <1>2, <2>4, NothingAnswered DEF Ping, session, ghosts
<1>3. CASE FirstPong
  <2>1. Silent /\ runlevel' = 2
    BY <1>3 DEF FirstPong, Silent
  <2>2. CookiesOwned'
    BY <2>1, CookiesStayOwned DEF Typed, SessionTyped, Answered
  <2> QED BY <1>3, <2>1, <2>2 DEF FirstPong, ghosts, Answered, RegisteredWithCurrent,
          LastSupIsReal, OnlyRealAwaited
<1>4. CASE PongTimeout
  <2>1. Silent
    BY <1>4 DEF PongTimeout, Silent, session
  <2> QED BY <1>1, <1>4, <2>1, NothingAnswered DEF PongTimeout, session, ghosts
<1>5. CASE LaterPong
  <2>1. Silent
    BY <1>5 DEF LaterPong, Silent, session
  <2> QED BY <1>1, <1>5, <2>1, NothingAnswered DEF LaterPong, thread, session, ghosts
<1>6. CASE AskForAddress
  <2>1. PICK answers \in RegisterAnswers(curr_sn) : InFlight(net, answers)
    BY <1>6 DEF AskForAddress
  <2>2. curr_sn \in Sns /\ answers \cup {} = answers
    BY DEF Typed, SessionTyped
  <2>3. SentTo(curr_sn)
    BY <1>6, <2>1, <2>2, Sending, FS_EmptySet DEF AskForAddress
  <2>4. CookiesOwned'
    BY <2>2, <2>3, CookiesStayOwned DEF Typed, Answered
  <2> QED BY <1>6, <2>4 DEF AskForAddress, ghosts, Answered, RegisteredWithCurrent,
          LastSupIsReal, OnlyRealAwaited
<1>7. CASE AddressTimeout
  <2>1. Silent /\ runlevel' = 2
    BY <1>7 DEF AddressTimeout, Silent
  <2>2. CookiesOwned'
    BY <2>1, CookiesStayOwned DEF Typed, SessionTyped, Answered
  <2> QED BY <1>7, <2>1, <2>2 DEF AddressTimeout, ghosts, Answered, RegisteredWithCurrent,
          LastSupIsReal, OnlyRealAwaited
<1>8. CASE Bootstrapped
  <2>1. Silent
    BY <1>8 DEF Bootstrapped, Silent
  <2>2. CookiesOwned'
    BY <2>1, CookiesStayOwned DEF Typed, SessionTyped, Answered
  <2>3. pc' = "update" /\ RegistrationDue'
    BY <1>8, Numbers DEF Bootstrapped, RegistrationDue
  <2> QED BY <1>8, <2>2, <2>3 DEF Bootstrapped, Answered, RegisteredWithCurrent,
          LastSupIsReal, OnlyRealAwaited
<1> QED BY <1>2, <1>3, <1>4, <1>5, <1>6, <1>7, <1>8 DEF Bootstrap

LEMMA ReceiveAnswered ==
    ASSUME NEW a \in net PROVE Typed /\ Answered /\ ProcessUdp(a) => Answered'
<1> SUFFICES ASSUME Typed, Answered, ProcessUdp(a) PROVE Answered'
  OBVIOUS
<1>1. Receive(a)
  BY DEF ProcessUdp, FromUnknown, ReceiveAck, ReceivePong, ReceiveNak
<1>2. net' \subseteq net /\ runlevel \in {1, 3, 5}
  BY <1>1, ReceiveTyped
<1>3. pc # "update"
  BY <1>1, <1>2 DEF Receive, Waiting, Typed, AttemptsCounted
<1>4. CASE ReceiveAck(a) /\ Accepted(a)
  <2>1. /\ runlevel' = runlevel /\ curr_sn' = curr_sn /\ last_cookie' = last_cookie
        /\ sn_wait' = FALSE /\ holder' = a.sn /\ a.type = "ACK"
        /\ last_sup' = (last_sup \/ runlevel = 5) /\ realAck' = (realAck \/ a.real)
        /\ a.cookie = last_cookie[curr_sn]
    BY <1>4 DEF ReceiveAck, Accepted
  <2>2. CookiesOwned'
    <3>1. Silent
      BY <1>2, <2>1 DEF Silent
    <3> QED BY <3>1, CookiesStayOwned DEF Typed, SessionTyped, Answered
  <2>3. a.sn = curr_sn
    BY <2>1 DEF Answered, CookiesOwned, Typed, SessionTyped
  <2>4. RegisteredWithCurrent'
    BY <2>1, <2>3 DEF RegisteredWithCurrent
  <2>5. runlevel = 5 => realAck \/ a.real
    BY <1>3, <2>1 DEF Answered, OnlyRealAwaited
  <2>6. LastSupIsReal'
    BY <2>1, <2>5 DEF Answered, LastSupIsReal
  <2>7. OnlyRealAwaited'
    BY <2>1, <2>5 DEF OnlyRealAwaited
  <2> QED BY <2>2, <2>4, <2>6, <2>7 DEF Answered
<1>5. CASE ~(ReceiveAck(a) /\ Accepted(a))
  <2>1. /\ curr_sn' = curr_sn /\ sn_wait' = sn_wait /\ last_cookie' = last_cookie
        /\ last_sup' = last_sup /\ holder' = holder /\ realAck' = realAck
        /\ runlevel' = runlevel \/ runlevel' = 6
    BY <1>5 DEF ProcessUdp, FromUnknown, ReceiveAck, ReceivePong, ReceiveNak, Accepted, session,
       ghosts
  <2>2. Silent
    BY <1>2, <2>1 DEF Silent
  <2> QED BY <1>3, <2>1, <2>2, NothingAnswered
<1> QED BY <1>4, <1>5

LEMMA RegisterAnswered == Typed /\ Answered /\ Register => Answered'
<1> SUFFICES ASSUME Typed, Answered, Register PROVE Answered'
  OBVIOUS
<1>1. runlevel = 5 /\ runlevel' = 5 /\ sn_wait' = TRUE /\ last_sup' = last_sup
  BY DEF Register
<1>2. curr_sn' \in Sns
  BY RegisterTyped DEF Typed, SessionTyped
<1>3. RegisteredWithCurrent'
  BY <1>1 DEF RegisteredWithCurrent
<1> DEFINE before == IF SocketReopened THEN {} ELSE net
<1>4. before = {} \/ before = net
  OBVIOUS
<1>5. CASE /\ send_register_super(curr_sn')
           /\ \E answers \in RegisterAnswers(curr_sn') : InFlight(before, answers)
           /\ UNCHANGED realAck
  <2> HIDE DEF before
  <2>1. PICK answers \in RegisterAnswers(curr_sn') : InFlight(before, answers)
    BY <1>5
  <2>2. answers \cup {} = answers /\ IsFiniteSet({})
    BY FS_EmptySet
  <2>3. SentTo(curr_sn')
    BY <1>2, <1>4, <1>5, <2>1, <2>2, Sending
  <2>4. CookiesOwned'
    BY <1>2, <2>3, CookiesStayOwned DEF Answered
  <2>5. OnlyRealAwaited'
    BY <1>1, <1>2, <2>3, SentIsReal
  <2>6. LastSupIsReal'
    BY <1>1, <1>5 DEF Answered, LastSupIsReal
  <2> QED BY <1>3, <2>4, <2>5, <2>6 DEF Answered
<1>6. CASE realAck' = TRUE /\ UNCHANGED last_cookie /\ InFlight(before, {})
  <2> HIDE DEF before
  <2>1. net' \subseteq net
    BY <1>4, <1>6, FS_EmptySet, InFlightIs DEF Typed, NetTyped
  <2>2. Silent
    BY <1>6, <2>1 DEF Silent
  <2>3. CookiesOwned'
    BY <1>2, <2>2, CookiesStayOwned DEF Answered
  <2> QED BY <1>3, <1>6, <2>3 DEF Answered, LastSupIsReal, OnlyRealAwaited
<1> QED BY <1>5, <1>6 DEF Register

LEMMA SweepAnswered == Typed /\ Answered /\ Sweep => Answered'
<1> SUFFICES ASSUME Typed, Answered, Sweep PROVE Answered'
  OBVIOUS
<1>1. /\ runlevel = 5 /\ runlevel' = 5 /\ pc = "sweep" /\ last_sup' = last_sup
      /\ holder' = holder /\ realAck' = realAck
  BY DEF Sweep
<1>2. supernodes'.head \in Sns
  BY SweepTyped DEF Typed, ListTyped, Headed
<1>3. PICK answers \in IF curr_sn # supernodes'.head
                       THEN RegisterAnswers(supernodes'.head) ELSE {{}},
           loads \in PongsTo(Listed(supernodes)) : InFlight(net, answers \cup PongsOf(loads))
  BY DEF Sweep
<1>4. IsFiniteSet(PongsOf(loads)) /\ \A a \in PongsOf(loads) : a.type = "PONG"
  BY <1>3, PongsAre DEF Typed
<1>5. CASE curr_sn # supernodes'.head
  <2>1. Switch(supernodes'.head)
    BY <1>5 DEF Sweep
  <2>2. curr_sn' = supernodes'.head /\ sn_wait' = TRUE
    BY <2>1 DEF Switch
  <2>3. SentTo(supernodes'.head)
    BY <1>2, <1>3, <1>4, <1>5, <2>1, Sending DEF Switch
  <2>4. CookiesOwned'
    BY <1>2, <2>3, CookiesStayOwned DEF Answered
  <2>5. OnlyRealAwaited'
    BY <1>1, <1>2, <2>2, <2>3, SentIsReal
  <2> QED BY <1>1, <2>2, <2>4, <2>5 DEF Answered, LastSupIsReal, RegisteredWithCurrent
<1>6. CASE curr_sn = supernodes'.head
  <2>1. UNCHANGED <<curr_sn, sup_attempts, tries, last_cookie, sn_wait>>
    BY <1>6 DEF Sweep
  <2>2. InFlight(net, PongsOf(loads))
    <3>1. answers \cup PongsOf(loads) = PongsOf(loads)
      BY <1>3, <1>6
    <3> QED BY <1>3, <3>1
  <2>3. net' \subseteq net \cup PongsOf(loads)
    BY <1>4, <2>2, InFlightIs DEF Typed, NetTyped
  <2>4. Silent
    BY <1>4, <2>1, <2>3 DEF Silent
  <2> QED BY <1>1, <2>1, <2>4, NothingAnswered
<1> QED BY <1>5, <1>6

LEMMA NextAnswered == Typed /\ Answered /\ [Next]_vars => Answered'
<1> SUFFICES ASSUME Typed, Answered, [Next]_vars PROVE Answered'
  OBVIOUS
<1>1. CASE Bootstrap
  BY <1>1, BootstrapAnswered
<1>2. CASE NotDue
  <2>1. Silent
    BY <1>2 DEF NotDue, Silent, session
  <2> QED BY <1>2, <2>1, NothingAnswered DEF NotDue, session, ghosts
<1>3. CASE Register
  BY <1>3, RegisterAnswered
<1>4. CASE NoSweep
  <2>1. Silent
    BY <1>4 DEF NoSweep, Silent, session
  <2> QED BY <1>4, <2>1, NothingAnswered DEF NoSweep, session, ghosts
<1>5. CASE Sweep
  BY <1>5, SweepAnswered
<1>6. CASE NothingCame
  <2>1. Silent /\ pc # "update"
    BY <1>6 DEF NothingCame, Waiting, Silent, session, Typed, AttemptsCounted
  <2> QED BY <1>6, <2>1, NothingAnswered DEF NothingCame, session, ghosts
<1>7. ASSUME NEW a \in net, ProcessUdp(a) PROVE Answered'
  BY <1>7, ReceiveAnswered
<1>8. CASE (\E s \in Reboots : Reboot(s)) \/ UNCHANGED vars
  <2>1. UNCHANGED <<thread, timers, session, last_sup, net, ghosts>>
    BY <1>8 DEF Reboot, vars
  <2>2. Answered' = Answered
    BY <2>1 DEF thread, timers, session, ghosts, Answered, CookiesOwned, RegisteredWithCurrent,
       LastSupIsReal, OnlyRealAwaited, RegistrationDue
  <2> QED BY <2>2
<1> QED BY <1>1, <1>2, <1>3, <1>4, <1>5, <1>6, <1>7, <1>8 DEF Next, MainLoop

\* When the edge believes it is registered, it is with the supernode it is using
\* now: whatever is delayed, doubled or lost, the cookie of the current supernode
\* is only in that supernode's acknowledgements.
THEOREM RegisteredWithTheCurrent == Spec => []RegisteredWithCurrent
<1>1. Init => Typed /\ Answered
  BY InitTyped, InitAnswered
<1>2. Typed /\ Answered /\ [Next]_vars => (Typed /\ Answered)'
  BY NextTyped, NextAnswered
<1>3. Answered => RegisteredWithCurrent
  BY DEF Answered
<1> QED BY <1>1, <1>2, <1>3, PTL DEF Spec

\* Packets pass only after an acknowledgement of a REGISTER_SUPER with a MAC
\* address: until run_edge_loop has sent one the next registration is due, and
\* from then on a late acknowledgement of the bootstrap has another cookie.
THEOREM LastSupIsOnlyReal == Spec => []LastSupIsReal
<1>1. Init => Typed /\ Answered
  BY InitTyped, InitAnswered
<1>2. Typed /\ Answered /\ [Next]_vars => (Typed /\ Answered)'
  BY NextTyped, NextAnswered
<1>3. Answered => LastSupIsReal
  BY DEF Answered
<1> QED BY <1>1, <1>2, <1>3, PTL DEF Spec

----------------------------------------------------------------------------
(* The links of the list.                                                  *)

\* The entries of l are w[1] to w[n], each once, with the links both ways.
Threaded(l, n, w) ==
    /\ n \in Nat \ {0} /\ w \in [1 .. n -> Sns]
    /\ \A i, j \in 1 .. n : w[i] = w[j] => i = j
    /\ l.head = w[1] /\ l.tail = w[n]
    /\ \A i \in 1 .. n : l.next[w[i]] = (IF i = n THEN Nil ELSE w[i + 1])
    /\ \A i \in 1 .. n : l.prev[w[i]] = (IF i = 1 THEN Nil ELSE w[i - 1])

\* A list in order has all of S.
Holds(l, S) == \E n, w : Threaded(l, n, w) /\ \A s \in S : \E i \in 1 .. n : w[i] = s

LEMMA ThreadedFits ==
    ASSUME NEW l, NEW n, NEW w, Threaded(l, n, w)
    PROVE  n <= Cardinality(Sns) /\ Cardinality(Sns) \in Nat
<1> DEFINE E == {w[i] : i \in 1 .. n}
<1>1. n \in Nat /\ w \in [1 .. n -> Sns] /\ \A i, j \in 1 .. n : w[i] = w[j] => i = j
  BY DEF Threaded
<1>2. E \subseteq Sns
  BY <1>1
<1>3. ExistsBijection(1 .. n, E)
  <2>1. w \in Bijection(1 .. n, E)
    BY <1>1 DEF Bijection, Injection, IsInjective, Surjection
  <2> QED BY <2>1 DEF ExistsBijection
<1>4. IsFiniteSet(1 .. n) /\ Cardinality(1 .. n) = n
  BY <1>1, FS_Interval
<1> HIDE DEF E
<1>5. IsFiniteSet(E) /\ Cardinality(E) = Cardinality(1 .. n)
  BY <1>3, <1>4, FS_Bijection
<1>6. Cardinality(E) <= Cardinality(Sns)
  BY <1>2, SnsAssumption, FS_Subset
<1> QED BY <1>4, <1>5, <1>6, SnsAssumption, FS_CardinalityType

\* HASH_ITER visits all of them, in order.
LEMMA ThreadedChain ==
    ASSUME NEW l \in Lists, NEW n, NEW w, Threaded(l, n, w)
    PROVE  Chain(l, l.head) = w
<1>1. /\ n \in Nat \ {0} /\ w \in [1 .. n -> Sns] /\ l.head = w[1] /\ l.head \in Sns
      /\ \A i \in 1 .. n : l.next[w[i]] = (IF i = n THEN Nil ELSE w[i + 1])
  BY DEF Threaded
<1> DEFINE h == l.head
<1>0. h \in Sns \cup {Nil} /\ h = w[1] /\ h # Nil
  BY <1>1, SnsAssumption
<1> HIDE DEF h
<1>2. PICK f \in [Nat -> Seq(Sns)] :
         /\ Chain(l, h) = f[Cardinality(Sns) - 1]
         /\ f[0] = (IF h = Nil THEN <<>> ELSE <<h>>)
         /\ \A k \in Nat : f[k + 1] = Longer(l, f[k])
  BY <1>0, ChainIterates
<1> DEFINE m(k) == IF k < n THEN k + 1 ELSE n
           T == {k \in Nat : /\ Len(f[k]) = m(k)
                             /\ \A i \in 1 .. m(k) : f[k][i] = w[i]}
<1>3. 0 \in T
  <2>1. f[0] = <<w[1]>> /\ m(0) = 1
    BY <1>0, <1>1, <1>2
  <2>2. Len(f[0]) = 1 /\ f[0][1] = w[1]
    BY <2>1
  <2>3. \A i \in 1 .. m(0) : f[0][i] = w[i]
    <3>1. \A i \in 1 .. m(0) : i = 1
      BY <2>1
    <3> QED BY <2>2, <3>1
  <2> HIDE DEF m
  <2> QED BY <2>1, <2>2, <2>3
<1>4. ASSUME NEW k \in Nat, k \in T PROVE k + 1 \in T
  <2>1. /\ f[k] \in Seq(Sns) /\ Len(f[k]) = m(k) /\ m(k) \in 1 .. n
        /\ \A i \in 1 .. m(k) : f[k][i] = w[i]
    BY <1>1, <1>4
  <2>2. f[k] # <<>> /\ f[k][Len(f[k])] = w[m(k)]
    <3> HIDE DEF m
    <3>1. Len(f[k]) \in 1 .. m(k) /\ Len(f[k]) > 0
      BY <2>1
    <3>2. f[k] # <<>>
      BY <2>1, <3>1, SeqIs
    <3> QED BY <2>1, <3>1, <3>2
  <2>3. f[k + 1] = IF l.next[w[m(k)]] = Nil THEN f[k] ELSE Append(f[k], l.next[w[m(k)]])
    BY <1>2, <2>2 DEF Longer
  <2>4. CASE k + 1 < n
    <3>1. m(k) = k + 1 /\ m(k + 1) = k + 2 /\ k + 2 \in 1 .. n /\ m(k) # n
      BY <1>1, <2>4
    <3>2. l.next[w[m(k)]] = w[k + 2] /\ w[k + 2] \in Sns
      BY <1>1, <2>1, <3>1
    <3>3. f[k + 1] = Append(f[k], w[k + 2])
      BY <2>3, <3>2, SnsAssumption
    <3>4. /\ Len(f[k + 1]) = k + 2 /\ f[k + 1][k + 2] = w[k + 2]
          /\ \A i \in 1 .. k + 1 : f[k + 1][i] = f[k][i]
      BY <2>1, <3>1, <3>2, <3>3, Appended
    <3>5. ASSUME NEW i \in 1 .. k + 2 PROVE f[k + 1][i] = w[i]
      <4>1. i \in 1 .. k + 1 \/ i = k + 2
        OBVIOUS
      <4> QED BY <2>1, <3>1, <3>4, <4>1
    <3>6. k + 1 \in Nat
      OBVIOUS
    <3> QED BY <3>1, <3>4, <3>5, <3>6
  <2>5. CASE ~(k + 1 < n)
    <3>1. m(k) = n /\ m(k + 1) = n
      BY <1>1, <2>5
    <3>2. l.next[w[m(k)]] = Nil
      BY <1>1, <2>1, <3>1
    <3>3. f[k + 1] = f[k] /\ k + 1 \in Nat
      BY <2>3, <3>2
    <3> QED BY <2>1, <3>1, <3>3
  <2> QED BY <2>4, <2>5
<1>5. \A k \in Nat : k \in T
  <2> HIDE DEF T
  <2> QED BY <1>3, <1>4, Induction
<1> DEFINE c == Chain(l, h)
           K == Cardinality(Sns) - 1
<1>6. K \in Nat /\ ~(K < n - 1)
  <2>1. n <= Cardinality(Sns) /\ Cardinality(Sns) \in Nat
    BY ThreadedFits
  <2>2. n \in Nat /\ n # 0
    BY <1>1
  <2>3. ASSUME NEW N \in Nat, n <= N PROVE N - 1 \in Nat /\ ~(N - 1 < n - 1)
    BY <2>2, <2>3
  <2> QED BY <2>1, <2>3
<1>7. m(K) = n
  <2> HIDE DEF K
  <2>1. n \in Nat
    BY <1>1
  <2> QED BY <1>6, <2>1
<1>8. Len(c) = n /\ \A i \in 1 .. n : c[i] = w[i]
  BY <1>2, <1>5, <1>6, <1>7
<1>9. c \in [1 .. n -> Sns]
  <2>1. c \in Seq(Sns)
    BY <1>2, <1>6
  <2> HIDE DEF c
  <2> QED BY <1>8, <2>1, SeqIs
<1> HIDE DEF c
<1>10. c = w
  BY <1>1, <1>8, <1>9
<1> QED BY <1>10 DEF c, h

LEMMA ThreadedListed ==
    ASSUME NEW l \in Lists, NEW n, NEW w, Threaded(l, n, w)
    PROVE  \A s : s \in Listed(l) <=> \E i \in 1 .. n : w[i] = s
<1>1. Chain(l, l.head) = w
  BY ThreadedChain
<1>2. DOMAIN w = 1 .. n
  BY DEF Threaded
<1> QED BY <1>1, <1>2 DEF Listed

\* A sort threads the same entries in another order.
LEMMA SelectionSortHolds ==
    ASSUME NEW l \in Lists, NEW S, Holds(l, S), NEW crit \in [Sns -> Nat]
    PROVE  Holds(SelectionSort(l, crit), S)
<1>1. PICK n, w : Threaded(l, n, w) /\ \A s \in S : \E i \in 1 .. n : w[i] = s
  BY DEF Holds
<1>2. /\ n \in Nat \ {0} /\ w \in [1 .. n -> Sns]
      /\ \A i, j \in 1 .. n : w[i] = w[j] => i = j
      /\ l.head = w[1] /\ l.head \in Sns
  BY <1>1 DEF Threaded
<1>3. w \in Seq(Sns) /\ Len(w) = n
  BY <1>2, SeqOf
<1> DEFINE v == StableSort(w, crit)
<1>4. PICK g : Permutes(g, n) /\ v = [p \in 1 .. n |-> w[g[p]]]
  <2>1. PICK g : Permutes(g, Len(w)) /\ v = [p \in 1 .. Len(w) |-> w[g[p]]]
    BY <1>3, SortPermutes
  <2> HIDE DEF v
  <2> QED BY <1>3, <2>1
<1> HIDE DEF v
<1>5. v \in [1 .. n -> Sns]
  <2>1. \A p \in 1 .. n : w[g[p]] \in Sns
    BY <1>2, <1>4 DEF Permutes
  <2> QED BY <1>4, <2>1
<1>6. ASSUME NEW i \in 1 .. n, NEW j \in 1 .. n, v[i] = v[j] PROVE i = j
  <2>1. w[g[i]] = w[g[j]] /\ g[i] \in 1 .. n /\ g[j] \in 1 .. n
    BY <1>4, <1>6 DEF Permutes
  <2>2. g[i] = g[j]
    BY <1>2, <2>1
  <2> QED BY <1>4, <2>2 DEF Permutes
<1>7. DOMAIN v = 1 .. n /\ Len(v) = n
  BY <1>2, <1>5, SeqOf
<1> DEFINE pos(t) == CHOOSE p \in DOMAIN v : v[p] = t
           sorted == {v[p] : p \in DOMAIN v}
           nexts == [t \in Sns |-> IF t \notin sorted THEN l.next[t]
                                   ELSE IF pos(t) = Len(v) THEN Nil ELSE v[pos(t) + 1]]
           prevs == [t \in Sns |-> IF t \notin sorted THEN l.prev[t]
                                   ELSE IF pos(t) = 1 THEN Nil ELSE v[pos(t) - 1]]
           r == Rethread(l, l.head, crit)
           sl == SelectionSort(l, crit)
<1>8. r = [first |-> v[1],
           list |-> [l EXCEPT !.tail = v[Len(v)], !.next = nexts, !.prev = prevs]]
  <2>1. Chain(l, l.head) = w
    BY <1>1, ThreadedChain
  <2> QED BY <2>1 DEF Rethread, v
<1>9. \A i \in 1 .. n : v[i] \in sorted /\ pos(v[i]) = i
  BY <1>6, <1>7
<1> HIDE DEF pos, sorted
<1>10. /\ \A i \in 1 .. n : nexts[v[i]] = (IF i = n THEN Nil ELSE v[i + 1])
       /\ \A i \in 1 .. n : prevs[v[i]] = (IF i = 1 THEN Nil ELSE v[i - 1])
  BY <1>5, <1>7, <1>9
<1> HIDE DEF nexts, prevs
<1>11. sl = [r.list EXCEPT !.head = r.first]
  BY DEF SelectionSort
<1>12. sl.head = v[1] /\ sl.tail = v[n] /\ sl.next = nexts /\ sl.prev = prevs
  <2> HIDE DEF r, sl
  <2> QED BY <1>7, <1>8, <1>11 DEF Lists
<1> HIDE DEF sl
<1>13. Threaded(sl, n, v)
  BY <1>2, <1>5, <1>6, <1>10, <1>12 DEF Threaded
<1>14. ASSUME NEW s \in S PROVE \E p \in 1 .. n : v[p] = s
  <2>1. PICK i \in 1 .. n : w[i] = s
    BY <1>1
  <2>2. PICK p \in 1 .. n : g[p] = i
    BY <1>4 DEF Permutes
  <2> QED BY <1>4, <2>1, <2>2
<1> QED BY <1>13, <1>14 DEF Holds, sl

\* The first entry of a table.
LEMMA FirstThreaded ==
    ASSUME NEW l \in Lists, l.head = Nil, NEW s \in Sns
    PROVE  Threaded(HASH_ADD_PEER(l, s), 1, [i \in 1 .. 1 |-> s])
<1> DEFINE d == HASH_ADD_PEER(l, s)
           v == [i \in 1 .. 1 |-> s]
<1>1. d.head = s /\ d.tail = s /\ d.next[s] = Nil /\ d.prev[s] = Nil
  <2>1. d = [head |-> s, tail |-> s, next |-> [l.next EXCEPT ![s] = Nil],
             prev |-> [l.prev EXCEPT ![s] = Nil]]
    BY DEF HASH_ADD_PEER
  <2> HIDE DEF d
  <2> QED BY <2>1 DEF Lists, Links
<1>2. \A i \in 1 .. 1 : i = 1 /\ v[i] = s
  OBVIOUS
<1>3. v \in [1 .. 1 -> Sns] /\ v[1] = s
  OBVIOUS
<1> HIDE DEF d, v
<1>4. Threaded(d, 1, v)
  BY <1>1, <1>2, <1>3 DEF Threaded
<1> QED BY <1>4 DEF d, v

\* Another entry goes to the end.
LEMMA AddThreaded ==
    ASSUME NEW l \in Lists, NEW n, NEW w, Threaded(l, n, w),
           NEW s \in Sns, \A i \in 1 .. n : w[i] # s
    PROVE  Threaded(HASH_ADD_PEER(l, s), n + 1,
                    [i \in 1 .. n + 1 |-> IF i = n + 1 THEN s ELSE w[i]])
<1> DEFINE d == HASH_ADD_PEER(l, s)
           v == [i \in 1 .. n + 1 |-> IF i = n + 1 THEN s ELSE w[i]]
<1>1. /\ n \in Nat \ {0} /\ w \in [1 .. n -> Sns]
      /\ \A i, j \in 1 .. n : w[i] = w[j] => i = j
      /\ l.head = w[1] /\ l.tail = w[n] /\ 1 \in 1 .. n /\ n \in 1 .. n
      /\ \A i \in 1 .. n : l.next[w[i]] = (IF i = n THEN Nil ELSE w[i + 1])
      /\ \A i \in 1 .. n : l.prev[w[i]] = (IF i = 1 THEN Nil ELSE w[i - 1])
  BY DEF Threaded
<1>2. l.head # Nil /\ l.next \in [Sns -> Sns \cup {Nil}] /\ l.prev \in [Sns -> Sns \cup {Nil}]
  BY <1>1, SnsAssumption DEF Lists, Links
<1>3. /\ d.head = w[1] /\ d.tail = s
      /\ d.next = [l.next EXCEPT ![s] = Nil, ![w[n]] = s]
      /\ d.prev = [l.prev EXCEPT ![s] = w[n]]
  <2>1. d = [l EXCEPT !.tail = s, !.next = [l.next EXCEPT ![s] = Nil, ![l.tail] = s],
                      !.prev = [l.prev EXCEPT ![s] = l.tail]]
    BY <1>2 DEF HASH_ADD_PEER
  <2> HIDE DEF d
  <2> QED BY <1>1, <2>1 DEF Lists
<1>4. /\ n + 1 \in Nat \ {0} /\ v \in [1 .. n + 1 -> Sns] /\ v[1] = w[1] /\ v[n + 1] = s
      /\ \A i \in 1 .. n : v[i] = w[i]
      /\ \A i \in 1 .. n + 1 : i \in 1 .. n \/ i = n + 1
  BY <1>1
<1> HIDE DEF d, v
<1>5. \A i, j \in 1 .. n + 1 : v[i] = v[j] => i = j
  BY <1>1, <1>4
<1>6. ASSUME NEW i \in 1 .. n + 1 PROVE d.next[v[i]] = (IF i = n + 1 THEN Nil ELSE v[i + 1])
  <2>1. CASE i = n + 1
    BY <1>1, <1>2, <1>3, <1>4, <2>1
  <2>2. CASE i = n
    <3>1. d.next[w[n]] = s
      BY <1>1, <1>2, <1>3
    <3> QED BY <1>1, <1>4, <2>2, <3>1
  <2>3. CASE i \in 1 .. n - 1
    <3>1. i \in 1 .. n /\ i + 1 \in 1 .. n /\ i # n /\ i # n + 1
      BY <1>1, <2>3
    <3>2. w[i] # s /\ w[i] # w[n] /\ w[i] \in Sns
      BY <1>1, <3>1
    <3>3. d.next[w[i]] = l.next[w[i]]
      BY <1>2, <1>3, <3>2
    <3> QED BY <1>1, <1>4, <3>1, <3>3
  <2>4. i \in 1 .. n - 1 \/ i = n \/ i = n + 1
    BY <1>1
  <2> QED BY <2>1, <2>2, <2>3, <2>4
<1>7. ASSUME NEW i \in 1 .. n + 1 PROVE d.prev[v[i]] = (IF i = 1 THEN Nil ELSE v[i - 1])
  <2>1. CASE i = n + 1
    <3>1. i # 1 /\ i - 1 = n
      BY <1>1, <2>1
    <3> QED BY <1>1, <1>2, <1>3, <1>4, <2>1, <3>1
  <2>2. CASE i \in 1 .. n
    <3>1. d.prev[w[i]] = l.prev[w[i]]
      BY <1>1, <1>2, <1>3, <2>2
    <3>2. i # 1 => i - 1 \in 1 .. n
      BY <1>1, <2>2
    <3> QED BY <1>1, <1>4, <2>2, <3>1, <3>2
  <2> QED BY <1>4, <2>1, <2>2
<1>8. Threaded(d, n + 1, v)
  BY <1>3, <1>4, <1>5, <1>6, <1>7 DEF Threaded
<1> QED BY <1>8 DEF d, v

\* An entry that has a neighbour is taken out.
LEMMA DeleteThreaded ==
    ASSUME NEW l \in Lists, NEW n, NEW w, Threaded(l, n, w), n > 1, NEW k \in 1 .. n
    PROVE  Threaded(HASH_DEL(l, w[k]), n - 1,
                    [i \in 1 .. n - 1 |-> IF i < k THEN w[i] ELSE w[i + 1]])
<1> DEFINE d == HASH_DEL(l, w[k])
           v == [i \in 1 .. n - 1 |-> IF i < k THEN w[i] ELSE w[i + 1]]
<1>1. /\ n \in Nat \ {0} /\ w \in [1 .. n -> Sns]
      /\ \A i, j \in 1 .. n : w[i] = w[j] => i = j
      /\ l.head = w[1] /\ l.tail = w[n] /\ 1 \in 1 .. n /\ n \in 1 .. n
      /\ \A i \in 1 .. n : l.next[w[i]] = (IF i = n THEN Nil ELSE w[i + 1])
      /\ \A i \in 1 .. n : l.prev[w[i]] = (IF i = 1 THEN Nil ELSE w[i - 1])
  BY DEF Threaded
<1>2. l.next \in [Sns -> Sns \cup {Nil}] /\ l.prev \in [Sns -> Sns \cup {Nil}]
  BY DEF Lists, Links
<1>3. /\ k = 1 => k + 1 \in 1 .. n
      /\ k # 1 => k - 1 \in 1 .. n
      /\ k # n => k + 1 \in 1 .. n
  BY <1>1
<1>4. /\ l.prev[w[k]] = (IF k = 1 THEN Nil ELSE w[k - 1])
      /\ l.next[w[k]] = (IF k = n THEN Nil ELSE w[k + 1])
      /\ k # 1 => w[k - 1] \in Sns
      /\ k # n => w[k + 1] \in Sns
      /\ w[k] \in Sns
  BY <1>1, <1>3
<1>5. /\ l.prev[w[k]] = Nil <=> k = 1
      /\ l.next[w[k]] = Nil <=> k = n
  BY <1>4, SnsAssumption
<1>6. /\ d.head = (IF k = 1 THEN w[2] ELSE w[1])
      /\ d.tail = (IF k = n THEN w[n - 1] ELSE w[n])
      /\ d.next = (IF k = 1 THEN l.next ELSE [l.next EXCEPT ![w[k - 1]] = l.next[w[k]]])
      /\ d.prev = (IF k = n THEN l.prev ELSE [l.prev EXCEPT ![w[k + 1]] = l.prev[w[k]]])
  <2>1. l.prev[w[k]] # Nil \/ l.next[w[k]] # Nil
    BY <1>5
  <2>2. /\ d.head = IF l.prev[w[k]] = Nil THEN l.next[w[k]] ELSE l.head
        /\ d.tail = IF l.tail = w[k] THEN l.prev[w[k]] ELSE l.tail
        /\ d.next = IF l.prev[w[k]] = Nil THEN l.next
                    ELSE [l.next EXCEPT ![l.prev[w[k]]] = l.next[w[k]]]
        /\ d.prev = IF l.next[w[k]] = Nil THEN l.prev
                    ELSE [l.prev EXCEPT ![l.next[w[k]]] = l.prev[w[k]]]
    <3> DEFINE s == w[k]
    <3>1. s \in Sns /\ (l.prev[s] # Nil \/ l.next[s] # Nil)
      BY <1>4, <2>1
    <3> HIDE DEF s
    <3>2. LET e == HASH_DEL(l, s)
          IN  /\ e.head = IF l.prev[s] = Nil THEN l.next[s] ELSE l.head
              /\ e.tail = IF l.tail = s THEN l.prev[s] ELSE l.tail
              /\ e.next = IF l.prev[s] = Nil THEN l.next
                          ELSE [l.next EXCEPT ![l.prev[s]] = l.next[s]]
              /\ e.prev = IF l.next[s] = Nil THEN l.prev
                          ELSE [l.prev EXCEPT ![l.next[s]] = l.prev[s]]
      BY <3>1, DeletedFields
    <3> QED BY <3>2 DEF s
  <2> HIDE DEF d
  <2>3. d.head = (IF k = 1 THEN w[2] ELSE w[1])
    BY <1>1, <1>4, <1>5, <2>2
  <2>4. d.tail = (IF k = n THEN w[n - 1] ELSE w[n])
    BY <1>1, <1>4, <1>5, <2>2
  <2>5. d.next = (IF k = 1 THEN l.next ELSE [l.next EXCEPT ![w[k - 1]] = l.next[w[k]]])
    BY <1>4, <1>5, <2>2
  <2>6. d.prev = (IF k = n THEN l.prev ELSE [l.prev EXCEPT ![w[k + 1]] = l.prev[w[k]]])
    BY <1>4, <1>5, <2>2
  <2> QED BY <2>3, <2>4, <2>5, <2>6
<1>7. n - 1 \in Nat \ {0} /\ 1 \in 1 .. n - 1 /\ n - 1 \in 1 .. n - 1
  BY <1>1
<1>8. ASSUME NEW i \in 1 .. n - 1
      PROVE  /\ i \in 1 .. n /\ i + 1 \in 1 .. n
             /\ i < k => v[i] = w[i]
             /\ ~(i < k) => v[i] = w[i + 1]
             /\ v[i] \in Sns
  BY <1>1
<1>9. v \in [1 .. n - 1 -> Sns]
  <2>1. v = [i \in 1 .. n - 1 |-> v[i]]
    OBVIOUS
  <2> HIDE DEF v
  <2> QED BY <1>8, <2>1
<1> HIDE DEF d, v
<1>10. ASSUME NEW i \in 1 .. n - 1, NEW j \in 1 .. n - 1, v[i] = v[j] PROVE i = j
  <2>1. CASE i < k
    BY <1>1, <1>8, <1>10, <2>1
  <2>2. CASE ~(i < k)
    BY <1>1, <1>8, <1>10, <2>2
  <2> QED BY <2>1, <2>2
<1>11. d.head = v[1] /\ d.tail = v[n - 1]
  <2>1. d.head = v[1]
    BY <1>1, <1>6, <1>7, <1>8
  <2>2. d.tail = v[n - 1]
    BY <1>1, <1>6, <1>7, <1>8
  <2> QED BY <2>1, <2>2
<1>12. ASSUME NEW i \in 1 .. n - 1 PROVE d.next[v[i]] = (IF i = n - 1 THEN Nil ELSE v[i + 1])
  <2>1. i \in 1 .. n /\ i + 1 \in 1 .. n /\ (i # n - 1 => i + 1 \in 1 .. n - 1)
    BY <1>1, <1>8
  <2>2. CASE i < k - 1
    <3>1. k # 1 /\ v[i] = w[i] /\ i # n - 1 /\ v[i + 1] = w[i + 1] /\ i # n
      BY <1>1, <1>8, <2>1, <2>2
    <3>2. w[i] # w[k - 1] /\ w[i] \in Sns /\ w[k - 1] \in Sns
      BY <1>1, <1>3, <2>1, <2>2, <3>1
    <3>3. d.next[w[i]] = l.next[w[i]]
      BY <1>2, <1>6, <3>1, <3>2
    <3> QED BY <1>1, <2>1, <3>1, <3>3
  <2>3. CASE i = k - 1
    <3>1. k # 1 /\ v[i] = w[k - 1] /\ (i = n - 1 <=> k = n)
      BY <1>1, <1>8, <2>3
    <3>2. d.next[w[k - 1]] = l.next[w[k]]
      BY <1>2, <1>4, <1>6, <3>1
    <3>3. i # n - 1 => v[i + 1] = w[k + 1]
      BY <1>1, <1>8, <2>1, <2>3
    <3> QED BY <1>4, <3>1, <3>2, <3>3
  <2>4. CASE i >= k
    <3>1. v[i] = w[i + 1] /\ (i = n - 1 <=> i + 1 = n)
      BY <1>1, <1>8, <2>4
    <3>2. i # n - 1 => v[i + 1] = w[(i + 1) + 1]
      BY <1>1, <1>8, <2>1, <2>4
    <3>3. k # 1 => w[i + 1] # w[k - 1] /\ w[k - 1] \in Sns
      BY <1>1, <1>3, <2>1, <2>4
    <3>4. d.next[w[i + 1]] = l.next[w[i + 1]]
      BY <1>1, <1>2, <1>6, <2>1, <3>3
    <3> QED BY <1>1, <2>1, <3>1, <3>2, <3>4
  <2> QED BY <1>1, <2>2, <2>3, <2>4
<1>13. ASSUME NEW i \in 1 .. n - 1 PROVE d.prev[v[i]] = (IF i = 1 THEN Nil ELSE v[i - 1])
  <2>1. i \in 1 .. n /\ i + 1 \in 1 .. n /\ (i # 1 => i - 1 \in 1 .. n - 1)
    BY <1>1, <1>8
  <2>2. CASE i < k
    <3>1. v[i] = w[i] /\ (i # 1 => v[i - 1] = w[i - 1])
      BY <1>1, <1>8, <2>1, <2>2
    <3>2. k # n => w[i] # w[k + 1] /\ w[k + 1] \in Sns
      BY <1>1, <1>3, <2>1, <2>2
    <3>3. d.prev[w[i]] = l.prev[w[i]]
      BY <1>1, <1>2, <1>6, <2>1, <3>2
    <3> QED BY <1>1, <2>1, <3>1, <3>3
  <2>3. CASE i = k
    <3>1. k # n /\ v[i] = w[k + 1] /\ (i # 1 => v[i - 1] = w[k - 1])
      BY <1>1, <1>8, <2>1, <2>3
    <3>2. d.prev[w[k + 1]] = l.prev[w[k]]
      BY <1>2, <1>4, <1>6, <3>1
    <3> QED BY <1>4, <2>3, <3>1, <3>2
  <2>4. CASE i > k
    <3>1. v[i] = w[i + 1] /\ i # 1 /\ k # n /\ i + 1 # 1
      BY <1>1, <1>8, <2>4
    <3>2. v[i - 1] = w[i]
      BY <1>1, <1>8, <2>1, <2>4, <3>1
    <3>3. w[i + 1] # w[k + 1] /\ w[k + 1] \in Sns
      BY <1>1, <1>3, <2>1, <2>4, <3>1
    <3>4. d.prev[w[i + 1]] = l.prev[w[i + 1]]
      BY <1>1, <1>2, <1>6, <2>1, <3>1, <3>3
    <3>5. l.prev[w[i + 1]] = w[(i + 1) - 1]
      BY <1>1, <2>1, <3>1
    <3> QED BY <2>1, <3>1, <3>2, <3>4, <3>5
  <2> QED BY <1>1, <2>2, <2>3, <2>4
<1>14. Threaded(d, n - 1, v)
  BY <1>7, <1>9, <1>10, <1>11, <1>12, <1>13 DEF Threaded
<1> QED BY <1>14 DEF d, v

LEMMA AddHolds ==
    ASSUME NEW l \in Lists, NEW S, Holds(l, S), NEW s \in Sns, s \notin Listed(l)
    PROVE  Holds(HASH_ADD_PEER(l, s), S \cup {s})
<1>1. PICK n, w : Threaded(l, n, w) /\ \A t \in S : \E i \in 1 .. n : w[i] = t
  BY DEF Holds
<1>2. \A i \in 1 .. n : w[i] # s
  BY <1>1, ThreadedListed
<1>3. n \in Nat
  BY <1>1 DEF Threaded
<1> DEFINE v == [i \in 1 .. n + 1 |-> IF i = n + 1 THEN s ELSE w[i]]
<1>4. Threaded(HASH_ADD_PEER(l, s), n + 1, v)
  BY <1>1, <1>2, AddThreaded
<1>5. ASSUME NEW t \in S \cup {s} PROVE \E i \in 1 .. n + 1 : v[i] = t
  <2>1. CASE t \in S
    <3>1. PICK i \in 1 .. n : w[i] = t
      BY <1>1, <2>1
    <3>2. i \in 1 .. n + 1 /\ v[i] = t
      BY <1>3, <3>1
    <3> QED BY <3>2
  <2>2. CASE t = s
    <3>1. n + 1 \in 1 .. n + 1 /\ v[n + 1] = s
      BY <1>3
    <3> QED BY <2>2, <3>1
  <2> QED BY <2>1, <2>2
<1> HIDE DEF v
<1> QED BY <1>4, <1>5 DEF Holds

\* An entry deleted and added again is still there, and so are the others: the one
\* that was alone makes a new table.
LEMMA ReaddHolds ==
    ASSUME NEW l \in Lists, NEW S, Holds(l, S), NEW s \in Sns, s \in Listed(l)
    PROVE  Holds(HASH_ADD_PEER(HASH_DEL(l, s), s), S)
<1> DEFINE d == HASH_DEL(l, s)
<1>1. PICK n, w : Threaded(l, n, w) /\ \A t \in S : \E i \in 1 .. n : w[i] = t
  BY DEF Holds
<1>2. PICK k \in 1 .. n : w[k] = s
  BY <1>1, ThreadedListed
<1>3. /\ n \in Nat \ {0} /\ w \in [1 .. n -> Sns]
      /\ \A i, j \in 1 .. n : w[i] = w[j] => i = j
      /\ \A i \in 1 .. n : l.next[w[i]] = (IF i = n THEN Nil ELSE w[i + 1])
      /\ \A i \in 1 .. n : l.prev[w[i]] = (IF i = 1 THEN Nil ELSE w[i - 1])
  BY <1>1 DEF Threaded
<1>4. d \in Lists
  BY DeletedFields
<1>5. CASE n = 1
  <2>1. k = 1 /\ l.next[s] = Nil /\ l.prev[s] = Nil
    BY <1>2, <1>3, <1>5
  <2>2. d.head = Nil
    BY <2>1 DEF HASH_DEL, Lists
  <2> DEFINE v == [i \in 1 .. 1 |-> s]
  <2> HIDE DEF d
  <2>3. Threaded(HASH_ADD_PEER(d, s), 1, v)
    BY <1>4, <2>2, FirstThreaded
  <2>4. ASSUME NEW t \in S PROVE \E i \in 1 .. 1 : v[i] = t
    <3>1. t = s
      BY <1>1, <1>2, <1>5, <2>1
    <3>2. 1 \in 1 .. 1 /\ v[1] = s
      OBVIOUS
    <3> QED BY <3>1, <3>2
  <2> HIDE DEF v
  <2> QED BY <2>3, <2>4 DEF Holds, d
<1>6. CASE n > 1
  <2> DEFINE u == [i \in 1 .. n - 1 |-> IF i < k THEN w[i] ELSE w[i + 1]]
             m == n - 1
             v == [i \in 1 .. m + 1 |-> IF i = m + 1 THEN s ELSE u[i]]
  <2>1. Threaded(d, m, u)
    BY <1>1, <1>2, <1>6, DeleteThreaded
  <2>2. ASSUME NEW i \in 1 .. m PROVE u[i] # s
    <3>1. i \in 1 .. n /\ i + 1 \in 1 .. n
      BY <1>3
    <3>2. CASE i < k
      BY <1>2, <1>3, <3>1, <3>2
    <3>3. CASE ~(i < k)
      BY <1>2, <1>3, <3>1, <3>3
    <3> QED BY <3>2, <3>3
  <2> HIDE DEF d, u
  <2>3. Threaded(HASH_ADD_PEER(d, s), m + 1, v)
    <3> HIDE DEF m
    <3> QED BY <1>4, <2>1, <2>2, AddThreaded
  <2>4. ASSUME NEW t \in S PROVE \E i \in 1 .. m + 1 : v[i] = t
    <3>1. PICK j \in 1 .. n : w[j] = t
      BY <1>1
    <3>2. CASE j = k
      <4>1. m + 1 \in 1 .. m + 1 /\ v[m + 1] = s
        BY <1>3
      <4> QED BY <1>2, <3>1, <3>2, <4>1
    <3>3. CASE j < k
      <4>1. j \in 1 .. m /\ j \in 1 .. m + 1 /\ j # m + 1
        BY <1>3, <3>3
      <4>2. u[j] = w[j]
        BY <3>3, <4>1 DEF u
      <4> QED BY <3>1, <4>1, <4>2
    <3>4. CASE j > k
      <4>1. j - 1 \in 1 .. m /\ j - 1 \in 1 .. m + 1 /\ j - 1 # m + 1 /\ (j - 1) + 1 = j
        BY <1>3, <3>4
      <4>2. u[j - 1] = w[j]
        <5>1. ~(j - 1 < k)
          BY <3>4
        <5> QED BY <4>1, <5>1 DEF u
      <4> QED BY <3>1, <4>1, <4>2
    <3> QED BY <3>2, <3>3, <3>4
  <2> HIDE DEF v, m
  <2> QED BY <2>3, <2>4 DEF Holds, d
<1> QED BY <1>3, <1>5, <1>6

LEMMA HoldsFewer ==
    ASSUME NEW l, NEW S, NEW R, R \subseteq S, Holds(l, S)
    PROVE  Holds(l, R)
BY DEF Holds

LEMMA HoldsListed ==
    ASSUME NEW l \in Lists, NEW S, Holds(l, S)
    PROVE  S \subseteq Listed(l)
<1>1. PICK n, w : Threaded(l, n, w) /\ \A t \in S : \E i \in 1 .. n : w[i] = t
  BY DEF Holds
<1> QED BY <1>1, ThreadedListed

LEMMA HoldsHead ==
    ASSUME NEW l, NEW S, Holds(l, S)
    PROVE  Holds(l, S \cup {l.head})
<1>1. PICK n, w : Threaded(l, n, w) /\ \A t \in S : \E i \in 1 .. n : w[i] = t
  BY DEF Holds
<1>2. 1 \in 1 .. n /\ w[1] = l.head
  BY <1>1 DEF Threaded
<1> QED BY <1>1, <1>2 DEF Holds

LEMMA NamedHolds ==
    ASSUME NEW l \in Lists, NEW S, Holds(l, S), NEW known, NEW s \in Sns
    PROVE  Holds(Named(l, known, s), S)
<1>1. CASE s \in known
  BY <1>1 DEF Named
<1>2. CASE s \notin known /\ s \in Listed(l)
  BY <1>2, ReaddHolds DEF Named
<1>3. CASE s \notin known /\ s \notin Listed(l)
  <2>1. Holds(HASH_ADD_PEER(l, s), S \cup {s})
    BY <1>3, AddHolds
  <2>2. Holds(HASH_ADD_PEER(l, s), S)
    BY <2>1, HoldsFewer
  <2> QED BY <1>3, <2>2 DEF Named
<1> QED BY <1>1, <1>2, <1>3

LEMMA WithMacHolds ==
    ASSUME NEW l \in Lists, NEW S, Holds(l, S), NEW s \in Sns, s \in Listed(l)
    PROVE  Holds(WithMac(l, s), S)
BY ReaddHolds DEF WithMac

LEMMA WithPayloadHolds ==
    ASSUME NEW l \in Headed, NEW S, Holds(l, S), NEW known, NEW w \in Seq(Sns)
    PROVE  Holds(WithPayload(l, known, w), S)
<1>1. PICK f \in [0 .. Len(w) -> Headed] :
         /\ f[0] = l /\ f[Len(w)] = WithPayload(l, known, w)
         /\ \A n \in 1 .. Len(w) : f[n] = Named(f[n - 1], known, w[n])
  <2>1. PICK f \in [0 .. Len(w) -> Headed] : Names(f, l, known, w)
    BY PayloadSteps
  <2> QED BY <2>1 DEF Names
<1> DEFINE N == Len(w)
           T == {n \in Nat : n <= N => Holds(f[n], S)}
<1>2. N \in Nat /\ \A n \in 1 .. N : w[n] \in Sns
  BY SeqIs
<1> HIDE DEF N
<1>3. 0 \in T
  BY <1>1
<1>4. ASSUME NEW n \in Nat, n \in T PROVE n + 1 \in T
  <2>1. CASE n + 1 <= N
    <3>1. n + 1 \in 1 .. N /\ (n + 1) - 1 = n /\ n \in 0 .. N
      BY <1>2, <2>1
    <3>2. f[n + 1] = Named(f[n], known, w[n + 1]) /\ f[n] \in Lists /\ Holds(f[n], S)
      BY <1>1, <1>4, <3>1 DEF N, Headed
    <3>3. Holds(f[n + 1], S)
      BY <1>2, <3>1, <3>2, NamedHolds
    <3> QED BY <3>3
  <2>2. CASE ~(n + 1 <= N)
    BY <2>2
  <2> QED BY <2>1, <2>2
<1>5. \A n \in Nat : n \in T
  <2> HIDE DEF T
  <2> QED BY <1>3, <1>4, Induction
<1>6. Holds(f[N], S)
  BY <1>2, <1>5
<1> QED BY <1>1, <1>6 DEF N

\* The supernodes of the settings.
Backups == {Configured[i] : i \in DOMAIN Configured}

LEMMA ListOfHolds == Holds(ListOf(Configured), Backups)
<1> DEFINE w == Configured
           N == Len(w)
<1>1. /\ w \in Seq(Sns) /\ N \in Nat /\ N > 0 /\ DOMAIN w = 1 .. N
      /\ \A n \in 1 .. N : w[n] \in Sns
      /\ \A i, j \in 1 .. N : w[i] = w[j] => i = j
  BY SessionAssumption, SeqIs
<1> HIDE DEF w
<1>2. PICK f \in [0 .. N -> Lists] :
         /\ f[0] = EmptyList /\ f[N] = ListOf(w)
         /\ \A n \in 1 .. N : f[n] = HASH_ADD_PEER(f[n - 1], w[n])
  BY <1>1, ListSteps
<1> DEFINE upTo(n) == [i \in 1 .. n |-> w[i]]
           T == {n \in Nat : n \in 1 .. N => Threaded(f[n], n, upTo(n))}
<1> HIDE DEF N
<1>3. 0 \in T
  OBVIOUS
<1>4. ASSUME NEW n \in Nat, n \in T PROVE n + 1 \in T
  <2>1. CASE n = 0
    <3>1. CASE 1 \in 1 .. N
      <4>1. f[1] = HASH_ADD_PEER(f[0], w[1]) /\ w[1] \in Sns
        BY <1>1, <1>2, <3>1
      <4>2. f[0] \in Lists /\ f[0].head = Nil
        BY <1>1, <1>2 DEF EmptyList
      <4>3. Threaded(f[1], 1, [i \in 1 .. 1 |-> w[1]])
        BY <4>1, <4>2, FirstThreaded
      <4>4. upTo(1) = [i \in 1 .. 1 |-> w[1]]
        OBVIOUS
      <4>5. Threaded(f[1], 1, upTo(1))
        <5> HIDE DEF upTo
        <5> QED BY <4>3, <4>4
      <4> QED BY <2>1, <4>5
    <3> QED BY <2>1, <3>1
  <2>2. CASE n # 0 /\ n + 1 \in 1 .. N
    <3>1. n \in 1 .. N /\ n \in 0 .. N /\ (n + 1) - 1 = n
      BY <1>1, <2>2
    <3>2. Threaded(f[n], n, upTo(n)) /\ f[n] \in Lists
      BY <1>2, <1>4, <3>1
    <3>3. f[n + 1] = HASH_ADD_PEER(f[n], w[n + 1]) /\ w[n + 1] \in Sns
      BY <1>1, <1>2, <2>2, <3>1
    <3>4. \A i \in 1 .. n : upTo(n)[i] # w[n + 1]
      <4>1. \A i \in 1 .. n : i \in 1 .. N /\ i # n + 1
        BY <1>1, <2>2
      <4> QED BY <1>1, <2>2, <4>1
    <3> DEFINE v == [i \in 1 .. n + 1 |-> IF i = n + 1 THEN w[n + 1] ELSE upTo(n)[i]]
    <3>5. v = upTo(n + 1)
      <4>1. \A i \in 1 .. n + 1 : i # n + 1 => i \in 1 .. n
        OBVIOUS
      <4> QED BY <4>1
    <3> HIDE DEF upTo
    <3>6. Threaded(f[n + 1], n + 1, v)
      BY <3>2, <3>3, <3>4, AddThreaded
    <3>7. Threaded(f[n + 1], n + 1, upTo(n + 1))
      <4> HIDE DEF v
      <4> QED BY <3>5, <3>6
    <3> QED BY <3>7
  <2>3. CASE n # 0 /\ n + 1 \notin 1 .. N
    BY <2>3
  <2> QED BY <2>1, <2>2, <2>3
<1>5. \A n \in Nat : n \in T
  <2> HIDE DEF T
  <2> QED BY <1>3, <1>4, Induction
<1>6. Threaded(ListOf(w), N, upTo(N))
  <2>1. N \in 1 .. N
    BY <1>1
  <2> HIDE DEF upTo
  <2> QED BY <1>1, <1>2, <1>5, <2>1
<1>7. ASSUME NEW s \in Backups PROVE \E i \in 1 .. N : upTo(N)[i] = s
  BY <1>1 DEF Backups, w
<1> HIDE DEF upTo
<1> QED BY <1>6, <1>7 DEF Holds, w

----------------------------------------------------------------------------
(* The backups.                                                            *)

\* The list is in order and has the supernodes of the settings and the current one;
\* an edge with an address of its own never sorts the rest of the list.
BackedUp ==
    /\ Holds(supernodes, Backups \cup {curr_sn})
    /\ runlevel # 3 /\ (runlevel = 2 => ~sn_pong)

LEMMA InitBackedUp == Init => BackedUp
<1> SUFFICES ASSUME Init PROVE BackedUp
  OBVIOUS
<1>1. supernodes = ListOf(Configured) /\ curr_sn = Configured[1] /\ Configured[1] \in Backups
  BY SessionAssumption, SeqIs DEF Init, Backups
<1>2. Backups \cup {curr_sn} = Backups
  BY <1>1
<1> QED BY <1>1, <1>2, ListOfHolds DEF Init, BackedUp

\* After a sort the first entry may become the current one.
LEMMA SortedBackedUp ==
    ASSUME Typed, BackedUp, NEW crit \in [Sns -> Criteria]
    PROVE  LET l == SelectionSort(supernodes, crit)
           IN  Holds(l, Backups \cup {curr_sn}) /\ Holds(l, Backups \cup {l.head})
<1> DEFINE l == SelectionSort(supernodes, crit)
           S == Backups \cup {curr_sn}
<1>1. crit \in [Sns -> Nat]
  BY DEF Criteria, CriterionBad
<1>2. supernodes \in Lists /\ Holds(supernodes, S)
  BY DEF Typed, ListTyped, Headed, BackedUp
<1> HIDE DEF S
<1>3. Holds(l, S)
  BY <1>1, <1>2, SelectionSortHolds
<1> HIDE DEF l
<1>4. Holds(l, S \cup {l.head})
  BY <1>3, HoldsHead
<1>5. Backups \cup {l.head} \subseteq S \cup {l.head}
  BY DEF S
<1>6. Holds(l, Backups \cup {l.head})
  BY <1>4, <1>5, HoldsFewer
<1> QED BY <1>3, <1>6 DEF l, S

LEMMA BootstrapBackedUp ==
    ASSUME IpMode = "static" PROVE Typed /\ BackedUp /\ Bootstrap => BackedUp'
<1> SUFFICES ASSUME Typed, BackedUp, Bootstrap PROVE BackedUp'
  OBVIOUS
<1>1. ~LaterPong /\ ~AskForAddress /\ ~AddressTimeout
  BY DEF BackedUp, LaterPong, AskForAddress, AddressTimeout
<1>2. CASE Ping \/ PongTimeout
  BY <1>2 DEF Ping, PongTimeout, list, session, BackedUp
<1>3. CASE FirstPong
  <2>1. criterion \in [Sns -> Criteria]
    BY DEF Typed, ListTyped
  <2>2. Holds(supernodes', Backups \cup {curr_sn'})
    BY <1>3, <2>1, SortedBackedUp DEF FirstPong
  <2> QED BY <1>3, <2>2 DEF FirstPong, BackedUp
<1>4. CASE Bootstrapped
  <2>1. criterion' \in [Sns -> Criteria]
    BY <1>4, BootstrappedTyped DEF Typed, ListTyped
  <2>2. supernodes' = SelectionSort(supernodes, criterion') /\ curr_sn' = curr_sn
    BY <1>4 DEF Bootstrapped
  <2>3. Holds(supernodes', Backups \cup {curr_sn'})
    BY <2>1, <2>2, SortedBackedUp
  <2> QED BY <1>4, <2>3 DEF Bootstrapped, BackedUp
<1> QED BY <1>1, <1>2, <1>3, <1>4 DEF Bootstrap

LEMMA ReceiveBackedUp ==
    ASSUME NEW a \in net PROVE Typed /\ BackedUp /\ ProcessUdp(a) => BackedUp'
<1> SUFFICES ASSUME Typed, BackedUp, ProcessUdp(a) PROVE BackedUp'
  OBVIOUS
<1> DEFINE S == Backups \cup {curr_sn}
<1>1. Receive(a)
  BY DEF ProcessUdp, FromUnknown, ReceiveAck, ReceivePong, ReceiveNak
<1>2. runlevel \in {1, 5}
  BY <1>1, ReceiveTyped DEF BackedUp
<1>3. curr_sn' = curr_sn /\ (runlevel' = runlevel \/ runlevel' = 6)
  BY DEF ProcessUdp, FromUnknown, ReceiveAck, ReceivePong, ReceiveNak, session
<1>4. supernodes \in Headed /\ supernodes \in Lists /\ Holds(supernodes, S) /\ curr_sn \in S
      /\ curr_sn \in Sns
  BY DEF Typed, ListTyped, SessionTyped, Headed, BackedUp
<1>5. Holds(supernodes', S)
  <2> HIDE DEF S
  <2>1. CASE ReceiveAck(a) /\ Accepted(a)
    <3> DEFINE l == WithMac(supernodes, curr_sn)
               known == mac \cup {curr_sn}
    <3>1. supernodes' = WithPayload(l, known, a.others) /\ a.type = "ACK"
      BY <2>1 DEF ReceiveAck, Accepted
    <3>2. a.others \in Seq(Sns)
      BY <3>1, SessionAssumption DEF Typed, NetTyped, Answers
    <3>3. curr_sn \in Listed(supernodes)
      BY <1>4, HoldsListed
    <3>4. Holds(l, S)
      BY <1>4, <3>3, WithMacHolds
    <3>5. l \in Headed
      BY <1>4, WithMacTyped DEF Headed
    <3> HIDE DEF l, known
    <3> QED BY <3>1, <3>2, <3>4, <3>5, WithPayloadHolds
  <2>2. CASE ReceivePong(a)
    <3>1. /\ supernodes' = WithMac(supernodes, a.sn) /\ a.sn \in Listed(supernodes)
          /\ a.type = "PONG"
      BY <2>2 DEF ReceivePong
    <3>2. a.sn \in Sns
      BY <3>1 DEF Typed, NetTyped, Answers
    <3> QED BY <1>4, <3>1, <3>2, WithMacHolds
  <2>3. CASE ~(ReceiveAck(a) /\ Accepted(a)) /\ ~ReceivePong(a)
    <3>1. supernodes' = supernodes
      BY <2>3 DEF ProcessUdp, FromUnknown, ReceiveAck, ReceiveNak, Accepted, list
    <3> QED BY <1>4, <3>1
  <2> QED BY <2>1, <2>2, <2>3
<1> QED BY <1>2, <1>3, <1>5 DEF BackedUp

LEMMA NextBackedUp ==
    ASSUME IpMode = "static" PROVE Typed /\ BackedUp /\ [Next]_vars => BackedUp'
<1> SUFFICES ASSUME Typed, BackedUp, [Next]_vars PROVE BackedUp'
  OBVIOUS
<1>1. CASE Bootstrap
  BY <1>1, BootstrapBackedUp
<1>2. ASSUME NEW a \in net, ProcessUdp(a) PROVE BackedUp'
  BY <1>2, ReceiveBackedUp
<1>3. CASE Register
  <2>1. runlevel' = 5
    BY <1>3 DEF Register
  <2>2. CASE OutOfAttempts
    <3>1. criterion' \in [Sns -> Criteria]
      BY <1>3, RegisterTyped DEF Typed, ListTyped
    <3>2. supernodes' = SelectionSort(supernodes, criterion') /\ curr_sn' = supernodes'.head
      BY <1>3, <2>2 DEF Register, FailOver
    <3> QED BY <2>1, <3>1, <3>2, SortedBackedUp DEF BackedUp
  <2>3. CASE ~OutOfAttempts
    BY <1>3, <2>1, <2>3 DEF Register, TryAgain, BackedUp
  <2> QED BY <2>2, <2>3
<1>4. CASE Sweep
  <2>1. runlevel' = 5
    BY <1>4 DEF Sweep
  <2>2. /\ Holds(supernodes', Backups \cup {curr_sn})
        /\ Holds(supernodes', Backups \cup {supernodes'.head})
    <3>1. CASE sn_wait
      <4>1. supernodes' = supernodes /\ Holds(supernodes, Backups \cup {curr_sn})
        BY <1>4, <3>1 DEF Sweep, BackedUp
      <4>2. Holds(supernodes, (Backups \cup {curr_sn}) \cup {supernodes.head})
        BY <4>1, HoldsHead
      <4>3. Holds(supernodes, Backups \cup {supernodes.head})
        BY <4>2, HoldsFewer
      <4> QED BY <4>1, <4>3
    <3>2. CASE ~sn_wait
      <4>1. supernodes' = SelectionSort(supernodes, criterion) /\ criterion \in [Sns -> Criteria]
        BY <1>4, <3>2 DEF Sweep, Typed, ListTyped
      <4> QED BY <4>1, SortedBackedUp
    <3> QED BY <3>1, <3>2
  <2>3. curr_sn' = curr_sn \/ curr_sn' = supernodes'.head
    BY <1>4 DEF Sweep, Switch
  <2> QED BY <2>1, <2>2, <2>3 DEF BackedUp
<1>5. CASE NotDue \/ NoSweep
  BY <1>5 DEF NotDue, NoSweep, list, session, BackedUp
<1>6. CASE NothingCame
  BY <1>6 DEF NothingCame, Waiting, list, session, BackedUp
<1>7. CASE (\E s \in Reboots : Reboot(s)) \/ UNCHANGED vars
  <2>1. UNCHANGED <<supernodes, curr_sn, runlevel, sn_pong>>
    BY <1>7 DEF Reboot, vars, thread, list, session
  <2> QED BY <2>1 DEF BackedUp
<1> QED BY <1>1, <1>2, <1>3, <1>4, <1>5, <1>6, <1>7 DEF Next, MainLoop

\* An edge with an address of its own never drops a supernode of the settings from
\* its list, whatever it deletes and adds again, is told of and sorts: the links it
\* trusts are always those of a list in order.  (One that asks for its address does
\* drop one: see the run session_backup_lost.)
THEOREM BackupsAreKept == ASSUME IpMode = "static" PROVE Spec => []BackupsKept
<1>1. Init => Typed /\ BackedUp
  BY InitTyped, InitBackedUp
<1>2. Typed /\ BackedUp /\ [Next]_vars => (Typed /\ BackedUp)'
  BY NextTyped, NextBackedUp
<1>3. Typed /\ BackedUp => BackupsKept
  <2> SUFFICES ASSUME Typed, BackedUp PROVE BackupsKept
    OBVIOUS
  <2>1. Backups \cup {curr_sn} \subseteq Listed(supernodes)
    BY HoldsListed DEF Typed, ListTyped, Headed, BackedUp
  <2> QED BY <2>1 DEF BackupsKept, Backups
<1> QED BY <1>1, <1>2, <1>3, PTL DEF Spec

=============================================================================
