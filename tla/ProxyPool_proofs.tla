--------------------------- MODULE ProxyPool_proofs ---------------------------
(***************************************************************************)
(* Proofs about ProxyPool, for any nodes, jobs, clients and bounds.        *)
(*                                                                         *)
(* First the list of nodes: what the enabled nodes of a list are, what     *)
(* turning a round does, what edits do to a list.  Then the invariant,     *)
(* PoolInv: the pool on disk and in memory is usable, the rounds are over  *)
(* the pool as it is now, and what a probe in flight was sent with is what *)
(* the pool still has unless the generation has moved on.                  *)
(***************************************************************************)
EXTENDS ProxyPool, FiniteSetTheorems, SequenceTheorems, TLAPS

-----------------------------------------------------------------------------
(* Lists of nodes *)

(* A bounded sequence is a sequence that is short enough. *)
LEMMA BoundedSequences ==
  ASSUME NEW S, NEW n \in Nat, NEW s
  PROVE  s \in BoundedSeq(S, n) <=> s \in Seq(S) /\ Len(s) <= n
<1>1. ASSUME s \in BoundedSeq(S, n) PROVE s \in Seq(S) /\ Len(s) <= n
  <2>1. PICK m \in 0 .. n : s \in [1 .. m -> S]
    BY <1>1 DEF BoundedSeq, SeqOf
  <2>2. QED
    BY <2>1
<1>2. ASSUME s \in Seq(S), Len(s) <= n PROVE s \in BoundedSeq(S, n)
  <2>1. Len(s) \in 0 .. n /\ s \in [1 .. Len(s) -> S]
    BY <1>2
  <2>2. QED
    BY <2>1 DEF BoundedSeq, SeqOf
<1>3. QED
  BY <1>1, <1>2

(* The rank of an enabled place grows with the place, from 1 on. *)
LEMMA RankGrows ==
  ASSUME NEW d, d.nodes \in Seq(Nodes)
  PROVE  /\ IsFiniteSet(Places(d)) /\ Cardinality(Places(d)) \in Nat
         /\ Cardinality(Places(d)) <= Len(d.nodes)
         /\ \A i \in Places(d) : Rank(d, i) \in 1 .. Cardinality(Places(d))
         /\ \A i, j \in Places(d) : i < j => Rank(d, i) < Rank(d, j)
<1> DEFINE P == Places(d)
           upto(i) == {h \in P : h <= i}
<1>1. P \in SUBSET (1 .. Len(d.nodes)) /\ Len(d.nodes) \in Nat
  BY DEF Places
<1>2. IsFiniteSet(1 .. Len(d.nodes)) /\ Cardinality(1 .. Len(d.nodes)) = Len(d.nodes)
  BY <1>1, FS_Interval
<1>3. IsFiniteSet(P) /\ Cardinality(P) \in Nat /\ Cardinality(P) <= Len(d.nodes)
  BY <1>1, <1>2, FS_Subset, FS_CardinalityType
<1>4. ASSUME NEW i \in P
      PROVE  /\ IsFiniteSet(upto(i)) /\ Cardinality(upto(i)) \in Nat
             /\ Cardinality(upto(i)) <= Cardinality(P) /\ Cardinality(upto(i)) > 0
  <2>1. upto(i) \in SUBSET P /\ i \in upto(i)
    BY <1>1
  <2>2. IsFiniteSet(upto(i)) /\ Cardinality(upto(i)) <= Cardinality(P)
    BY <1>3, <2>1, FS_Subset
  <2>3. Cardinality(upto(i)) \in Nat
    BY <2>2, FS_CardinalityType
  <2>4. Cardinality(upto(i)) # 0
    BY <2>1, <2>2, FS_EmptySet
  <2>5. QED
    BY <2>2, <2>3, <2>4
<1>5. /\ \A i \in P : Rank(d, i) = Cardinality(upto(i))
      /\ \A i \in P : Rank(d, i) \in 1 .. Cardinality(P)
  <2>1. \A i \in P : Rank(d, i) = Cardinality(upto(i))
    BY Zenon DEF Rank
  <2> HIDE DEF P, upto
  <2>2. QED
    BY <1>3, <1>4, <2>1
<1>6. ASSUME NEW i \in P, NEW j \in P, i < j PROVE Rank(d, i) < Rank(d, j)
  <2>1. upto(i) \in SUBSET upto(j) /\ j \in upto(j) /\ j \notin upto(i)
    BY <1>1, <1>6
  <2>2. Cardinality(upto(i)) <= Cardinality(upto(j)) /\ Cardinality(upto(i)) # Cardinality(upto(j))
    BY <1>4, <2>1, FS_Subset
  <2>3. QED
    BY <1>4, <1>5, <2>2
<1>7. QED
  BY <1>3, <1>5, <1>6

(* So each number up to the number of enabled places is the rank of one. *)
LEMMA RankReached ==
  ASSUME NEW d, d.nodes \in Seq(Nodes), NEW k \in 1 .. Cardinality(Places(d))
  PROVE  \E i \in Places(d) : Rank(d, i) = k
<1> DEFINE P == Places(d)
           rank == [i \in P |-> Rank(d, i)]
<1>1. /\ IsFiniteSet(P) /\ Cardinality(P) \in Nat
      /\ \A i \in P : Rank(d, i) \in 1 .. Cardinality(P)
      /\ \A i, j \in P : i < j => Rank(d, i) < Rank(d, j)
  BY RankGrows
<1>2. P \subseteq Int
  BY DEF Places
<1>3. rank \in [P -> 1 .. Cardinality(P)]
  BY <1>1
<1>4. ASSUME NEW i \in P, NEW j \in P, rank[i] = rank[j] PROVE i = j
  <2>1. Rank(d, i) = Rank(d, j) /\ Rank(d, i) \in Int
    BY <1>1, <1>4
  <2>2. ~(i < j) /\ ~(j < i)
    BY <1>1, <2>1
  <2>3. QED
    BY <1>2, <2>2
<1>5. rank \in Injection(P, 1 .. Cardinality(P))
  BY <1>3, <1>4 DEF Injection, IsInjective
<1>6. IsFiniteSet(1 .. Cardinality(P)) /\ Cardinality(1 .. Cardinality(P)) = Cardinality(P)
  BY <1>1, FS_Interval
<1>7. rank \in Surjection(P, 1 .. Cardinality(P))
  BY <1>5, <1>6, FS_Injection
<1>8. QED
  BY <1>7 DEF Surjection

(* The enabled nodes, in the order of the list, are the enabled nodes of   *)
(* the list, each once.                                                    *)
LEMMA EnabledOnce ==
  ASSUME NEW d, d.nodes \in Seq(Nodes), IsInjective(d.nodes), d.on \subseteq ToSet(d.nodes)
  PROVE  /\ EnabledNodes(d) \in Seq(Nodes) /\ Len(EnabledNodes(d)) <= Len(d.nodes)
         /\ IsInjective(EnabledNodes(d)) /\ ToSet(EnabledNodes(d)) = d.on
<1> DEFINE P == Places(d)
           n == Cardinality(P)
           at(k) == CHOOSE i \in P : Rank(d, i) = k
           s == EnabledNodes(d)
<1>1. /\ n \in Nat /\ n <= Len(d.nodes)
      /\ \A i \in P : Rank(d, i) \in 1 .. n
      /\ \A i, j \in P : i < j => Rank(d, i) < Rank(d, j)
  BY RankGrows
<1>2. \A k \in 1 .. n : at(k) \in P /\ Rank(d, at(k)) = k
  BY RankReached
<1>3. s = [k \in 1 .. n |-> d.nodes[at(k)]]
  BY DEF EnabledNodes
<1>4. P \subseteq DOMAIN d.nodes /\ DOMAIN d.nodes \subseteq Int
  BY DEF Places
<1>5. \A i \in P : d.nodes[i] \in Nodes /\ d.nodes[i] \in d.on
  BY <1>4 DEF Places
<1> HIDE DEF at, P, n, s
<1>6. s \in [1 .. n -> Nodes]
  BY <1>2, <1>3, <1>5
<1>7. s \in Seq(Nodes) /\ Len(s) = n /\ DOMAIN s = 1 .. n
  BY <1>1, <1>6
<1>8. IsInjective(s)
  <2>1. ASSUME NEW j \in 1 .. n, NEW k \in 1 .. n, s[j] = s[k] PROVE j = k
    <3>1. at(j) = at(k)
      BY <1>2, <1>3, <1>4, <2>1 DEF IsInjective
    <3>2. QED
      BY <1>2, <3>1
  <2>2. QED
    BY <1>7, <2>1 DEF IsInjective
<1>9. ToSet(s) = d.on
  <2>1. ASSUME NEW x \in d.on PROVE x \in ToSet(s)
    <3>1. PICK i \in DOMAIN d.nodes : d.nodes[i] = x
      BY <2>1 DEF ToSet
    <3>2. i \in P /\ Rank(d, i) \in 1 .. n
      BY <1>1, <3>1 DEF P, Places
    <3>3. at(Rank(d, i)) = i
      <4>1. at(Rank(d, i)) \in P /\ Rank(d, at(Rank(d, i))) = Rank(d, i)
        BY <1>2, <3>2
      <4>2. ~(at(Rank(d, i)) < i) /\ ~(i < at(Rank(d, i)))
        BY <1>1, <3>2, <4>1
      <4>3. QED
        BY <1>4, <3>2, <4>1, <4>2
    <3>4. s[Rank(d, i)] = x
      BY <1>3, <3>1, <3>2, <3>3
    <3>5. QED
      BY <1>7, <3>2, <3>4 DEF ToSet
  <2>2. \A k \in 1 .. n : s[k] \in d.on
    BY <1>2, <1>3, <1>5
  <2>3. QED
    BY <1>7, <2>1, <2>2 DEF ToSet
<1>10. QED
  BY <1>1, <1>7, <1>8, <1>9 DEF s

(* The cursor of a list that has just been edited: on an enabled node if   *)
(* there is one.                                                           *)
LEMMA FirstOfEnabled ==
  ASSUME NEW d, d.nodes \in Seq(Nodes), IsInjective(d.nodes), d.on \subseteq ToSet(d.nodes)
  PROVE  IF d.on = {} THEN FirstEnabled(d) = None ELSE FirstEnabled(d) \in d.on
<1> DEFINE s == EnabledNodes(d)
<1>1. s \in Seq(Nodes) /\ ToSet(s) = d.on
  BY EnabledOnce
<1> HIDE DEF s
<1>2. s = <<>> <=> d.on = {}
  BY <1>1 DEF ToSet
<1>3. s # <<>> => Head(s) \in ToSet(s)
  BY <1>1 DEF ToSet
<1>4. QED
  BY <1>1, <1>2, <1>3 DEF FirstEnabled, s

(* A round begins somewhere else in the list, and has the same nodes. *)
LEMMA RotationKeeps ==
  ASSUME NEW s \in Seq(Nodes), s # <<>>, IsInjective(s), NEW first
  PROVE  /\ Rotated(s, first) \in Seq(Nodes) /\ Len(Rotated(s, first)) = Len(s)
         /\ IsInjective(Rotated(s, first)) /\ ToSet(Rotated(s, first)) = ToSet(s)
<1> DEFINE i == CHOOSE i \in 1 .. Len(s) : s[i] = first \/ (first \notin ToSet(s) /\ i = 1)
           a == SubSeq(s, i, Len(s))
           b == SubSeq(s, 1, i - 1)
           t == Rotated(s, first)
<1>1. Len(s) \in Nat /\ Len(s) >= 1 /\ DOMAIN s = 1 .. Len(s)
  OBVIOUS
<1>2. \E h \in 1 .. Len(s) : s[h] = first \/ (first \notin ToSet(s) /\ h = 1)
  BY <1>1 DEF ToSet
<1>3. i \in 1 .. Len(s)
  BY <1>2
<1>4. t = a \o b
  BY DEF Rotated
<1> HIDE DEF i, t
<1>5. \A h \in 1 .. Len(s) : s[h] \in Nodes
  OBVIOUS
<1>6. /\ a \in Seq(Nodes) /\ Len(a) = Len(s) - i + 1
      /\ \A h \in 1 .. Len(s) - i + 1 : a[h] = s[i + h - 1]
  <2>1. \A h \in i .. Len(s) : s[h] \in Nodes
    BY <1>1, <1>3, <1>5
  <2>2. QED
    BY <1>1, <1>3, <2>1, SubSeqProperties
<1>7. /\ b \in Seq(Nodes) /\ Len(b) = i - 1
      /\ \A h \in 1 .. i - 1 : b[h] = s[h]
  <2>1. \A h \in 1 .. i - 1 : s[h] \in Nodes
    BY <1>1, <1>3, <1>5
  <2>2. /\ b \in Seq(Nodes) /\ Len(b) = IF 1 <= i - 1 THEN i - 1 - 1 + 1 ELSE 0
        /\ \A h \in 1 .. i - 1 - 1 + 1 : b[h] = s[1 + h - 1]
    BY <1>1, <1>3, <2>1, SubSeqProperties
  <2>3. QED
    BY <1>3, <2>2
<1> HIDE DEF a, b
<1>8. /\ t \in Seq(Nodes) /\ Len(t) = Len(s) /\ DOMAIN t = 1 .. Len(s)
      /\ \A h \in 1 .. Len(s) : t[h] = IF h <= Len(s) - i + 1 THEN s[i + h - 1] ELSE s[h - (Len(s) - i + 1)]
  <2>1. /\ t \in Seq(Nodes) /\ Len(t) = Len(a) + Len(b)
        /\ \A h \in 1 .. Len(a) + Len(b) : t[h] = IF h <= Len(a) THEN a[h] ELSE b[h - Len(a)]
    BY <1>4, <1>6, <1>7, ConcatProperties
  <2>2. Len(t) = Len(s) /\ DOMAIN t = 1 .. Len(s)
    BY <1>1, <1>3, <1>6, <1>7, <2>1
  <2>3. ASSUME NEW h \in 1 .. Len(s)
        PROVE  t[h] = IF h <= Len(s) - i + 1 THEN s[i + h - 1] ELSE s[h - (Len(s) - i + 1)]
    <3>1. h \in 1 .. Len(a) + Len(b)
      BY <1>1, <1>3, <1>6, <1>7
    <3>2. CASE h <= Len(a)
      BY <1>1, <1>3, <1>6, <2>1, <3>1, <3>2
    <3>3. CASE ~(h <= Len(a))
      <4>1. h - Len(a) \in 1 .. i - 1
        BY <1>1, <1>3, <1>6, <3>3
      <4>2. QED
        BY <1>1, <1>3, <1>6, <1>7, <2>1, <3>1, <3>3, <4>1
    <3>4. QED
      BY <3>2, <3>3
  <2>4. QED
    BY <2>1, <2>2, <2>3
<1>9. IsInjective(t)
  <2>1. \A g, h \in 1 .. Len(s) : s[g] = s[h] => g = h
    BY <1>1 DEF IsInjective
  <2>2. ASSUME NEW g \in 1 .. Len(s), NEW h \in 1 .. Len(s), t[g] = t[h] PROVE g = h
    <3> DEFINE m == Len(s) - i + 1
    <3>1. /\ g <= m => i + g - 1 \in 1 .. Len(s)
          /\ h <= m => i + h - 1 \in 1 .. Len(s)
          /\ ~(g <= m) => g - m \in 1 .. Len(s) /\ g - m < i
          /\ ~(h <= m) => h - m \in 1 .. Len(s) /\ h - m < i
      BY <1>1, <1>3
    <3>2. CASE g <= m /\ h <= m
      <4>1. i + g - 1 = i + h - 1
        BY <1>8, <2>1, <2>2, <3>1, <3>2
      <4>2. QED
        BY <1>3, <4>1
    <3>3. CASE g <= m /\ ~(h <= m)
      <4>1. i + g - 1 = h - m
        BY <1>8, <2>1, <2>2, <3>1, <3>3
      <4>2. QED
        BY <1>3, <3>1, <3>3, <4>1
    <3>4. CASE ~(g <= m) /\ h <= m
      <4>1. g - m = i + h - 1
        BY <1>8, <2>1, <2>2, <3>1, <3>4
      <4>2. QED
        BY <1>3, <3>1, <3>4, <4>1
    <3>5. CASE ~(g <= m) /\ ~(h <= m)
      <4>1. g - m = h - m
        BY <1>8, <2>1, <2>2, <3>1, <3>5
      <4>2. QED
        BY <1>1, <1>3, <4>1
    <3>6. QED
      BY <3>2, <3>3, <3>4, <3>5
  <2>3. QED
    BY <1>8, <2>2 DEF IsInjective
<1>10. ToSet(t) = ToSet(s)
  <2>1. ASSUME NEW h \in 1 .. Len(s) PROVE \E g \in 1 .. Len(s) : s[g] = t[h]
    <3>1. CASE h <= Len(s) - i + 1
      <4>1. i + h - 1 \in 1 .. Len(s)
        BY <1>1, <1>3, <3>1
      <4>2. QED
        BY <1>8, <3>1, <4>1
    <3>2. CASE ~(h <= Len(s) - i + 1)
      <4>1. h - (Len(s) - i + 1) \in 1 .. Len(s)
        BY <1>1, <1>3, <3>2
      <4>2. QED
        BY <1>8, <3>2, <4>1
    <3>3. QED
      BY <3>1, <3>2
  <2>2. ASSUME NEW g \in 1 .. Len(s) PROVE \E h \in 1 .. Len(s) : t[h] = s[g]
    <3>1. CASE g >= i
      <4>1. PICK h \in 1 .. Len(s) : h = g - i + 1
        BY <1>1, <1>3, <3>1
      <4>2. h <= Len(s) - i + 1 /\ i + h - 1 = g
        BY <1>1, <1>3, <3>1, <4>1
      <4>3. t[h] = s[i + h - 1]
        BY <1>8, <4>2
      <4>4. QED
        BY <4>2, <4>3
    <3>2. CASE ~(g >= i)
      <4>1. PICK h \in 1 .. Len(s) : h = g + (Len(s) - i + 1)
        BY <1>1, <1>3, <3>2
      <4>2. ~(h <= Len(s) - i + 1) /\ h - (Len(s) - i + 1) = g
        BY <1>1, <1>3, <3>2, <4>1
      <4>3. t[h] = s[h - (Len(s) - i + 1)]
        BY <1>8, <4>2
      <4>4. QED
        BY <4>2, <4>3
    <3>3. QED
      BY <3>1, <3>2
  <2>3. ToSet(t) = {t[h] : h \in 1 .. Len(s)} /\ ToSet(s) = {s[h] : h \in 1 .. Len(s)}
    BY <1>1, <1>8 DEF ToSet
  <2>4. QED
    BY <2>1, <2>2, <2>3
<1>11. QED
  BY <1>8, <1>9, <1>10 DEF t

-----------------------------------------------------------------------------
(* Edited lists *)

(* What an edit makes of the list must be: the nodes once each, and the    *)
(* enabled ones among them.                                                *)
ListOK(nodes, on) == nodes \in Seq(Nodes) /\ IsInjective(nodes) /\ on \subseteq ToSet(nodes)

(* New nodes at the end. *)
LEMMA ListImported ==
  ASSUME NEW nodes, NEW on, ListOK(nodes, on),
         NEW added \in Seq(Nodes), IsInjective(added),
         \A n \in ToSet(added) : n \notin ToSet(nodes),
         NEW again \in SUBSET ToSet(nodes)
  PROVE  ListOK(nodes \o added, on \cup again \cup ToSet(added))
<1> DEFINE t == nodes \o added
<1>1. nodes \in Seq(Nodes) /\ Len(nodes) \in Nat /\ DOMAIN nodes = 1 .. Len(nodes)
  BY DEF ListOK
<1>2. Len(added) \in Nat /\ DOMAIN added = 1 .. Len(added)
  OBVIOUS
<1>3. /\ t \in Seq(Nodes) /\ Len(t) = Len(nodes) + Len(added)
      /\ \A i \in 1 .. Len(nodes) + Len(added) : t[i] =
           IF i <= Len(nodes) THEN nodes[i] ELSE added[i - Len(nodes)]
  BY <1>1, ConcatProperties
<1> HIDE DEF t
<1>4. DOMAIN t = 1 .. Len(nodes) + Len(added)
  BY <1>3
<1>5. ASSUME NEW i \in 1 .. Len(nodes) PROVE i \in DOMAIN t /\ t[i] = nodes[i]
  BY <1>1, <1>2, <1>3, <1>4
<1>6. ASSUME NEW i \in 1 .. Len(added)
      PROVE  \E h \in DOMAIN t : t[h] = added[i]
  <2>1. PICK h \in DOMAIN t : h = Len(nodes) + i
    BY <1>1, <1>2, <1>4
  <2>2. ~(h <= Len(nodes)) /\ h - Len(nodes) = i
    BY <1>1, <2>1
  <2>3. t[h] = added[h - Len(nodes)]
    BY <1>3, <1>4, <2>2
  <2>4. QED
    BY <2>2, <2>3
<1>7. ToSet(nodes) \subseteq ToSet(t) /\ ToSet(added) \subseteq ToSet(t)
  BY <1>1, <1>2, <1>5, <1>6 DEF ToSet
<1>8. ASSUME NEW i \in DOMAIN t
      PROVE  \/ i \in DOMAIN nodes /\ t[i] = nodes[i]
             \/ i - Len(nodes) \in DOMAIN added /\ t[i] = added[i - Len(nodes)]
  BY <1>1, <1>2, <1>3, <1>4
<1>9. ASSUME NEW g \in DOMAIN t, NEW h \in DOMAIN t, t[g] = t[h] PROVE g = h
  <2>1. g \in Int /\ h \in Int
    BY <1>4
  <2>2. CASE g \in DOMAIN nodes /\ t[g] = nodes[g] /\ h \in DOMAIN nodes /\ t[h] = nodes[h]
    BY <1>9, <2>2 DEF ListOK, IsInjective
  <2>3. CASE /\ g - Len(nodes) \in DOMAIN added /\ t[g] = added[g - Len(nodes)]
             /\ h - Len(nodes) \in DOMAIN added /\ t[h] = added[h - Len(nodes)]
    <3>1. g - Len(nodes) = h - Len(nodes)
      BY <1>9, <2>3 DEF IsInjective
    <3>2. QED
      BY <1>1, <2>1, <3>1
  <2>4. CASE /\ g \in DOMAIN nodes /\ t[g] = nodes[g]
             /\ h - Len(nodes) \in DOMAIN added /\ t[h] = added[h - Len(nodes)]
    BY <1>9, <2>4 DEF ToSet
  <2>5. CASE /\ h \in DOMAIN nodes /\ t[h] = nodes[h]
             /\ g - Len(nodes) \in DOMAIN added /\ t[g] = added[g - Len(nodes)]
    BY <1>9, <2>5 DEF ToSet
  <2>6. QED
    BY <1>8, <2>2, <2>3, <2>4, <2>5
<1>10. QED
  BY <1>3, <1>7, <1>9 DEF ListOK, IsInjective, t

(* One new node at the end, enabled or not. *)
LEMMA ListAppended ==
  ASSUME NEW nodes, NEW on, ListOK(nodes, on), NEW n \in Nodes, n \notin ToSet(nodes)
  PROVE  ListOK(Append(nodes, n), on) /\ ListOK(Append(nodes, n), on \cup {n})
<1> DEFINE t == Append(nodes, n)
<1>1. /\ nodes \in Seq(Nodes) /\ Len(nodes) \in Nat /\ DOMAIN nodes = 1 .. Len(nodes)
      /\ IsInjective(nodes) /\ on \subseteq ToSet(nodes)
  BY DEF ListOK
<1>2. /\ t \in Seq(Nodes) /\ DOMAIN t = 1 .. Len(nodes) + 1
      /\ \A i \in 1 .. Len(nodes) : t[i] = nodes[i]
      /\ t[Len(nodes) + 1] = n
  BY <1>1
<1> HIDE DEF t
<1>3. Len(nodes) + 1 \in DOMAIN t /\ DOMAIN nodes \subseteq DOMAIN t
  BY <1>1, <1>2
<1>4. ToSet(nodes) \subseteq ToSet(t) /\ n \in ToSet(t)
  BY <1>1, <1>2, <1>3 DEF ToSet
<1>5. \A i \in DOMAIN t : i \in DOMAIN nodes \/ i = Len(nodes) + 1
  BY <1>1, <1>2
<1>6. IsInjective(t)
  BY <1>1, <1>2, <1>5 DEF IsInjective, ToSet
<1>7. QED
  BY <1>1, <1>2, <1>4, <1>6 DEF ListOK, t

(* One node less. *)
LEMMA ListRemoved ==
  ASSUME NEW nodes, NEW on, ListOK(nodes, on), NEW i \in DOMAIN nodes
  PROVE  /\ ListOK(RemoveAt(nodes, i), on \ {nodes[i]})
         /\ Len(RemoveAt(nodes, i)) <= Len(nodes)
<1> DEFINE a == SubSeq(nodes, 1, i - 1)
           b == SubSeq(nodes, i + 1, Len(nodes))
           t == RemoveAt(nodes, i)
<1>1. /\ nodes \in Seq(Nodes) /\ Len(nodes) \in Nat /\ DOMAIN nodes = 1 .. Len(nodes)
      /\ IsInjective(nodes) /\ on \subseteq ToSet(nodes)
      /\ \A h \in 1 .. Len(nodes) : nodes[h] \in Nodes
      /\ i \in 1 .. Len(nodes)
  BY DEF ListOK
<1>2. t = a \o b
  BY DEF RemoveAt
<1> HIDE DEF t
<1>3. /\ a \in Seq(Nodes) /\ Len(a) = i - 1
      /\ \A h \in 1 .. i - 1 : a[h] = nodes[h]
  <2>1. \A h \in 1 .. i - 1 : nodes[h] \in Nodes
    BY <1>1
  <2>2. /\ a \in Seq(Nodes) /\ Len(a) = IF 1 <= i - 1 THEN i - 1 - 1 + 1 ELSE 0
        /\ \A h \in 1 .. i - 1 - 1 + 1 : a[h] = nodes[1 + h - 1]
    BY <1>1, <2>1, SubSeqProperties
  <2>3. QED
    BY <1>1, <2>2
<1>4. /\ b \in Seq(Nodes) /\ Len(b) = Len(nodes) - i
      /\ \A h \in 1 .. Len(nodes) - i : b[h] = nodes[i + h]
  <2>1. \A h \in i + 1 .. Len(nodes) : nodes[h] \in Nodes
    BY <1>1
  <2>2. /\ b \in Seq(Nodes) /\ Len(b) = IF i + 1 <= Len(nodes) THEN Len(nodes) - (i + 1) + 1 ELSE 0
        /\ \A h \in 1 .. Len(nodes) - (i + 1) + 1 : b[h] = nodes[i + 1 + h - 1]
    BY <1>1, <2>1, SubSeqProperties
  <2>3. QED
    BY <1>1, <2>2
<1> HIDE DEF a, b
<1>5. /\ t \in Seq(Nodes) /\ DOMAIN t = 1 .. Len(nodes) - 1 /\ Len(t) = Len(nodes) - 1
      /\ \A h \in 1 .. Len(nodes) - 1 : t[h] = IF h <= i - 1 THEN nodes[h] ELSE nodes[h + 1]
  <2>1. /\ t \in Seq(Nodes) /\ Len(t) = Len(a) + Len(b)
        /\ \A h \in 1 .. Len(a) + Len(b) : t[h] = IF h <= Len(a) THEN a[h] ELSE b[h - Len(a)]
    BY <1>2, <1>3, <1>4, ConcatProperties
  <2>2. Len(t) = Len(nodes) - 1 /\ DOMAIN t = 1 .. Len(nodes) - 1
    BY <1>1, <1>3, <1>4, <2>1
  <2>3. ASSUME NEW h \in 1 .. Len(nodes) - 1
        PROVE  t[h] = IF h <= i - 1 THEN nodes[h] ELSE nodes[h + 1]
    <3>1. h \in 1 .. Len(a) + Len(b)
      BY <1>1, <1>3, <1>4
    <3>2. CASE h <= i - 1
      BY <1>1, <1>3, <2>1, <3>1, <3>2
    <3>3. CASE ~(h <= i - 1)
      <4>1. PICK g \in 1 .. Len(nodes) - i : g = h - (i - 1)
        BY <1>1, <3>3
      <4>2. t[h] = b[g] /\ i + g = h + 1
        BY <1>1, <1>3, <2>1, <3>1, <3>3, <4>1
      <4>3. QED
        BY <1>4, <3>3, <4>2
    <3>4. QED
      BY <3>2, <3>3
  <2>4. QED
    BY <2>1, <2>2, <2>3
<1>6. IsInjective(t)
  <2>1. ASSUME NEW g \in DOMAIN t, NEW h \in DOMAIN t, t[g] = t[h] PROVE g = h
    <3> DEFINE place(k) == IF k <= i - 1 THEN k ELSE k + 1
    <3>1. g \in Int /\ h \in Int /\ place(g) \in DOMAIN nodes /\ place(h) \in DOMAIN nodes
      BY <1>1, <1>5
    <3>2. t[g] = nodes[place(g)] /\ t[h] = nodes[place(h)]
      BY <1>5
    <3>3. place(g) = place(h)
      BY <1>1, <2>1, <3>1, <3>2 DEF IsInjective
    <3>4. QED
      BY <1>1, <3>1, <3>3
  <2>2. QED
    BY <2>1 DEF IsInjective
<1>7. ASSUME NEW n \in on \ {nodes[i]} PROVE n \in ToSet(t)
  <2>1. PICK h \in DOMAIN nodes : nodes[h] = n
    BY <1>1 DEF ToSet
  <2>2. h # i /\ h \in 1 .. Len(nodes)
    BY <1>1, <2>1
  <2>3. CASE h < i
    <3>1. h \in DOMAIN t /\ h <= i - 1
      BY <1>1, <1>5, <2>2, <2>3
    <3>2. t[h] = nodes[h]
      BY <1>5, <3>1
    <3>3. QED
      BY <2>1, <3>1, <3>2 DEF ToSet
  <2>4. CASE h > i
    <3>1. PICK g \in DOMAIN t : g = h - 1
      BY <1>1, <1>5, <2>2, <2>4
    <3>2. ~(g <= i - 1) /\ g + 1 = h
      BY <1>1, <2>2, <2>4, <3>1
    <3>3. t[g] = nodes[g + 1]
      BY <1>5, <3>2
    <3>4. QED
      BY <2>1, <3>2, <3>3 DEF ToSet
  <2>5. QED
    BY <1>1, <2>2, <2>3, <2>4
<1>8. Len(t) <= Len(nodes)
  BY <1>1, <1>5
<1>9. QED
  BY <1>5, <1>6, <1>7, <1>8 DEF ListOK, t

(* Two nodes change places. *)
LEMMA ListSwapped ==
  ASSUME NEW nodes, NEW on, ListOK(nodes, on), NEW i \in DOMAIN nodes, NEW j \in DOMAIN nodes
  PROVE  /\ ListOK([nodes EXCEPT ![i] = nodes[j], ![j] = nodes[i]], on)
         /\ Len([nodes EXCEPT ![i] = nodes[j], ![j] = nodes[i]]) = Len(nodes)
<1> DEFINE t == [nodes EXCEPT ![i] = nodes[j], ![j] = nodes[i]]
<1>1. /\ nodes \in Seq(Nodes) /\ DOMAIN nodes = 1 .. Len(nodes) /\ Len(nodes) \in Nat
      /\ nodes \in [1 .. Len(nodes) -> Nodes]
      /\ IsInjective(nodes) /\ on \subseteq ToSet(nodes)
  BY DEF ListOK
<1>2. /\ DOMAIN t = DOMAIN nodes /\ t \in [1 .. Len(nodes) -> Nodes]
      /\ t[j] = nodes[i]
      /\ i # j => t[i] = nodes[j]
      /\ \A h \in DOMAIN nodes : h # i /\ h # j => t[h] = nodes[h]
  BY <1>1
<1> HIDE DEF t
<1>3. t \in Seq(Nodes) /\ Len(t) = Len(nodes)
  BY <1>1, <1>2
<1>4. IsInjective(t)
  BY <1>1, <1>2 DEF IsInjective
<1>5. ToSet(nodes) \subseteq ToSet(t)
  BY <1>1, <1>2 DEF ToSet
<1>6. QED
  BY <1>1, <1>3, <1>4, <1>5 DEF ListOK, t
-----------------------------------------------------------------------------
(* The inductive invariant *)

(* A pool, in memory or on disk, as every edit leaves it. *)
Usable(d) ==
  /\ d \in DataType /\ ListOK(d.nodes, d.on)
  /\ d.enabled => d.profile # None /\ d.on # {}
  /\ IF d.on = {} THEN d.nextId = None ELSE d.nextId \in d.on

DataInv ==
  /\ Usable(data) /\ (disk # None => Usable(disk))
  /\ {invalid, available} \subseteq BOOLEAN /\ boots \in Nat
  /\ ~invalid => data = IF disk = None THEN Empty ELSE disk
  /\ invalid => data = Empty

SideInv ==
  /\ IsFiniteSet(checking) /\ checking \subseteq Nodes /\ Cardinality(checking) <= MaxChecks
  /\ shown \subseteq Nodes

(* A round is over the nodes enabled now. *)
ScanFits(scan) ==
  scan # None =>
    /\ scan.gen = generation /\ scan.offset <= Len(scan.ids)
    /\ IsInjective(scan.ids) /\ ToSet(scan.ids) = data.on

(* The nodes a round has given out. *)
GivenOut(scan) == IF scan = None THEN {} ELSE {scan.ids[k] : k \in 1 .. scan.offset}

(* A probe that was not cut off is of this generation; one of this         *)
(* generation was sent under the pool as it is, which is on.  Of what a    *)
(* job has tried in this generation its round knows.                       *)
JobFits(job, scan) ==
  /\ job.phase = "remote" =>
       /\ job.gen <= generation
       /\ ~job.cut => job.gen = generation
       /\ job.gen = generation =>
            /\ data.enabled /\ job.node \in data.on
            /\ job.from = [on |-> data.on, profile |-> data.profile]
  /\ job.phase # "idle" =>
       /\ job.triedIn <= generation
       /\ job.triedIn = generation => job.tried \subseteq GivenOut(scan)

RoundInv ==
  /\ generation \in Nat
  /\ scans \in [Jobs -> {None} \cup ScanType] /\ jobs \in [Jobs -> JobType]
  /\ \A j \in Jobs : ScanFits(scans[j]) /\ JobFits(jobs[j], scans[j])

PoolInv == DataInv /\ SideInv /\ RoundInv

(* The type of a job, phase by phase. *)
LEMMA JobShapes ==
  ASSUME NEW job \in JobType
  PROVE  /\ job.phase = "idle" => job = Idle
         /\ job.phase \in {"between", "local"} => job \in LocalJob
         /\ job.phase = "remote" => job \in RemoteJob
         /\ job.phase \in {"idle", "between", "local", "remote"}
BY DEF JobType, Idle, LocalJob, RemoteJob

(* Telling a job to stop changes nothing else about it. *)
LEMMA CutOffTyped ==
  ASSUME NEW job \in JobType
  PROVE  /\ CutOff(job) \in JobType
         /\ CutOff(job).phase = job.phase
         /\ job.phase = "remote" => CutOff(job) \in RemoteJob /\ CutOff(job).cut /\ CutOff(job).gen = job.gen
         /\ job.phase # "remote" => CutOff(job) = job
         /\ job.phase # "idle" => CutOff(job).tried = job.tried /\ CutOff(job).triedIn = job.triedIn
         /\ job.phase # "idle" =>
              /\ [CutOff(job) EXCEPT !.stopped = TRUE] \in JobType
              /\ [CutOff(job) EXCEPT !.stopped = TRUE].phase = job.phase
              /\ [CutOff(job) EXCEPT !.stopped = TRUE].tried = job.tried
              /\ [CutOff(job) EXCEPT !.stopped = TRUE].triedIn = job.triedIn
              /\ job.phase = "remote" =>
                   /\ [CutOff(job) EXCEPT !.stopped = TRUE].cut
                   /\ [CutOff(job) EXCEPT !.stopped = TRUE].gen = job.gen
                   /\ [CutOff(job) EXCEPT !.stopped = TRUE].node = job.node
                   /\ [CutOff(job) EXCEPT !.stopped = TRUE].from = job.from
<1>1. CASE job.phase = "remote"
  <2>1. job \in RemoteJob
    BY <1>1, JobShapes
  <2>2. CutOff(job) = [job EXCEPT !.cut = TRUE]
    BY <1>1 DEF CutOff
  <2>3. CutOff(job) \in RemoteJob /\ CutOff(job).cut /\ CutOff(job).gen = job.gen
        /\ CutOff(job).phase = job.phase /\ CutOff(job).tried = job.tried
        /\ CutOff(job).triedIn = job.triedIn /\ CutOff(job).node = job.node
        /\ CutOff(job).from = job.from
    BY <2>1, <2>2 DEF RemoteJob
  <2> DEFINE c == CutOff(job)
             s == [c EXCEPT !.stopped = TRUE]
  <2> HIDE DEF c
  <2>4. s \in RemoteJob /\ s.cut /\ s.gen = c.gen /\ s.phase = c.phase /\ s.tried = c.tried
        /\ s.triedIn = c.triedIn /\ s.node = c.node /\ s.from = c.from
    BY <2>3 DEF RemoteJob, c
  <2>5. RemoteJob \subseteq JobType
    BY DEF RemoteJob, JobType
  <2>6. QED
    BY <1>1, <2>3, <2>4, <2>5 DEF c
<1>2. CASE job.phase \in {"between", "local"}
  <2>1. job \in LocalJob /\ CutOff(job) = job
    BY <1>2, JobShapes DEF CutOff
  <2>2. /\ [job EXCEPT !.stopped = TRUE] \in LocalJob
        /\ [job EXCEPT !.stopped = TRUE].phase = job.phase
        /\ [job EXCEPT !.stopped = TRUE].tried = job.tried
        /\ [job EXCEPT !.stopped = TRUE].triedIn = job.triedIn
    BY <2>1 DEF LocalJob
  <2>3. LocalJob \subseteq JobType
    BY DEF LocalJob, JobType
  <2>4. QED
    BY <1>2, <2>1, <2>2, <2>3
<1>3. CASE job.phase = "idle"
  BY <1>3 DEF CutOff
<1>4. QED
  BY <1>1, <1>2, <1>3, JobShapes

(* No empty pool is unusable. *)
LEMMA EmptyUsable == Usable(Empty)
<1>1. <<>> \in Seq(Nodes) /\ IsInjective(<<>>) /\ Len(<<>>) = 0
  BY DEF IsInjective
<1>2. <<>> \in BoundedSeq(Nodes, MaxNodes)
  <2>1. MaxNodes \in Nat /\ 0 <= MaxNodes
    BY PoolAssumption
  <2>2. QED
    BY <1>1, <2>1, BoundedSequences
<1>3. QED
  BY <1>1, <1>2 DEF Usable, Empty, DataType, ListOK

(* A new pool is usable, nothing is asked.                                 *)
LEMMA PoolStart == Init => PoolInv
<1> SUFFICES ASSUME Init PROVE PoolInv
  OBVIOUS
<1>1. DataInv
  BY EmptyUsable DEF Init, DataInv
<1>2. SideInv
  BY FS_EmptySet, PoolAssumption DEF Init, SideInv
<1>3. RoundInv
  <2>1. Idle \in JobType
    BY DEF JobType
  <2>2. \A j \in Jobs : scans[j] = None /\ jobs[j] = Idle
    BY DEF Init
  <2>3. \A j \in Jobs : ScanFits(scans[j]) /\ JobFits(jobs[j], scans[j])
    BY <2>2 DEF ScanFits, JobFits, Idle
  <2>4. QED
    BY <2>1, <2>3 DEF Init, RoundInv
<1>4. QED
  BY <1>1, <1>2, <1>3 DEF PoolInv

-----------------------------------------------------------------------------
(* Edits *)

(* Counting the generation up makes every round and every probe in flight  *)
(* one of an earlier pool, whatever the pool becomes.                      *)
LEMMA MovedOn ==
  ASSUME RoundInv, generation' = generation + 1, scans' = [j \in Jobs |-> None],
         jobs' \in [Jobs -> JobType],
         \A j \in Jobs :
           /\ jobs'[j].phase = jobs[j].phase
           /\ jobs[j].phase = "remote" => jobs'[j].cut /\ jobs'[j].gen = jobs[j].gen
           /\ jobs[j].phase # "idle" => jobs'[j].triedIn = jobs[j].triedIn
  PROVE  RoundInv'
<1>1. generation \in Nat /\ generation' \in Nat
  BY DEF RoundInv
<1>2. scans' \in [Jobs -> {None} \cup ScanType]
  OBVIOUS
<1>3. ASSUME NEW j \in Jobs PROVE ScanFits(scans[j])' /\ JobFits(jobs[j], scans[j])'
  <2>1. JobFits(jobs[j], scans[j]) /\ jobs[j] \in JobType
    BY DEF RoundInv
  <2>2. jobs[j].phase = "remote" => jobs[j].gen \in Nat /\ jobs[j].gen <= generation
    BY <2>1, JobShapes DEF JobFits, RemoteJob
  <2>3. jobs[j].phase # "idle" => jobs[j].triedIn \in Nat /\ jobs[j].triedIn <= generation
    BY <2>1, JobShapes DEF JobFits, RemoteJob, LocalJob
  <2>4. ScanFits(scans[j])'
    BY DEF ScanFits
  <2>5. jobs[j].phase = "remote" => jobs'[j].gen <= generation' /\ jobs'[j].gen # generation'
    BY <1>1, <2>2
  <2>6. jobs[j].phase # "idle" => jobs'[j].triedIn <= generation' /\ jobs'[j].triedIn # generation'
    BY <1>1, <2>3
  <2>7. QED
    BY <2>4, <2>5, <2>6 DEF JobFits
<1>4. QED
  BY <1>1, <1>2, <1>3 DEF RoundInv

(* Cancelling ends every round and cuts every probe off.                   *)
LEMMA CancelKeeps ==
  ASSUME RoundInv, Cancel
  PROVE  RoundInv'
<1>1. jobs \in [Jobs -> JobType] /\ jobs' = [j \in Jobs |-> CutOff(jobs[j])]
  BY DEF RoundInv, Cancel
<1>2. \A j \in Jobs : jobs[j] \in JobType /\ jobs'[j] = CutOff(jobs[j])
  BY <1>1
<1>3. jobs' \in [Jobs -> JobType]
  BY <1>1, <1>2, CutOffTyped
<1>4. ASSUME NEW j \in Jobs
      PROVE  /\ jobs'[j].phase = jobs[j].phase
             /\ jobs[j].phase = "remote" => jobs'[j].cut /\ jobs'[j].gen = jobs[j].gen
             /\ jobs[j].phase # "idle" => jobs'[j].triedIn = jobs[j].triedIn
  <2>1. PICK job, cut : job = jobs[j] /\ cut = jobs'[j]
    OBVIOUS
  <2>2. job \in JobType /\ cut = CutOff(job)
    BY <1>2, <2>1
  <2>3. /\ cut.phase = job.phase
        /\ job.phase = "remote" => cut.cut /\ cut.gen = job.gen
        /\ job.phase # "idle" => cut.triedIn = job.triedIn
    BY <2>2, CutOffTyped
  <2>4. QED
    BY <2>1, <2>3
<1>5. QED
  BY <1>3, <1>4, MovedOn DEF Cancel

(* What an edit ends with, once the pool it makes is usable. *)
LEMMA ReplacedKeeps ==
  ASSUME PoolInv, NEW d, Usable(d), Persist(d), Cancel,
         UNCHANGED <<invalid, available, checking, shown, boots>>
  PROVE  PoolInv'
<1>1. d # None
  BY PoolAssumption DEF Usable
<1>2. DataInv'
  BY <1>1 DEF PoolInv, DataInv, Persist, Usable
<1>3. SideInv'
  BY DEF PoolInv, SideInv
<1>4. RoundInv'
  BY CancelKeeps DEF PoolInv
<1>5. QED
  BY <1>2, <1>3, <1>4 DEF PoolInv

(* Every edit of the list leaves a pool that can be used: the cursor and   *)
(* the switch follow the list.                                             *)
LEMMA MutateKeeps ==
  ASSUME PoolInv, NEW nodes, NEW on, ListOK(nodes, on), Mutate(nodes, on)
  PROVE  PoolInv'
<1> DEFINE first == FirstEnabled([nodes |-> nodes, on |-> on])
           d == [data EXCEPT !.nodes = nodes, !.on = on,
                   !.nextId = IF @ \in on THEN @ ELSE first, !.enabled = @ /\ on # {}]
<1>1. /\ nodes \in Seq(Nodes) /\ Len(nodes) <= MaxNodes /\ IsInjective(nodes)
      /\ on \subseteq ToSet(nodes)
  BY DEF ListOK, Mutate
<1>2. on \subseteq Nodes
  BY <1>1 DEF ToSet
<1>3. IF on = {} THEN first = None ELSE first \in on
  BY <1>1, FirstOfEnabled
<1> HIDE DEF first
<1>4. Usable(data) /\ data \in DataType
  BY DEF PoolInv, DataInv, Usable
<1>5. /\ data.enabled \in BOOLEAN /\ data.nextId \in Nodes \cup {None}
      /\ data.enabled => data.profile # None
  BY <1>4 DEF DataType, Usable
<1>6. nodes \in BoundedSeq(Nodes, MaxNodes)
  BY <1>1, BoundedSequences, PoolAssumption
<1>7. /\ d.nodes = nodes /\ d.on = on /\ d.profile = data.profile
      /\ d.enabled = (data.enabled /\ on # {})
      /\ d.nextId = IF data.nextId \in on THEN data.nextId ELSE first
  BY <1>4 DEF DataType
<1>8. d \in DataType
  BY <1>2, <1>3, <1>4, <1>5, <1>6 DEF DataType
<1>9. Persist(d) /\ Cancel /\ UNCHANGED <<invalid, available, checking, shown, boots>>
  BY DEF Mutate, first
<1> HIDE DEF d
<1>10. Usable(d)
  BY <1>3, <1>5, <1>7, <1>8 DEF Usable
<1>11. QED
  BY <1>9, <1>10, ReplacedKeeps

(* An edit leaves a usable pool, and no round of the pool before it.       *)
LEMMA EditKeeps ==
  ASSUME PoolInv, Edit
  PROVE  PoolInv'
<1>1. /\ Usable(data) /\ ListOK(data.nodes, data.on) /\ Listed = ToSet(data.nodes)
      /\ data \in DataType /\ data.on \subseteq Listed
  BY DEF PoolInv, DataInv, Usable, ListOK, Listed
<1>2. data.nodes \in Seq(Nodes) /\ Listed \subseteq Nodes
  BY <1>1 DEF ListOK, ToSet
<1>3. ASSUME ImportNodes PROVE PoolInv'
  <2>1. PICK again \in SUBSET Listed, added \in BoundedSeq(Unused, MaxNodes) :
          /\ IsInjective(added)
          /\ Mutate(data.nodes \o added, data.on \cup again \cup ToSet(added))
    BY <1>3 DEF ImportNodes
  <2>2. added \in Seq(Unused)
    BY <2>1, BoundedSequences, PoolAssumption
  <2>3. added \in Seq(Nodes) /\ \A n \in ToSet(added) : n \notin ToSet(data.nodes)
    <3>1. Unused \subseteq Nodes /\ \A n \in Unused : n \notin Listed
      BY DEF Unused
    <3>2. added \in Seq(Nodes)
      BY <2>2, <3>1
    <3>3. QED
      BY <1>1, <2>2, <3>1, <3>2 DEF ToSet
  <2>4. ListOK(data.nodes \o added, data.on \cup again \cup ToSet(added))
    BY <1>1, <2>1, <2>3, ListImported
  <2>5. QED
    BY <2>1, <2>4, MutateKeeps
<1>4. ASSUME SaveNode PROVE PoolInv'
  <2>1. PICK on \in BOOLEAN :
          \/ \E n \in Unused :
               Mutate(Append(data.nodes, n), IF on THEN data.on \cup {n} ELSE data.on)
          \/ \E n \in Listed : Mutate(data.nodes, IF on THEN data.on \cup {n} ELSE data.on \ {n})
    BY <1>4 DEF SaveNode
  <2>2. ASSUME NEW n \in Unused,
               Mutate(Append(data.nodes, n), IF on THEN data.on \cup {n} ELSE data.on)
        PROVE  PoolInv'
    <3>1. n \in Nodes /\ n \notin ToSet(data.nodes)
      BY <1>1 DEF Unused
    <3>2. ListOK(Append(data.nodes, n), IF on THEN data.on \cup {n} ELSE data.on)
      BY <1>1, <3>1, ListAppended
    <3>3. QED
      BY <2>2, <3>2, MutateKeeps
  <2>3. ASSUME NEW n \in Listed, Mutate(data.nodes, IF on THEN data.on \cup {n} ELSE data.on \ {n})
        PROVE  PoolInv'
    <3>1. ListOK(data.nodes, IF on THEN data.on \cup {n} ELSE data.on \ {n})
      BY <1>1 DEF ListOK
    <3>2. QED
      BY <2>3, <3>1, MutateKeeps
  <2>4. QED
    BY <2>1, <2>2, <2>3
<1>5. ASSUME DeleteNode PROVE PoolInv'
  <2>1. PICK i \in DOMAIN data.nodes : Mutate(RemoveAt(data.nodes, i), data.on \ {data.nodes[i]})
    BY <1>5 DEF DeleteNode
  <2>2. QED
    BY <1>1, <2>1, ListRemoved, MutateKeeps
<1>6. ASSUME MoveNode PROVE PoolInv'
  <2>1. PICK i \in DOMAIN data.nodes, j \in DOMAIN data.nodes :
          Mutate([data.nodes EXCEPT ![i] = data.nodes[j], ![j] = data.nodes[i]], data.on)
    BY <1>6 DEF MoveNode
  <2>2. QED
    BY <1>1, <2>1, ListSwapped, MutateKeeps
<1>7. ASSUME SetProfile PROVE PoolInv'
  <2>1. PICK profile \in Profiles \cup {None} :
          /\ Persist([data EXCEPT !.profile = profile, !.enabled = @ /\ profile # None])
          /\ Cancel
          /\ UNCHANGED <<invalid, available, checking, shown, boots>>
    BY <1>7 DEF SetProfile
  <2>2. Usable([data EXCEPT !.profile = profile, !.enabled = @ /\ profile # None])
    BY <1>1 DEF Usable, DataType
  <2>3. QED
    BY <2>1, <2>2, ReplacedKeeps
<1>8. ASSUME SetEnabled PROVE PoolInv'
  <2>1. PICK enabled \in BOOLEAN :
          /\ enabled => Ready /\ data.on # {}
          /\ Persist([data EXCEPT !.enabled = enabled])
          /\ Cancel
          /\ UNCHANGED <<invalid, available, checking, shown, boots>>
    BY <1>8 DEF SetEnabled
  <2>2. enabled => data.profile # None /\ data.on # {}
    BY <2>1 DEF Ready, Resolves
  <2>3. Usable([data EXCEPT !.enabled = enabled])
    BY <1>1, <2>2 DEF Usable, DataType
  <2>4. QED
    BY <2>1, <2>3, ReplacedKeeps
<1>9. QED
  BY <1>3, <1>4, <1>5, <1>6, <1>7, <1>8 DEF Edit

(* The switch changes no pool, ends the rounds and stops the jobs.         *)
LEMMA SwitchKeeps ==
  ASSUME PoolInv, SwitchProcessing
  PROVE  PoolInv'
<1>1. DataInv' /\ SideInv'
  BY DEF PoolInv, DataInv, SideInv, SwitchProcessing
<1>2. jobs \in [Jobs -> JobType] /\ RoundInv
  BY DEF PoolInv, RoundInv
<1>3. ASSUME NEW j \in Jobs
      PROVE  /\ jobs'[j] \in JobType /\ jobs'[j].phase = jobs[j].phase
             /\ jobs[j].phase = "remote" => jobs'[j].cut /\ jobs'[j].gen = jobs[j].gen
             /\ jobs[j].phase # "idle" => jobs'[j].triedIn = jobs[j].triedIn
  <2>1. jobs[j] \in JobType
    BY <1>2
  <2>2. jobs'[j] = IF jobs[j].phase = "idle" THEN Idle ELSE [CutOff(jobs[j]) EXCEPT !.stopped = TRUE]
    BY DEF SwitchProcessing
  <2>3. CASE jobs[j].phase = "idle"
    BY <2>1, <2>2, <2>3 DEF Idle, JobType
  <2>4. CASE jobs[j].phase # "idle"
    BY <2>1, <2>2, <2>4, CutOffTyped
  <2>5. QED
    BY <2>3, <2>4
<1>4. jobs' \in [Jobs -> JobType]
  <2>1. DOMAIN jobs' = Jobs /\ jobs' = [j \in Jobs |-> jobs'[j]]
    BY DEF SwitchProcessing
  <2>2. QED
    BY <1>3, <2>1
<1>5. RoundInv'
  BY <1>2, <1>3, <1>4, MovedOn DEF SwitchProcessing
<1>6. QED
  BY <1>1, <1>5 DEF PoolInv
-----------------------------------------------------------------------------
(* Jobs *)

(* One job moves, in the pool as it is: only its own fit is in question. *)
LEMMA JobMoves ==
  ASSUME RoundInv, NEW j \in Jobs, NEW job \in JobType, NEW scan \in {None} \cup ScanType,
         ScanFits(scan), JobFits(job, scan),
         jobs' = [jobs EXCEPT ![j] = job], scans' = [scans EXCEPT ![j] = scan],
         generation' = generation,
         data'.on = data.on, data'.enabled = data.enabled, data'.profile = data.profile
  PROVE  RoundInv'
<1>1. /\ generation \in Nat /\ scans \in [Jobs -> {None} \cup ScanType] /\ jobs \in [Jobs -> JobType]
      /\ \A k \in Jobs : ScanFits(scans[k]) /\ JobFits(jobs[k], scans[k])
  BY DEF RoundInv
<1>2. scans' \in [Jobs -> {None} \cup ScanType] /\ jobs' \in [Jobs -> JobType]
  BY <1>1
<1>3. ASSUME NEW k \in Jobs PROVE ScanFits(scans[k])' /\ JobFits(jobs[k], scans[k])'
  <2>1. CASE k = j
    <3>1. scans'[k] = scan /\ jobs'[k] = job
      BY <1>1, <2>1
    <3>2. QED
      BY <3>1 DEF ScanFits, JobFits
  <2>2. CASE k # j
    <3>1. scans'[k] = scans[k] /\ jobs'[k] = jobs[k]
      BY <1>1, <2>2
    <3>2. ScanFits(scans[k]) /\ JobFits(jobs[k], scans[k])
      BY <1>1
    <3>3. QED
      BY <3>1, <3>2 DEF ScanFits, JobFits
  <2>3. QED
    BY <2>1, <2>2
<1>4. QED
  BY <1>1, <1>2, <1>3 DEF RoundInv

(* A job that ends leaves nothing behind. *)
LEMMA OverKeeps ==
  ASSUME RoundInv, NEW j \in Jobs, JobOver(j), generation' = generation, data' = data
  PROVE  RoundInv'
<1>1. Idle \in JobType /\ ScanFits(None) /\ JobFits(Idle, None)
  BY DEF JobType, ScanFits, JobFits, Idle
<1>2. QED
  BY <1>1, JobMoves DEF JobOver, Become

(* The job's round, or the one it would begin now, is over the pool as it  *)
(* is, and knows what the job has tried.                                   *)
LEMMA RoundFits ==
  ASSUME PoolInv, NEW j \in Jobs
  PROVE  /\ Scan(j) \in ScanType /\ ScanFits(Scan(j)) /\ Scan(j) # None
         /\ GivenOut(scans[j]) \subseteq GivenOut(Scan(j))
<1>1. scans[j] \in {None} \cup ScanType /\ ScanFits(scans[j]) /\ generation \in Nat
  BY DEF PoolInv, RoundInv
<1>2. CASE scans[j] # None
  BY <1>1, <1>2 DEF Scan
<1>3. CASE scans[j] = None
  <2> DEFINE ids == EnabledNodes(data)
             round == IF ids = <<>> THEN <<>> ELSE Rotated(ids, data.nextId)
  <2>1. Usable(data)
    BY DEF PoolInv, DataInv
  <2>2. /\ data.nodes \in Seq(Nodes) /\ IsInjective(data.nodes) /\ data.on \subseteq ToSet(data.nodes)
        /\ data.nodes \in BoundedSeq(Nodes, MaxNodes)
    BY <2>1 DEF Usable, ListOK, DataType
  <2>3. MaxNodes \in Nat /\ Len(data.nodes) \in Nat /\ Len(data.nodes) <= MaxNodes
    BY <2>2, BoundedSequences, PoolAssumption
  <2>4. /\ ids \in Seq(Nodes) /\ Len(ids) <= Len(data.nodes) /\ IsInjective(ids)
        /\ ToSet(ids) = data.on
    BY <2>2, EnabledOnce
  <2>5. Scan(j) = [gen |-> generation, offset |-> 0, ids |-> round]
    BY <1>3 DEF Scan, NewScan
  <2> HIDE DEF ids
  <2>6. round \in Seq(Nodes) /\ Len(round) = Len(ids) /\ IsInjective(round) /\ ToSet(round) = data.on
    BY <2>4, RotationKeeps
  <2>7. Len(round) \in Nat /\ Len(round) <= MaxNodes
    BY <2>3, <2>4, <2>6
  <2> HIDE DEF round
  <2>8. round \in BoundedSeq(Nodes, MaxNodes)
    BY <2>3, <2>6, <2>7, BoundedSequences
  <2>9. Scan(j) \in ScanType
    BY <1>1, <2>5, <2>8 DEF ScanType
  <2>10. ScanFits(Scan(j))
    BY <2>5, <2>6, <2>7 DEF ScanFits
  <2>11. Scan(j) # None
    BY <2>9, PoolAssumption
  <2>12. QED
    BY <1>3, <2>9, <2>10, <2>11 DEF GivenOut
<1>4. QED
  BY <1>2, <1>3

(* The next node of a round that is not used up: enabled, not given out,   *)
(* and given out afterwards.                                               *)
LEMMA NextOfRound ==
  ASSUME PoolInv, NEW j \in Jobs, ~Exhausted(Scan(j)), NEW scan, scan = Scan(j),
         NEW node, node = scan.ids[(scan.offset % Len(scan.ids)) + 1]
  PROVE  /\ node \in data.on /\ node \notin GivenOut(scan)
         /\ [scan EXCEPT !.offset = @ + 1] \in ScanType
         /\ ScanFits([scan EXCEPT !.offset = @ + 1])
         /\ GivenOut([scan EXCEPT !.offset = @ + 1]) = GivenOut(scan) \cup {node}
<1>1. /\ scan \in ScanType /\ scan # None
      /\ scan.gen = generation /\ scan.offset <= Len(scan.ids)
      /\ IsInjective(scan.ids) /\ ToSet(scan.ids) = data.on
  BY RoundFits DEF ScanFits
<1>2. /\ scan.ids \in BoundedSeq(Nodes, MaxNodes) /\ scan.offset \in Nat
      /\ MaxNodes \in Nat
  BY <1>1, PoolAssumption DEF ScanType
<1>3. /\ scan.ids \in Seq(Nodes) /\ Len(scan.ids) \in Nat
      /\ DOMAIN scan.ids = 1 .. Len(scan.ids)
  BY <1>2, BoundedSequences
<1>4. ~(scan.offset >= Len(scan.ids))
  BY DEF Exhausted
<1>5. scan.offset + 1 \in 1 .. Len(scan.ids)
  BY <1>2, <1>3, <1>4
<1>6. scan.offset % Len(scan.ids) = scan.offset
  BY <1>2, <1>3, <1>4
<1>7. node = scan.ids[scan.offset + 1]
  BY <1>6
<1>8. node \in data.on
  BY <1>1, <1>3, <1>5, <1>7 DEF ToSet
<1>9. node \notin GivenOut(scan)
  <2>1. ASSUME NEW k \in 1 .. scan.offset, scan.ids[k] = node PROVE FALSE
    <3>1. k \in 1 .. Len(scan.ids) /\ k # scan.offset + 1
      BY <1>2, <1>3, <1>5
    <3>2. QED
      BY <1>1, <1>3, <1>5, <1>7, <2>1, <3>1 DEF IsInjective
  <2>2. QED
    BY <1>1, <2>1 DEF GivenOut
<1> DEFINE next == [scan EXCEPT !.offset = @ + 1]
<1>10. /\ next.ids = scan.ids /\ next.gen = scan.gen /\ next.offset = scan.offset + 1
       /\ next \in ScanType
  BY <1>1, <1>2 DEF ScanType
<1> HIDE DEF next
<1>11. next # None
  BY <1>10, PoolAssumption
<1>12. ScanFits(next)
  BY <1>1, <1>5, <1>10 DEF ScanFits
<1>13. GivenOut(next) = GivenOut(scan) \cup {node}
  <2>1. 1 .. scan.offset + 1 = (1 .. scan.offset) \cup {scan.offset + 1}
    <3>1. \A m \in Nat : 1 .. m + 1 = (1 .. m) \cup {m + 1}
      OBVIOUS
    <3>2. QED
      BY <1>2, <3>1
  <2>2. /\ GivenOut(next) = {scan.ids[k] : k \in 1 .. scan.offset + 1}
        /\ GivenOut(scan) = {scan.ids[k] : k \in 1 .. scan.offset}
    BY <1>1, <1>10, <1>11 DEF GivenOut
  <2>3. QED
    BY <1>7, <2>1, <2>2
<1>14. QED
  BY <1>8, <1>9, <1>10, <1>12, <1>13 DEF next

(* The cursor moves to an enabled node. *)
LEMMA CursorMoves ==
  ASSUME Usable(data), NEW n \in data.on
  PROVE  After(n) \in data.on
<1> DEFINE ids == EnabledNodes(data)
           i == CHOOSE i \in 1 .. Len(ids) : ids[i] = n
<1>1. ids \in Seq(Nodes) /\ ToSet(ids) = data.on
  BY EnabledOnce DEF Usable, ListOK
<1>2. After(n) = ids[(i % Len(ids)) + 1]
  BY DEF After
<1> HIDE DEF ids
<1>3. Len(ids) \in Nat /\ DOMAIN ids = 1 .. Len(ids)
  BY <1>1
<1>4. \E h \in 1 .. Len(ids) : ids[h] = n
  BY <1>1, <1>3 DEF ToSet
<1>5. i \in 1 .. Len(ids)
  BY <1>4
<1> HIDE DEF i
<1>6. (i % Len(ids)) + 1 \in 1 .. Len(ids)
  BY <1>3, <1>5
<1>7. QED
  BY <1>1, <1>2, <1>3, <1>6 DEF ToSet

(* The node of a round that is tried next is an enabled one.               *)
LEMMA TryNodeKeeps ==
  ASSUME PoolInv, NEW j \in Jobs, TryNode(j)
  PROVE  PoolInv'
<1>1. PICK scan : scan = Scan(j)
  OBVIOUS
<1>2. PICK node : node = scan.ids[(scan.offset % Len(scan.ids)) + 1]
  OBVIOUS
<1>3. PICK job : job = jobs[j]
  OBVIOUS
<1>4. /\ job.phase = "between" /\ Eligible(j) /\ ~Exhausted(Scan(j))
      /\ UNCHANGED <<invalid, available, generation, checking, shown, boots>>
  BY <1>1, <1>3 DEF TryNode
<1>5. job \in LocalJob /\ JobFits(job, scans[j]) /\ generation \in Nat /\ RoundInv
  BY <1>3, <1>4, JobShapes DEF PoolInv, RoundInv
<1>6. SideInv'
  BY <1>4 DEF PoolInv, SideInv
<1>7. Usable(data) /\ data \in DataType
  BY DEF PoolInv, DataInv, Usable
<1>8. CASE JobOver(j) /\ UNCHANGED <<data, disk>>
  <2>1. DataInv'
    BY <1>4, <1>8 DEF PoolInv, DataInv, Usable
  <2>2. RoundInv'
    BY <1>4, <1>5, <1>8, OverKeeps
  <2>3. QED
    BY <1>6, <2>1, <2>2 DEF PoolInv
<1>9. CASE /\ scans' = [scans EXCEPT ![j] = [scan EXCEPT !.offset = @ + 1]]
           /\ Persist([data EXCEPT !.nextId = After(node)])
           /\ Become(j, [phase |-> "remote", client |-> job.client, stopped |-> FALSE,
                node |-> node, gen |-> generation, cut |-> FALSE,
                tried |-> {node} \cup (IF job.triedIn = generation THEN job.tried ELSE {}),
                triedIn |-> generation,
                from |-> [on |-> data.on, profile |-> data.profile]])
  <2>1. /\ node \in data.on
        /\ [scan EXCEPT !.offset = @ + 1] \in ScanType
        /\ ScanFits([scan EXCEPT !.offset = @ + 1])
        /\ GivenOut([scan EXCEPT !.offset = @ + 1]) = GivenOut(scan) \cup {node}
    BY <1>1, <1>2, <1>4, NextOfRound
  <2>2. After(node) \in data.on /\ data.on \subseteq Nodes
    BY <1>7, <2>1, CursorMoves DEF DataType
  <2> DEFINE d == [data EXCEPT !.nextId = After(node)]
  <2>3. /\ d.on = data.on /\ d.enabled = data.enabled /\ d.profile = data.profile
        /\ d.nodes = data.nodes /\ d.nextId = After(node) /\ d \in DataType
    BY <1>7, <2>2 DEF DataType
  <2>4. Usable(d) /\ d # None
    BY <1>7, <2>2, <2>3, PoolAssumption DEF Usable
  <2>5. data' = d /\ disk' = d /\ ~invalid
    BY <1>9 DEF Persist
  <2> HIDE DEF d
  <2>6. DataInv'
    BY <1>4, <2>4, <2>5 DEF PoolInv, DataInv, Usable
  <2> DEFINE tried == {node} \cup (IF job.triedIn = generation THEN job.tried ELSE {})
             from == [on |-> data.on, profile |-> data.profile]
             new == [phase |-> "remote", client |-> job.client, stopped |-> FALSE,
                     node |-> node, gen |-> generation, cut |-> FALSE,
                     tried |-> tried, triedIn |-> generation, from |-> from]
             next == [scan EXCEPT !.offset = @ + 1]
  <2>7. tried \subseteq GivenOut(next)
    BY <1>1, <1>4, <1>5, <2>1, RoundFits DEF JobFits
  <2>8. new \in JobType
    <3>1. tried \subseteq Nodes /\ node \in Nodes
      BY <1>5, <2>1, <2>2 DEF LocalJob
    <3>2. from \in [on : SUBSET Nodes, profile : Profiles \cup {None}]
      BY <1>7 DEF DataType
    <3>3. job.client \in Clients
      BY <1>5 DEF LocalJob
    <3> HIDE DEF tried, from
    <3>4. new \in RemoteJob
      BY <1>5, <3>1, <3>2, <3>3 DEF RemoteJob
    <3>5. QED
      BY <3>4 DEF JobType, RemoteJob
  <2>9. JobFits(new, next)
    <3>1. data.enabled
      BY <1>4 DEF Eligible
    <3>2. new.gen <= generation /\ new.triedIn <= generation
      BY <1>5
    <3>3. QED
      BY <2>1, <2>7, <3>1, <3>2 DEF JobFits
  <2>10. jobs' = [jobs EXCEPT ![j] = new] /\ scans' = [scans EXCEPT ![j] = next]
    BY <1>9 DEF Become
  <2>11. next \in {None} \cup ScanType /\ ScanFits(next)
    BY <2>1
  <2> HIDE DEF new, next, tried, from
  <2>12. RoundInv'
    BY <1>4, <1>5, <2>3, <2>5, <2>8, <2>9, <2>10, <2>11, JobMoves
  <2>13. QED
    BY <1>6, <2>6, <2>12 DEF PoolInv
<1>10. QED
  BY <1>1, <1>2, <1>3, <1>8, <1>9 DEF TryNode
(* What a job has tried stays within what its round has given out when the *)
(* round is read, and when the job goes on to its next probe.              *)
LEMMA RetryFits ==
  ASSUME RoundInv, NEW j \in Jobs, jobs[j].phase \in {"local", "remote"}
  PROVE  /\ Between(jobs[j].client, FALSE, jobs[j].tried, jobs[j].triedIn) \in JobType
         /\ JobFits(Between(jobs[j].client, FALSE, jobs[j].tried, jobs[j].triedIn), scans[j])
<1>1. jobs[j] \in LocalJob \cup RemoteJob /\ JobFits(jobs[j], scans[j]) /\ jobs[j].phase # "idle"
  BY JobShapes DEF RoundInv
<1>2. PICK client \in Clients, tried \in SUBSET Nodes, triedIn \in Nat :
        client = jobs[j].client /\ tried = jobs[j].tried /\ triedIn = jobs[j].triedIn
  BY <1>1 DEF LocalJob, RemoteJob
<1>3. Between(client, FALSE, tried, triedIn) \in JobType
  BY DEF Between, JobType, LocalJob
<1>4. QED
  BY <1>1, <1>2, <1>3 DEF JobFits, Between

(* Every step of a job keeps the invariant.                                *)
LEMMA JobStepKeeps ==
  ASSUME PoolInv, NEW j \in Jobs, JobStep(j)
  PROVE  PoolInv'
<1>1. /\ RoundInv /\ scans \in [Jobs -> {None} \cup ScanType] /\ jobs \in [Jobs -> JobType]
      /\ ScanFits(scans[j]) /\ JobFits(jobs[j], scans[j]) /\ generation \in Nat
  BY DEF PoolInv, RoundInv
<1>2. jobs[j] \in JobType /\ scans[j] \in {None} \cup ScanType
      /\ scans = [scans EXCEPT ![j] = scans[j]]
  BY <1>1
<1>3. ASSUME ProbeLocally(j) PROVE PoolInv'
  <2>1. DataInv' /\ SideInv'
    BY <1>3 DEF PoolInv, DataInv, SideInv, ProbeLocally
  <2>2. PICK job : job = [jobs[j] EXCEPT !.phase = "local"]
    OBVIOUS
  <2>3. PICK scan : scan = IF Eligible(j) THEN Scan(j) ELSE scans[j]
    OBVIOUS
  <2>4. jobs[j] \in LocalJob
    BY <1>2, <1>3, JobShapes DEF ProbeLocally
  <2>5. job \in LocalJob /\ job.phase = "local" /\ job.tried = jobs[j].tried /\ job.triedIn = jobs[j].triedIn
    BY <2>2, <2>4 DEF LocalJob
  <2>6. job \in JobType
    BY <2>5 DEF LocalJob, JobType
  <2>7. scan \in {None} \cup ScanType /\ ScanFits(scan) /\ GivenOut(scans[j]) \subseteq GivenOut(scan)
    BY <1>1, <1>2, <2>3, RoundFits
  <2>8. JobFits(job, scan)
    BY <1>1, <1>3, <2>5, <2>7 DEF JobFits, ProbeLocally
  <2>9. jobs' = [jobs EXCEPT ![j] = job] /\ scans' = [scans EXCEPT ![j] = scan]
    BY <1>2, <1>3, <2>2, <2>3 DEF ProbeLocally, Become
  <2>10. RoundInv'
    BY <1>1, <1>3, <2>6, <2>7, <2>8, <2>9, JobMoves DEF ProbeLocally
  <2>11. QED
    BY <2>1, <2>10 DEF PoolInv
<1>4. ASSUME StoppedEnds(j) PROVE PoolInv'
  <2>1. DataInv' /\ SideInv'
    BY <1>4 DEF PoolInv, DataInv, SideInv, StoppedEnds
  <2>2. RoundInv'
    BY <1>1, <1>4, OverKeeps DEF StoppedEnds
  <2>3. QED
    BY <2>1, <2>2 DEF PoolInv
<1>5. ASSUME Retry(j), UNCHANGED <<scans, generation, data>>, jobs[j].phase \in {"local", "remote"}
      PROVE  RoundInv'
  <2>1. PICK job : job = Between(jobs[j].client, FALSE, jobs[j].tried, jobs[j].triedIn)
    OBVIOUS
  <2>2. PICK scan : scan = scans[j]
    OBVIOUS
  <2>3. job \in JobType /\ JobFits(job, scan)
    BY <1>1, <1>5, <2>1, <2>2, RetryFits
  <2>4. jobs' = [jobs EXCEPT ![j] = job] /\ scans' = [scans EXCEPT ![j] = scan]
    BY <1>2, <1>5, <2>1, <2>2 DEF Retry, Become
  <2>5. QED
    BY <1>1, <1>2, <1>5, <2>2, <2>3, <2>4, JobMoves
<1>6. ASSUME RemoteReturns(j) PROVE PoolInv'
  <2>1. jobs[j] \in RemoteJob
    BY <1>2, <1>6, JobShapes DEF RemoteReturns
  <2>2. jobs[j].node \in Nodes
    BY <2>1 DEF RemoteJob
  <2>3. DataInv' /\ SideInv'
    BY <1>6, <2>2 DEF PoolInv, DataInv, SideInv, RemoteReturns
  <2>4. RoundInv'
    BY <1>1, <1>5, <1>6, OverKeeps DEF RemoteReturns
  <2>5. QED
    BY <2>3, <2>4 DEF PoolInv
<1>7. ASSUME LocalReturns(j) PROVE PoolInv'
  <2>1. DataInv' /\ SideInv'
    BY <1>7 DEF PoolInv, DataInv, SideInv, LocalReturns
  <2>2. RoundInv'
    BY <1>1, <1>5, <1>7, OverKeeps DEF LocalReturns
  <2>3. QED
    BY <2>1, <2>2 DEF PoolInv
<1>8. QED
  BY <1>3, <1>4, <1>6, <1>7, TryNodeKeeps DEF JobStep

(* A job begins without a round.                                           *)
LEMMA StartKeeps ==
  ASSUME PoolInv, NEW j \in Jobs, Start(j)
  PROVE  PoolInv'
<1>1. DataInv' /\ SideInv'
  BY DEF PoolInv, DataInv, SideInv, Start
<1>2. PICK client \in Clients : Become(j, Between(client, FALSE, {}, generation))
  BY DEF Start
<1>3. PICK scan : scan = scans[j]
  OBVIOUS
<1>4. PICK job : job = Between(client, FALSE, {}, generation)
  OBVIOUS
<1>5. RoundInv /\ generation \in Nat /\ ScanFits(scan) /\ scan \in {None} \cup ScanType
      /\ scans = [scans EXCEPT ![j] = scan]
  BY <1>3 DEF PoolInv, RoundInv
<1>6. job \in JobType /\ JobFits(job, scan)
  BY <1>4, <1>5 DEF Between, JobType, LocalJob, JobFits
<1>7. jobs' = [jobs EXCEPT ![j] = job] /\ scans' = [scans EXCEPT ![j] = scan]
  BY <1>2, <1>4, <1>5 DEF Become, Start
<1>8. RoundInv'
  BY <1>5, <1>6, <1>7, JobMoves DEF Start
<1>9. QED
  BY <1>1, <1>8 DEF PoolInv

(* A job that is told to stop has its probe cut off.                       *)
LEMMA StopKeeps ==
  ASSUME PoolInv, NEW j \in Jobs, Stop(j)
  PROVE  PoolInv'
<1>1. DataInv' /\ SideInv'
  BY DEF PoolInv, DataInv, SideInv, Stop
<1>2. PICK scan : scan = scans[j]
  OBVIOUS
<1>3. PICK job : job = [CutOff(jobs[j]) EXCEPT !.stopped = TRUE]
  OBVIOUS
<1>4. /\ RoundInv /\ generation \in Nat /\ ScanFits(scan) /\ scan \in {None} \cup ScanType
      /\ scans = [scans EXCEPT ![j] = scan] /\ jobs[j] \in JobType /\ JobFits(jobs[j], scan)
  BY <1>2 DEF PoolInv, RoundInv
<1>5. /\ job \in JobType /\ job.phase = jobs[j].phase /\ job.phase # "idle"
      /\ job.tried = jobs[j].tried /\ job.triedIn = jobs[j].triedIn
      /\ jobs[j].phase = "remote" =>
           job.cut /\ job.gen = jobs[j].gen /\ job.node = jobs[j].node /\ job.from = jobs[j].from
  BY <1>3, <1>4, CutOffTyped DEF Stop
<1>6. JobFits(job, scan)
  BY <1>4, <1>5 DEF JobFits
<1>7. jobs' = [jobs EXCEPT ![j] = job] /\ scans' = [scans EXCEPT ![j] = scan]
  BY <1>3, <1>4 DEF Become, Stop
<1>8. RoundInv'
  BY <1>4, <1>5, <1>6, <1>7, JobMoves DEF Stop
<1>9. QED
  BY <1>1, <1>8 DEF PoolInv

-----------------------------------------------------------------------------
(* Checks, the export, restarts *)

(* Checks of connectivity touch neither the pool nor its rounds.           *)
LEMMA ChecksKeep ==
  ASSUME PoolInv, NEW n \in Nodes, Check(n) \/ CheckReturns(n)
  PROVE  PoolInv'
<1>1. /\ IsFiniteSet(checking) /\ checking \subseteq Nodes /\ shown \subseteq Nodes
      /\ Cardinality(checking) \in Nat /\ Cardinality(checking) <= MaxChecks /\ MaxChecks \in Nat
  BY FS_CardinalityType, PoolAssumption DEF PoolInv, SideInv
<1>2. UNCHANGED <<data, disk, invalid, available, generation, scans, jobs, boots>>
  BY DEF Check, CheckReturns
<1>3. DataInv' /\ RoundInv'
  BY <1>2 DEF PoolInv, DataInv, RoundInv, Usable, ScanFits, JobFits
<1>4. SideInv'
  <2>1. CASE Check(n)
    <3>1. /\ IsFiniteSet(checking \cup {n})
          /\ Cardinality(checking \cup {n}) <= Cardinality(checking) + 1
      BY <1>1, FS_AddElement
    <3>2. QED
      BY <1>1, <2>1, <3>1, FS_CardinalityType DEF Check, SideInv
  <2>2. CASE CheckReturns(n)
    <3>1. IsFiniteSet(checking \ {n}) /\ Cardinality(checking \ {n}) <= Cardinality(checking)
      BY <1>1, FS_Subset
    <3>2. Cardinality(checking \ {n}) \in Nat
      BY <3>1, FS_CardinalityType
    <3>3. QED
      BY <1>1, <2>2, <3>1, <3>2 DEF CheckReturns, SideInv
  <2>3. QED
    BY <2>1, <2>2
<1>5. QED
  BY <1>3, <1>4 DEF PoolInv

(* An export reads only.                                                   *)
LEMMA ExportKeeps ==
  ASSUME PoolInv, Export
  PROVE  PoolInv'
BY DEF PoolInv, DataInv, SideInv, RoundInv, Usable, ScanFits, JobFits, Export

(* A new process has what was written, which was usable, or nothing. *)
LEMMA RestartKeeps ==
  ASSUME PoolInv, Restart
  PROVE  PoolInv'
<1>1. Usable(data)' /\ (disk # None => Usable(disk))'
  <2>1. disk' = disk /\ (disk # None => Usable(disk))
    BY DEF PoolInv, DataInv, Restart
  <2>2. data' \in {Empty} \cup {d \in {disk} : disk # None}
    BY DEF Restart
  <2>3. QED
    BY <2>1, <2>2, EmptyUsable DEF Usable
<1>2. DataInv'
  <2>1. {invalid, available}' \subseteq BOOLEAN /\ boots' \in Nat
    <3>1. invalid' \in BOOLEAN
      BY DEF Restart
    <3>2. available' = available /\ available \in BOOLEAN
      BY DEF PoolInv, DataInv, Restart
    <3>3. boots' \in Nat
      BY DEF PoolInv, DataInv, Restart
    <3>4. QED
      BY <3>1, <3>2, <3>3
  <2>2. /\ ~invalid' => data' = IF disk' = None THEN Empty ELSE disk'
        /\ invalid' => data' = Empty
    BY DEF Restart
  <2>3. QED
    BY <1>1, <2>1, <2>2 DEF DataInv
<1>3. SideInv'
  BY FS_EmptySet, PoolAssumption DEF SideInv, Restart
<1>4. RoundInv'
  <2>1. Idle \in JobType
    BY DEF JobType
  <2>2. \A j \in Jobs : scans'[j] = None /\ jobs'[j] = Idle
    BY DEF Restart
  <2>3. \A j \in Jobs : ScanFits(scans[j])' /\ JobFits(jobs[j], scans[j])'
    BY <2>2 DEF ScanFits, JobFits, Idle
  <2>4. QED
    BY <2>1, <2>3 DEF Restart, RoundInv
<1>5. QED
  BY <1>2, <1>3, <1>4 DEF PoolInv

-----------------------------------------------------------------------------
(* The invariant holds, and what follows from it *)

(* Every step of the pool keeps the invariant.                             *)
LEMMA PoolStep ==
  ASSUME PoolInv, [Next]_vars
  PROVE  PoolInv'
<1>1. CASE UNCHANGED vars
  BY <1>1 DEF vars, PoolInv, DataInv, SideInv, RoundInv, Usable, ScanFits, JobFits
<1>2. CASE Next
  BY <1>2, EditKeeps, SwitchKeeps, StartKeeps, StopKeeps, JobStepKeeps, ChecksKeep,
     ExportKeeps, RestartKeeps DEF Next
<1>3. QED
  BY <1>1, <1>2

(* The pool stays usable, its rounds stay over what it is now, and probes  *)
(* in flight are either under the present pool or of an earlier            *)
(* generation, for any jobs, edits, answers, checks and restarts.          *)
THEOREM PoolInvariant == Spec => []PoolInv
<1>1. PoolInv /\ [Next]_vars => PoolInv'
  BY PoolStep
<1>2. QED
  BY <1>1, PoolStart, PTL DEF Spec

(* The variables of the pool keep their types. *)
THEOREM TypesHold == Spec => []TypeOK
<1>1. PoolInv => TypeOK
  <2>1. ASSUME PoolInv PROVE TypeOK
    <3>1. data \in DataType /\ disk \in DataType \cup {None} /\ {invalid, available} \subseteq BOOLEAN
      BY <2>1 DEF PoolInv, DataInv, Usable
    <3>2. QED
      BY <2>1, <3>1 DEF TypeOK, PoolInv, DataInv, SideInv, RoundInv
  <2>2. QED
    BY <2>1
<1>2. QED
  BY <1>1, PoolInvariant, PTL

(* An enabled pool has a source and a node to use, its cursor is on an     *)
(* enabled node, and the file says what the process knows, after any       *)
(* edits, failed writes and restarts (mutate, configureProfile, persist).  *)
THEOREM PoolStaysUsable == Spec => []PoolUsable
<1>1. PoolInv => PoolUsable
  BY DEF PoolInv, DataInv, Usable, ListOK, PoolUsable, Listed
<1>2. QED
  BY <1>1, PoolInvariant, PTL

(* A round in force is over the nodes enabled now, each once, and a node a *)
(* job waits for is one of them, asked with the present credentials, or    *)
(* its probe has been told to stop.                                        *)
THEOREM RoundsStayCurrent == Spec => []RoundsMatchPool
<1>1. PoolInv => RoundsMatchPool
  <2>1. ASSUME PoolInv, NEW j \in Jobs
        PROVE  /\ scans[j] # None =>
                    /\ scans[j].gen = generation
                    /\ IsInjective(scans[j].ids) /\ ToSet(scans[j].ids) = data.on
                    /\ scans[j].offset <= Len(scans[j].ids)
               /\ jobs[j].phase = "remote" /\ ~jobs[j].cut =>
                    jobs[j].node \in data.on /\ jobs[j].from.profile = data.profile
    BY <2>1 DEF PoolInv, RoundInv, ScanFits, JobFits
  <2>2. QED
    BY <2>1 DEF RoundsMatchPool
<1>2. QED
  BY <1>1, PoolInvariant, PTL

(* A node's answer is recorded, or ends a job, only under the nodes and    *)
(* credentials the probe was sent with and while the pool is on: answers   *)
(* of a pool that was edited or closed since are dropped (probe, gen).     *)
THEOREM LateAnswersAreDropped == Spec => LateAnswersDropped
<1>1. ASSUME PoolInv, NEW j \in Jobs,
             jobs[j].phase = "remote", RemoteReturns(j), jobs'[j] = Idle \/ shown' # shown
      PROVE  data.enabled /\ jobs[j].from = [on |-> data.on, profile |-> data.profile]
  <2>1. JobFits(jobs[j], scans[j]) /\ j \in DOMAIN jobs
    BY <1>1 DEF PoolInv, RoundInv
  <2>2. ~Discarded(j)
    <3>1. SUFFICES ASSUME Discarded(j) PROVE FALSE
      OBVIOUS
    <3>2. Retry(j) /\ shown' = shown
      BY <1>1, <3>1 DEF RemoteReturns
    <3>3. jobs'[j].phase = "between"
      BY <2>1, <3>2 DEF Retry, Become, Between
    <3>4. QED
      BY <1>1, <3>2, <3>3 DEF Idle
  <2>3. QED
    BY <1>1, <2>1, <2>2 DEF JobFits, Discarded
<1>2. PoolInv => [\A j \in Jobs :
       jobs[j].phase = "remote" /\ RemoteReturns(j)
         /\ (jobs'[j] = Idle \/ shown' # shown)
       => /\ data.enabled
          /\ jobs[j].from = [on |-> data.on, profile |-> data.profile]]_vars
  BY <1>1
<1>3. QED
  BY <1>2, PoolInvariant, PTL DEF LateAnswersDropped

(* Only TryNode sends a job's probe to a node. *)
LEMMA OnlyTries ==
  ASSUME PoolInv, Next, NEW j \in Jobs, jobs[j].phase = "between", jobs'[j].phase = "remote"
  PROVE  TryNode(j)
<1>1. jobs \in [Jobs -> JobType] /\ jobs[j] \in JobType
  BY DEF PoolInv, RoundInv
<1>2. jobs'[j] # jobs[j] /\ jobs'[j].phase # jobs[j].phase
  OBVIOUS
<1>3. ~Edit
  <2>1. Edit => Cancel
    BY DEF Edit, ImportNodes, SaveNode, DeleteNode, MoveNode, SetProfile, SetEnabled, Mutate
  <2>2. Cancel => jobs'[j].phase = jobs[j].phase
    BY <1>1, CutOffTyped DEF Cancel
  <2>3. QED
    BY <1>2, <2>1, <2>2
<1>4. ~SwitchProcessing
  BY <1>1, <1>2, CutOffTyped DEF SwitchProcessing
<1>5. ~Restart /\ ~Export /\ \A n \in Nodes : ~Check(n) /\ ~CheckReturns(n)
  BY <1>2 DEF Restart, Export, Check, CheckReturns, Idle
<1>6. PICK k \in Jobs : Start(k) \/ Stop(k) \/ JobStep(k)
  BY <1>3, <1>4, <1>5 DEF Next
<1>7. \E job : Become(k, job)
  BY <1>6 DEF Start, Stop, JobStep, ProbeLocally, TryNode, StoppedEnds, RemoteReturns,
     LocalReturns, JobOver, Retry
<1>8. k = j
  BY <1>1, <1>2, <1>7 DEF Become
<1>9. ASSUME NEW job, job.phase # "remote" PROVE ~Become(j, job)
  BY <1>1, <1>9 DEF Become
<1>10. ~JobOver(j) /\ ~Retry(j) /\ ~Start(j)
  BY <1>9 DEF JobOver, Retry, Start, Idle, Between
<1>11. ~Stop(j)
  BY <1>1, <1>9, CutOffTyped DEF Stop
<1>12. ~ProbeLocally(j)
  <2>1. [jobs[j] EXCEPT !.phase = "local"].phase = "local"
    BY <1>1, JobShapes DEF LocalJob
  <2>2. QED
    BY <1>9, <2>1 DEF ProbeLocally
<1>13. QED
  BY <1>6, <1>8, <1>10, <1>11, <1>12 DEF JobStep, StoppedEnds, RemoteReturns, LocalReturns

(* A job asks no node twice unless the pool was edited in between: its     *)
(* round knows which ones it has given out (scan.offset).                  *)
THEOREM NodesOncePerRound == Spec => OncePerRound
<1>1. ASSUME PoolInv, Next, NEW j \in Jobs,
             jobs[j].phase = "between", jobs'[j].phase = "remote", jobs[j].triedIn = generation
      PROVE  jobs'[j].node \notin jobs[j].tried
  <2>1. TryNode(j)
    BY <1>1, OnlyTries
  <2>2. j \in DOMAIN jobs /\ JobFits(jobs[j], scans[j])
    BY <1>1 DEF PoolInv, RoundInv
  <2>3. PICK node : node = Scan(j).ids[(Scan(j).offset % Len(Scan(j).ids)) + 1]
    OBVIOUS
  <2>4. node \notin GivenOut(Scan(j))
    BY <1>1, <2>1, <2>3, NextOfRound DEF TryNode
  <2>5. jobs[j].tried \subseteq GivenOut(Scan(j))
    BY <1>1, <2>2, RoundFits DEF JobFits
  <2>6. ~JobOver(j)
    BY <1>1, <2>2 DEF JobOver, Become, Idle
  <2>7. jobs'[j].node = node
    BY <2>1, <2>2, <2>3, <2>6 DEF TryNode, Become
  <2>8. QED
    BY <2>4, <2>5, <2>7
<1>2. PoolInv /\ [Next]_vars =>
      [\A j \in Jobs :
         /\ jobs[j].phase = "between" /\ jobs'[j].phase = "remote"
         /\ jobs[j].triedIn = generation
         => jobs'[j].node \notin jobs[j].tried]_vars
  BY <1>1
<1>3. QED
  BY <1>2, PoolInvariant, PTL DEF Spec, OncePerRound
=============================================================================
