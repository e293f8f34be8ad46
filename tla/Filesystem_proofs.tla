------------------------- MODULE Filesystem_proofs --------------------------
(* Proofs about the filesystem thread, the database's copy and the contents  *)
(* that a move takes along, for any names, contents and bounds.              *)
EXTENDS Filesystem, TLAPS, SequenceTheorems, FiniteSetTheorems, WellFoundedInduction

-----------------------------------------------------------------------------
(* Sequences: what their elements are after Tail, Append and \o, for those    *)
(* without repetition and those in which any two elements are in a relation R. *)

Ordered(s, R) == \A i, j \in DOMAIN s : i < j => <<s[i], s[j]>> \in R

LEMMA TailRange ==
  ASSUME NEW S, NEW s \in Seq(S), s # <<>>
  PROVE  /\ Head(s) \in S /\ Tail(s) \in Seq(S) /\ Len(Tail(s)) = Len(s) - 1
         /\ Head(s) \in Range(s) /\ Range(s) = Range(Tail(s)) \cup {Head(s)}
         /\ IsInjective(s) => IsInjective(Tail(s)) /\ Head(s) \notin Range(Tail(s))
<1>1. /\ Len(s) \in Nat /\ Len(s) > 0 /\ DOMAIN s = 1 .. Len(s)
      /\ Head(s) = s[1] /\ Head(s) \in S
      /\ Tail(s) \in Seq(S) /\ Len(Tail(s)) = Len(s) - 1 /\ DOMAIN Tail(s) = 1 .. Len(s) - 1
      /\ \A k \in 1 .. Len(s) - 1 : Tail(s)[k] = s[k + 1]
  BY HeadTailProperties
<1>2. \A k \in 1 .. Len(s) - 1 : k + 1 \in 1 .. Len(s) /\ k + 1 # 1
  BY <1>1
<1>3. \A k \in 1 .. Len(s) : k = 1 \/ (k - 1 \in 1 .. Len(s) - 1 /\ (k - 1) + 1 = k)
  BY <1>1
<1>4. 1 \in 1 .. Len(s)
  BY <1>1
<1>5. Range(Tail(s)) \subseteq Range(s)
  BY <1>1, <1>2 DEF Range
<1>6. Range(s) \subseteq Range(Tail(s)) \cup {Head(s)}
  <2>1. ASSUME NEW k \in 1 .. Len(s)
        PROVE  s[k] \in Range(Tail(s)) \cup {Head(s)}
    <3>1. CASE k = 1
      BY <1>1, <3>1
    <3>2. CASE k # 1
      <4>1. k - 1 \in DOMAIN Tail(s) /\ Tail(s)[k - 1] = s[k]
        BY <1>1, <1>3, <3>2
      <4>2. QED
        BY <4>1 DEF Range
    <3>3. QED
      BY <3>1, <3>2
  <2>2. QED
    BY <1>1, <2>1 DEF Range
<1>7. Head(s) \in Range(s)
  BY <1>1, <1>4 DEF Range
<1>8. ASSUME IsInjective(s)
      PROVE  IsInjective(Tail(s)) /\ Head(s) \notin Range(Tail(s))
  <2>1. \A i, k \in 1 .. Len(s) : s[i] = s[k] => i = k
    BY <1>1, <1>8 DEF IsInjective
  <2>2. \A i, k \in 1 .. Len(s) - 1 : Tail(s)[i] = Tail(s)[k] => i = k
    BY <1>1, <1>2, <2>1
  <2>3. \A k \in 1 .. Len(s) - 1 : Tail(s)[k] # Head(s)
    BY <1>1, <1>2, <1>4, <2>1
  <2>4. QED
    BY <1>1, <2>2, <2>3 DEF IsInjective, Range
<1>9. QED
  BY <1>1, <1>5, <1>6, <1>7, <1>8

LEMMA AppendRange ==
  ASSUME NEW S, NEW s \in Seq(S), NEW e \in S
  PROVE  /\ Append(s, e) \in Seq(S) /\ Len(Append(s, e)) = Len(s) + 1
         /\ Range(Append(s, e)) = Range(s) \cup {e}
         /\ IsInjective(s) /\ e \notin Range(s) => IsInjective(Append(s, e))
<1>1. /\ Append(s, e) \in Seq(S) /\ Len(Append(s, e)) = Len(s) + 1 /\ Len(s) \in Nat
      /\ DOMAIN s = 1 .. Len(s) /\ DOMAIN Append(s, e) = 1 .. Len(s) + 1
      /\ \A k \in 1 .. Len(s) : Append(s, e)[k] = s[k]
      /\ Append(s, e)[Len(s) + 1] = e
  OBVIOUS
<1>2. \A k \in 1 .. Len(s) + 1 : k \in 1 .. Len(s) \/ k = Len(s) + 1
  BY <1>1
<1>3. \A k \in 1 .. Len(s) : k \in 1 .. Len(s) + 1
  BY <1>1
<1>4. Len(s) + 1 \in 1 .. Len(s) + 1
  BY <1>1
<1>5. Range(Append(s, e)) = Range(s) \cup {e}
  BY <1>1, <1>2, <1>3, <1>4 DEF Range
<1>6. ASSUME IsInjective(s), e \notin Range(s)
      PROVE  IsInjective(Append(s, e))
  <2>1. \A i, k \in 1 .. Len(s) : s[i] = s[k] => i = k
    BY <1>1, <1>6 DEF IsInjective
  <2>2. \A k \in 1 .. Len(s) : s[k] # e
    BY <1>1, <1>6 DEF Range
  <2>3. QED
    BY <1>1, <1>2, <2>1, <2>2 DEF IsInjective
<1>7. QED
  BY <1>1, <1>5, <1>6

LEMMA EmptyRange == Range(<<>>) = {} /\ IsInjective(<<>>)
BY DEF Range, IsInjective

LEMMA NothingInRange ==
  ASSUME NEW S, NEW s \in Seq(S), Range(s) = {}
  PROVE  s = <<>>
<1>1. Len(s) \in Nat /\ DOMAIN s = 1 .. Len(s)
  OBVIOUS
<1>2. Len(s) # 0 => 1 \in DOMAIN s
  BY <1>1
<1>3. Len(s) = 0
  BY <1>2 DEF Range
<1>4. QED
  BY <1>3, EmptySeq

LEMMA RemoveFirstRange ==
  ASSUME NEW S, NEW s \in Seq(S), IsInjective(s), NEW e
  PROVE  /\ RemoveFirst(s, e) \in Seq(S) /\ IsInjective(RemoveFirst(s, e))
         /\ Range(RemoveFirst(s, e)) = Range(s) \ {e}
<1>1. Len(s) \in Nat /\ DOMAIN s = 1 .. Len(s)
  OBVIOUS
<1>2. CASE e \notin Range(s)
  <2>1. ~(\E i \in 1 .. Len(s) : s[i] = e)
    BY <1>1, <1>2 DEF Range
  <2>2. RemoveFirst(s, e) = s
    BY <2>1 DEF RemoveFirst
  <2>3. QED
    BY <1>2, <2>2
<1>3. ASSUME NEW n \in 1 .. Len(s), s[n] = e
      PROVE  /\ RemoveFirst(s, e) \in Seq(S) /\ IsInjective(RemoveFirst(s, e))
             /\ Range(RemoveFirst(s, e)) = Range(s) \ {e}
  <2> DEFINE I == {i \in 1 .. Len(s) : s[i] = e}
             r == RemoveAt(s, n)
  <2>1. I = {n}
    BY <1>3 DEF IsInjective
  <2>2. Min(I) = n
    BY <2>1 DEF Min
  <2>3. RemoveFirst(s, e) = r
    BY <1>3, <2>1, <2>2 DEF RemoveFirst, SelectInSeq
  <2> DEFINE front == SubSeq(s, 1, n - 1)
             back == SubSeq(s, n + 1, Len(s))
  <2>4. /\ front \in Seq(S) /\ Len(front) = n - 1
        /\ \A i \in 1 .. n - 1 : front[i] = s[i]
    BY <1>1
  <2>5. /\ back \in Seq(S) /\ Len(back) = Len(s) - n
        /\ \A i \in 1 .. Len(s) - n : back[i] = s[n + i]
    <3>1. \A i \in n + 1 .. Len(s) : s[i] \in S
      BY <1>1
    <3>2. n + 1 \in Int /\ Len(s) \in Int
      BY <1>1
    <3>3. /\ back \in Seq(S)
          /\ Len(back) = IF n + 1 <= Len(s) THEN Len(s) - (n + 1) + 1 ELSE 0
          /\ \A i \in 1 .. Len(s) - (n + 1) + 1 : back[i] = s[(n + 1) + i - 1]
      BY <3>1, <3>2, SubSeqProperties
    <3> HIDE DEF back
    <3>4. Len(s) - (n + 1) + 1 = Len(s) - n /\ (~(n + 1 <= Len(s)) => Len(s) - n = 0)
      <4>1. \A l, m \in Nat : m <= l =>
              l - (m + 1) + 1 = l - m /\ (~(m + 1 <= l) => l - m = 0)
        OBVIOUS
      <4>2. n \in Nat /\ n <= Len(s)
        BY <1>1
      <4>3. QED
        BY <1>1, <4>1, <4>2
    <3>5. \A i \in 1 .. Len(s) - n : (n + 1) + i - 1 = n + i
      BY <1>1
    <3>6. Len(back) = Len(s) - n
      BY <3>3, <3>4
    <3>7. \A i \in 1 .. Len(s) - n : back[i] = s[n + i]
      BY <3>3, <3>4, <3>5
    <3>8. QED
      BY <3>3, <3>6, <3>7
  <2>6. /\ r \in Seq(S) /\ DOMAIN r = 1 .. Len(s) - 1
        /\ \A k \in 1 .. Len(s) - 1 : r[k] = IF k < n THEN s[k] ELSE s[k + 1]
    <3>1. /\ r = front \o back /\ r \in Seq(S) /\ Len(r) = Len(s) - 1
          /\ \A k \in 1 .. Len(s) - 1 :
               r[k] = IF k <= n - 1 THEN front[k] ELSE back[k - (n - 1)]
      <4>1. r = front \o back
        BY DEF RemoveAt
      <4> HIDE DEF front, back, r
      <4>2. Len(front) + Len(back) = Len(s) - 1
        BY <1>1, <2>4, <2>5
      <4>3. /\ front \o back \in Seq(S) /\ Len(front \o back) = Len(front) + Len(back)
            /\ \A k \in 1 .. Len(front) + Len(back) :
                 (front \o back)[k] = IF k <= Len(front) THEN front[k] ELSE back[k - Len(front)]
        <5>1. front \in Seq(S) /\ back \in Seq(S)
          BY <2>4, <2>5
        <5>2. QED
          BY <5>1, ConcatProperties
      <4>4. Len(front) = n - 1
        BY <2>4
      <4>5. QED
        BY <4>1, <4>2, <4>3, <4>4
    <3> HIDE DEF front, back, r
    <3>2. ASSUME NEW k \in 1 .. Len(s) - 1
          PROVE  r[k] = IF k < n THEN s[k] ELSE s[k + 1]
      <4>1. CASE k < n
        <5>1. k \in 1 .. n - 1 /\ k <= n - 1
          BY <1>1, <4>1
        <5>2. QED
          BY <2>4, <3>1, <4>1, <5>1
      <4>2. CASE ~(k < n)
        <5>1. /\ k - (n - 1) \in 1 .. Len(s) - n /\ ~(k <= n - 1)
              /\ n + (k - (n - 1)) = k + 1
          BY <1>1, <4>2
        <5>2. QED
          BY <2>5, <3>1, <4>2, <5>1
      <4>3. QED
        BY <4>1, <4>2
    <3>3. QED
      BY <1>1, <3>1, <3>2, LenProperties
  <2> HIDE DEF front, back, r
  <2>7. \A i, k \in 1 .. Len(s) : s[i] = s[k] => i = k
    BY <1>1 DEF IsInjective
  <2>8. IsInjective(r)
    <3>1. ASSUME NEW i \in 1 .. Len(s) - 1, NEW k \in 1 .. Len(s) - 1, r[i] = r[k]
          PROVE  i = k
      <4> DEFINE at(m) == IF m < n THEN m ELSE m + 1
      <4>1. at(i) \in 1 .. Len(s) /\ at(k) \in 1 .. Len(s) /\ (at(i) = at(k) => i = k)
        BY <1>1
      <4>2. r[i] = s[at(i)] /\ r[k] = s[at(k)]
        BY <2>6
      <4>3. QED
        BY <2>7, <3>1, <4>1, <4>2
    <3>2. QED
      BY <2>6, <3>1 DEF IsInjective
  <2>9. \A k \in 1 .. Len(s) - 1 : r[k] \in Range(s) \ {e}
    <3>1. ASSUME NEW k \in 1 .. Len(s) - 1
          PROVE  r[k] \in Range(s) \ {e}
      <4> DEFINE at == IF k < n THEN k ELSE k + 1
      <4>1. at \in 1 .. Len(s) /\ at # n
        BY <1>1
      <4>2. r[k] = s[at]
        BY <2>6
      <4>3. s[at] # e
        BY <1>3, <2>7, <4>1
      <4>4. QED
        BY <1>1, <4>1, <4>2, <4>3 DEF Range
    <3>2. QED
      BY <3>1
  <2>10. ASSUME NEW i \in 1 .. Len(s), s[i] # e
         PROVE  s[i] \in Range(r)
    <3> DEFINE k == IF i < n THEN i ELSE i - 1
    <3>1. i # n
      BY <1>3, <2>10
    <3>2. k \in 1 .. Len(s) - 1 /\ (IF k < n THEN k ELSE k + 1) = i
      BY <1>1, <3>1
    <3>3. r[k] = s[i]
      BY <2>6, <3>2
    <3>4. QED
      BY <2>6, <3>2, <3>3 DEF Range
  <2>11. QED
    BY <1>1, <2>3, <2>6, <2>8, <2>9, <2>10 DEF Range
<1>4. QED
  BY <1>1, <1>2, <1>3 DEF Range

LEMMA ConcatRange ==
  ASSUME NEW S, NEW s \in Seq(S), NEW t \in Seq(S)
  PROVE  s \o t \in Seq(S) /\ Range(s \o t) = Range(s) \cup Range(t)
<1>1. /\ Len(s) \in Nat /\ Len(t) \in Nat /\ DOMAIN s = 1 .. Len(s) /\ DOMAIN t = 1 .. Len(t)
      /\ s \o t \in Seq(S) /\ DOMAIN (s \o t) = 1 .. Len(s) + Len(t)
      /\ \A i \in 1 .. Len(s) + Len(t) :
           (s \o t)[i] = IF i <= Len(s) THEN s[i] ELSE t[i - Len(s)]
  BY ConcatProperties, LenProperties
<1>2. ASSUME NEW i \in 1 .. Len(s) + Len(t)
      PROVE  (s \o t)[i] \in Range(s) \cup Range(t)
  <2>1. CASE i <= Len(s)
    BY <1>1, <2>1 DEF Range
  <2>2. CASE ~(i <= Len(s))
    <3>1. i - Len(s) \in 1 .. Len(t)
      BY <1>1, <2>2
    <3>2. QED
      BY <1>1, <2>2, <3>1 DEF Range
  <2>3. QED
    BY <2>1, <2>2
<1>3. ASSUME NEW i \in 1 .. Len(s)
      PROVE  s[i] \in Range(s \o t)
  <2>1. i \in 1 .. Len(s) + Len(t) /\ i <= Len(s)
    BY <1>1
  <2>2. QED
    BY <1>1, <2>1 DEF Range
<1>4. ASSUME NEW i \in 1 .. Len(t)
      PROVE  t[i] \in Range(s \o t)
  <2>1. i + Len(s) \in 1 .. Len(s) + Len(t) /\ ~(i + Len(s) <= Len(s)) /\ (i + Len(s)) - Len(s) = i
    BY <1>1
  <2>2. QED
    BY <1>1, <2>1 DEF Range
<1>5. QED
  BY <1>1, <1>2, <1>3, <1>4 DEF Range

LEMMA OrderedEmpty ==
  ASSUME NEW R
  PROVE  Ordered(<<>>, R)
BY DEF Ordered

LEMMA OrderedTail ==
  ASSUME NEW S, NEW s \in Seq(S), s # <<>>, NEW R, Ordered(s, R)
  PROVE  /\ Ordered(Tail(s), R)
         /\ \A e \in Range(Tail(s)) : <<Head(s), e>> \in R
<1>1. /\ Len(s) \in Nat /\ Len(s) > 0 /\ DOMAIN s = 1 .. Len(s) /\ Head(s) = s[1]
      /\ DOMAIN Tail(s) = 1 .. Len(s) - 1
      /\ \A k \in 1 .. Len(s) - 1 : Tail(s)[k] = s[k + 1]
  BY HeadTailProperties
<1>2. \A k \in 1 .. Len(s) - 1 : k + 1 \in 1 .. Len(s) /\ 1 < k + 1
  BY <1>1
<1>3. 1 \in 1 .. Len(s)
  BY <1>1
<1>4. \A i, j \in 1 .. Len(s) : i < j => <<s[i], s[j]>> \in R
  BY <1>1 DEF Ordered
<1>5. \A k \in 1 .. Len(s) - 1 : <<Head(s), Tail(s)[k]>> \in R
  BY <1>1, <1>2, <1>3, <1>4
<1>6. ASSUME NEW i \in 1 .. Len(s) - 1, NEW j \in 1 .. Len(s) - 1, i < j
      PROVE  <<Tail(s)[i], Tail(s)[j]>> \in R
  <2>1. i + 1 < j + 1
    BY <1>1, <1>6
  <2>2. QED
    BY <1>1, <1>2, <1>4, <2>1
<1>7. QED
  BY <1>1, <1>5, <1>6 DEF Ordered, Range

LEMMA OrderedAppend ==
  ASSUME NEW S, NEW s \in Seq(S), NEW e \in S, NEW R, Ordered(s, R),
         \A d \in Range(s) : <<d, e>> \in R
  PROVE  Ordered(Append(s, e), R)
<1>1. /\ Len(s) \in Nat /\ DOMAIN s = 1 .. Len(s) /\ DOMAIN Append(s, e) = 1 .. Len(s) + 1
      /\ \A k \in 1 .. Len(s) : Append(s, e)[k] = s[k]
      /\ Append(s, e)[Len(s) + 1] = e
  OBVIOUS
<1>2. \A i \in 1 .. Len(s) : <<s[i], e>> \in R
  BY <1>1 DEF Range
<1>3. ASSUME NEW i \in 1 .. Len(s) + 1, NEW j \in 1 .. Len(s) + 1, i < j
      PROVE  <<Append(s, e)[i], Append(s, e)[j]>> \in R
  <2>1. i \in 1 .. Len(s)
    BY <1>1, <1>3
  <2>2. CASE j = Len(s) + 1
    BY <1>1, <1>2, <2>1, <2>2
  <2>3. CASE j # Len(s) + 1
    <3>1. j \in 1 .. Len(s)
      BY <1>1, <2>3
    <3>2. QED
      BY <1>1, <1>3, <2>1, <3>1 DEF Ordered
  <2>4. QED
    BY <2>2, <2>3
<1>4. QED
  BY <1>1, <1>3 DEF Ordered

LEMMA OrderedConcat ==
  ASSUME NEW S, NEW s \in Seq(S), NEW t \in Seq(S), NEW R, Ordered(s, R), Ordered(t, R),
         \A d \in Range(s), e \in Range(t) : <<d, e>> \in R
  PROVE  Ordered(s \o t, R)
<1>1. /\ Len(s) \in Nat /\ Len(t) \in Nat /\ DOMAIN s = 1 .. Len(s) /\ DOMAIN t = 1 .. Len(t)
      /\ DOMAIN (s \o t) = 1 .. Len(s) + Len(t)
      /\ \A i \in 1 .. Len(s) + Len(t) :
           (s \o t)[i] = IF i <= Len(s) THEN s[i] ELSE t[i - Len(s)]
  BY ConcatProperties, LenProperties
<1>2. ASSUME NEW i \in 1 .. Len(s) + Len(t), NEW j \in 1 .. Len(s) + Len(t), i < j
      PROVE  <<(s \o t)[i], (s \o t)[j]>> \in R
  <2>1. CASE j <= Len(s)
    <3>1. i \in 1 .. Len(s) /\ j \in 1 .. Len(s)
      BY <1>1, <1>2, <2>1
    <3>2. QED
      BY <1>1, <1>2, <2>1, <3>1 DEF Ordered
  <2>2. CASE ~(i <= Len(s))
    <3>1. /\ i - Len(s) \in 1 .. Len(t) /\ j - Len(s) \in 1 .. Len(t)
          /\ i - Len(s) < j - Len(s) /\ ~(j <= Len(s))
      BY <1>1, <1>2, <2>2
    <3>2. QED
      BY <1>1, <2>2, <3>1 DEF Ordered
  <2>3. CASE i <= Len(s) /\ ~(j <= Len(s))
    <3>1. i \in 1 .. Len(s) /\ j - Len(s) \in 1 .. Len(t)
      BY <1>1, <2>3
    <3>2. s[i] \in Range(s) /\ t[j - Len(s)] \in Range(t)
      BY <1>1, <3>1 DEF Range
    <3>3. QED
      BY <1>1, <2>3, <3>2
  <2>4. QED
    BY <2>1, <2>2, <2>3
<1>3. QED
  BY <1>1, <1>2 DEF Ordered

\* A relation may be replaced by another that holds wherever it is needed.
LEMMA OrderedWeakened ==
  ASSUME NEW S, NEW s \in Seq(S), NEW R, NEW Q, Ordered(s, R),
         \A d, e \in Range(s) : <<d, e>> \in R => <<d, e>> \in Q
  PROVE  Ordered(s, Q)
BY DEF Ordered, Range


-----------------------------------------------------------------------------
(* Trees.  A rank of the elements, greater for a child than for its parent,  *)
(* says that there is no cycle.                                              *)

Ranked(t, rank) ==
  /\ rank \in [DOMAIN t -> Nat]
  /\ \A id \in DOMAIN t \ {Root} : rank[t[id].parent] < rank[id]

Good(t) ==
  /\ IsTree(t) /\ Sound(t)
  /\ \A id \in DOMAIN t \ {Root} : t[id].name \in Names /\ t[id].parent \in Nat
  /\ \E rank : Ranked(t, rank)

IsFolderIn(t, id) == id \in DOMAIN t /\ t[id].kind = "folder"

Alike(e, f) == e.name = f.name /\ e.kind = f.kind /\ e.parent = f.parent

\* Every element of t is in u, with its name, kind and parent.
Grown(t, u) == \A id \in DOMAIN t : id \in DOMAIN u /\ Alike(t[id], u[id])

LEMMA NewTreeGood == Good(NewTree)
<1> DEFINE rank == [id \in {Root} |-> 0]
<1>1. DOMAIN NewTree = {Root} /\ NewTree[Root] = Element(None, "folder", None)
  BY DEF NewTree
<1>2. Element(None, "folder", None) \in Elements
  BY DEF Element, Elements, IdPaths, Kinds
<1>3. Ranked(NewTree, rank)
  BY <1>1 DEF Ranked, Root
<1>4. Range(<<>>) = {} /\ IsInjective(<<>>)
  BY EmptyRange
<1>5. Sound(NewTree)
  BY <1>1, <1>4 DEF Sound, Element
<1>6. QED
  BY <1>1, <1>2, <1>3, <1>5 DEF Good, IsTree, Root

\* A new element under a folder.
IsNewUnder(e, parent) ==
  e \in Elements /\ e.name \in Names /\ e.children = <<>> /\ e.parent = parent

IsGrownBy(t, u, id, e) == DOMAIN u = DOMAIN t \cup {id} /\ u[id] = e

LEMMA InsertedGood ==
  ASSUME NEW t, Good(t), NEW parent, IsFolderIn(t, parent), NEW id \in Nat, id \notin DOMAIN t,
         NEW e, IsNewUnder(e, parent)
  PROVE  LET u == Inserted(t, parent, id, e)
         IN  Good(u) /\ Grown(t, u) /\ IsGrownBy(t, u, id, e)
<1> DEFINE u == Inserted(t, parent, id, e)
<1>0. e \in Elements /\ e.name \in Names /\ e.children = <<>> /\ e.parent = parent
  BY DEF IsNewUnder
<1>1. parent \in DOMAIN t /\ parent # id /\ id # Root /\ parent \in Nat /\ DOMAIN t \subseteq Nat
  BY DEF IsFolderIn, Good, Sound, IsTree
<1>2. \A x \in DOMAIN t : t[x] \in Elements /\ t[x].children \in Seq(Nat)
  BY DEF Good, IsTree, Elements, IdPaths
<1>3. /\ DOMAIN u = DOMAIN t \cup {id} /\ u[id] = e
      /\ u[parent] = [t[parent] EXCEPT !.children = Append(@, id)]
      /\ \A x \in DOMAIN t \ {parent} : u[x] = t[x]
  BY <1>1 DEF Inserted, Put
<1> HIDE DEF u
<1>4. /\ Append(t[parent].children, id) \in Seq(Nat)
      /\ Range(Append(t[parent].children, id)) = Range(t[parent].children) \cup {id}
      /\ IsInjective(Append(t[parent].children, id))
  <2>1. IsInjective(t[parent].children) /\ id \notin Range(t[parent].children)
    BY <1>1 DEF Good, Sound
  <2>2. QED
    BY <1>1, <1>2, <2>1, AppendRange
<1>5. /\ u[parent] \in Elements /\ Alike(t[parent], u[parent])
      /\ u[parent].children = Append(t[parent].children, id)
  BY <1>1, <1>2, <1>3, <1>4 DEF Alike, Elements, IdPaths
<1>6. Grown(t, u)
  BY <1>3, <1>5 DEF Grown, Alike
<1>7. IsTree(u)
  BY <1>0, <1>1, <1>2, <1>3, <1>5 DEF IsTree
<1>8. Sound(u)
  <2>1. Root \in DOMAIN u /\ u[Root].parent = None /\ u[Root].kind = "folder"
    BY <1>3, <1>6 DEF Good, Sound, Grown, Alike
  <2>2. u[parent].kind = "folder" /\ t[parent].kind = "folder"
    BY <1>1, <1>5 DEF IsFolderIn, Alike
  <2>3. ASSUME NEW x \in DOMAIN u
        PROVE  /\ IsInjective(u[x].children)
               /\ u[x].kind = "file" => u[x].children = <<>>
               /\ \A child \in Range(u[x].children) :
                    child \in DOMAIN u \ {Root} /\ u[child].parent = x
               /\ x # Root => /\ u[x].parent \in DOMAIN u
                              /\ x \in Range(u[u[x].parent].children)
    <3>1. CASE x = id
      <4>1. Range(e.children) = {} /\ IsInjective(e.children)
        BY <1>0, EmptyRange
      <4>2. id \in Range(u[parent].children)
        BY <1>4, <1>5
      <4>3. QED
        BY <1>0, <1>1, <1>3, <3>1, <4>1, <4>2
    <3>2. CASE x # id
      <4>1. x \in DOMAIN t
        BY <1>3, <3>2
      <4>2. Range(u[x].children) = IF x = parent THEN Range(t[x].children) \cup {id}
                                   ELSE Range(t[x].children)
        BY <1>3, <1>4, <1>5, <4>1
      <4>3. IsInjective(u[x].children) /\ (u[x].kind = "file" => u[x].children = <<>>)
        <5>1. CASE x = parent
          BY <1>4, <1>5, <2>2, <5>1
        <5>2. CASE x # parent
          <6>1. IsInjective(t[x].children) /\ (t[x].kind = "file" => t[x].children = <<>>)
            BY <4>1 DEF Good, Sound
          <6>2. QED
            BY <1>3, <4>1, <5>2, <6>1
        <5>3. QED
          BY <5>1, <5>2
      <4>4. \A child \in Range(u[x].children) :
              child \in DOMAIN u \ {Root} /\ u[child].parent = x
        <5>1. ASSUME NEW child \in Range(t[x].children)
              PROVE  child \in DOMAIN u \ {Root} /\ u[child].parent = x
          <6>1. child \in DOMAIN t \ {Root} /\ t[child].parent = x
            BY <4>1, <5>1 DEF Good, Sound
          <6>2. QED
            BY <1>6, <6>1 DEF Grown, Alike
        <5>2. x = parent => id \in DOMAIN u \ {Root} /\ u[id].parent = x
          BY <1>0, <1>1, <1>3
        <5>3. QED
          BY <4>2, <5>1, <5>2
      <4>5. x # Root => u[x].parent \in DOMAIN u /\ x \in Range(u[u[x].parent].children)
        <5>1. SUFFICES ASSUME x # Root
                       PROVE  u[x].parent \in DOMAIN u /\ x \in Range(u[u[x].parent].children)
          OBVIOUS
        <5>2. t[x].parent \in DOMAIN t /\ x \in Range(t[t[x].parent].children)
          BY <4>1, <5>1 DEF Good, Sound
        <5>3. u[x].parent = t[x].parent
          BY <1>6, <4>1 DEF Grown, Alike
        <5>4. Range(t[t[x].parent].children) \subseteq Range(u[t[x].parent].children)
          BY <1>3, <1>4, <1>5, <5>2
        <5>5. QED
          BY <1>3, <5>2, <5>3, <5>4
      <4>6. QED
        BY <4>3, <4>4, <4>5
    <3>3. QED
      BY <3>1, <3>2
  <2>4. QED
    BY <2>1, <2>3 DEF Sound
<1>9. \E rank : Ranked(u, rank)
  <2>1. PICK rank : Ranked(t, rank)
    BY DEF Good
  <2> DEFINE higher == [x \in DOMAIN u |-> IF x = id THEN rank[parent] + 1 ELSE rank[x]]
  <2>2. \A x \in DOMAIN t : rank[x] \in Nat /\ higher[x] = rank[x]
    BY <1>3, <2>1 DEF Ranked
  <2>3. higher[id] = rank[parent] + 1
    BY <1>3
  <2>4. higher \in [DOMAIN u -> Nat]
    BY <1>1, <1>3, <2>2
  <2>5. ASSUME NEW x \in DOMAIN u \ {Root}
        PROVE  higher[u[x].parent] < higher[x]
    <3>1. CASE x = id
      <4>1. higher[parent] = rank[parent] /\ rank[parent] \in Nat
        BY <1>1, <2>2
      <4>2. u[x].parent = parent
        BY <1>0, <1>3, <3>1
      <4> HIDE DEF higher
      <4>3. QED
        BY <2>3, <3>1, <4>1, <4>2
    <3>2. CASE x # id
      <4>1. x \in DOMAIN t \ {Root} /\ u[x].parent = t[x].parent /\ t[x].parent \in DOMAIN t
        BY <1>3, <1>6, <3>2 DEF Grown, Alike, Good, Sound
      <4>2. rank[t[x].parent] < rank[x]
        BY <2>1, <4>1 DEF Ranked
      <4> HIDE DEF higher
      <4>3. QED
        BY <2>2, <4>1, <4>2
    <3>3. QED
      BY <3>1, <3>2
  <2> HIDE DEF higher
  <2>6. QED
    BY <2>4, <2>5 DEF Ranked
<1>10. \A x \in DOMAIN u \ {Root} : u[x].name \in Names /\ u[x].parent \in Nat
  BY <1>0, <1>1, <1>3, <1>6 DEF Good, Grown, Alike
<1>11. QED
  BY <1>3, <1>6, <1>7, <1>8, <1>9, <1>10 DEF Good, IsGrownBy, u

\* The elements that are left keep their ranks.
LEMMA RankedShrunk ==
  ASSUME NEW t, NEW u, Grown(u, t), Sound(u), NEW rank, Ranked(t, rank)
  PROVE  Ranked(u, [x \in DOMAIN u |-> rank[x]])
<1> DEFINE same == [x \in DOMAIN u |-> rank[x]]
<1>1. same \in [DOMAIN u -> Nat]
  BY DEF Ranked, Grown
<1>2. ASSUME NEW x \in DOMAIN u \ {Root}
      PROVE  same[u[x].parent] < same[x]
  <2>1. u[x].parent = t[x].parent /\ u[x].parent \in DOMAIN u
    BY DEF Grown, Alike, Sound
  <2>2. rank[t[x].parent] < rank[x]
    BY DEF Ranked, Grown
  <2>3. QED
    BY <2>1, <2>2
<1> HIDE DEF same
<1>3. QED
  BY <1>1, <1>2 DEF Ranked, same

\* An element without children is taken from the tree.
LEMMA RemovedGood ==
  ASSUME NEW t, Good(t), NEW id \in DOMAIN t \ {Root}, t[id].children = <<>>
  PROVE  LET u == Removed(t, t[id].parent, id)
         IN  /\ Good(u) /\ Grown(u, t) /\ DOMAIN u = DOMAIN t \ {id}
             /\ \A x \in DOMAIN u : Range(u[x].children) = Range(t[x].children) \ {id}
<1> DEFINE parent == t[id].parent
           u == Removed(t, parent, id)
<1>1. /\ parent \in DOMAIN t /\ id \in Range(t[parent].children) /\ parent # id
      /\ Root \in DOMAIN t /\ DOMAIN t \subseteq Nat
  <2>1. parent \in DOMAIN t /\ id \in Range(t[parent].children)
    BY DEF Good, Sound
  <2>2. parent # id
    BY <2>1, EmptyRange
  <2>3. QED
    BY <2>1, <2>2 DEF Good, Sound, IsTree
<1>2. \A x \in DOMAIN t : t[x] \in Elements /\ t[x].children \in Seq(Nat) /\ IsInjective(t[x].children)
  BY DEF Good, Sound, IsTree, Elements, IdPaths
<1>3. /\ RemoveFirst(t[parent].children, id) \in Seq(Nat)
      /\ IsInjective(RemoveFirst(t[parent].children, id))
      /\ Range(RemoveFirst(t[parent].children, id)) = Range(t[parent].children) \ {id}
  BY <1>1, <1>2, RemoveFirstRange
<1>4. /\ DOMAIN u = DOMAIN t \ {id}
      /\ u[parent] = [t[parent] EXCEPT !.children = RemoveFirst(@, id)]
      /\ \A x \in DOMAIN t \ {parent, id} : u[x] = t[x]
  BY <1>1 DEF Removed, Without
<1> HIDE DEF u
<1>5. /\ u[parent] \in Elements /\ Alike(u[parent], t[parent])
      /\ u[parent].children = RemoveFirst(t[parent].children, id)
  BY <1>1, <1>2, <1>3, <1>4 DEF Alike, Elements, IdPaths
<1>6. Grown(u, t)
  BY <1>4, <1>5 DEF Grown, Alike
<1>7. \A x \in DOMAIN u : Range(u[x].children) = Range(t[x].children) \ {id}
  <2>1. ASSUME NEW x \in DOMAIN t \ {parent, id}
        PROVE  id \notin Range(t[x].children)
    BY <2>1 DEF Good, Sound
  <2>2. ASSUME NEW x \in DOMAIN u
        PROVE  Range(u[x].children) = Range(t[x].children) \ {id}
    <3>1. CASE x = parent
      BY <1>3, <1>5, <3>1
    <3>2. CASE x # parent
      <4>1. x \in DOMAIN t \ {parent, id}
        BY <1>4, <3>2
      <4>2. u[x] = t[x] /\ id \notin Range(t[x].children)
        BY <1>4, <2>1, <4>1
      <4>3. QED
        BY <4>2
    <3>3. QED
      BY <3>1, <3>2
  <2>3. QED
    BY <2>2
<1>8. IsTree(u)
  BY <1>1, <1>2, <1>4, <1>5 DEF IsTree
<1>9. Sound(u)
  <2>1. Root \in DOMAIN u /\ u[Root].parent = None /\ u[Root].kind = "folder"
    BY <1>1, <1>4, <1>6 DEF Good, Sound, Grown, Alike
  <2>2. ASSUME NEW x \in DOMAIN u
        PROVE  /\ IsInjective(u[x].children)
               /\ u[x].kind = "file" => u[x].children = <<>>
               /\ \A child \in Range(u[x].children) :
                    child \in DOMAIN u \ {Root} /\ u[child].parent = x
               /\ x # Root => /\ u[x].parent \in DOMAIN u
                              /\ x \in Range(u[u[x].parent].children)
    <3>1. x \in DOMAIN t /\ x # id /\ Alike(u[x], t[x])
      BY <1>4, <1>6 DEF Grown
    <3>2. IsInjective(u[x].children)
      BY <1>2, <1>3, <1>4, <1>5, <3>1
    <3>3. ASSUME u[x].kind = "file" PROVE u[x].children = <<>>
      <4>1. t[x].children = <<>>
        BY <3>1, <3>3 DEF Good, Sound, Alike
      <4>2. x # parent
        BY <1>1, <4>1, EmptyRange
      <4>3. QED
        BY <1>4, <3>1, <4>1, <4>2
    <3>4. ASSUME NEW child \in Range(u[x].children)
          PROVE  child \in DOMAIN u \ {Root} /\ u[child].parent = x
      <4>1. child \in Range(t[x].children) /\ child # id
        BY <1>7, <3>4
      <4>2. child \in DOMAIN t \ {Root} /\ t[child].parent = x
        BY <3>1, <4>1 DEF Good, Sound
      <4>3. QED
        BY <1>4, <1>6, <4>1, <4>2 DEF Grown, Alike
    <3>5. ASSUME x # Root
          PROVE  u[x].parent \in DOMAIN u /\ x \in Range(u[u[x].parent].children)
      <4>1. t[x].parent \in DOMAIN t /\ x \in Range(t[t[x].parent].children)
        BY <3>1, <3>5 DEF Good, Sound
      <4>2. t[x].parent # id
        BY <4>1, EmptyRange
      <4>3. u[x].parent = t[x].parent /\ t[x].parent \in DOMAIN u
        BY <1>4, <3>1, <4>1, <4>2 DEF Alike
      <4>4. QED
        BY <1>7, <3>1, <4>1, <4>3
    <3>6. QED
      BY <3>2, <3>3, <3>4, <3>5
  <2>3. QED
    BY <2>1, <2>2 DEF Sound
<1>10. \E rank : Ranked(u, rank)
  <2>1. PICK rank : Ranked(t, rank)
    BY DEF Good
  <2>2. Ranked(u, [x \in DOMAIN u |-> rank[x]])
    BY <1>6, <1>9, <2>1, RankedShrunk
  <2>3. QED
    BY <2>2
<1>11. \A x \in DOMAIN u \ {Root} : u[x].name \in Names /\ u[x].parent \in Nat
  BY <1>4, <1>6 DEF Good, Grown, Alike
<1>12. QED
  BY <1>4, <1>6, <1>7, <1>8, <1>9, <1>10, <1>11 DEF Good, u

-----------------------------------------------------------------------------
(* Paths.                                                                    *)

Chain(t, path) ==
  \A i \in DOMAIN path : /\ path[i] \in DOMAIN t \ {Root}
                          /\ t[path[i]].parent = IF i = 1 THEN Root ELSE path[i - 1]

LEMMA ChainTarget ==
  ASSUME NEW t, Good(t), NEW path \in IdPaths, Chain(t, path)
  PROVE  /\ Target(path) \in DOMAIN t /\ Target(path) \in Nat
         /\ path = <<>> <=> Target(path) = Root
         /\ path # <<>> => t[Target(path)].parent = Parent(path)
<1>1. /\ Len(path) \in Nat /\ DOMAIN path = 1 .. Len(path) /\ path \in Seq(Nat)
      /\ Root \in DOMAIN t /\ DOMAIN t \subseteq Nat
  BY DEF IdPaths, Good, Sound, IsTree
<1>2. CASE path = <<>>
  BY <1>1, <1>2 DEF Target
<1>3. CASE path # <<>>
  <2>1. Len(path) \in 1 .. Len(path)
    BY <1>1, <1>3
  <2>2. /\ Target(path) = path[Len(path)] /\ Target(path) \in DOMAIN t \ {Root}
        /\ t[Target(path)].parent = IF Len(path) = 1 THEN Root ELSE path[Len(path) - 1]
    BY <1>1, <1>3, <2>1 DEF Target, Last, Chain
  <2>3. Parent(path) = IF Len(path) = 1 THEN Root ELSE path[Len(path) - 1]
    <3>1. /\ Front(path) \in Seq(Nat) /\ Len(Front(path)) = Len(path) - 1
          /\ \A i \in 1 .. Len(path) - 1 : Front(path)[i] = path[i]
      BY <1>1, <2>1 DEF Front
    <3>2. CASE Len(path) = 1
      <4>1. Front(path) = <<>>
        BY <3>1, <3>2
      <4>2. QED
        BY <3>2, <4>1 DEF Parent, Target
    <3>3. CASE Len(path) # 1
      <4>1. Len(path) - 1 \in 1 .. Len(path) - 1 /\ Len(Front(path)) # 0
        BY <1>1, <2>1, <3>1, <3>3
      <4>2. Front(path) # <<>>
        BY <4>1
      <4>3. QED
        BY <3>1, <3>3, <4>1, <4>2 DEF Parent, Target, Last
    <3>4. QED
      BY <3>2, <3>3
  <2>4. QED
    BY <1>1, <1>3, <2>2, <2>3
<1>4. QED
  BY <1>2, <1>3

LEMMA AppendedPath ==
  ASSUME NEW path \in IdPaths, NEW id \in Nat
  PROVE  /\ Append(path, id) \in IdPaths /\ Append(path, id) # <<>>
         /\ Target(Append(path, id)) = id /\ Parent(Append(path, id)) = Target(path)
<1> DEFINE longer == Append(path, id)
<1>1. /\ Len(path) \in Nat /\ path \in Seq(Nat)
      /\ longer \in Seq(Nat) /\ Len(longer) = Len(path) + 1
      /\ \A i \in 1 .. Len(path) : longer[i] = path[i]
      /\ longer[Len(path) + 1] = id
  BY DEF IdPaths
<1> HIDE DEF longer
<1>2. longer # <<>>
  BY <1>1
<1>3. Front(longer) = path
  <2>1. Len(path) = Len(longer) - 1
    BY <1>1
  <2>2. SubSeq(longer, 1, Len(path)) = path
    BY <1>1
  <2>3. QED
    BY <2>1, <2>2 DEF Front
<1>4. QED
  BY <1>1, <1>2, <1>3 DEF Target, Parent, Last, IdPaths, longer

LEMMA ChainAppended ==
  ASSUME NEW t, Good(t), NEW path \in IdPaths, Chain(t, path),
         NEW id \in DOMAIN t \ {Root}, t[id].parent = Target(path)
  PROVE  Chain(t, Append(path, id))
<1>1. /\ Len(path) \in Nat /\ path \in Seq(Nat) /\ DOMAIN path = 1 .. Len(path) /\ id \in Nat
      /\ DOMAIN Append(path, id) = 1 .. Len(path) + 1
      /\ \A i \in 1 .. Len(path) : Append(path, id)[i] = path[i]
      /\ Append(path, id)[Len(path) + 1] = id
  BY DEF IdPaths, Good, IsTree
<1>2. ASSUME NEW i \in 1 .. Len(path) + 1
      PROVE  /\ Append(path, id)[i] \in DOMAIN t \ {Root}
             /\ t[Append(path, id)[i]].parent = IF i = 1 THEN Root ELSE Append(path, id)[i - 1]
  <2>1. CASE i = Len(path) + 1
    <3>1. CASE Len(path) = 0
      <4>1. path = <<>>
        BY <1>1, <3>1
      <4>2. QED
        BY <1>1, <2>1, <3>1, <4>1 DEF Target
    <3>2. CASE Len(path) # 0
      <4>1. path # <<>> /\ Len(path) \in 1 .. Len(path) /\ i # 1 /\ i - 1 = Len(path)
        BY <1>1, <2>1, <3>2
      <4>2. QED
        BY <1>1, <2>1, <4>1 DEF Target, Last
    <3>3. QED
      BY <3>1, <3>2
  <2>2. CASE i # Len(path) + 1
    <3>1. i \in 1 .. Len(path) /\ (i # 1 => i - 1 \in 1 .. Len(path))
      BY <1>1, <2>2
    <3>2. QED
      BY <1>1, <3>1 DEF Chain
  <2>3. QED
    BY <2>1, <2>2
<1>3. QED
  BY <1>1, <1>2 DEF Chain

LEMMA ChainGrown ==
  ASSUME NEW t, NEW u, Grown(t, u), NEW path, Chain(t, path)
  PROVE  Chain(u, path)
BY DEF Grown, Alike, Chain

\* A path that does not end at an element without children does not hold it.
LEMMA ChainShrunk ==
  ASSUME NEW t, Good(t), NEW id \in DOMAIN t \ {Root}, t[id].children = <<>>,
         NEW u, Grown(u, t), DOMAIN u = DOMAIN t \ {id},
         NEW path \in IdPaths, Chain(t, path), Target(path) # id
  PROVE  Chain(u, path)
<1>1. Len(path) \in Nat /\ path \in Seq(Nat) /\ DOMAIN path = 1 .. Len(path)
  BY DEF IdPaths
<1>2. ASSUME NEW i \in 1 .. Len(path)
      PROVE  path[i] # id
  <2>1. CASE i = Len(path)
    <3>1. path # <<>>
      BY <1>1
    <3>2. QED
      BY <2>1, <3>1 DEF Target, Last
  <2>2. CASE i # Len(path)
    <3>1. i + 1 \in 1 .. Len(path) /\ i + 1 # 1 /\ (i + 1) - 1 = i
      <4>1. \A n \in Nat : \A k \in 1 .. n :
              k # n => k + 1 \in 1 .. n /\ k + 1 # 1 /\ (k + 1) - 1 = k
        OBVIOUS
      <4>2. QED
        BY <1>1, <2>2, <4>1
    <3>2. path[i + 1] \in DOMAIN t \ {Root} /\ t[path[i + 1]].parent = path[i]
      BY <1>1, <3>1 DEF Chain
    <3>3. path[i + 1] \in Range(t[path[i]].children)
      BY <3>2 DEF Good, Sound
    <3>4. QED
      BY <3>3, EmptyRange
  <2>3. QED
    BY <2>1, <2>2
<1>3. QED
  BY <1>1, <1>2 DEF Chain, Grown, Alike

\* What a request's path resolves to.
LEMMA ExistingChain ==
  ASSUME Good(tree), NEW path \in Existing
  PROVE  path \in IdPaths /\ Chain(tree, path)
<1>1. PICK n \in 0 .. MaxDepth : path \in [1 .. n -> DOMAIN tree]
  BY DEF Existing
<1>2. DOMAIN tree \subseteq Nat /\ Root \in DOMAIN tree /\ n \in Nat
  BY FilesystemAssumption DEF Good, Sound, IsTree
<1>3. path \in Seq(Nat) /\ Len(path) = n /\ DOMAIN path = 1 .. n
  BY <1>1, <1>2
<1>4. ASSUME NEW i \in 1 .. n
      PROVE  /\ path[i] \in DOMAIN tree \ {Root}
             /\ tree[path[i]].parent = IF i = 1 THEN Root ELSE path[i - 1]
  <2> DEFINE prefix == SubSeq(path, 1, i - 1)
  <2>1. path[i] \in Range(tree[Target(prefix)].children)
    <3>1. \E j \in DOMAIN tree[Target(prefix)].children :
            tree[Target(prefix)].children[j] = path[i]
      BY <1>3 DEF Existing, Resolves
    <3>2. QED
      BY <3>1 DEF Range
  <2>2. Target(prefix) = IF i = 1 THEN Root ELSE path[i - 1]
    <3>1. /\ prefix \in Seq(Nat) /\ Len(prefix) = i - 1
          /\ \A k \in 1 .. i - 1 : prefix[k] = path[k]
      BY <1>2, <1>3
    <3> HIDE DEF prefix
    <3>2. CASE i = 1
      <4>1. prefix = <<>>
        BY <3>1, <3>2
      <4>2. QED
        BY <3>2, <4>1 DEF Target
    <3>3. CASE i # 1
      <4>1. i - 1 \in 1 .. i - 1 /\ Len(prefix) # 0
        BY <1>2, <3>1, <3>3
      <4>2. prefix # <<>>
        BY <4>1
      <4>3. QED
        BY <3>1, <3>3, <4>1, <4>2 DEF Target, Last
    <3>4. QED
      BY <3>2, <3>3
  <2> HIDE DEF prefix
  <2>3. i # 1 => path[i - 1] \in DOMAIN tree
    <3>1. i # 1 => i - 1 \in 1 .. n
      BY <1>2
    <3>2. QED
      BY <1>1, <3>1
  <2>4. Target(prefix) \in DOMAIN tree
    BY <1>2, <2>2, <2>3
  <2>5. path[i] \in DOMAIN tree \ {Root} /\ tree[path[i]].parent = Target(prefix)
    BY <2>1, <2>4 DEF Good, Sound
  <2>6. QED
    BY <2>2, <2>5
<1>5. QED
  BY <1>3, <1>4 DEF Chain, IdPaths

\* The place of an element on the disk.
LEMMA ChainOnDisk ==
  ASSUME Good(tree), NEW path \in IdPaths, Chain(tree, path)
  PROVE  OnDisk(path) \in Seq(Names)
<1>1. Len(path) \in Nat /\ path \in Seq(Nat) /\ DOMAIN path = 1 .. Len(path)
  BY DEF IdPaths
<1>2. \A i \in 1 .. Len(path) : tree[path[i]].name \in Names
  BY <1>1 DEF Chain, Good
<1>3. QED
  BY <1>1, <1>2 DEF OnDisk

-----------------------------------------------------------------------------
(* The updates on their way.  Each insertion is of a new element whose       *)
(* folder the copy has or gets first, insertions come in the order of ids,   *)
(* and the deletion of an element is the last update about it.               *)

Insertions(ds) == {d \in Range(ds) : d.op = "insert"}
Deletions(ds) == {d \in Range(ds) : d.op = "delete" /\ Target(d.path) # Root}

Before ==
  {p \in Updates \X Updates :
     /\ p[1].op = "insert" /\ p[2].op = "insert" => Target(p[1].path) < Target(p[2].path)
     /\ p[1].op = "delete" /\ Target(p[1].path) # Root
          => Target(p[1].path) # Target(p[2].path)}

\* An insertion d on its way to the copy r of the tree t.
Pends(ds, r, t, c, d) ==
  /\ Target(d.path) \in Nat /\ Target(d.path) \notin DOMAIN r /\ Target(d.path) < c
  /\ d.element.name \in Names /\ d.element.children = <<>> /\ d.element.parent = Parent(d.path)
  /\ \/ IsFolderIn(r, d.element.parent)
     \/ \E e \in Insertions(ds) : /\ Target(e.path) = d.element.parent
                                   /\ Target(e.path) < Target(d.path)
                                   /\ e.element.kind = "folder"
  /\ Target(d.path) \in DOMAIN t => Alike(t[Target(d.path)], d.element)
  /\ Target(d.path) \notin DOMAIN t /\ d.element.kind = "file"
       => \E e \in Deletions(ds) : Target(e.path) = Target(d.path)

\* A deletion.
Ends(ds, r, t, d) ==
  /\ Target(d.path) \notin DOMAIN t
  /\ \/ Target(d.path) \in DOMAIN r
     \/ \E e \in Insertions(ds) : Target(e.path) = Target(d.path)
  /\ Target(d.path) \in DOMAIN r => r[Target(d.path)].parent = Parent(d.path)
  /\ \A e \in Insertions(ds) :
       Target(e.path) = Target(d.path) => e.element.parent = Parent(d.path)

\* The tree is the copy with the updates applied, but for empty folders.
Agree(ds, r, t) ==
  /\ \A id \in DOMAIN t \ {Root} :
       id \in DOMAIN r \/ \E d \in Insertions(ds) : Target(d.path) = id
  /\ \A id \in DOMAIN t \cap DOMAIN r : Alike(t[id], r[id])
  /\ \A id \in DOMAIN r \ DOMAIN t :
       r[id].kind = "folder" \/ \E d \in Deletions(ds) : Target(d.path) = id

Follows(ds, r, t, c) ==
  /\ Ordered(ds, Before)
  /\ \A d \in Insertions(ds) : Pends(ds, r, t, c, d)
  /\ \A d \in Deletions(ds) : Ends(ds, r, t, d)
  /\ Agree(ds, r, t)

LEMMA NothingPending ==
  ASSUME NEW t, Good(t), NEW c
  PROVE  Follows(<<>>, t, t, c)
<1>1. Insertions(<<>>) = {} /\ Deletions(<<>>) = {}
  BY EmptyRange DEF Insertions, Deletions
<1>2. QED
  BY <1>1, OrderedEmpty DEF Follows, Agree, Alike

LEMMA SpentIds ==
  ASSUME NEW ds, NEW r, NEW t, NEW c \in Nat, NEW d \in Nat, c <= d, Follows(ds, r, t, c)
  PROVE  Follows(ds, r, t, d)
<1>1. ASSUME NEW e \in Insertions(ds) PROVE Pends(ds, r, t, d, e)
  BY <1>1 DEF Follows, Pends
<1>2. QED
  BY <1>1 DEF Follows

\* A new element is put into the tree and sent to the copy.
LEMMA InsertionSent ==
  ASSUME NEW ds \in Seq(Updates), NEW r, NEW t, Good(r), Good(t),
         NEW c \in Nat \ {Root}, c \notin DOMAIN t, c \notin DOMAIN r, Follows(ds, r, t, c),
         NEW folder \in IdPaths, IsFolderIn(t, Target(folder)),
         NEW name \in Names, NEW kind \in Kinds
  PROVE  LET e == Element(name, kind, Target(folder))
             u == Inserted(t, Target(folder), c, e)
             es == Append(ds, Insertion(Append(folder, c), e))
         IN  /\ es \in Seq(Updates) /\ Follows(es, r, u, c + 1)
             /\ Good(u) /\ Grown(t, u) /\ IsGrownBy(t, u, c, e)
<1> DEFINE e == Element(name, kind, Target(folder))
           u == Inserted(t, Target(folder), c, e)
           new == Insertion(Append(folder, c), e)
           es == Append(ds, new)
<1>1. /\ Append(folder, c) \in IdPaths /\ Target(Append(folder, c)) = c
      /\ Parent(Append(folder, c)) = Target(folder)
  BY AppendedPath
<1>2. /\ Target(folder) \in Nat /\ e \in Elements
      /\ e.name = name /\ e.kind = kind /\ e.parent = Target(folder) /\ e.children = <<>>
  BY DEF Element, Elements, IdPaths, IsFolderIn, Good, IsTree
<1>3. /\ new \in Updates /\ new.op = "insert" /\ new.path = Append(folder, c)
      /\ new.element = e
  BY <1>1, <1>2 DEF Insertion, Updates
<1> HIDE DEF e, u, new, es
<1>4. Good(u) /\ Grown(t, u) /\ DOMAIN u = DOMAIN t \cup {c} /\ u[c] = e
  <2>1. IsNewUnder(e, Target(folder)) /\ c \in Nat
    BY <1>2 DEF IsNewUnder
  <2>2. Good(u) /\ Grown(t, u) /\ IsGrownBy(t, u, c, e)
    BY <2>1, InsertedGood DEF u
  <2>3. QED
    BY <2>2 DEF IsGrownBy
<1>5. es \in Seq(Updates) /\ Range(es) = Range(ds) \cup {new}
  BY <1>3, AppendRange DEF es
<1>6. Range(ds) \subseteq Updates
  BY DEF Range
<1>7. Insertions(es) = Insertions(ds) \cup {new} /\ Deletions(es) = Deletions(ds)
  BY <1>3, <1>5 DEF Insertions, Deletions
<1>8. \A d \in Insertions(ds) : Target(d.path) < c /\ Target(d.path) \in Nat
  BY DEF Follows, Pends
<1>9. \A d \in Deletions(ds) : Target(d.path) # c
  BY <1>8 DEF Follows, Ends
<1>10. Ordered(es, Before)
  <2>1. \A d \in Range(ds) : <<d, new>> \in Before
    BY <1>1, <1>3, <1>6, <1>8, <1>9 DEF Before, Insertions, Deletions
  <2>2. QED
    BY <1>3, <2>1, OrderedAppend DEF Follows, es
<1>11. ASSUME NEW d \in Insertions(es)
       PROVE  Pends(es, r, u, c + 1, d)
  <2>1. CASE d = new
    <3>1. \/ IsFolderIn(r, Target(folder))
          \/ \E f \in Insertions(es) : /\ Target(f.path) = Target(folder)
                                        /\ Target(f.path) < c /\ f.element.kind = "folder"
      <4>1. CASE Target(folder) \in DOMAIN r
        <5>1. Alike(t[Target(folder)], r[Target(folder)])
          BY <4>1 DEF Follows, Agree, IsFolderIn
        <5>2. QED
          BY <4>1, <5>1 DEF Alike, IsFolderIn
      <4>2. CASE Target(folder) \notin DOMAIN r
        <5>1. PICK f \in Insertions(ds) : Target(f.path) = Target(folder)
          BY <4>2 DEF Follows, Agree, IsFolderIn, Good, Sound
        <5>2. Alike(t[Target(folder)], f.element)
          BY <5>1 DEF Follows, Pends, IsFolderIn
        <5>3. f \in Insertions(es) /\ f.element.kind = "folder" /\ Target(f.path) < c
          BY <1>7, <1>8, <5>2 DEF Alike, IsFolderIn
        <5>4. QED
          BY <5>1, <5>3
      <4>3. QED
        BY <4>1, <4>2
    <3>2. c < c + 1 /\ c \in DOMAIN u
      BY <1>4
    <3>3. QED
      BY <1>1, <1>2, <1>3, <1>4, <2>1, <3>1, <3>2 DEF Pends, Alike
  <2>2. CASE d # new
    <3>1. d \in Insertions(ds) /\ Pends(ds, r, t, c, d)
      BY <1>7, <2>2 DEF Follows
    <3>2. Target(d.path) \in Nat /\ Target(d.path) < c /\ Target(d.path) < c + 1 /\ Target(d.path) # c
      BY <1>8, <3>1
    <3>3. /\ Target(d.path) \in DOMAIN u => Alike(u[Target(d.path)], d.element)
          /\ Target(d.path) \notin DOMAIN u => Target(d.path) \notin DOMAIN t
      BY <1>4, <3>1, <3>2 DEF Pends, Grown, Alike
    <3>4. QED
      BY <1>7, <3>1, <3>2, <3>3 DEF Pends
  <2>3. QED
    BY <2>1, <2>2
<1>12. ASSUME NEW d \in Deletions(es)
       PROVE  Ends(es, r, u, d)
  <2>1. d \in Deletions(ds) /\ Ends(ds, r, t, d) /\ Target(d.path) # c
    BY <1>7, <1>9 DEF Follows
  <2>2. QED
    BY <1>1, <1>3, <1>4, <1>7, <2>1 DEF Ends
<1>13. Agree(es, r, u)
  <2>1. \A id \in DOMAIN u \ {Root} :
          id \in DOMAIN r \/ \E d \in Insertions(es) : Target(d.path) = id
    BY <1>1, <1>3, <1>4, <1>7 DEF Follows, Agree
  <2>2. \A id \in DOMAIN u \cap DOMAIN r : Alike(u[id], r[id])
    BY <1>4 DEF Follows, Agree, Grown, Alike
  <2>3. \A id \in DOMAIN r \ DOMAIN u :
          r[id].kind = "folder" \/ \E d \in Deletions(es) : Target(d.path) = id
    BY <1>4, <1>7 DEF Follows, Agree
  <2>4. QED
    BY <2>1, <2>2, <2>3 DEF Agree
<1>14. QED
  BY <1>4, <1>5, <1>10, <1>11, <1>12, <1>13 DEF Follows, IsGrownBy, e, u, new, es

\* An element without children is taken from the tree; the copy is told of it, or it
\* is a folder.
LEMMA DeletionSent ==
  ASSUME NEW ds \in Seq(Updates), NEW r, NEW t, Good(t), NEW c, Follows(ds, r, t, c),
         NEW path \in IdPaths, path # <<>>, Chain(t, path), t[Target(path)].children = <<>>,
         NEW es, \/ es = Append(ds, Deletion(path))
                 \/ es = ds /\ t[Target(path)].kind = "folder"
  PROVE  LET u == Removed(t, Parent(path), Target(path))
         IN  es \in Seq(Updates) /\ Follows(es, r, u, c)
<1> DEFINE id == Target(path)
           u == Removed(t, Parent(path), id)
           new == Deletion(path)
<1>1. id \in DOMAIN t \ {Root} /\ t[id].parent = Parent(path)
  BY ChainTarget DEF Good, Sound
<1>2. Grown(u, t) /\ DOMAIN u = DOMAIN t \ {id}
  BY <1>1, RemovedGood
<1>3. new \in Updates /\ new.op = "delete" /\ new.path = path /\ Target(new.path) = id
  BY DEF Deletion, Updates
<1> HIDE DEF u, new, id
<1>4. /\ es \in Seq(Updates)
      /\ \/ es = Append(ds, new) /\ Range(es) = Range(ds) \cup {new}
         \/ es = ds /\ t[id].kind = "folder"
  <2>1. Append(ds, new) \in Seq(Updates) /\ Range(Append(ds, new)) = Range(ds) \cup {new}
    BY <1>3, AppendRange
  <2>2. es = Append(ds, new) \/ (es = ds /\ t[id].kind = "folder")
    BY DEF new, id
  <2>3. QED
    BY <2>1, <2>2
<1>5. /\ Insertions(es) = Insertions(ds)
      /\ \/ Deletions(es) = Deletions(ds) \cup {new}
         \/ Deletions(es) = Deletions(ds) /\ t[id].kind = "folder"
  BY <1>1, <1>3, <1>4 DEF Insertions, Deletions
<1>6. Ordered(es, Before)
  <2>1. Range(ds) \subseteq Updates
    BY DEF Range
  <2>2. \A d \in Deletions(ds) : Target(d.path) # id
    BY <1>1 DEF Follows, Ends
  <2>3. \A d \in Range(ds) : <<d, new>> \in Before
    BY <1>3, <2>1, <2>2 DEF Before, Deletions
  <2>4. Ordered(Append(ds, new), Before)
    BY <1>3, <2>3, OrderedAppend DEF Follows
  <2>5. QED
    BY <1>4, <2>4 DEF Follows
<1>7. ASSUME NEW d \in Insertions(es)
      PROVE  Pends(es, r, u, c, d)
  <2>1. Pends(ds, r, t, c, d)
    BY <1>5 DEF Follows
  <2>2. Target(d.path) \in DOMAIN u => Alike(u[Target(d.path)], d.element)
    BY <1>2, <2>1 DEF Pends, Grown, Alike
  <2>3. ASSUME Target(d.path) \notin DOMAIN u, d.element.kind = "file"
        PROVE  \E e \in Deletions(es) : Target(e.path) = Target(d.path)
    <3>1. CASE Target(d.path) = id
      <4>1. t[id].kind = "file"
        BY <1>1, <2>1, <2>3, <3>1 DEF Pends, Alike
      <4>2. QED
        BY <1>3, <1>5, <3>1, <4>1
    <3>2. CASE Target(d.path) # id
      BY <1>2, <1>5, <2>1, <2>3, <3>2 DEF Pends
    <3>3. QED
      BY <3>1, <3>2
  <2>4. QED
    BY <1>5, <2>1, <2>2, <2>3 DEF Pends
<1>8. ASSUME NEW d \in Deletions(es)
      PROVE  Ends(es, r, u, d)
  <2>1. CASE d = new
    <3>1. id \in DOMAIN r \/ \E e \in Insertions(es) : Target(e.path) = id
      BY <1>1, <1>5 DEF Follows, Agree
    <3>2. id \in DOMAIN r => r[id].parent = Parent(path)
      BY <1>1 DEF Follows, Agree, Alike
    <3>3. ASSUME NEW e \in Insertions(es), Target(e.path) = id
          PROVE  e.element.parent = Parent(path)
      BY <1>1, <1>5, <3>3 DEF Follows, Pends, Alike
    <3>4. QED
      BY <1>2, <1>3, <2>1, <3>1, <3>2, <3>3 DEF Ends
  <2>2. CASE d # new
    <3>1. Ends(ds, r, t, d)
      BY <1>5, <2>2 DEF Follows
    <3>2. QED
      BY <1>2, <1>5, <3>1 DEF Ends
  <2>3. QED
    BY <2>1, <2>2
<1>9. Agree(es, r, u)
  <2>1. \A x \in DOMAIN u \ {Root} :
          x \in DOMAIN r \/ \E d \in Insertions(es) : Target(d.path) = x
    BY <1>2, <1>5 DEF Follows, Agree
  <2>2. \A x \in DOMAIN u \cap DOMAIN r : Alike(u[x], r[x])
    BY <1>2 DEF Follows, Agree, Grown, Alike
  <2>3. ASSUME NEW x \in DOMAIN r \ DOMAIN u
        PROVE  r[x].kind = "folder" \/ \E d \in Deletions(es) : Target(d.path) = x
    <3>1. CASE x = id
      <4>1. Alike(t[id], r[id])
        BY <1>1, <2>3, <3>1 DEF Follows, Agree
      <4>2. QED
        BY <1>3, <1>5, <3>1, <4>1 DEF Alike
    <3>2. CASE x # id
      BY <1>2, <1>5, <2>3, <3>2 DEF Follows, Agree
    <3>3. QED
      BY <3>1, <3>2
  <2>4. QED
    BY <2>1, <2>2, <2>3 DEF Agree
<1>10. QED
  BY <1>4, <1>6, <1>7, <1>8, <1>9 DEF Follows, u, id

\* The deletion of the root, which stays in the tree.
LEMMA RootDeletionSent ==
  ASSUME NEW ds \in Seq(Updates), NEW r, NEW t, NEW c, Follows(ds, r, t, c)
  PROVE  LET es == Append(ds, Deletion(<<>>))
         IN  es \in Seq(Updates) /\ Follows(es, r, t, c)
<1> DEFINE new == Deletion(<<>>)
           es == Append(ds, new)
<1>1. new \in Updates /\ new.op = "delete" /\ Target(new.path) = Root
  BY DEF Deletion, Updates, Target, IdPaths
<1> HIDE DEF new
<1>2. es \in Seq(Updates) /\ Range(es) = Range(ds) \cup {new}
  BY <1>1, AppendRange
<1>3. Insertions(es) = Insertions(ds) /\ Deletions(es) = Deletions(ds)
  BY <1>1, <1>2 DEF Insertions, Deletions
<1>4. Ordered(es, Before)
  <2>1. Range(ds) \subseteq Updates
    BY DEF Range
  <2>2. \A d \in Range(ds) : <<d, new>> \in Before
    BY <1>1, <2>1 DEF Before
  <2>3. QED
    BY <1>1, <2>2, OrderedAppend DEF Follows
<1> HIDE DEF es
<1>5. \A d \in Insertions(es) : Pends(es, r, t, c, d)
  BY <1>3 DEF Follows, Pends
<1>6. \A d \in Deletions(es) : Ends(es, r, t, d)
  BY <1>3 DEF Follows, Ends
<1>7. Agree(es, r, t)
  BY <1>3 DEF Follows, Agree
<1>8. QED
  BY <1>2, <1>4, <1>5, <1>6, <1>7 DEF Follows, es, new

\* The copy applies the first update, an insertion.
LEMMA InsertionApplied ==
  ASSUME NEW ds \in Seq(Updates), ds # <<>>, NEW r, NEW t, Good(r), NEW c, Follows(ds, r, t, c),
         Head(ds).op = "insert"
  PROVE  LET path == Head(ds).path
             u == Inserted(r, Parent(path), Target(path), Head(ds).element)
         IN  /\ IsFolderIn(r, Parent(path)) /\ Target(path) \notin Range(r[Parent(path)].children)
             /\ Good(u) /\ Follows(Tail(ds), u, t, c)
<1> DEFINE new == Head(ds)
           id == Target(new.path)
           parent == Parent(new.path)
           u == Inserted(r, parent, id, new.element)
           es == Tail(ds)
<1>1. /\ es \in Seq(Updates) /\ Range(ds) = Range(es) \cup {new} /\ new \in Updates
      /\ Ordered(es, Before) /\ \A e \in Range(es) : <<new, e>> \in Before
  BY TailRange, OrderedTail DEF Follows
<1>2. /\ Insertions(ds) = Insertions(es) \cup {new} /\ Deletions(ds) = Deletions(es)
      /\ new.element \in Elements
  BY <1>1 DEF Insertions, Deletions, Updates
<1>3. Pends(ds, r, t, c, new) /\ id \in Nat
  BY <1>2 DEF Follows, Pends
<1>4. \A e \in Insertions(es) : id < Target(e.path) /\ Target(e.path) # id
  <2>1. \A e \in Insertions(es) : id < Target(e.path) /\ Target(e.path) \in Nat
    BY <1>1, <1>2 DEF Before, Insertions, Follows, Pends
  <2>2. QED
    BY <1>3, <2>1
<1>5. IsFolderIn(r, parent)
  <2>1. ASSUME NEW e \in Insertions(ds), Target(e.path) = parent, Target(e.path) < id
        PROVE  FALSE
    <3>1. CASE e = new
      BY <1>3, <2>1, <3>1
    <3>2. CASE e # new
      <4>1. id < Target(e.path) /\ Target(e.path) \in Nat
        BY <1>2, <1>4, <3>2 DEF Follows, Pends
      <4>2. QED
        BY <1>3, <2>1, <4>1
    <3>3. QED
      BY <3>1, <3>2
  <2>2. QED
    BY <1>3, <2>1 DEF Pends
<1>6. /\ Good(u) /\ Grown(r, u) /\ DOMAIN u = DOMAIN r \cup {id} /\ u[id] = new.element
      /\ id \notin Range(r[parent].children)
  <2>1. id \in Nat /\ id \notin DOMAIN r
    BY <1>3 DEF Pends
  <2>2. IsNewUnder(new.element, parent)
    BY <1>2, <1>3 DEF Pends, IsNewUnder
  <2>3. id \notin Range(r[parent].children)
    BY <1>5, <2>1 DEF Good, Sound, IsFolderIn
  <2> HIDE DEF new, id, parent, u, es
  <2>4. Good(u) /\ Grown(r, u) /\ IsGrownBy(r, u, id, new.element)
    BY <1>5, <2>1, <2>2, InsertedGood DEF u
  <2>5. QED
    BY <2>3, <2>4 DEF IsGrownBy
<1> HIDE DEF new, id, parent, u, es
<1>7. ASSUME NEW d \in Insertions(es)
      PROVE  Pends(es, u, t, c, d)
  <2>1. Pends(ds, r, t, c, d) /\ Target(d.path) # id
    BY <1>2, <1>4 DEF Follows
  <2>2. \/ IsFolderIn(u, d.element.parent)
        \/ \E e \in Insertions(es) : /\ Target(e.path) = d.element.parent
                                      /\ Target(e.path) < Target(d.path)
                                      /\ e.element.kind = "folder"
    <3>1. CASE IsFolderIn(r, d.element.parent)
      BY <1>6, <3>1 DEF IsFolderIn, Grown, Alike
    <3>2. CASE new.element.kind = "folder" /\ Target(new.path) = d.element.parent
      BY <1>6, <3>2 DEF IsFolderIn, id
    <3>3. QED
      BY <1>2, <2>1, <3>1, <3>2 DEF Pends
  <2>3. QED
    BY <1>2, <1>6, <2>1, <2>2 DEF Pends
<1>8. ASSUME NEW d \in Deletions(es)
      PROVE  Ends(es, u, t, d)
  <2>1. Ends(ds, r, t, d)
    BY <1>2 DEF Follows
  <2>2. CASE Target(d.path) = id
    <3>1. new.element.parent = Parent(d.path)
      BY <1>2, <2>1, <2>2 DEF Ends, id
    <3>2. QED
      BY <1>2, <1>6, <2>1, <2>2, <3>1 DEF Ends
  <2>3. CASE Target(d.path) # id
    <3>1. Target(d.path) \in DOMAIN r <=> Target(d.path) \in DOMAIN u
      BY <1>6, <2>3
    <3>2. Target(d.path) \in DOMAIN r => u[Target(d.path)].parent = r[Target(d.path)].parent
      BY <1>6 DEF Grown, Alike
    <3>3. Target(new.path) = id
      BY DEF id
    <3>4. QED
      BY <1>2, <2>1, <2>3, <3>1, <3>2, <3>3 DEF Ends
  <2>4. QED
    BY <2>2, <2>3
<1>9. Agree(es, u, t)
  <2>1. \A x \in DOMAIN t \ {Root} :
          x \in DOMAIN u \/ \E d \in Insertions(es) : Target(d.path) = x
    BY <1>2, <1>6 DEF Follows, Agree, id
  <2>2. ASSUME NEW x \in DOMAIN t \cap DOMAIN u PROVE Alike(t[x], u[x])
    <3>1. CASE x = id
      BY <1>3, <1>6, <2>2, <3>1 DEF Pends, id
    <3>2. CASE x # id
      BY <1>6, <2>2, <3>2 DEF Follows, Agree, Grown, Alike
    <3>3. QED
      BY <3>1, <3>2
  <2>3. ASSUME NEW x \in DOMAIN u \ DOMAIN t
        PROVE  u[x].kind = "folder" \/ \E d \in Deletions(es) : Target(d.path) = x
    <3>1. CASE x = id
      <4>1. new.element.kind \in {"file", "folder"}
        BY <1>2 DEF Elements, Kinds
      <4>2. QED
        BY <1>2, <1>3, <1>6, <2>3, <3>1, <4>1 DEF Pends, id
    <3>2. CASE x # id
      <4>1. x \in DOMAIN r \ DOMAIN t /\ u[x].kind = r[x].kind
        BY <1>6, <2>3, <3>2 DEF Grown, Alike
      <4>2. QED
        BY <1>2, <4>1 DEF Follows, Agree
    <3>3. QED
      BY <3>1, <3>2
  <2>4. QED
    BY <2>1, <2>2, <2>3 DEF Agree
<1>10. QED
  BY <1>1, <1>5, <1>6, <1>7, <1>8, <1>9 DEF Follows, new, id, parent, u, es

\* The copy applies the first update, a deletion.
LEMMA FirstDeletion ==
  ASSUME NEW ds \in Seq(Updates), ds # <<>>, NEW r, NEW t, Good(r), NEW c, Follows(ds, r, t, c),
         Head(ds).op = "delete", Target(Head(ds).path) # Root
  PROVE  LET id == Target(Head(ds).path)
         IN  /\ id \in DOMAIN r /\ id \notin DOMAIN t /\ r[id].parent = Parent(Head(ds).path)
             /\ r[id].parent \in DOMAIN r
             /\ \A e \in Range(Tail(ds)) : Target(e.path) # id
<1> DEFINE id == Target(Head(ds).path)
<1>1. /\ Range(ds) = Range(Tail(ds)) \cup {Head(ds)} /\ Head(ds) \in Updates
      /\ \A e \in Range(Tail(ds)) : <<Head(ds), e>> \in Before
  BY TailRange, OrderedTail DEF Follows
<1>2. \A e \in Range(Tail(ds)) : Target(e.path) # id
  BY <1>1 DEF Before
<1>3. Ends(ds, r, t, Head(ds))
  BY <1>1 DEF Follows, Deletions
<1>4. \A e \in Insertions(ds) : Target(e.path) # id
  BY <1>1, <1>2 DEF Insertions
<1>5. QED
  BY <1>2, <1>3, <1>4 DEF Ends, Good, Sound

LEMMA DeletionDropped ==
  ASSUME NEW ds \in Seq(Updates), ds # <<>>, NEW r, NEW t, Good(r), Good(t), NEW c,
         Follows(ds, r, t, c), Head(ds).op = "delete",
         r[Target(Head(ds).path)].kind = "folder" \/ Target(Head(ds).path) = Root
  PROVE  Follows(Tail(ds), r, t, c)
<1> DEFINE es == Tail(ds)
           id == Target(Head(ds).path)
<1>1. /\ es \in Seq(Updates) /\ Range(ds) = Range(es) \cup {Head(ds)}
      /\ Ordered(es, Before)
  BY TailRange, OrderedTail DEF Follows
<1>2. /\ Insertions(es) = Insertions(ds) /\ Deletions(es) \subseteq Deletions(ds)
      /\ \A d \in Deletions(ds) : d \in Deletions(es) \/ Target(d.path) = id
  BY <1>1 DEF Insertions, Deletions
<1>3. id # Root => id \in DOMAIN r /\ id \notin DOMAIN t
  BY FirstDeletion
<1>4. id = Root => id \in DOMAIN r /\ id \in DOMAIN t
  BY DEF Good, Sound
<1> HIDE DEF es
<1>5. ASSUME NEW d \in Insertions(es)
      PROVE  Pends(es, r, t, c, d)
  <2>1. Pends(ds, r, t, c, d) /\ Target(d.path) # id
    BY <1>2, <1>3, <1>4 DEF Follows, Pends
  <2>2. QED
    BY <1>2, <2>1 DEF Pends
<1>6. ASSUME NEW d \in Deletions(es)
      PROVE  Ends(es, r, t, d)
  BY <1>2 DEF Follows, Ends
<1>7. Agree(es, r, t)
  <2>1. r[id].kind = "folder"
    BY DEF Good, Sound
  <2>2. \A x \in DOMAIN r \ DOMAIN t :
          r[x].kind = "folder" \/ \E d \in Deletions(es) : Target(d.path) = x
    BY <1>2, <2>1 DEF Follows, Agree
  <2>3. QED
    BY <1>2, <2>2 DEF Follows, Agree
<1>8. QED
  BY <1>1, <1>5, <1>6, <1>7 DEF Follows, es

LEMMA DeletionApplied ==
  ASSUME NEW ds \in Seq(Updates), ds # <<>>, NEW r, NEW t, Good(r), NEW c, Follows(ds, r, t, c),
         Head(ds).op = "delete", Target(Head(ds).path) # Root,
         r[Target(Head(ds).path)].kind = "file"
  PROVE  LET u == Removed(r, Parent(Head(ds).path), Target(Head(ds).path))
         IN  Good(u) /\ Follows(Tail(ds), u, t, c)
<1> DEFINE es == Tail(ds)
           id == Target(Head(ds).path)
           u == Removed(r, Parent(Head(ds).path), id)
<1>1. /\ es \in Seq(Updates) /\ Range(ds) = Range(es) \cup {Head(ds)}
      /\ Ordered(es, Before)
  BY TailRange, OrderedTail DEF Follows
<1>2. /\ Insertions(es) = Insertions(ds) /\ Deletions(es) \subseteq Deletions(ds)
      /\ \A d \in Deletions(ds) : d \in Deletions(es) \/ Target(d.path) = id
  BY <1>1 DEF Insertions, Deletions
<1>3. /\ id \in DOMAIN r \ {Root} /\ id \notin DOMAIN t /\ r[id].parent = Parent(Head(ds).path)
      /\ \A e \in Range(es) : Target(e.path) # id
  BY FirstDeletion
<1>4. Good(u) /\ Grown(u, r) /\ DOMAIN u = DOMAIN r \ {id}
  <2>1. r[id].children = <<>>
    BY <1>3 DEF Good, Sound
  <2>2. QED
    BY <1>3, <2>1, RemovedGood
<1>5. \A d \in Insertions(es) \cup Deletions(es) : Target(d.path) # id
  BY <1>3 DEF Insertions, Deletions
<1>6. r[id].kind = "file"
  OBVIOUS
<1> HIDE DEF es, id, u
<1>7. ASSUME NEW d \in Insertions(es)
      PROVE  Pends(es, u, t, c, d)
  <2>1. Pends(ds, r, t, c, d) /\ Target(d.path) # id
    BY <1>2, <1>5 DEF Follows
  <2>2. IsFolderIn(r, d.element.parent) => IsFolderIn(u, d.element.parent)
    BY <1>4, <1>6 DEF IsFolderIn, Grown, Alike
  <2>3. QED
    BY <1>2, <1>4, <2>1, <2>2 DEF Pends
<1>8. ASSUME NEW d \in Deletions(es)
      PROVE  Ends(es, u, t, d)
  <2>1. Ends(ds, r, t, d) /\ Target(d.path) # id
    BY <1>2, <1>5 DEF Follows
  <2>2. Target(d.path) \in DOMAIN r <=> Target(d.path) \in DOMAIN u
    BY <1>4, <2>1
  <2>3. Target(d.path) \in DOMAIN u => u[Target(d.path)].parent = r[Target(d.path)].parent
    BY <1>4 DEF Grown, Alike
  <2>4. QED
    BY <1>2, <2>1, <2>2, <2>3 DEF Ends
<1>9. Agree(es, u, t)
  <2>1. \A x \in DOMAIN t \ {Root} :
          x \in DOMAIN u \/ \E d \in Insertions(es) : Target(d.path) = x
    BY <1>2, <1>3, <1>4 DEF Follows, Agree
  <2>2. \A x \in DOMAIN t \cap DOMAIN u : Alike(t[x], u[x])
    BY <1>4 DEF Follows, Agree, Grown, Alike
  <2>3. \A x \in DOMAIN u \ DOMAIN t :
          u[x].kind = "folder" \/ \E d \in Deletions(es) : Target(d.path) = x
    BY <1>2, <1>4 DEF Follows, Agree, Grown, Alike
  <2>4. QED
    BY <2>1, <2>2, <2>3 DEF Agree
<1>10. QED
  BY <1>1, <1>4, <1>7, <1>8, <1>9 DEF Follows, es, u, id

-----------------------------------------------------------------------------
(* The calls still to make.  While elements are listed or copied, at most    *)
(* the last call is a deletion, of the request's source.  While they are     *)
(* deleted, an open folder's children are all before it, and a folder is     *)
(* open if a child of it is to be deleted, but for the source itself, which  *)
(* has the smallest rank.                                                    *)

Fits(t, f) ==
  /\ Chain(t, f.path)
  /\ f.op \in {"copy", "make"} => Chain(t, f.to)
  /\ f.op = "make" => Target(f.path) # Root /\ IsFolderIn(t, Target(f.to))
  /\ f.op = "list" => IsFolderIn(t, Target(f.path))

CopyFirst == {p \in Frames \X Frames : p[1].op # "delete"}

Copying(w, from) ==
  /\ Ordered(w, CopyFirst)
  /\ \A f \in Range(w) : f.op = "delete" => f = DeleteFrame(from, FALSE)

ChildFirst(t) ==
  {p \in Frames \X Frames :
     /\ Target(p[1].path) # Target(p[2].path)
     /\ p[1].open => t[Target(p[2].path)].parent # Target(p[1].path)}

Deleting(t, w, from) ==
  /\ \A f \in Range(w) : f.op = "delete"
  /\ Ordered(w, ChildFirst(t))
  /\ \A f \in Range(w) :
       \/ Target(f.path) = Target(from)
       \/ \E g \in Range(w) : g.open /\ Target(g.path) = t[Target(f.path)].parent
  /\ \A f \in Range(w) : f.open =>
       \A child \in Range(t[Target(f.path)].children) :
         \E g \in Range(w) : Target(g.path) = child
  /\ \E rank : \E low \in Nat :
       /\ Ranked(t, rank)
       /\ Target(from) \in DOMAIN t => rank[Target(from)] = low
       /\ \A f \in Range(w) : Target(f.path) = Target(from) \/ low < rank[Target(f.path)]

Planned(t, w, from) ==
  /\ \A f \in Range(w) : Fits(t, f)
  /\ Copying(w, from) \/ Deleting(t, w, from)

LEMMA NothingPlanned ==
  ASSUME NEW t, NEW from
  PROVE  Planned(t, <<>>, from)
BY EmptyRange, OrderedEmpty DEF Planned, Copying

LEMMA FitsGrown ==
  ASSUME NEW t, NEW u, Grown(t, u), NEW f, Fits(t, f)
  PROVE  Fits(u, f)
BY ChainGrown DEF Fits, IsFolderIn, Grown, Alike

\* A request starts with copying or deleting calls.
LEMMA PlanStarted ==
  ASSUME NEW t, NEW from, NEW f \in Frames, Fits(t, f),
         f.op # "delete" \/ f = DeleteFrame(from, FALSE)
  PROVE  /\ <<f>> \in Seq(Frames) /\ Planned(t, <<f>>, from)
<1>1. <<f>> \in Seq(Frames) /\ Range(<<f>>) = {f} /\ DOMAIN <<f>> = {1}
  <2>1. <<f>> \in Seq(Frames) /\ DOMAIN <<f>> = {1} /\ <<f>>[1] = f
    OBVIOUS
  <2>2. QED
    BY <2>1 DEF Range
<1>2. Ordered(<<f>>, CopyFirst)
  BY <1>1 DEF Ordered
<1>3. QED
  BY <1>1, <1>2 DEF Planned, Copying

LEMMA MovePlanned ==
  ASSUME NEW t, NEW from \in IdPaths, NEW to \in IdPaths, Chain(t, from), Chain(t, to)
  PROVE  LET w == <<CopyFrame(from, to), DeleteFrame(from, FALSE)>>
         IN  w \in Seq(Frames) /\ Planned(t, w, from)
<1> DEFINE f == CopyFrame(from, to)
           g == DeleteFrame(from, FALSE)
           w == <<f, g>>
<1>1. /\ f \in Frames /\ f.op = "copy" /\ f.path = from /\ f.to = to
      /\ g \in Frames /\ g.op = "delete" /\ g.path = from
  BY DEF CopyFrame, DeleteFrame, Frames
<1>2. Fits(t, f) /\ Fits(t, g)
  BY <1>1 DEF Fits
<1> HIDE DEF f, g
<1>3. w \in Seq(Frames) /\ DOMAIN w = {1, 2} /\ w[1] = f /\ w[2] = g
  BY <1>1
<1>4. Range(w) = {f, g}
  BY <1>3 DEF Range
<1>5. Ordered(w, CopyFirst)
  BY <1>1, <1>3 DEF Ordered, CopyFirst
<1>6. QED
  BY <1>1, <1>2, <1>3, <1>4, <1>5 DEF Planned, Copying, f, g

\* A call that is not a deletion is replaced by others of the kind.
LEMMA CallReplaced ==
  ASSUME NEW t, NEW u, Grown(t, u), NEW from, NEW w \in Seq(Frames), w # <<>>,
         Planned(t, w, from), Head(w).op # "delete",
         NEW calls \in Seq(Frames), Ordered(calls, CopyFirst),
         \A f \in Range(calls) : f.op # "delete" /\ Fits(u, f)
  PROVE  calls \o Tail(w) \in Seq(Frames) /\ Planned(u, calls \o Tail(w), from)
<1>1. /\ Tail(w) \in Seq(Frames) /\ Head(w) \in Range(w) /\ Range(w) = Range(Tail(w)) \cup {Head(w)}
  BY TailRange
<1>2. Copying(w, from)
  BY <1>1 DEF Planned, Deleting
<1>3. Ordered(Tail(w), CopyFirst)
  BY <1>2, OrderedTail DEF Copying
<1>4. /\ calls \o Tail(w) \in Seq(Frames)
      /\ Range(calls \o Tail(w)) = Range(calls) \cup Range(Tail(w))
  BY <1>1, ConcatRange
<1>5. Ordered(calls \o Tail(w), CopyFirst)
  <2>1. Range(calls) \subseteq Frames /\ Range(Tail(w)) \subseteq Frames
    BY <1>1 DEF Range
  <2>2. \A d \in Range(calls), e \in Range(Tail(w)) : <<d, e>> \in CopyFirst
    BY <2>1 DEF CopyFirst
  <2>3. QED
    BY <1>1, <1>3, <2>2, OrderedConcat
<1>6. \A f \in Range(Tail(w)) : Fits(u, f)
  BY <1>1, FitsGrown DEF Planned
<1>7. \A f \in Range(calls \o Tail(w)) : f.op = "delete" => f = DeleteFrame(from, FALSE)
  BY <1>1, <1>2, <1>4 DEF Copying
<1>8. QED
  BY <1>4, <1>5, <1>6, <1>7 DEF Planned, Copying

LEMMA CallFollowed ==
  ASSUME NEW t, NEW u, Grown(t, u), NEW from, NEW w \in Seq(Frames), w # <<>>,
         Planned(t, w, from), Head(w).op # "delete",
         NEW f \in Frames, f.op # "delete", Fits(u, f)
  PROVE  <<f>> \o Tail(w) \in Seq(Frames) /\ Planned(u, <<f>> \o Tail(w), from)
<1> DEFINE single == <<f>>
<1>1. single \in Seq(Frames) /\ Ordered(single, CopyFirst) /\ Range(single) = {f}
  <2>1. single \in Seq(Frames) /\ DOMAIN single = {1} /\ single[1] = f
    OBVIOUS
  <2>2. QED
    BY <2>1 DEF Range, Ordered
<1> HIDE DEF single
<1>2. single \o Tail(w) \in Seq(Frames) /\ Planned(u, single \o Tail(w), from)
  BY <1>1, CallReplaced
<1>3. QED
  BY <1>2 DEF single

LEMMA CallLeft ==
  ASSUME NEW t, NEW u, Grown(t, u), NEW from, NEW w \in Seq(Frames), w # <<>>,
         Planned(t, w, from), Head(w).op # "delete"
  PROVE  Planned(u, Tail(w), from)
<1>1. /\ Tail(w) \in Seq(Frames) /\ Head(w) \in Range(w) /\ Range(w) = Range(Tail(w)) \cup {Head(w)}
  BY TailRange
<1>2. Copying(w, from)
  BY <1>1 DEF Planned, Deleting
<1>3. Ordered(Tail(w), CopyFirst)
  BY <1>2, OrderedTail DEF Copying
<1>4. \A f \in Range(Tail(w)) : Fits(u, f)
  BY <1>1, FitsGrown DEF Planned
<1>5. QED
  BY <1>1, <1>2, <1>3, <1>4 DEF Planned, Copying

\* When the last call is the deletion of the source, deleting begins.
LEMMA DeletingBegins ==
  ASSUME NEW t, Good(t), NEW from, NEW w \in Seq(Frames), w # <<>>, Planned(t, w, from),
         Head(w).op = "delete"
  PROVE  Deleting(t, w, from)
<1>1. /\ Tail(w) \in Seq(Frames) /\ Head(w) \in Range(w) /\ Range(w) = Range(Tail(w)) \cup {Head(w)}
      /\ Head(w) \in Frames /\ Len(Tail(w)) = Len(w) - 1
  BY TailRange
<1>2. CASE Copying(w, from)
  <2>1. Tail(w) = <<>>
    <3>1. \A e \in Range(Tail(w)) : <<Head(w), e>> \in CopyFirst
      BY <1>2, OrderedTail DEF Copying
    <3>2. Range(Tail(w)) = {}
      BY <3>1 DEF CopyFirst
    <3>3. QED
      BY <1>1, <3>2, NothingInRange
  <2>2. Range(w) = {Head(w)} /\ Head(w) = DeleteFrame(from, FALSE)
    BY <1>1, <1>2, <2>1, EmptyRange DEF Copying
  <2>3. Head(w).path = from /\ Head(w).open = FALSE
    BY <2>2 DEF DeleteFrame
  <2>4. Ordered(w, ChildFirst(t))
    <3>1. Len(w) \in Nat /\ DOMAIN w = 1 .. Len(w)
      OBVIOUS
    <3>2. Len(Tail(w)) = 0
      <4>1. Len(<<>>) = 0
        OBVIOUS
      <4>2. QED
        BY <2>1, <4>1, Zenon
    <3>3. Len(w) = 1
      <4>1. \A n \in Nat : 0 = n - 1 => n = 1
        OBVIOUS
      <4>2. QED
        BY <1>1, <3>1, <3>2, <4>1, Zenon
    <3>4. \A i, j \in DOMAIN w : ~(i < j)
      BY <3>1, <3>3
    <3>5. QED
      BY <3>4 DEF Ordered
  <2>5. Target(from) \in DOMAIN t
    <3>1. Head(w).path \in IdPaths /\ Chain(t, Head(w).path)
      BY <1>1 DEF Planned, Fits, Frames
    <3>2. QED
      BY <2>3, <3>1, ChainTarget
  <2>6. PICK rank : Ranked(t, rank)
    BY DEF Good
  <2>7. rank[Target(from)] \in Nat
    BY <2>5, <2>6 DEF Ranked
  <2>8. QED
    BY <2>2, <2>3, <2>4, <2>6, <2>7 DEF Deleting
<1>3. QED
  BY <1>2 DEF Planned

\* A folder is opened: its children go first.
LEMMA FolderOpened ==
  ASSUME NEW t, Good(t), NEW from, NEW w \in Seq(Frames), w # <<>>, Planned(t, w, from),
         Deleting(t, w, from), ~Head(w).open
  PROVE  LET path == Head(w).path
             children == t[Target(path)].children
             v == [i \in DOMAIN children |-> DeleteFrame(Append(path, children[i]), FALSE)]
                    \o <<DeleteFrame(path, TRUE)>> \o Tail(w)
         IN  v \in Seq(Frames) /\ Planned(t, v, from)
<1> DEFINE path == Head(w).path
           id == Target(path)
           children == t[id].children
           calls == [i \in DOMAIN children |-> DeleteFrame(Append(path, children[i]), FALSE)]
           top == DeleteFrame(path, TRUE)
           v == calls \o <<top>> \o Tail(w)
<1>1. /\ Tail(w) \in Seq(Frames) /\ Head(w) \in Range(w) /\ Head(w) \in Frames
      /\ Range(w) = Range(Tail(w)) \cup {Head(w)} /\ Range(Tail(w)) \subseteq Frames
  <2>1. /\ Tail(w) \in Seq(Frames) /\ Head(w) \in Range(w) /\ Head(w) \in Frames
        /\ Range(w) = Range(Tail(w)) \cup {Head(w)}
    BY TailRange
  <2>2. QED
    BY <2>1 DEF Range
<1>2. Ordered(Tail(w), ChildFirst(t)) /\ \A e \in Range(Tail(w)) : <<Head(w), e>> \in ChildFirst(t)
  BY OrderedTail DEF Deleting
<1>3. path \in IdPaths /\ Chain(t, path) /\ id \in DOMAIN t /\ id \in Nat
  <2>1. path \in IdPaths /\ Chain(t, path)
    BY <1>1 DEF Planned, Fits, Deleting, Frames
  <2>2. QED
    BY <2>1, ChainTarget
<1>0. PICK rank : \E low \in Nat :
        /\ Ranked(t, rank)
        /\ Target(from) \in DOMAIN t => rank[Target(from)] = low
        /\ \A f \in Range(w) : Target(f.path) = Target(from) \/ low < rank[Target(f.path)]
  BY DEF Deleting
<1>4. PICK low \in Nat :
        /\ Ranked(t, rank)
        /\ Target(from) \in DOMAIN t => rank[Target(from)] = low
        /\ \A f \in Range(w) : Target(f.path) = Target(from) \/ low < rank[Target(f.path)]
  BY <1>0
<1>5. \A child \in Range(children) :
        /\ child \in DOMAIN t \ {Root} /\ child \in Nat /\ t[child].parent = id
        /\ child # id /\ child # Target(from) /\ low < rank[child]
  <2>1. ASSUME NEW child \in Range(children)
        PROVE  /\ child \in DOMAIN t \ {Root} /\ child \in Nat /\ t[child].parent = id
               /\ child # id /\ child # Target(from) /\ low < rank[child]
    <3>1. child \in DOMAIN t \ {Root} /\ child \in Nat /\ t[child].parent = id
      BY <1>3 DEF Good, Sound, IsTree
    <3>2. rank[id] \in Nat /\ rank[child] \in Nat /\ rank[id] < rank[child]
      BY <1>3, <1>4, <3>1 DEF Ranked
    <3>3. rank[id] = low \/ low < rank[id]
      BY <1>1, <1>3, <1>4
    <3>4. low < rank[child] /\ rank[child] # low
      BY <1>4, <3>2, <3>3
    <3>5. child # id
      BY <3>2
    <3>6. QED
      BY <1>4, <3>1, <3>4, <3>5
  <2>2. QED
    BY <2>1
<1> HIDE DEF id, path
<1>6. /\ calls \in Seq(Frames) /\ DOMAIN calls = DOMAIN children
      /\ \A i \in DOMAIN children :
           /\ calls[i].op = "delete" /\ ~calls[i].open
           /\ Target(calls[i].path) = children[i] /\ Chain(t, calls[i].path)
  <2>1. children \in Seq(Nat) /\ DOMAIN children = 1 .. Len(children) /\ Len(children) \in Nat
    BY <1>3 DEF Good, IsTree, Elements, IdPaths
  <2>2. \A i \in DOMAIN children : children[i] \in Range(children) /\ children[i] \in Nat
    BY <2>1 DEF Range
  <2> HIDE DEF children
  <2>3. \A child \in Range(children) :
          /\ Append(path, child) \in IdPaths /\ Target(Append(path, child)) = child
          /\ Chain(t, Append(path, child))
    BY <1>3, <1>5, AppendedPath, ChainAppended DEF id
  <2>4. \A i \in DOMAIN children :
          /\ DeleteFrame(Append(path, children[i]), FALSE) \in Frames
          /\ calls[i] = DeleteFrame(Append(path, children[i]), FALSE)
    BY <2>2, <2>3 DEF DeleteFrame, Frames
  <2>5. DOMAIN calls = DOMAIN children
    OBVIOUS
  <2>6. \A i \in DOMAIN children :
          /\ calls[i].op = "delete" /\ ~calls[i].open /\ calls[i].path = Append(path, children[i])
    BY <2>4 DEF DeleteFrame
  <2> HIDE DEF calls
  <2>7. calls \in Seq(Frames)
    <3>1. \A i \in 1 .. Len(children) : calls[i] \in Frames
      BY <2>1, <2>4
    <3>2. calls \in [1 .. Len(children) -> Frames]
      BY <2>1, <2>4, <2>5, <3>1 DEF calls
    <3>3. QED
      BY <2>1, <3>2
  <2>8. QED
    BY <2>2, <2>3, <2>5, <2>6, <2>7
<1>7. top \in Frames /\ top.op = "delete" /\ top.open /\ top.path = path
  BY <1>3 DEF DeleteFrame, Frames
<1> HIDE DEF calls, top, children
<1>8. \A d \in Range(calls) :
        /\ d \in Frames /\ d.op = "delete" /\ ~d.open
        /\ Target(d.path) \in Range(children) /\ Chain(t, d.path)
  BY <1>6 DEF Range
<1>9. \A child \in Range(children) : \E d \in Range(calls) : Target(d.path) = child
  BY <1>6 DEF Range
<1>10. /\ v \in Seq(Frames) /\ Range(v) = Range(calls) \cup {top} \cup Range(Tail(w))
       /\ calls \o <<top>> \in Seq(Frames) /\ Range(calls \o <<top>>) = Range(calls) \cup {top}
  <2> DEFINE single == <<top>>
  <2>1. single \in Seq(Frames) /\ Range(single) = {top}
    <3>1. single \in Seq(Frames) /\ DOMAIN single = {1} /\ single[1] = top
      BY <1>7
    <3>2. QED
      BY <3>1 DEF Range
  <2> HIDE DEF single
  <2> DEFINE front == calls \o single
             rest == Tail(w)
  <2>2. front \in Seq(Frames) /\ Range(front) = Range(calls) \cup {top}
    BY <1>6, <2>1, ConcatRange
  <2>3. rest \in Seq(Frames)
    BY <1>1
  <2> HIDE DEF front, rest
  <2>4. front \o rest \in Seq(Frames) /\ Range(front \o rest) = Range(front) \cup Range(rest)
    BY <2>2, <2>3, ConcatRange
  <2>5. QED
    BY <2>2, <2>4 DEF front, rest, single
<1>11. \A e \in Range(Tail(w)) :
         /\ e \in Frames /\ Target(e.path) \in DOMAIN t /\ Target(e.path) # id
         /\ t[Target(e.path)].parent # id
  <2>1. ASSUME NEW e \in Range(Tail(w))
        PROVE  /\ e \in Frames /\ Target(e.path) \in DOMAIN t /\ Target(e.path) # id
               /\ t[Target(e.path)].parent # id
    <3>1. e \in Frames /\ e.op = "delete" /\ e.path \in IdPaths /\ Chain(t, e.path)
      BY <1>1, <2>1 DEF Planned, Fits, Deleting, Frames
    <3>2. Target(e.path) \in DOMAIN t
      BY <3>1, ChainTarget
    <3>3. \A g \in Range(Tail(w)) : Target(g.path) # id
      BY <1>2 DEF ChildFirst, id, path
    <3>4. ASSUME t[Target(e.path)].parent = id
          PROVE  FALSE
      <4>1. Target(e.path) # Root
        BY <1>3, <3>4, FilesystemAssumption DEF Good, Sound
      <4>2. Target(e.path) \in Range(children)
        BY <3>2, <3>4, <4>1 DEF Good, Sound, children
      <4>3. Target(e.path) # Target(from)
        BY <1>5, <4>2
      <4>4. PICK g \in Range(w) : g.open /\ Target(g.path) = id
        BY <1>1, <2>1, <3>4, <4>3 DEF Deleting
      <4>5. QED
        BY <1>1, <3>3, <4>4
    <3>5. QED
      BY <3>1, <3>2, <3>3, <3>4
  <2>2. QED
    BY <2>1
<1>12. Ordered(calls, ChildFirst(t))
  <2>1. children \in Seq(Nat) /\ IsInjective(children) /\ DOMAIN children \subseteq Nat
    BY <1>3 DEF Good, Sound, IsTree, Elements, IdPaths, children
  <2>2. \A i, j \in DOMAIN children : i < j => children[i] # children[j]
    BY <2>1 DEF IsInjective
  <2>3. \A i \in DOMAIN children : calls[i] \in Frames
    BY <1>6
  <2>4. QED
    BY <1>6, <2>2, <2>3 DEF Ordered, ChildFirst
<1>13. Ordered(calls \o <<top>>, ChildFirst(t))
  <2>1. <<top>> \in Seq(Frames) /\ DOMAIN <<top>> = {1} /\ <<top>>[1] = top
    BY <1>7
  <2>2. Ordered(<<top>>, ChildFirst(t)) /\ Range(<<top>>) = {top}
    BY <2>1 DEF Ordered, Range
  <2>3. \A d \in Range(calls) : <<d, top>> \in ChildFirst(t)
    BY <1>5, <1>7, <1>8 DEF ChildFirst, id
  <2>4. QED
    BY <1>6, <1>12, <2>1, <2>2, <2>3, OrderedConcat
<1>14. Ordered(v, ChildFirst(t))
  <2>1. \A d \in Range(calls), e \in Range(Tail(w)) : <<d, e>> \in ChildFirst(t)
    BY <1>5, <1>8, <1>11 DEF ChildFirst
  <2>2. \A e \in Range(Tail(w)) : <<top, e>> \in ChildFirst(t)
    BY <1>7, <1>11 DEF ChildFirst, id
  <2>3. QED
    BY <1>1, <1>2, <1>10, <1>13, <2>1, <2>2, OrderedConcat
<1> HIDE DEF v
<1>15. \A f \in Range(v) : f.op = "delete" /\ Chain(t, f.path)
  BY <1>1, <1>3, <1>7, <1>8, <1>10 DEF Planned, Fits, Deleting
<1>16. \A g \in Range(w) : g.open => g \in Range(v)
  BY <1>1, <1>10
<1>17. \A g \in Range(w) : \E h \in Range(v) : Target(h.path) = Target(g.path)
  BY <1>1, <1>7, <1>10 DEF path
<1>18. ASSUME NEW f \in Range(v)
       PROVE  \/ Target(f.path) = Target(from)
              \/ \E g \in Range(v) : g.open /\ Target(g.path) = t[Target(f.path)].parent
  <2>1. CASE f \in Range(calls)
    BY <1>5, <1>7, <1>8, <1>10, <2>1 DEF id
  <2>2. CASE f \in Range(w)
    BY <1>16, <2>2 DEF Deleting
  <2>3. CASE f = top
    <3>1. Target(f.path) = Target(Head(w).path)
      BY <1>7, <2>3 DEF path
    <3>2. QED
      BY <1>1, <1>16, <3>1 DEF Deleting
  <2>4. QED
    BY <1>1, <1>10, <2>1, <2>2, <2>3
<1>19. ASSUME NEW f \in Range(v), f.open, NEW child \in Range(t[Target(f.path)].children)
       PROVE  \E g \in Range(v) : Target(g.path) = child
  <2>1. CASE f = top
    <3>1. child \in Range(children)
      BY <1>7, <1>19, <2>1 DEF children, id
    <3>2. QED
      BY <1>9, <1>10, <3>1
  <2>2. CASE f \in Range(w)
    <3>1. \E g \in Range(w) : Target(g.path) = child
      BY <1>19, <2>2 DEF Deleting
    <3>2. QED
      BY <1>17, <3>1
  <2>3. QED
    BY <1>1, <1>8, <1>10, <1>19, <2>1, <2>2
<1>20. ASSUME NEW f \in Range(v)
       PROVE  Target(f.path) = Target(from) \/ low < rank[Target(f.path)]
  BY <1>1, <1>4, <1>5, <1>7, <1>8, <1>10 DEF path
<1>21. Deleting(t, v, from)
  BY <1>4, <1>14, <1>15, <1>18, <1>19, <1>20 DEF Deleting
<1>22. \A f \in Range(v) : Fits(t, f)
  BY <1>15 DEF Fits
<1>23. QED
  BY <1>10, <1>21, <1>22 DEF Planned, v, calls, top, children, id, path

\* The next element has no children left; it is taken from the tree.
LEMMA ElementDeleted ==
  ASSUME NEW t, Good(t), NEW from, NEW w \in Seq(Frames), w # <<>>, Planned(t, w, from),
         Deleting(t, w, from), Head(w).path # <<>>,
         Head(w).open \/ t[Target(Head(w).path)].children = <<>>
  PROVE  LET path == Head(w).path
             u == Removed(t, Parent(path), Target(path))
         IN  /\ path \in IdPaths /\ Chain(t, path) /\ t[Target(path)].children = <<>>
             /\ Tail(w) \in Seq(Frames) /\ Planned(u, Tail(w), from)
<1> DEFINE path == Head(w).path
           id == Target(path)
           u == Removed(t, Parent(path), id)
           v == Tail(w)
<1>1. /\ v \in Seq(Frames) /\ Head(w) \in Range(w) /\ Head(w) \in Frames
      /\ Range(w) = Range(v) \cup {Head(w)} /\ Range(v) \subseteq Frames
  <2>1. /\ v \in Seq(Frames) /\ Head(w) \in Range(w) /\ Head(w) \in Frames
        /\ Range(w) = Range(v) \cup {Head(w)}
    BY TailRange
  <2>2. QED
    BY <2>1 DEF Range
<1>2. Ordered(v, ChildFirst(t)) /\ \A e \in Range(v) : <<Head(w), e>> \in ChildFirst(t)
  BY OrderedTail DEF Deleting
<1>3. /\ path \in IdPaths /\ Chain(t, path) /\ id \in DOMAIN t \ {Root}
      /\ t[id].parent = Parent(path)
  <2>1. path \in IdPaths /\ Chain(t, path) /\ path # <<>>
    BY <1>1 DEF Planned, Fits, Deleting, Frames
  <2>2. QED
    BY <2>1, ChainTarget
<1>4. t[id].children = <<>>
  <2>1. CASE Head(w).open
    <3>1. ASSUME NEW child \in Range(t[id].children)
          PROVE  FALSE
      <4>1. child \in DOMAIN t \ {Root} /\ t[child].parent = id
        BY <1>3 DEF Good, Sound
      <4>2. child # id
        BY <1>3, <4>1 DEF Good, Ranked
      <4>3. PICK g \in Range(w) : Target(g.path) = child
        BY <1>1, <2>1 DEF Deleting
      <4>4. g \in Range(v)
        BY <1>1, <4>2, <4>3
      <4>5. QED
        BY <1>2, <2>1, <4>1, <4>3, <4>4 DEF ChildFirst
    <3>2. t[id].children \in Seq(Nat)
      BY <1>3 DEF Good, IsTree, Elements, IdPaths
    <3>3. QED
      BY <3>1, <3>2, NothingInRange
  <2>2. QED
    BY <2>1
<1>5. /\ Good(u) /\ Grown(u, t) /\ DOMAIN u = DOMAIN t \ {id}
      /\ \A x \in DOMAIN u : Range(u[x].children) = Range(t[x].children) \ {id}
  <2>1. u = Removed(t, t[id].parent, id)
    BY <1>3
  <2> HIDE DEF u, id, v
  <2>2. QED
    BY <1>3, <1>4, <2>1, RemovedGood
<1> HIDE DEF u, id, v
<1>6. \A f \in Range(v) : /\ f.op = "delete" /\ f.path \in IdPaths /\ Chain(t, f.path)
                            /\ Target(f.path) # id
  BY <1>1, <1>2 DEF Planned, Fits, Deleting, Frames, ChildFirst, id
<1>7. \A f \in Range(v) :
        /\ Chain(u, f.path) /\ Target(f.path) \in DOMAIN u
        /\ u[Target(f.path)].parent = t[Target(f.path)].parent
  <2>1. ASSUME NEW f \in Range(v)
        PROVE  Chain(u, f.path) /\ Target(f.path) \in DOMAIN u
    <3>1. f.path \in IdPaths /\ Chain(t, f.path) /\ Target(f.path) # id
      BY <1>6
    <3>2. Chain(u, f.path)
      BY <1>3, <1>4, <1>5, <3>1, ChainShrunk
    <3>3. QED
      BY <1>5, <3>1, <3>2, ChainTarget
  <2>2. QED
    BY <1>5, <2>1 DEF Grown, Alike
<1>8. Ordered(v, ChildFirst(u))
  <2>1. \A d, e \in Range(v) : <<d, e>> \in ChildFirst(t) => <<d, e>> \in ChildFirst(u)
    BY <1>7 DEF ChildFirst
  <2>2. QED
    BY <1>1, <1>2, <2>1, OrderedWeakened
<1>9. ASSUME NEW f \in Range(v)
      PROVE  \/ Target(f.path) = Target(from)
             \/ \E g \in Range(v) : g.open /\ Target(g.path) = u[Target(f.path)].parent
  <2>1. CASE Target(f.path) = Target(from)
    BY <2>1
  <2>2. CASE Target(f.path) # Target(from)
    <3>1. PICK g \in Range(w) : g.open /\ Target(g.path) = t[Target(f.path)].parent
      BY <1>1, <2>2 DEF Deleting
    <3>2. g # Head(w)
      BY <1>2, <3>1 DEF ChildFirst
    <3>3. QED
      BY <1>1, <1>7, <3>1, <3>2
  <2>3. QED
    BY <2>1, <2>2
<1>10. ASSUME NEW f \in Range(v), f.open, NEW child \in Range(u[Target(f.path)].children)
       PROVE  \E g \in Range(v) : Target(g.path) = child
  <2>1. child \in Range(t[Target(f.path)].children) /\ child # id
    BY <1>5, <1>7
  <2>2. PICK g \in Range(w) : Target(g.path) = child
    BY <1>1, <1>10, <2>1 DEF Deleting
  <2>3. g # Head(w)
    BY <2>1, <2>2 DEF id
  <2>4. QED
    BY <1>1, <2>2, <2>3
<1>11. \E rank : \E low \in Nat :
         /\ Ranked(u, rank)
         /\ Target(from) \in DOMAIN u => rank[Target(from)] = low
         /\ \A f \in Range(v) : Target(f.path) = Target(from) \/ low < rank[Target(f.path)]
  <2>0. PICK rank : \E low \in Nat :
          /\ Ranked(t, rank)
          /\ Target(from) \in DOMAIN t => rank[Target(from)] = low
          /\ \A f \in Range(w) : Target(f.path) = Target(from) \/ low < rank[Target(f.path)]
    BY DEF Deleting
  <2>1. PICK low \in Nat :
          /\ Ranked(t, rank)
          /\ Target(from) \in DOMAIN t => rank[Target(from)] = low
          /\ \A f \in Range(w) : Target(f.path) = Target(from) \/ low < rank[Target(f.path)]
    BY <2>0
  <2> DEFINE same == [x \in DOMAIN u |-> rank[x]]
  <2>2. Ranked(u, same)
    BY <1>5, <2>1, RankedShrunk DEF Good
  <2>3. \A x \in DOMAIN u : same[x] = rank[x] /\ x \in DOMAIN t
    BY <1>5
  <2> HIDE DEF same
  <2>4. Target(from) \in DOMAIN u => same[Target(from)] = low
    BY <2>1, <2>3
  <2>5. \A f \in Range(v) : Target(f.path) = Target(from) \/ low < same[Target(f.path)]
    BY <1>1, <1>7, <2>1, <2>3
  <2>6. QED
    BY <2>2, <2>4, <2>5
<1>12. Deleting(u, v, from)
  BY <1>6, <1>8, <1>9, <1>10, <1>11 DEF Deleting
<1>13. \A f \in Range(v) : Fits(u, f)
  BY <1>6, <1>7 DEF Fits
<1>14. QED
  BY <1>1, <1>3, <1>4, <1>12, <1>13 DEF Planned, u, id, v

-----------------------------------------------------------------------------
(* The inductive invariant.  It says nothing of the trees once an id has     *)
(* been handed out twice.                                                    *)

Sync == Good(tree) /\ Good(replica) /\ Good(saved) /\ Follows(deltas, replica, tree, counter)

Young == restarts = 0 => \A id \in DOMAIN tree \ {Root} : tree[id].parent < id /\ id < counter

IInv == TypeOK /\ (~reused => Sync /\ Young /\ Planned(tree, work, request.from))

LEMMA InitIInv == Init => IInv
<1> SUFFICES ASSUME Init PROVE IInv
  OBVIOUS
<1> USE DEF Init
<1>1. Good(NewTree) /\ DOMAIN NewTree = {Root}
  BY NewTreeGood DEF NewTree
<1>2. Sync
  BY <1>1, NothingPending DEF Sync
<1>3. TypeOK
  <2>1. IsTree(NewTree)
    BY <1>1 DEF Good
  <2>2. <<>> \in Seq(Names) /\ <<>> \in Seq(Frames) /\ <<>> \in Seq(Updates) /\ <<>> \in IdPaths
    BY DEF IdPaths
  <2>3. DOMAIN disk \subseteq Seq(Names)
    BY <2>2
  <2>4. \A place \in DOMAIN disk : disk[place] \in Data \cup {"empty", "folder"}
    OBVIOUS
  <2>5. request \in [kind : {"none", "list", "delete", "copy", "move"}, from : IdPaths, to : IdPaths]
    BY <2>2 DEF NoRequest
  <2>6. threadUp \in BOOLEAN /\ dbUp \in BOOLEAN /\ reused \in BOOLEAN
    OBVIOUS
  <2>7. counter \in Nat \ {0} /\ requests \in Nat /\ outside \in Nat /\ restarts \in Nat
    OBVIOUS
  <2>8. IsTree(tree) /\ IsTree(replica) /\ IsTree(saved)
    BY <2>1
  <2>9. work \in Seq(Frames) /\ deltas \in Seq(Updates)
    BY <2>2
  <2>10. touched \subseteq Seq(Names) \X (Data \cup {"empty", "folder"})
    OBVIOUS
  <2> HIDE DEF Init
  <2>11. QED
    BY <2>3, <2>4, <2>5, <2>6, <2>7, <2>8, <2>9, <2>10 DEF TypeOK
<1>4. Young
  BY <1>1 DEF Young
<1>5. QED
  BY <1>2, <1>3, <1>4, NothingPlanned DEF IInv

\* Nothing happens to the trees, but that ids may be spent.
StillTrees ==
  /\ UNCHANGED <<tree, deltas, replica, saved, restarts>>
  /\ counter' \in Nat \ {0} /\ counter <= counter'

LEMMA StillSync ==
  ASSUME TypeOK, Sync, Young, StillTrees
  PROVE  Sync' /\ Young'
<1>1. counter \in Nat /\ counter' \in Nat /\ counter <= counter'
  BY DEF TypeOK, StillTrees
<1>2. Sync'
  <2>1. Follows(deltas, replica, tree, counter')
    BY <1>1, SpentIds DEF Sync
  <2>2. QED
    BY <2>1 DEF Sync, StillTrees
<1>3. Young'
  <2>1. ASSUME restarts = 0, NEW id \in DOMAIN tree \ {Root}
        PROVE  tree[id].parent < id /\ id < counter'
    <3>1. tree[id].parent < id /\ id < counter /\ id \in Nat
      BY <2>1 DEF Young, TypeOK, IsTree
    <3>2. QED
      BY <1>1, <3>1
  <2>2. QED
    BY <2>1 DEF Young, StillTrees
<1>4. QED
  BY <1>2, <1>3

\* What AddElement does, whether or not the id is new.
LEMMA ElementAdded ==
  ASSUME TypeOK, Sync, Young, NEW folder \in IdPaths, IsFolderIn(tree, Target(folder)),
         NEW name \in Names, NEW kind \in Kinds, AddElement(folder, name, kind),
         UNCHANGED <<replica, saved, restarts>>
  PROVE  /\ IsTree(tree') /\ deltas' \in Seq(Updates) /\ counter' \in Nat \ {0}
         /\ reused' \in BOOLEAN
         /\ ~reused' => /\ Sync' /\ Young' /\ Grown(tree, tree')
                        /\ counter \in DOMAIN tree'
                        /\ tree'[counter].kind = kind /\ tree'[counter].parent = Target(folder)
<1> DEFINE parent == Target(folder)
           e == Element(name, kind, parent)
           new == Insertion(Append(folder, counter), e)
<1>1. /\ counter \in Nat \ {0} /\ parent \in DOMAIN tree /\ parent \in Nat
      /\ DOMAIN tree \subseteq Nat /\ \A x \in DOMAIN tree : tree[x] \in Elements
  BY DEF TypeOK, IsTree, IsFolderIn
<1>2. e \in Elements /\ e.kind = kind /\ e.parent = parent
  BY <1>1 DEF Element, Elements, IdPaths
<1>3. new \in Updates
  <2>1. Append(folder, counter) \in IdPaths
    BY <1>1, AppendedPath
  <2>2. QED
    BY <1>2, <2>1 DEF Insertion, Updates
<1> HIDE DEF parent, e, new
<1>4. /\ tree' = Inserted(tree, parent, counter, e) /\ deltas' = Append(deltas, new)
      /\ counter' = counter + 1
      /\ reused' = (counter \in DOMAIN tree \cup DOMAIN replica)
  BY DEF AddElement, parent, e, new
<1>5. IsTree(tree')
  <2>1. Append(tree[parent].children, counter) \in Seq(Nat)
    BY <1>1 DEF Elements, IdPaths
  <2>2. [tree[parent] EXCEPT !.children = Append(@, counter)] \in Elements
    BY <1>1, <2>1 DEF Elements, IdPaths
  <2>3. /\ DOMAIN tree' = DOMAIN tree \cup {counter}
        /\ \A x \in DOMAIN tree' :
             \/ tree'[x] = e
             \/ x \in DOMAIN tree /\ tree'[x] = tree[x]
             \/ tree'[x] = [tree[parent] EXCEPT !.children = Append(@, counter)]
    BY <1>1, <1>4 DEF Inserted, Put
  <2>4. QED
    BY <1>1, <1>2, <2>2, <2>3 DEF IsTree
<1>6. deltas' \in Seq(Updates) /\ counter' \in Nat \ {0} /\ reused' \in BOOLEAN
  <2>1. deltas' \in Seq(Updates)
    BY <1>3, <1>4 DEF TypeOK
  <2>2. counter' \in Nat \ {0}
    BY <1>1, <1>4
  <2>3. reused' \in BOOLEAN
    <3>1. (counter \in DOMAIN tree \cup DOMAIN replica) \in BOOLEAN
      OBVIOUS
    <3>2. QED
      BY <1>4, <3>1, Zenon
  <2>4. QED
    BY <2>1, <2>2, <2>3
<1>7. ASSUME ~reused'
      PROVE  /\ Sync' /\ Young' /\ Grown(tree, tree')
             /\ counter \in DOMAIN tree'
             /\ tree'[counter].kind = kind /\ tree'[counter].parent = Target(folder)
  <2>1. counter \notin DOMAIN tree /\ counter \notin DOMAIN replica
    BY <1>4, <1>7
  <2>2. /\ Follows(deltas', replica, tree', counter + 1)
        /\ Good(tree') /\ Grown(tree, tree') /\ IsGrownBy(tree, tree', counter, e)
    <3>1. deltas \in Seq(Updates) /\ counter \in Nat \ {Root}
      BY <1>1 DEF TypeOK, Root
    <3>2. Good(replica) /\ Good(tree) /\ Follows(deltas, replica, tree, counter)
      BY DEF Sync
    <3>3. QED
      BY <1>4, <2>1, <3>1, <3>2, InsertionSent DEF parent, e, new
  <2>3. Sync'
    BY <1>4, <2>2 DEF Sync
  <2>4. Young'
    <3>1. ASSUME restarts = 0, NEW id \in DOMAIN tree' \ {Root}
          PROVE  tree'[id].parent < id /\ id < counter + 1
      <4>1. CASE id = counter
        <5>1. parent = Root \/ (parent < counter /\ parent # Root)
          BY <1>1, <3>1 DEF Young
        <5>2. parent < counter
          BY <1>1, <5>1 DEF Root
        <5>3. tree'[id].parent = parent
          BY <1>2, <2>2, <4>1 DEF IsGrownBy
        <5>4. QED
          BY <1>1, <4>1, <5>2, <5>3
      <4>2. CASE id # counter
        <5>1. id \in DOMAIN tree \ {Root} /\ tree'[id].parent = tree[id].parent
          BY <2>2, <3>1, <4>2 DEF IsGrownBy, Grown, Alike
        <5>2. tree[id].parent < id /\ id < counter /\ id \in Nat
          BY <1>1, <3>1, <5>1 DEF Young
        <5>3. QED
          BY <1>1, <5>1, <5>2
      <4>3. QED
        BY <4>1, <4>2
    <3>2. QED
      BY <1>4, <3>1 DEF Young
  <2>5. QED
    BY <1>2, <2>2, <2>3, <2>4 DEF IsGrownBy, parent
<1>8. QED
  BY <1>5, <1>6, <1>7

-----------------------------------------------------------------------------
(* The parts of the type invariant, and what requests and their steps have   *)
(* in common.                                                                *)

Contents == Data \cup {"empty", "folder"}

DiskTyped(d) == DOMAIN d \subseteq Seq(Names) /\ \A place \in DOMAIN d : d[place] \in Contents

PlainTyped ==
  /\ DiskTyped(disk) /\ touched \subseteq Seq(Names) \X Contents
  /\ threadUp \in BOOLEAN /\ dbUp \in BOOLEAN /\ reused \in BOOLEAN
  /\ requests \in Nat /\ outside \in Nat /\ restarts \in Nat

CallsTyped ==
  /\ request \in [kind : {"none", "list", "delete", "copy", "move"}, from : IdPaths, to : IdPaths]
  /\ work \in Seq(Frames)

TreesTyped ==
  /\ IsTree(tree) /\ IsTree(replica) /\ IsTree(saved)
  /\ counter \in Nat \ {0} /\ deltas \in Seq(Updates)

LEMMA TypeParts == TypeOK <=> PlainTyped /\ CallsTyped /\ TreesTyped
BY DEF TypeOK, PlainTyped, CallsTyped, TreesTyped, DiskTyped, Contents

LEMMA PutTyped ==
  ASSUME DiskTyped(disk), NEW place \in Seq(Names), NEW content \in Contents
  PROVE  DiskTyped(Put(disk, place, content))
BY DEF DiskTyped, Put

LEMMA CreatedTyped ==
  ASSUME DiskTyped(disk), NEW place \in Seq(Names), NEW kind \in Kinds
  PROVE  DiskTyped(Created(place, kind))
BY PutTyped DEF Created, Contents

LEMMA ErasedTyped ==
  ASSUME DiskTyped(disk), NEW place
  PROVE  DiskTyped(Erased(place))
BY DEF DiskTyped, Erased

\* The trees are as they should be as long as no id is reused.
LEMMA Reassembled ==
  ASSUME PlainTyped', CallsTyped', TreesTyped',
         ~reused' => Sync' /\ Young' /\ Planned(tree', work', request'.from)
  PROVE  IInv'
<1>1. TypeOK'
  <2>1. (PlainTyped /\ CallsTyped /\ TreesTyped => TypeOK)'
    BY TypeParts, PTL
  <2>2. QED
    BY <2>1
<1>2. QED
  BY <1>1 DEF IInv

LEMMA Opened ==
  ASSUME IInv, ~reused
  PROVE  /\ TypeOK /\ PlainTyped /\ CallsTyped /\ TreesTyped
         /\ Sync /\ Young /\ Planned(tree, work, request.from) /\ Good(tree)
BY TypeParts DEF IInv, Sync

\* A request that is served at once.
LEMMA Served ==
  ASSUME IInv, Serve, DiskTyped(disk'), threadUp' \in BOOLEAN, StillTrees,
         UNCHANGED <<reused, request, work, dbUp>>
  PROVE  IInv'
<1>1. ~reused
  BY DEF Serve
<1>2. PlainTyped'
  BY <1>1, Opened DEF PlainTyped, Serve, StillTrees
<1>3. CallsTyped' /\ TreesTyped'
  BY <1>1, Opened DEF CallsTyped, TreesTyped, StillTrees
<1>4. Sync' /\ Young'
  BY <1>1, Opened, StillSync
<1>5. Planned(tree', work', request'.from)
  BY <1>1, Opened DEF StillTrees
<1>6. QED
  BY <1>2, <1>3, <1>4, <1>5, Reassembled

LEMMA StartTyped ==
  ASSUME IInv, NEW kind \in {"list", "delete", "copy", "move"},
         NEW from \in IdPaths, NEW to \in IdPaths,
         NEW calls \in Seq(Frames), Planned(tree, calls, from), Start(kind, from, to, calls)
  PROVE  IInv'
<1>1. ~reused /\ Serve
  BY DEF Serve, Start
<1>2. StillTrees /\ UNCHANGED <<disk, reused, threadUp, dbUp>>
  BY <1>1, Opened DEF Start, StillTrees, TreesTyped, Serve, Quiet
<1>3. PlainTyped'
  BY <1>1, <1>2, Opened DEF PlainTyped, Serve
<1>4. CallsTyped' /\ request'.from = from /\ work' = calls
  BY DEF CallsTyped, Start
<1>5. TreesTyped'
  BY <1>1, <1>2, Opened DEF TreesTyped, StillTrees
<1>6. Sync' /\ Young'
  BY <1>1, <1>2, Opened, StillSync
<1>7. Planned(tree', work', request'.from)
  BY <1>2, <1>4 DEF StillTrees
<1>8. QED
  BY <1>3, <1>4, <1>5, <1>6, <1>7, Reassembled

\* A step of a request.
LEMMA Continued ==
  ASSUME IInv, ~reused, NEW calls \in Seq(Frames), Continue(calls),
         DiskTyped(disk'), reused' \in BOOLEAN, TreesTyped',
         ~reused' => Sync' /\ Young' /\ Planned(tree', calls, request.from)
  PROVE  IInv'
<1>1. PlainTyped'
  <2>1. touched' \subseteq Seq(Names) \X Contents
    BY Opened DEF PlainTyped, Continue
  <2>2. QED
    BY <2>1, Opened DEF PlainTyped, Continue, counts, Quiet
<1>2. work' = calls
  BY DEF Continue
<1>3. CASE calls = <<>>
  <2>1. request' = NoRequest
    BY <1>3 DEF Continue
  <2>2. CallsTyped'
    BY <1>2, <2>1 DEF CallsTyped, NoRequest, IdPaths
  <2>3. Planned(tree', work', request'.from)
    BY <1>2, <1>3, NothingPlanned
  <2>4. QED
    BY <1>1, <2>2, <2>3, Reassembled
<1>4. CASE calls # <<>>
  <2>1. request' = request
    BY <1>4 DEF Continue
  <2>2. CallsTyped'
    BY <1>2, <2>1, Opened DEF CallsTyped
  <2>3. QED
    BY <1>1, <1>2, <2>1, <2>2, Reassembled
<1>5. QED
  BY <1>3, <1>4

\* One that leaves the trees alone.
LEMMA ContinuedStill ==
  ASSUME IInv, ~reused, NEW calls \in Seq(Frames), Continue(calls), DiskTyped(disk'),
         Planned(tree, calls, request.from), reused' = reused,
         UNCHANGED <<tree, deltas>>, counter' \in Nat \ {0}, counter <= counter'
  PROVE  IInv'
<1>1. StillTrees
  BY DEF StillTrees, Continue, counts, Quiet
<1>2. TreesTyped'
  BY <1>1, Opened DEF TreesTyped, StillTrees
<1>3. Sync' /\ Young'
  BY <1>1, Opened, StillSync
<1>4. Planned(tree', calls, request.from)
  BY <1>1 DEF StillTrees
<1>5. reused' \in BOOLEAN
  BY Opened DEF PlainTyped
<1>6. QED
  BY <1>2, <1>3, <1>4, <1>5, Continued

-----------------------------------------------------------------------------
(* Every action preserves the invariant.                                     *)

\* What a request's path stands for.
LEMMA Resolved ==
  ASSUME IInv, ~reused, NEW path \in Existing
  PROVE  /\ path \in IdPaths /\ Chain(tree, path)
         /\ Target(path) \in DOMAIN tree /\ Target(path) \in Nat
         /\ OnDisk(path) \in Seq(Names)
         /\ \A name \in Names : Append(OnDisk(path), name) \in Seq(Names)
BY Opened, ExistingChain, ChainTarget, ChainOnDisk

LEMMA CreateStep ==
  ASSUME IInv, NEW path \in Existing, NEW name \in Names, NEW kind \in Kinds,
         Create(path, name, kind)
  PROVE  IInv'
<1>1. Serve /\ ~reused
  BY DEF Create, Serve
<1>2. IsFolderIn(tree, Target(path)) /\ path \in IdPaths
  BY <1>1, Resolved DEF Create, IsFolder, IsFolderIn
<1>3. AddElement(path, name, kind) /\ UNCHANGED <<replica, saved, restarts, request, work>>
  BY DEF Create, Serve, Quiet
<1>4. /\ IsTree(tree') /\ deltas' \in Seq(Updates) /\ counter' \in Nat \ {0}
      /\ reused' \in BOOLEAN
      /\ ~reused' => Sync' /\ Young' /\ Grown(tree, tree')
  BY <1>1, <1>2, <1>3, Opened, ElementAdded
<1>5. DiskTyped(disk')
  <2>1. disk' = Created(Append(OnDisk(path), name), kind)
    BY DEF Create
  <2>2. DiskTyped(disk)
    BY <1>1, Opened DEF PlainTyped
  <2>3. QED
    BY <1>1, <2>1, <2>2, Resolved, CreatedTyped
<1>6. PlainTyped'
  BY <1>1, <1>4, <1>5, Opened DEF PlainTyped, Create, Serve, Quiet
<1>7. CallsTyped' /\ TreesTyped'
  BY <1>1, <1>3, <1>4, Opened DEF CallsTyped, TreesTyped
<1>8. ASSUME ~reused' PROVE Planned(tree', work', request'.from)
  <2>1. work = <<>>
    BY <1>1 DEF Serve
  <2>2. QED
    BY <1>3, <2>1, NothingPlanned
<1>9. QED
  BY <1>4, <1>6, <1>7, <1>8, Reassembled

LEMMA CreateFailsStep ==
  ASSUME IInv, CreateFails
  PROVE  IInv'
<1>1. Serve /\ ~reused
  BY DEF CreateFails, Serve
<1>2. counter \in Nat \ {0} /\ DiskTyped(disk) /\ threadUp \in BOOLEAN
  BY <1>1, Opened DEF TreesTyped, PlainTyped
<1>3. counter' \in Nat \ {0} /\ counter <= counter'
  BY <1>2 DEF CreateFails
<1>4. StillTrees /\ UNCHANGED <<disk, reused, request, work, threadUp, dbUp>>
  BY <1>1, <1>3 DEF CreateFails, StillTrees, Serve, Quiet
<1>5. QED
  BY <1>1, <1>2, <1>4, Served

LEMMA ServedStill ==
  ASSUME IInv, Serve, UNCHANGED <<reused, tree, counter, request, work, deltas>>, Quiet,
         DiskTyped(disk'), threadUp' \in BOOLEAN
  PROVE  IInv'
<1>1. counter \in Nat \ {0} /\ counter <= counter
  BY Opened DEF TreesTyped, Serve
<1>2. StillTrees
  BY <1>1 DEF StillTrees, Serve, Quiet
<1>3. QED
  BY <1>2, Served DEF Quiet

LEMMA LeaveDeviceStep ==
  ASSUME IInv, LeaveDevice
  PROVE  IInv'
<1>1. DiskTyped(disk)
  BY Opened DEF PlainTyped, LeaveDevice, Serve
<1>2. QED
  BY <1>1, ServedStill DEF LeaveDevice

LEMMA ListFileStep ==
  ASSUME IInv, NEW path \in Existing, ListFile(path)
  PROVE  IInv'
<1>1. DiskTyped(disk)
  BY Opened DEF PlainTyped, ListFile, Serve
<1>2. QED
  BY <1>1, ServedStill DEF ListFile

LEMMA CreateInFileStep ==
  ASSUME IInv, NEW path \in Existing, NEW name \in Names, NEW kind \in Kinds,
         CreateInFile(path, name, kind)
  PROVE  IInv'
<1>1. ~reused /\ Serve
  BY DEF CreateInFile, Serve
<1>2. DiskTyped(disk) /\ Append(OnDisk(path), name) \in Seq(Names)
  BY <1>1, Opened, Resolved DEF PlainTyped
<1>3. DiskTyped(disk')
  BY <1>2, CreatedTyped DEF CreateInFile
<1>4. QED
  BY <1>1, <1>3, ServedStill DEF CreateInFile

LEMMA WriteStep ==
  ASSUME IInv, NEW path \in Existing, NEW data \in Data, Write(path, data)
  PROVE  IInv'
<1>1. ~reused /\ Serve
  BY DEF Write, Serve
<1>2. /\ DiskTyped(disk) /\ OnDisk(path) \in Seq(Names) /\ data \in Contents
      /\ threadUp \in BOOLEAN
  BY <1>1, Opened, Resolved DEF PlainTyped, Contents
<1>3. DiskTyped(disk')
  BY <1>2, PutTyped DEF Write
<1>4. threadUp' \in BOOLEAN
  BY <1>2 DEF Write
<1>5. QED
  BY <1>1, <1>3, <1>4, ServedStill DEF Write

LEMMA StartSteps ==
  ASSUME IInv, NEW path \in Existing, NEW to \in Existing, NEW recursive \in BOOLEAN,
         List(path) \/ Delete(path, recursive) \/ Copy(path, to) \/ Move(path, to)
  PROVE  IInv'
<1>1. ~reused
  BY DEF List, Delete, Copy, Move, Start, Serve
<1>2. /\ path \in IdPaths /\ Chain(tree, path) /\ Target(path) \in DOMAIN tree
      /\ to \in IdPaths /\ Chain(tree, to)
  BY <1>1, Resolved
<1>3. CASE List(path)
  <2> DEFINE f == ListFrame(path, Unknown(path))
  <2>1. Unknown(path) \subseteq [name : Names, kind : Kinds]
    <3>1. ASSUME NEW p \in Inside(OnDisk(path))
          PROVE  [name |-> Last(p), kind |-> KindAt(p)] \in [name : Names, kind : Kinds]
      <4>1. p \in Seq(Names) /\ p # <<>>
        BY <1>1, Opened DEF PlainTyped, DiskTyped, Inside
      <4>2. Last(p) \in Names
        <5>1. Len(p) \in 1 .. Len(p)
          BY <4>1
        <5>2. QED
          BY <4>1, <5>1 DEF Last
      <4>3. KindAt(p) \in Kinds
        BY DEF KindAt, Kinds
      <4>4. QED
        BY <4>2, <4>3
    <3>2. QED
      BY <3>1 DEF Unknown
  <2>2. f \in Frames /\ f.op = "list" /\ f.path = path
    BY <1>2, <2>1 DEF ListFrame, Frames
  <2>3. Fits(tree, f)
    BY <1>2, <1>3, <2>2 DEF Fits, List, IsFolder, IsFolderIn
  <2>4. Start("list", path, path, <<f>>)
    BY <1>3 DEF List
  <2> HIDE DEF f
  <2>5. <<f>> \in Seq(Frames) /\ Planned(tree, <<f>>, path)
    BY <2>2, <2>3, PlanStarted
  <2>6. QED
    BY <1>2, <2>4, <2>5, StartTyped
<1>4. CASE Delete(path, recursive)
  <2> DEFINE f == DeleteFrame(path, FALSE)
  <2>1. f \in Frames /\ f.op = "delete" /\ f.path = path
    BY <1>2 DEF DeleteFrame, Frames
  <2>2. Fits(tree, f) /\ f = DeleteFrame(path, FALSE)
    BY <1>2, <2>1 DEF Fits
  <2>3. Start("delete", path, path, <<f>>)
    BY <1>4 DEF Delete
  <2> HIDE DEF f
  <2>4. <<f>> \in Seq(Frames) /\ Planned(tree, <<f>>, path)
    BY <2>1, <2>2, PlanStarted
  <2>5. QED
    BY <1>2, <2>3, <2>4, StartTyped
<1>5. CASE Copy(path, to)
  <2> DEFINE f == CopyFrame(path, to)
  <2>1. f \in Frames /\ f.op = "copy" /\ f.path = path /\ f.to = to
    BY <1>2 DEF CopyFrame, Frames
  <2>2. Fits(tree, f)
    BY <1>2, <2>1 DEF Fits
  <2>3. Start("copy", path, to, <<f>>)
    BY <1>5 DEF Copy
  <2> HIDE DEF f
  <2>4. <<f>> \in Seq(Frames) /\ Planned(tree, <<f>>, path)
    BY <2>1, <2>2, PlanStarted
  <2>5. QED
    BY <1>2, <2>3, <2>4, StartTyped
<1>6. CASE Move(path, to)
  <2> DEFINE calls == <<CopyFrame(path, to), DeleteFrame(path, FALSE)>>
  <2>1. calls \in Seq(Frames) /\ Planned(tree, calls, path)
    BY <1>2, MovePlanned
  <2>2. Start("move", path, to, calls)
    BY <1>6 DEF Move
  <2> HIDE DEF calls
  <2>3. QED
    BY <1>2, <2>1, <2>2, StartTyped
<1>7. QED
  BY <1>3, <1>4, <1>5, <1>6

\* What is known of the first call of a request.
LEMMA FirstCall ==
  ASSUME IInv, threadUp, ~reused, work # <<>>
  PROVE  /\ Top \in Frames /\ Tail(work) \in Seq(Frames) /\ Fits(tree, Top)
         /\ Chain(tree, Top.path) /\ Planned(tree, work, request.from)
<1>1. work \in Seq(Frames) /\ Planned(tree, work, request.from)
  BY Opened DEF CallsTyped
<1>2. Top \in Frames /\ Top \in Range(work) /\ Tail(work) \in Seq(Frames)
  BY <1>1, TailRange DEF Top
<1>3. QED
  BY <1>1, <1>2 DEF Planned, Fits

LEMMA DiscoverStep ==
  ASSUME IInv, Discover
  PROVE  IInv'
<1>1. threadUp /\ ~reused /\ work # <<>> /\ Top.op = "list" /\ UNCHANGED disk
  BY DEF Discover, Step, Top
<1>2. /\ Top \in Frames /\ Tail(work) \in Seq(Frames) /\ Fits(tree, Top)
      /\ Planned(tree, work, request.from) /\ work \in Seq(Frames)
  BY <1>1, FirstCall, Opened DEF CallsTyped
<1>3. /\ Top.path \in IdPaths /\ Top.found \subseteq [name : Names, kind : Kinds]
      /\ IsFolderIn(tree, Target(Top.path)) /\ Chain(tree, Top.path)
  BY <1>1, <1>2 DEF Frames, Fits
<1>4. PICK entry \in Top.found :
        /\ AddElement(Top.path, entry.name, entry.kind)
        /\ Continue(IF Top.found = {entry} THEN Tail(work)
                    ELSE <<ListFrame(Top.path, Top.found \ {entry})>> \o Tail(work))
  BY DEF Discover
<1>5. UNCHANGED <<replica, saved, restarts>>
  BY <1>4 DEF Continue, Quiet, counts
<1>6. /\ IsTree(tree') /\ deltas' \in Seq(Updates) /\ counter' \in Nat \ {0}
      /\ reused' \in BOOLEAN
      /\ ~reused' => Sync' /\ Young' /\ Grown(tree, tree')
  <2>1. entry.name \in Names /\ entry.kind \in Kinds
    BY <1>3
  <2>2. QED
    BY <1>1, <1>3, <1>4, <1>5, <2>1, Opened, ElementAdded
<1>7. TreesTyped' /\ DiskTyped(disk')
  BY <1>1, <1>5, <1>6, Opened DEF TreesTyped, PlainTyped
<1> DEFINE f == ListFrame(Top.path, Top.found \ {entry})
           calls == <<f>> \o Tail(work)
           rest == Tail(work)
<1>8. f \in Frames /\ f.op = "list" /\ f.path = Top.path
  BY <1>3 DEF ListFrame, Frames
<1>9. /\ Head(work).op # "delete" /\ f.op # "delete" /\ rest \in Seq(Frames)
      /\ Fits(tree, f)
  BY <1>1, <1>2, <1>3, <1>8 DEF Fits, Top
<1> HIDE DEF f, rest
<1>10. Grown(tree, tree)
  BY DEF Grown, Alike
<1>11. calls \in Seq(Frames) /\ (Grown(tree, tree') => Planned(tree', calls, request.from))
  <2>1. calls \in Seq(Frames)
    BY <1>1, <1>2, <1>8, <1>9, <1>10, CallFollowed
  <2>2. Grown(tree, tree') => Fits(tree', f)
    BY <1>9, FitsGrown
  <2>3. Grown(tree, tree') => Planned(tree', calls, request.from)
    BY <1>1, <1>2, <1>8, <1>9, <2>2, CallFollowed
  <2>4. QED
    BY <2>1, <2>3
<1>12. Grown(tree, tree') => Planned(tree', rest, request.from)
  BY <1>1, <1>2, <1>9, CallLeft DEF rest
<1> HIDE DEF calls
<1>13. CASE Top.found = {entry}
  <2>1. Continue(rest)
    BY <1>4, <1>13 DEF rest
  <2>2. QED
    BY <1>1, <1>6, <1>7, <1>9, <1>12, <2>1, Continued
<1>14. CASE Top.found # {entry}
  <2>1. Continue(calls)
    BY <1>4, <1>14 DEF calls, f
  <2>2. QED
    BY <1>1, <1>6, <1>7, <1>11, <2>1, Continued
<1>15. QED
  BY <1>13, <1>14

LEMMA CopyContentsStep ==
  ASSUME IInv, CopyContents
  PROVE  IInv'
<1>1. threadUp /\ ~reused /\ work # <<>> /\ Top.op = "copy"
  BY DEF CopyContents, Step, Top
<1>2. /\ Top \in Frames /\ Tail(work) \in Seq(Frames) /\ Fits(tree, Top)
      /\ Planned(tree, work, request.from) /\ work \in Seq(Frames) /\ counter \in Nat \ {0}
  BY <1>1, FirstCall, Opened DEF CallsTyped, TreesTyped
<1>3. DiskTyped(disk')
  <2>1. Top.to \in IdPaths /\ Chain(tree, Top.to)
    BY <1>1, <1>2 DEF Frames, Fits
  <2>2. OnDisk(Top.to) \in Seq(Names)
    BY <1>1, <2>1, Opened, ChainOnDisk
  <2>3. DiskTyped(disk)
    BY <1>1, Opened DEF PlainTyped
  <2>4. disk' = Copied(OnDisk(Top.path), OnDisk(Top.to)) /\ OnDisk(Top.path) \in DOMAIN disk
    BY DEF CopyContents
  <2>5. disk[OnDisk(Top.path)] \in Contents /\ "empty" \in Contents
    BY <2>3, <2>4 DEF DiskTyped, Contents
  <2>6. QED
    BY <2>2, <2>3, <2>4, <2>5, PutTyped DEF Copied
<1>4. Planned(tree, Tail(work), request.from)
  <2>1. Grown(tree, tree)
    BY DEF Grown, Alike
  <2>2. Head(work).op # "delete"
    BY <1>1 DEF Top
  <2>3. QED
    BY <1>1, <1>2, <2>1, <2>2, CallLeft
<1> DEFINE rest == Tail(work)
<1>5. rest \in Seq(Frames) /\ Continue(rest) /\ Planned(tree, rest, request.from)
  BY <1>2, <1>4 DEF CopyContents
<1> HIDE DEF rest
<1>6. UNCHANGED <<reused, tree, counter, deltas>> /\ counter <= counter /\ counter' \in Nat \ {0}
  BY <1>2 DEF CopyContents
<1>7. QED
  BY <1>1, <1>3, <1>5, <1>6, ContinuedStill

\* A copying step that only plans calls.
LEMMA CallsPlanned ==
  ASSUME IInv, ~reused, NEW calls \in Seq(Frames), Planned(tree, calls, request.from),
         Continue(calls), UNCHANGED <<disk, reused, tree, counter, deltas>>
  PROVE  IInv'
<1>1. DiskTyped(disk') /\ counter <= counter /\ counter' \in Nat \ {0}
  BY Opened DEF PlainTyped, TreesTyped
<1>2. QED
  BY <1>1, ContinuedStill

LEMMA CopyFileStep ==
  ASSUME IInv, CopyFile
  PROVE  IInv'
<1>1. threadUp /\ ~reused /\ work # <<>> /\ Top.op = "copy" /\ Head(work).op = "copy"
  BY DEF CopyFile, Step, Top
<1>2. /\ Top \in Frames /\ Fits(tree, Top) /\ work \in Seq(Frames)
      /\ Planned(tree, work, request.from)
  BY <1>1, FirstCall, Opened DEF CallsTyped
<1> DEFINE f == MakeFrame(Top.path, Top.to)
           calls == <<f>> \o Tail(work)
<1>3. f \in Frames /\ f.op = "make" /\ f.path = Top.path /\ f.to = Top.to
  BY <1>1, <1>2 DEF MakeFrame, Frames
<1>4. Fits(tree, f)
  <2>1. Top.to \in IdPaths /\ Chain(tree, Top.to)
    BY <1>1, <1>2 DEF Frames, Fits
  <2>2. Target(Top.to) \in DOMAIN tree
    BY <1>1, <2>1, Opened, ChainTarget
  <2>3. Target(Top.path) # Root
    BY <1>1, Opened DEF CopyFile, IsFile, Good, Sound
  <2>4. QED
    BY <1>1, <1>2, <1>3, <2>2, <2>3 DEF Fits, CopyFile, IsFolder, IsFolderIn
<1>5. Grown(tree, tree)
  BY DEF Grown, Alike
<1>6. Continue(calls) /\ UNCHANGED <<disk, reused, tree, counter, deltas>>
  BY DEF CopyFile
<1> HIDE DEF f
<1>7. calls \in Seq(Frames) /\ Planned(tree, calls, request.from)
  BY <1>1, <1>2, <1>3, <1>4, <1>5, CallFollowed
<1> HIDE DEF calls
<1>8. QED
  BY <1>1, <1>6, <1>7, CallsPlanned

LEMMA CopyFolderStep ==
  ASSUME IInv, CopyFolder
  PROVE  IInv'
<1>1. threadUp /\ ~reused /\ work # <<>> /\ Top.op = "copy" /\ Head(work).op = "copy"
  BY DEF CopyFolder, Step, Top
<1>2. /\ Top \in Frames /\ Fits(tree, Top) /\ work \in Seq(Frames) /\ Good(tree)
      /\ Planned(tree, work, request.from)
  BY <1>1, FirstCall, Opened DEF CallsTyped
<1> DEFINE path == Top.path
           to == Top.to
           children == Children(path)
           made == [i \in DOMAIN children |-> MakeFrame(Append(path, children[i]), to)]
           calls == made \o Tail(work)
<1>3. /\ path \in IdPaths /\ Chain(tree, path) /\ Target(path) \in DOMAIN tree
      /\ to \in IdPaths /\ Chain(tree, to) /\ Target(to) \in DOMAIN tree
      /\ IsFolderIn(tree, Target(to))
  <2>1. path \in IdPaths /\ Chain(tree, path) /\ to \in IdPaths /\ Chain(tree, to)
    BY <1>1, <1>2 DEF Frames, Fits
  <2>2. Target(path) \in DOMAIN tree /\ Target(to) \in DOMAIN tree
    BY <1>2, <2>1, ChainTarget
  <2>3. QED
    BY <2>1, <2>2 DEF CopyFolder, IsFolder, IsFolderIn
<1>4. Continue(calls) /\ UNCHANGED <<disk, reused, tree, counter, deltas>>
  BY DEF CopyFolder
<1>5. children \in Seq(Nat) /\ DOMAIN children = 1 .. Len(children) /\ Len(children) \in Nat
  BY <1>2, <1>3 DEF Children, Good, IsTree, Elements, IdPaths
<1>6. ASSUME NEW i \in DOMAIN children
      PROVE  /\ Append(path, children[i]) \in IdPaths
             /\ Chain(tree, Append(path, children[i]))
             /\ Target(Append(path, children[i])) # Root
  <2>1. children[i] \in Range(children)
    BY DEF Range
  <2>2. /\ children[i] \in DOMAIN tree \ {Root} /\ children[i] \in Nat
        /\ tree[children[i]].parent = Target(path)
    BY <1>2, <1>3, <2>1 DEF Good, Sound, Children, IsTree
  <2> HIDE DEF path, children
  <2>3. QED
    BY <1>2, <1>3, <2>2, AppendedPath, ChainAppended
<1> HIDE DEF path, to, children
<1>7. ASSUME NEW i \in DOMAIN children
      PROVE  made[i] \in Frames /\ made[i].op = "make" /\ Fits(tree, made[i])
  <2> DEFINE f == MakeFrame(Append(path, children[i]), to)
  <2>1. f \in Frames /\ f.op = "make" /\ f.path = Append(path, children[i]) /\ f.to = to
    BY <1>3, <1>6, <1>7 DEF MakeFrame, Frames
  <2>2. Fits(tree, f)
    BY <1>3, <1>6, <1>7, <2>1 DEF Fits
  <2>3. made[i] = f
    BY <1>7
  <2>4. QED
    BY <2>1, <2>2, <2>3
<1>8. DOMAIN made = 1 .. Len(children) /\ DOMAIN made = DOMAIN children
  BY <1>5
<1>9. made \in Seq(Frames)
  <2>1. made \in [1 .. Len(children) -> Frames]
    BY <1>5, <1>7, <1>8
  <2> HIDE DEF made
  <2>2. QED
    BY <1>5, <2>1
<1> HIDE DEF made
<1>10. Ordered(made, CopyFirst)
  BY <1>7, <1>8 DEF Ordered, CopyFirst
<1>11. \A f \in Range(made) : f.op # "delete" /\ Fits(tree, f)
  BY <1>7, <1>8 DEF Range
<1>12. Grown(tree, tree)
  BY DEF Grown, Alike
<1>13. calls \in Seq(Frames) /\ Planned(tree, calls, request.from)
  <2>1. Head(work).op # "delete"
    BY <1>1
  <2>2. QED
    BY <1>1, <1>2, <1>9, <1>10, <1>11, <1>12, <2>1, CallReplaced
<1> HIDE DEF calls
<1>14. QED
  BY <1>1, <1>4, <1>13, CallsPlanned

LEMMA MakeStep ==
  ASSUME IInv, Make
  PROVE  IInv'
<1>1. threadUp /\ ~reused /\ work # <<>> /\ Top.op = "make" /\ Head(work).op = "make"
  BY DEF Make, Step, Top
<1>2. /\ Top \in Frames /\ Fits(tree, Top) /\ work \in Seq(Frames) /\ Good(tree)
      /\ Planned(tree, work, request.from) /\ DiskTyped(disk) /\ counter \in Nat
  BY <1>1, FirstCall, Opened DEF CallsTyped, PlainTyped, TreesTyped
<1> DEFINE path == Top.path
           to == Top.to
           source == tree[Target(path)]
           new == Append(to, counter)
           f == CopyFrame(path, new)
           calls == <<f>> \o Tail(work)
<1>3. /\ path \in IdPaths /\ Chain(tree, path) /\ Target(path) \in DOMAIN tree
      /\ to \in IdPaths /\ Chain(tree, to) /\ IsFolderIn(tree, Target(to))
      /\ OnDisk(to) \in Seq(Names)
  <2>1. /\ path \in IdPaths /\ Chain(tree, path) /\ to \in IdPaths /\ Chain(tree, to)
        /\ IsFolderIn(tree, Target(to))
    BY <1>1, <1>2 DEF Frames, Fits
  <2>2. QED
    BY <1>2, <2>1, ChainTarget, ChainOnDisk
<1>4. /\ AddElement(to, source.name, source.kind) /\ Continue(calls)
      /\ disk' = Created(Append(OnDisk(to), source.name), source.kind)
      /\ UNCHANGED <<replica, saved, restarts>>
  BY DEF Make, Continue, Quiet, counts
<1>5. source.name \in Names /\ source.kind \in Kinds
  <2>1. source.kind \in Kinds
    BY <1>2, <1>3 DEF Good, IsTree, Elements
  <2>2. Target(path) # Root
    BY <1>1, <1>2 DEF Fits
  <2>3. QED
    BY <1>2, <1>3, <2>1, <2>2 DEF Good
<1> HIDE DEF path, to, source
<1>6. /\ IsTree(tree') /\ deltas' \in Seq(Updates) /\ counter' \in Nat \ {0}
      /\ reused' \in BOOLEAN
      /\ ~reused' => /\ Sync' /\ Young' /\ Grown(tree, tree')
                     /\ counter \in DOMAIN tree' /\ tree'[counter].parent = Target(to)
  BY <1>1, <1>3, <1>4, <1>5, Opened, ElementAdded
<1>7. TreesTyped' /\ DiskTyped(disk')
  <2>1. Append(OnDisk(to), source.name) \in Seq(Names)
    BY <1>3, <1>5
  <2>2. QED
    BY <1>1, <1>2, <1>4, <1>5, <1>6, <2>1, Opened, CreatedTyped DEF TreesTyped
<1>8. new \in IdPaths
  BY <1>2, <1>3, AppendedPath
<1> HIDE DEF new
<1>9. f \in Frames /\ f.op = "copy" /\ f.path = path /\ f.to = new
  BY <1>3, <1>8 DEF CopyFrame, Frames
<1> HIDE DEF f
<1>10. calls \in Seq(Frames)
  <2>1. <<f>> \in Seq(Frames) /\ Tail(work) \in Seq(Frames)
    BY <1>1, <1>2, <1>9, TailRange
  <2>2. QED
    BY <2>1
<1>11. ASSUME ~reused'
       PROVE  Planned(tree', calls, request.from)
  <2>1. /\ Good(tree') /\ Grown(tree, tree')
        /\ counter \in DOMAIN tree' \ {Root} /\ tree'[counter].parent = Target(to)
    BY <1>6, <1>11, Opened, <1>1 DEF Sync, TreesTyped, Root
  <2>2. Chain(tree', path) /\ Chain(tree', to)
    BY <1>3, <2>1, ChainGrown
  <2>3. Chain(tree', new)
    BY <1>3, <2>1, <2>2, ChainAppended DEF new
  <2>4. Fits(tree', f)
    BY <1>9, <2>2, <2>3 DEF Fits
  <2>5. QED
    BY <1>1, <1>2, <1>9, <2>1, <2>4, CallFollowed
<1> HIDE DEF calls
<1>12. QED
  BY <1>1, <1>4, <1>6, <1>7, <1>10, <1>11, Continued

LEMMA OpenFolderStep ==
  ASSUME IInv, OpenFolder
  PROVE  IInv'
<1>1. /\ threadUp /\ ~reused /\ work # <<>> /\ Top.op = "delete" /\ Head(work).op = "delete"
      /\ ~Head(work).open
  BY DEF OpenFolder, Step, Top
<1>2. /\ work \in Seq(Frames) /\ Good(tree) /\ Planned(tree, work, request.from)
  BY <1>1, Opened DEF CallsTyped
<1>3. Deleting(tree, work, request.from)
  BY <1>1, <1>2, DeletingBegins
<1> DEFINE path == Head(work).path
           children == tree[Target(path)].children
           calls == [i \in DOMAIN children |-> DeleteFrame(Append(path, children[i]), FALSE)]
                      \o <<DeleteFrame(path, TRUE)>> \o Tail(work)
<1>4. Continue(calls) /\ UNCHANGED <<disk, reused, tree, counter, deltas>>
  BY DEF OpenFolder, Top, Children
<1>5. calls \in Seq(Frames) /\ Planned(tree, calls, request.from)
  BY <1>1, <1>2, <1>3, FolderOpened
<1> HIDE DEF calls
<1>6. QED
  BY <1>1, <1>4, <1>5, CallsPlanned

LEMMA DeleteElementStep ==
  ASSUME IInv, DeleteElement
  PROVE  IInv'
<1>1. /\ threadUp /\ ~reused /\ work # <<>> /\ Top.op = "delete" /\ Head(work).op = "delete"
      /\ Head(work).path # <<>>
      /\ Head(work).open \/ tree[Target(Head(work).path)].children = <<>>
  BY DEF DeleteElement, Deletes, Step, Top, Children
<1>2. /\ work \in Seq(Frames) /\ Good(tree) /\ Planned(tree, work, request.from)
  BY <1>1, Opened DEF CallsTyped
<1>3. Deleting(tree, work, request.from)
  BY <1>1, <1>2, DeletingBegins
<1> DEFINE path == Head(work).path
           id == Target(path)
           rest == Tail(work)
           u == Removed(tree, Parent(path), id)
<1>4. /\ path \in IdPaths /\ Chain(tree, path) /\ tree[id].children = <<>>
      /\ rest \in Seq(Frames) /\ Planned(u, rest, request.from)
  BY <1>1, <1>2, <1>3, ElementDeleted
<1>5. id \in DOMAIN tree \ {Root} /\ tree[id].parent = Parent(path) /\ path # <<>>
  BY <1>1, <1>2, <1>4, ChainTarget
<1>6. Good(u) /\ Grown(u, tree) /\ DOMAIN u = DOMAIN tree \ {id}
  <2>1. u = Removed(tree, tree[id].parent, id)
    BY <1>5
  <2> HIDE DEF u, id
  <2>2. QED
    BY <1>2, <1>4, <1>5, <2>1, RemovedGood
<1>7. /\ disk' = Erased(OnDisk(path)) /\ tree' = u /\ Continue(rest)
      /\ UNCHANGED <<reused, counter, replica, saved, restarts>>
  BY DEF DeleteElement, Top, Continue, Quiet, counts
<1>8. /\ Sync /\ Young /\ DiskTyped(disk) /\ TreesTyped /\ reused \in BOOLEAN
  BY <1>1, Opened DEF PlainTyped
<1>9. deltas' \in Seq(Updates) /\ Follows(deltas', replica, u, counter)
  <2>1. \/ deltas' = Append(deltas, Deletion(path))
        \/ deltas' = deltas /\ tree[Target(path)].kind = "folder"
    <3>1. tree[Target(path)].kind = "file" \/ tree[Target(path)].kind = "folder"
      BY <1>2, <1>5 DEF Good, IsTree, Elements, Kinds
    <3>2. QED
      BY <3>1 DEF DeleteElement, DeltasAfter, IsFile, Top
  <2>2. deltas \in Seq(Updates) /\ Follows(deltas, replica, tree, counter)
    BY <1>8 DEF TreesTyped, Sync
  <2>3. path \in IdPaths /\ path # <<>> /\ Chain(tree, path) /\ tree[Target(path)].children = <<>>
    BY <1>4, <1>5
  <2> HIDE DEF path
  <2>4. QED
    BY <1>2, <2>1, <2>2, <2>3, DeletionSent DEF u, id
<1> HIDE DEF path, id, rest, u
<1>10. DiskTyped(disk')
  BY <1>7, <1>8, ErasedTyped
<1>11. Sync'
  BY <1>6, <1>7, <1>8, <1>9 DEF Sync
<1>12. TreesTyped'
  BY <1>6, <1>7, <1>8, <1>9 DEF TreesTyped, Good
<1>13. Young'
  BY <1>6, <1>7, <1>8 DEF Young, Grown, Alike
<1>14. Planned(tree', rest, request.from) /\ reused' \in BOOLEAN
  BY <1>4, <1>7, <1>8
<1>15. QED
  BY <1>1, <1>4, <1>7, <1>10, <1>11, <1>12, <1>13, <1>14, Continued

LEMMA DeleteRootStep ==
  ASSUME IInv, DeleteRoot
  PROVE  IInv'
<1>1. threadUp /\ ~reused /\ Top.path = <<>>
  BY DEF DeleteRoot, Deletes, Step
<1>2. /\ PlainTyped /\ CallsTyped /\ TreesTyped /\ Sync /\ Young
      /\ Planned(tree, work, request.from)
  BY <1>1, Opened
<1>3. /\ disk' = Erased(<<>>) /\ threadUp' = FALSE
      /\ UNCHANGED <<touched, reused, tree, counter, request, work, counts, replica, dbUp, saved>>
  BY DEF DeleteRoot, Quiet
<1>4. deltas' \in Seq(Updates) /\ Follows(deltas', replica, tree, counter)
  <2>1. deltas' = deltas \/ deltas' = Append(deltas, Deletion(<<>>))
    BY <1>1 DEF DeleteRoot, DeltasAfter
  <2>2. deltas \in Seq(Updates) /\ Follows(deltas, replica, tree, counter)
    BY <1>2 DEF TreesTyped, Sync
  <2>3. QED
    BY <2>1, <2>2, RootDeletionSent
<1>5. PlainTyped'
  <2>1. DiskTyped(disk') /\ threadUp' \in BOOLEAN
    BY <1>2, <1>3, ErasedTyped DEF PlainTyped
  <2>2. QED
    BY <1>2, <1>3, <2>1 DEF PlainTyped, counts
<1>6. CallsTyped' /\ TreesTyped' /\ Sync' /\ Young' /\ Planned(tree', work', request'.from)
  BY <1>2, <1>3, <1>4 DEF CallsTyped, TreesTyped, Sync, Young, counts
<1>7. QED
  BY <1>5, <1>6, Reassembled

\* A request that meets an error is over.
LEMMA AbandonSteps ==
  ASSUME IInv, Refused \/ DiskFails \/ MakeFails
  PROVE  IInv'
<1>1. /\ threadUp /\ ~reused /\ Continue(<<>>)
      /\ UNCHANGED <<disk, reused, tree, deltas>>
      /\ counter' = counter \/ counter' = counter + 1
  BY DEF Refused, DiskFails, MakeFails, Deletes, Step, Abandon
<1>2. counter \in Nat \ {0} /\ DiskTyped(disk)
  BY <1>1, Opened DEF TreesTyped, PlainTyped
<1>3. counter' \in Nat \ {0} /\ counter <= counter'
  BY <1>1, <1>2
<1> DEFINE calls == <<>>
<1>4. calls \in Seq(Frames) /\ Continue(calls) /\ Planned(tree, calls, request.from)
  BY <1>1, NothingPlanned
<1> HIDE DEF calls
<1>5. DiskTyped(disk') /\ reused' = reused /\ UNCHANGED <<tree, deltas>>
  BY <1>1, <1>2
<1>6. QED
  BY <1>1, <1>3, <1>4, <1>5, ContinuedStill

\* Nothing changes but the disk, the counts and what was saved.
LEMMA ElsewhereStep ==
  ASSUME IInv, PlainTyped', IsTree(saved'), ~reused => Good(saved'),
         UNCHANGED <<reused, tree, counter, request, work, deltas, replica, restarts>>
  PROVE  IInv'
<1>1. PlainTyped /\ CallsTyped /\ TreesTyped
  BY TypeParts DEF IInv
<1>2. CallsTyped' /\ TreesTyped'
  BY <1>1 DEF CallsTyped, TreesTyped
<1>3. ASSUME ~reused'
      PROVE  Sync' /\ Young' /\ Planned(tree', work', request'.from)
  BY <1>3 DEF IInv, Sync, Young
<1>4. QED
  BY <1>2, <1>3, Reassembled

LEMMA OutsideStep ==
  ASSUME IInv, Outside
  PROVE  IInv'
<1>1. PlainTyped /\ TreesTyped /\ (~reused => Good(saved))
  BY TypeParts DEF IInv, Sync
<1>2. PICK place \in Places :
        OutsideRemoves(place) \/ \E content \in Data \cup {"folder"} : OutsideAdds(place, content)
  BY DEF Outside
<1>3. place \in Seq(Names)
  <2>1. PICK n \in 1 .. MaxDepth : place \in [1 .. n -> Names]
    BY DEF Places
  <2>2. n \in Nat
    BY FilesystemAssumption
  <2>3. QED
    BY <2>1, <2>2
<1>4. /\ UNCHANGED <<reused, server, database, requests, restarts>>
      /\ \E content \in Contents :
           /\ disk' = Erased(place) \/ disk' = Put(disk, place, content)
           /\ Touch(place, content)
  <2>1. CASE OutsideRemoves(place)
    <3>1. disk[place] \in Contents
      BY <1>1, <2>1 DEF OutsideRemoves, Removable, PlainTyped, DiskTyped
    <3>2. QED
      BY <2>1, <3>1 DEF OutsideRemoves
  <2>2. CASE \E content \in Data \cup {"folder"} : OutsideAdds(place, content)
    BY <2>2 DEF OutsideAdds, Contents
  <2>3. QED
    BY <1>2, <2>1, <2>2
<1>5. PICK content \in Contents :
        /\ disk' = Erased(place) \/ disk' = Put(disk, place, content)
        /\ Touch(place, content)
  BY <1>4
<1>6. DiskTyped(disk')
  BY <1>1, <1>3, <1>5, ErasedTyped, PutTyped DEF PlainTyped
<1>7. touched' \subseteq Seq(Names) \X Contents /\ outside' \in Nat
  BY <1>1, <1>3, <1>5 DEF Touch, PlainTyped
<1>8. PlainTyped'
  BY <1>1, <1>4, <1>6, <1>7 DEF PlainTyped, server, database
<1>9. QED
  BY <1>1, <1>4, <1>8, ElsewhereStep DEF server, database, TreesTyped

LEMMA SaveStep ==
  ASSUME IInv, Save
  PROVE  IInv'
<1>1. PlainTyped /\ TreesTyped /\ (~reused => Good(replica))
  BY TypeParts DEF IInv, Sync
<1>2. PlainTyped'
  BY <1>1 DEF PlainTyped, Save, server, counts
<1>3. QED
  BY <1>1, <1>2, ElsewhereStep DEF Save, server, counts, TreesTyped

\* The database takes the first update.
LEMMA Applied ==
  ASSUME IInv, Apply, dbUp' \in BOOLEAN, Good(replica'), Follows(Tail(deltas), replica', tree, counter)
  PROVE  IInv'
<1>1. ~reused /\ deltas # <<>> /\ deltas' = Tail(deltas)
  BY DEF Apply
<1>2. /\ PlainTyped /\ CallsTyped /\ TreesTyped /\ Sync /\ Young
      /\ Planned(tree, work, request.from)
  BY <1>1, Opened
<1>3. UNCHANGED <<disk, touched, reused, server, saved, counts>>
  BY DEF Apply
<1>4. deltas' \in Seq(Updates)
  BY <1>1, <1>2, TailRange DEF TreesTyped
<1>5. PlainTyped' /\ CallsTyped'
  BY <1>2, <1>3 DEF PlainTyped, CallsTyped, server, counts
<1>6. TreesTyped'
  BY <1>2, <1>3, <1>4 DEF TreesTyped, server, Good
<1>7. Sync' /\ Young' /\ Planned(tree', work', request'.from)
  BY <1>1, <1>2, <1>3 DEF Sync, Young, server, counts
<1>8. QED
  BY <1>5, <1>6, <1>7, Reassembled

LEMMA DatabaseStep ==
  ASSUME IInv, Database
  PROVE  IInv'
<1>1. Apply /\ ~reused /\ deltas # <<>>
  BY DEF Database, ApplyInsertion, ApplyDeletion, ApplyFolderDeletion, Apply
<1>2. /\ deltas \in Seq(Updates) /\ Good(replica) /\ Good(tree) /\ dbUp \in BOOLEAN
      /\ Follows(deltas, replica, tree, counter)
  BY <1>1, Opened DEF TreesTyped, PlainTyped, Sync
<1> DEFINE path == Head(deltas).path
           id == Target(path)
<1>3. CASE ApplyInsertion
  <2>1. Head(deltas).op = "insert"
    BY <1>3 DEF ApplyInsertion
  <2> DEFINE u == Inserted(replica, Parent(path), id, Head(deltas).element)
  <2>2. /\ IsFolderIn(replica, Parent(path)) /\ id \notin Range(replica[Parent(path)].children)
        /\ Good(u) /\ Follows(Tail(deltas), u, tree, counter)
    BY <1>1, <1>2, <2>1, InsertionApplied
  <2>3. replica' = u /\ dbUp' \in BOOLEAN
    <3>1. replica' = u
      BY <1>3, <2>2 DEF ApplyInsertion, IsFolderIn
    <3>2. dbUp' \in BOOLEAN
      BY <1>2, <1>3 DEF ApplyInsertion
    <3>3. QED
      BY <3>1, <3>2
  <2> HIDE DEF u
  <2>4. QED
    BY <1>1, <2>2, <2>3, Applied
<1>4. CASE ApplyDeletion
  <2>1. /\ Head(deltas).op = "delete"
        /\ id \in DOMAIN replica => replica[id].kind = "file"
        /\ replica' = IF Applicable(path) THEN Removed(replica, Parent(path), id) ELSE replica
        /\ dbUp' = dbUp
    BY <1>4 DEF ApplyDeletion
  <2>2. id # Root
    BY <1>2, <2>1 DEF Good, Sound
  <2>3. id \in DOMAIN replica /\ Parent(path) \in DOMAIN replica
    BY <1>1, <1>2, <2>1, <2>2, FirstDeletion
  <2> DEFINE u == Removed(replica, Parent(path), id)
  <2>4. Good(u) /\ Follows(Tail(deltas), u, tree, counter)
    BY <1>1, <1>2, <2>1, <2>2, <2>3, DeletionApplied
  <2>5. replica' = u
    BY <2>1, <2>3 DEF Applicable
  <2>6. dbUp' \in BOOLEAN
    BY <1>2, <2>1
  <2> HIDE DEF u
  <2>7. QED
    BY <1>1, <2>4, <2>5, <2>6, Applied
<1>5. CASE ApplyFolderDeletion
  <2>1. /\ Head(deltas).op = "delete" /\ replica[id].kind = "folder" /\ replica' = replica
        /\ dbUp' = FALSE
    BY <1>5 DEF ApplyFolderDeletion
  <2>2. Follows(Tail(deltas), replica, tree, counter)
    BY <1>1, <1>2, <2>1, DeletionDropped
  <2>3. dbUp' \in BOOLEAN
    BY <2>1
  <2>4. QED
    BY <1>1, <1>2, <2>1, <2>2, <2>3, Applied
<1>6. QED
  BY <1>3, <1>4, <1>5 DEF Database

LEMMA RestartStep ==
  ASSUME IInv, Restart
  PROVE  IInv'
<1>1. ~reused
  BY DEF Restart
<1>2. PlainTyped /\ CallsTyped /\ TreesTyped /\ Good(saved)
  BY <1>1, Opened DEF Sync
<1>3. /\ tree' = saved /\ replica' = saved /\ saved' = saved /\ counter' = 1
      /\ request' = NoRequest /\ work' = <<>> /\ deltas' = <<>>
      /\ restarts' = restarts + 1 /\ touched' = {}
      /\ UNCHANGED <<disk, reused, requests, outside>>
  BY DEF Restart
<1>4. threadUp' \in BOOLEAN /\ dbUp' \in BOOLEAN
  BY DEF Restart
<1>5. PlainTyped'
  BY <1>2, <1>3, <1>4 DEF PlainTyped
<1>6. CallsTyped' /\ TreesTyped'
  <2>1. CallsTyped'
    BY <1>3 DEF CallsTyped, NoRequest, IdPaths
  <2>2. TreesTyped'
    BY <1>2, <1>3 DEF TreesTyped
  <2>3. QED
    BY <2>1, <2>2
<1>7. Sync'
  BY <1>2, <1>3, NothingPending DEF Sync
<1>8. Young'
  <2>1. restarts' # 0
    BY <1>2, <1>3 DEF PlainTyped
  <2>2. QED
    BY <2>1 DEF Young
<1>9. Planned(tree', work', request'.from)
  BY <1>3, NothingPlanned
<1>10. QED
  BY <1>5, <1>6, <1>7, <1>8, <1>9, Reassembled

LEMMA NextIInv == IInv /\ [Next]_vars => IInv'
<1> SUFFICES ASSUME IInv, [Next]_vars
             PROVE  IInv'
  OBVIOUS
<1>1. CASE Requests
  BY <1>1, CreateStep, CreateFailsStep, CreateInFileStep, ListFileStep, LeaveDeviceStep, WriteStep,
     StartSteps DEF Requests
<1>2. CASE RequestStep
  BY <1>2, DiscoverStep, CopyContentsStep, CopyFileStep, CopyFolderStep, MakeStep, OpenFolderStep,
     DeleteElementStep, DeleteRootStep, AbandonSteps DEF RequestStep
<1>3. CASE Outside
  BY <1>3, OutsideStep
<1>4. CASE Database
  BY <1>4, DatabaseStep
<1>5. CASE Save
  BY <1>5, SaveStep
<1>6. CASE Restart
  BY <1>6, RestartStep
<1>7. CASE UNCHANGED vars
  BY <1>7 DEF vars, server, database, counts, IInv, TypeOK, Sync, Young
<1>8. QED
  BY <1>1, <1>2, <1>3, <1>4, <1>5, <1>6, <1>7 DEF Next

-----------------------------------------------------------------------------
(* The theorems.                                                             *)

LEMMA InvariantHolds == Spec => []IInv
<1>1. Init => IInv
  BY InitIInv
<1>2. IInv /\ [Next]_vars => IInv'
  BY NextIInv
<1>3. QED
  BY <1>1, <1>2, PTL DEF Spec

\* Every variable keeps its type.
THEOREM TypeCorrect == Spec => []TypeOK
<1>1. IInv => TypeOK
  BY DEF IInv
<1>2. QED
  BY <1>1, InvariantHolds, PTL

\* The thread's elements form a tree at every step of every request.
THEOREM TreeIsSound == Spec => []TreeSound
<1>1. IInv => TreeSound
  BY DEF IInv, Sync, Good, Young, TreeSound
<1>2. QED
  BY <1>1, InvariantHolds, PTL

\* What the thread has and what the database has differ only by the updates on
\* their way and by folders deleted when they had no children.
THEOREM DatabaseFollows == Spec => []ReplicaFollows
<1>1. ASSUME IInv, dbUp, ~reused
      PROVE  ReplicaFollows
  <2>1. Good(tree) /\ Good(replica) /\ Agree(deltas, replica, tree)
    BY <1>1 DEF IInv, Sync, Follows
  <2>2. \A d \in Insertions(deltas) : Pending("insert", Target(d.path))
    BY DEF Insertions, Pending, Range
  <2>3. \A d \in Deletions(deltas) : Pending("delete", Target(d.path))
    BY DEF Deletions, Pending, Range
  <2>4. ASSUME NEW id \in DOMAIN tree \ {Root}
        PROVE  \/ Pending("insert", id)
               \/ /\ id \in DOMAIN replica
                  /\ replica[id].name = tree[id].name /\ replica[id].kind = tree[id].kind
                  /\ tree[id].parent \in DOMAIN replica
                  /\ id \in Range(replica[tree[id].parent].children)
    <3>1. CASE id \in DOMAIN replica
      <4>1. Alike(tree[id], replica[id])
        BY <2>1, <2>4, <3>1 DEF Agree
      <4>2. /\ replica[id].parent \in DOMAIN replica
            /\ id \in Range(replica[replica[id].parent].children)
        BY <2>1, <2>4, <3>1 DEF Good, Sound
      <4>3. QED
        BY <3>1, <4>1, <4>2 DEF Alike
    <3>2. CASE id \notin DOMAIN replica
      BY <2>1, <2>2, <2>4, <3>2 DEF Agree
    <3>3. QED
      BY <3>1, <3>2
  <2>5. \A id \in DOMAIN replica \ DOMAIN tree :
          replica[id].kind = "folder" \/ Pending("delete", id)
    BY <2>1, <2>3 DEF Agree
  <2>6. QED
    BY <2>4, <2>5 DEF ReplicaFollows
<1>2. IInv => ReplicaFollows
  BY <1>1 DEF ReplicaFollows
<1>3. QED
  BY <1>2, InvariantHolds, PTL

-----------------------------------------------------------------------------
(* Induction over Nat, for sets, and the prefixes of sequences.              *)

LEMMA LeastOf ==
  ASSUME NEW T, T \subseteq Nat, T # {}
  PROVE  \E x \in T : \A y \in T : x <= y
<1> DEFINE upTo == {0 .. n : n \in T}
<1>1. upTo \subseteq FiniteSubsetsOf(Nat) /\ upTo # {}
  <2>1. ASSUME NEW n \in T PROVE 0 .. n \in FiniteSubsetsOf(Nat)
    <3>1. IsFiniteSet(0 .. n) /\ 0 .. n \subseteq Nat
      BY FS_Interval
    <3>2. QED
      BY <3>1 DEF FiniteSubsetsOf
  <2>2. QED
    BY <2>1
<1>2. PICK x \in T : \A y \in T : <<0 .. y, 0 .. x>> \notin StrictSubsetOrdering(Nat)
  <2> HIDE DEF upTo
  <2>1. \E a \in upTo : \A b \in upTo : ~(<<b, a>> \in StrictSubsetOrdering(Nat))
    BY <1>1, FS_StrictSubsetOrderingWellFounded, WFMin
  <2>2. QED
    BY <2>1 DEF upTo
<1>3. ASSUME NEW y \in T, y < x PROVE FALSE
  <2>1. 0 .. y \subseteq 0 .. x /\ x \in 0 .. x /\ x \notin 0 .. y
    BY <1>3
  <2>2. 0 .. y \in SUBSET Nat /\ 0 .. x \in SUBSET Nat
    OBVIOUS
  <2>3. <<0 .. y, 0 .. x>> \in StrictSubsetOrdering(Nat)
    BY <2>1, <2>2 DEF StrictSubsetOrdering
  <2>4. QED
    BY <1>2, <2>3
<1>4. QED
  BY <1>3

LEMMA SetInduction ==
  ASSUME NEW T, 0 \in T, \A n \in Nat : n \in T => n + 1 \in T
  PROVE  Nat \subseteq T
<1> SUFFICES ASSUME ~(Nat \subseteq T) PROVE FALSE
  OBVIOUS
<1> DEFINE U == Nat \ T
<1>1. PICK x \in U : \A y \in U : x <= y
  BY LeastOf
<1>2. x # 0 /\ x - 1 \in Nat /\ x - 1 \notin U
  BY <1>1
<1>3. QED
  BY <1>1, <1>2

LEMMA PrefixPoints ==
  ASSUME NEW S, NEW s \in Seq(S), NEW t \in Seq(S)
  PROVE  IsPrefix(s, t) <=> /\ Len(s) <= Len(t)
                            /\ \A i \in 1 .. Len(s) : s[i] = t[i]
<1>1. Len(s) \in Nat /\ Len(t) \in Nat
  OBVIOUS
<1>2. CASE Len(s) <= Len(t)
  <2>1. /\ SubSeq(s, 1, Len(s)) \in Seq(S) /\ Len(SubSeq(s, 1, Len(s))) = Len(s)
        /\ \A i \in 1 .. Len(s) : SubSeq(s, 1, Len(s))[i] = s[i]
    OBVIOUS
  <2>2. /\ SubSeq(t, 1, Len(s)) \in Seq(S) /\ Len(SubSeq(t, 1, Len(s))) = Len(s)
        /\ \A i \in 1 .. Len(s) : SubSeq(t, 1, Len(s))[i] = t[i]
    BY <1>2
  <2>3. SubSeq(s, 1, Len(s)) = SubSeq(t, 1, Len(s)) <=> \A i \in 1 .. Len(s) : s[i] = t[i]
    <3>1. ASSUME \A i \in 1 .. Len(s) : s[i] = t[i]
          PROVE  SubSeq(s, 1, Len(s)) = SubSeq(t, 1, Len(s))
      BY <2>1, <2>2, <3>1, SeqEqual
    <3>2. QED
      BY <2>1, <2>2, <3>1
  <2>4. QED
    BY <1>2, <2>3 DEF IsPrefix
<1>3. CASE ~(Len(s) <= Len(t))
  BY <1>3 DEF IsPrefix
<1>4. QED
  BY <1>2, <1>3

LEMMA PrefixOfItself ==
  ASSUME NEW S, NEW s \in Seq(S)
  PROVE  /\ IsPrefix(s, s)
         /\ IsPrefix(<<>>, s)
<1>1. IsPrefix(s, s)
  BY PrefixPoints
<1>2. PICK e \in Seq(S) : e = <<>>
  BY EmptySeq
<1>3. Len(e) = 0 /\ Len(s) \in Nat
  BY <1>2
<1>4. Len(e) <= Len(s) /\ \A i \in 1 .. Len(e) : e[i] = s[i]
  BY <1>3
<1>5. IsPrefix(e, s)
  BY <1>4, PrefixPoints
<1>6. QED
  BY <1>1, <1>2, <1>5

LEMMA PrefixTransitive ==
  ASSUME NEW S, NEW s \in Seq(S), NEW t \in Seq(S), NEW u \in Seq(S),
         IsPrefix(s, t), IsPrefix(t, u)
  PROVE  IsPrefix(s, u)
<1>1. /\ Len(s) \in Nat /\ Len(t) \in Nat /\ Len(u) \in Nat
      /\ Len(s) <= Len(t) /\ Len(t) <= Len(u)
      /\ \A i \in 1 .. Len(s) : s[i] = t[i]
      /\ \A i \in 1 .. Len(t) : t[i] = u[i]
  BY PrefixPoints
<1>2. Len(s) <= Len(u) /\ \A i \in 1 .. Len(s) : s[i] = u[i]
  BY <1>1
<1>3. QED
  BY <1>2, PrefixPoints

LEMMA PrefixBoth ==
  ASSUME NEW S, NEW s \in Seq(S), NEW t \in Seq(S), IsPrefix(s, t), IsPrefix(t, s)
  PROVE  s = t
<1>1. /\ Len(s) \in Nat /\ Len(t) \in Nat /\ Len(s) <= Len(t) /\ Len(t) <= Len(s)
      /\ \A i \in 1 .. Len(s) : s[i] = t[i]
  BY PrefixPoints
<1>2. Len(s) = Len(t)
  BY <1>1
<1>3. QED
  BY <1>1, <1>2, SeqEqual

\* A sequence with one element more.
LEMMA PrefixAppended ==
  ASSUME NEW S, NEW s \in Seq(S), NEW t \in Seq(S), NEW e \in S
  PROVE  /\ IsPrefix(t, Append(t, e))
         /\ IsPrefix(s, Append(t, e)) => IsPrefix(s, t) \/ s = Append(t, e)
         /\ IsPrefix(Append(t, e), s) => IsPrefix(t, s) /\ t # s /\ s[Len(t) + 1] = e
         /\ IsPrefix(t, s) => IsPrefix(t, Append(s, e))
<1>1. /\ Len(s) \in Nat /\ Len(t) \in Nat /\ Append(t, e) \in Seq(S)
      /\ Len(Append(t, e)) = Len(t) + 1
      /\ \A i \in 1 .. Len(t) : Append(t, e)[i] = t[i]
      /\ Append(t, e)[Len(t) + 1] = e
      /\ Append(s, e) \in Seq(S) /\ Len(Append(s, e)) = Len(s) + 1
      /\ \A i \in 1 .. Len(s) : Append(s, e)[i] = s[i]
  OBVIOUS
<1> DEFINE u == Append(t, e)
           v == Append(s, e)
<1> HIDE DEF u, v
<1>2. IsPrefix(t, u) /\ IsPrefix(s, v)
  <2>1. Len(t) <= Len(u) /\ Len(s) <= Len(v)
    BY <1>1 DEF u, v
  <2>2. u \in Seq(S) /\ v \in Seq(S)
    BY <1>1 DEF u, v
  <2>3. (\A i \in 1 .. Len(t) : t[i] = u[i]) /\ (\A i \in 1 .. Len(s) : s[i] = v[i])
    BY <1>1 DEF u, v
  <2>4. QED
    BY <2>1, <2>2, <2>3, PrefixPoints
<1>3. ASSUME IsPrefix(s, u)
      PROVE  IsPrefix(s, t) \/ s = u
  <2>1. /\ u \in Seq(S) /\ Len(u) = Len(t) + 1 /\ \A i \in 1 .. Len(t) : u[i] = t[i]
        /\ Len(s) <= Len(t) + 1 /\ \A i \in 1 .. Len(s) : s[i] = u[i]
    BY <1>1, <1>3, PrefixPoints DEF u
  <2>2. CASE Len(s) <= Len(t)
    <3>1. \A i \in 1 .. Len(s) : s[i] = t[i]
      BY <1>1, <2>1, <2>2
    <3>2. QED
      BY <2>2, <3>1, PrefixPoints
  <2>3. CASE Len(s) = Len(t) + 1
    <3>1. s = u
      BY <2>1, <2>3, SeqEqual
    <3>2. QED
      BY <3>1
  <2>4. QED
    BY <1>1, <2>1, <2>2, <2>3
<1>4. ASSUME IsPrefix(u, s)
      PROVE  IsPrefix(t, s) /\ t # s /\ s[Len(t) + 1] = e
  <2>0. u \in Seq(S) /\ Len(u) = Len(t) + 1 /\ u[Len(t) + 1] = e
    BY <1>1 DEF u
  <2>1. /\ u \in Seq(S) /\ Len(u) = Len(t) + 1 /\ Len(u) <= Len(s)
        /\ u[Len(t) + 1] = e /\ \A i \in 1 .. Len(u) : u[i] = s[i]
    BY <1>4, <2>0, PrefixPoints
  <2>2. Len(t) # Len(s) /\ Len(t) + 1 \in 1 .. Len(u)
    BY <1>1, <2>1
  <2>3. IsPrefix(t, s)
    BY <1>2, <1>4, <2>1, PrefixTransitive
  <2>4. QED
    BY <2>1, <2>2, <2>3
<1>5. ASSUME IsPrefix(t, s)
      PROVE  IsPrefix(t, v)
  BY <1>1, <1>2, <1>5, PrefixTransitive DEF v
<1>6. QED
  BY <1>2, <1>3, <1>4, <1>5 DEF u, v

\* The next element after a proper prefix.
LEMMA PrefixNext ==
  ASSUME NEW S, NEW s \in Seq(S), NEW t \in Seq(S), IsPrefix(s, t), s # t
  PROVE  /\ Len(s) + 1 \in 1 .. Len(t) /\ t[Len(s) + 1] \in S
         /\ IsPrefix(Append(s, t[Len(s) + 1]), t)
<1>1. /\ Len(s) \in Nat /\ Len(t) \in Nat /\ Len(s) <= Len(t)
      /\ \A i \in 1 .. Len(s) : s[i] = t[i]
  BY PrefixPoints
<1>2. Len(s) # Len(t)
  BY <1>1, SeqEqual
<1>3. Len(s) + 1 \in 1 .. Len(t) /\ t[Len(s) + 1] \in S
  BY <1>1, <1>2
<1> DEFINE e == t[Len(s) + 1]
           u == Append(s, e)
<1>4. u \in Seq(S) /\ Len(u) = Len(s) + 1 /\ \A i \in 1 .. Len(s) + 1 : u[i] = t[i]
  <2>1. /\ e \in S /\ u \in Seq(S) /\ Len(u) = Len(s) + 1 /\ u[Len(s) + 1] = e
        /\ \A i \in 1 .. Len(s) : u[i] = s[i]
    BY <1>3
  <2>2. \A i \in 1 .. Len(s) + 1 : i \in 1 .. Len(s) \/ i = Len(s) + 1
    BY <1>1
  <2> HIDE DEF u
  <2>3. QED
    BY <1>1, <2>1, <2>2
<1> HIDE DEF u
<1>5. Len(u) <= Len(t)
  BY <1>1, <1>2, <1>4
<1>6. IsPrefix(u, t)
  BY <1>4, <1>5, PrefixPoints
<1>7. QED
  BY <1>3, <1>6 DEF u

LEMMA FrontAppended ==
  ASSUME NEW S, NEW s \in Seq(S), s # <<>>
  PROVE  /\ Front(s) \in Seq(S) /\ Last(s) \in S /\ s = Append(Front(s), Last(s))
         /\ Len(Front(s)) = Len(s) - 1 /\ IsPrefix(Front(s), s)
<1>1. Len(s) \in Nat /\ Len(s) >= 1
  BY EmptySeq
<1>2. /\ Front(s) \in Seq(S) /\ Len(Front(s)) = Len(s) - 1
      /\ \A i \in 1 .. Len(s) - 1 : Front(s)[i] = s[i]
      /\ Last(s) = s[Len(s)] /\ Last(s) \in S
  <2>1. /\ SubSeq(s, 1, Len(s) - 1) \in Seq(S) /\ Len(SubSeq(s, 1, Len(s) - 1)) = Len(s) - 1
        /\ \A i \in 1 .. Len(s) - 1 : SubSeq(s, 1, Len(s) - 1)[i] = s[i]
    <3>1. PICK n \in Nat : n = Len(s) - 1 /\ n <= Len(s)
      BY <1>1
    <3>2. /\ SubSeq(s, 1, n) \in Seq(S) /\ Len(SubSeq(s, 1, n)) = n
          /\ \A i \in 1 .. n : SubSeq(s, 1, n)[i] = s[i]
      BY <1>1, <3>1
    <3>3. QED
      BY <3>1, <3>2
  <2>2. Len(s) \in 1 .. Len(s) /\ s[Len(s)] \in S
    BY <1>1
  <2>3. QED
    BY <2>1, <2>2 DEF Front, Last
<1> DEFINE u == Append(Front(s), Last(s))
<1>3. /\ u \in Seq(S) /\ Len(u) = Len(s) /\ u[Len(s)] = Last(s)
      /\ \A i \in 1 .. Len(s) - 1 : u[i] = Front(s)[i]
  BY <1>1, <1>2
<1> HIDE DEF u
<1>4. \A i \in 1 .. Len(s) : u[i] = s[i]
  BY <1>1, <1>2, <1>3
<1>5. u = s
  BY <1>3, <1>4, SeqEqual
<1>6. IsPrefix(Front(s), u)
  BY <1>2, PrefixAppended DEF u
<1>7. QED
  BY <1>2, <1>5, <1>6 DEF u

LEMMA FrontOfAppend ==
  ASSUME NEW S, NEW s \in Seq(S), NEW e \in S
  PROVE  Front(Append(s, e)) = s /\ Append(s, e) # <<>>
<1>1. Append(s, e) \in Seq(S) /\ Append(s, e) # <<>>
  BY AppendProperties
<1>2. /\ Front(Append(s, e)) \in Seq(S) /\ Last(Append(s, e)) \in S
      /\ Append(s, e) = Append(Front(Append(s, e)), Last(Append(s, e)))
  BY <1>1, FrontAppended
<1>3. QED
  BY <1>1, <1>2, AppendInjective

\* Neither is in the other.
Off(a, y) == ~IsPrefix(a, y) /\ ~IsPrefix(y, a)

\* x is in a what y is in b.
Goes(a, b, x, y) == \E s \in Seq(Names) : x = a \o s /\ y = b \o s

LEMMA OffAppended ==
  ASSUME NEW S, NEW a \in Seq(S), NEW y \in Seq(S), NEW e \in S, Off(a, y)
  PROVE  Off(a, Append(y, e))
<1>1. Append(y, e) \in Seq(S)
  OBVIOUS
<1>2. /\ IsPrefix(a, Append(y, e)) => IsPrefix(a, y) \/ a = Append(y, e)
      /\ IsPrefix(Append(y, e), a) => IsPrefix(y, a)
      /\ IsPrefix(y, Append(y, e))
  BY PrefixAppended
<1>3. QED
  BY <1>2 DEF Off

LEMMA GoesFirst ==
  ASSUME NEW a \in Seq(Names), NEW b \in Seq(Names)
  PROVE  Goes(a, b, a, b)
<1>1. PICK s \in Seq(Names) : s = <<>>
  BY EmptySeq
<1>2. a \o s = a /\ b \o s = b
  BY <1>1, ConcatEmptySeq
<1>3. QED
  BY <1>2 DEF Goes

LEMMA GoesAppended ==
  ASSUME NEW a \in Seq(Names), NEW b \in Seq(Names), NEW x, NEW y, Goes(a, b, x, y),
         NEW n \in Names
  PROVE  Goes(a, b, Append(x, n), Append(y, n))
<1>1. PICK s \in Seq(Names) : x = a \o s /\ y = b \o s
  BY DEF Goes
<1>2. Append(s, n) \in Seq(Names)
  OBVIOUS
<1>3. Append(a \o s, n) = a \o Append(s, n) /\ Append(b \o s, n) = b \o Append(s, n)
  <2>1. \A c \in Seq(Names) : Append(c \o s, n) = c \o Append(s, n)
    <3>1. ASSUME NEW c \in Seq(Names)
          PROVE  Append(c \o s, n) = c \o Append(s, n)
      <4>1. c \o s \in Seq(Names) /\ <<n>> \in Seq(Names)
        OBVIOUS
      <4>2. Append(c \o s, n) = (c \o s) \o <<n>> /\ Append(s, n) = s \o <<n>>
        BY <4>1, AppendIsConcat
      <4>3. (c \o s) \o <<n>> = c \o (s \o <<n>>)
        BY <4>1, ConcatAssociative
      <4>4. QED
        BY <4>2, <4>3
    <3>2. QED
      BY <3>1
  <2>2. QED
    BY <2>1
<1>4. QED
  BY <1>1, <1>2, <1>3 DEF Goes

LEMMA GoesTyped ==
  ASSUME NEW a \in Seq(Names), NEW b \in Seq(Names), NEW x, NEW y, Goes(a, b, x, y)
  PROVE  x \in Seq(Names) /\ y \in Seq(Names) /\ IsPrefix(a, x)
<1>1. PICK s \in Seq(Names) : x = a \o s /\ y = b \o s
  BY DEF Goes
<1>2. x \in Seq(Names) /\ y \in Seq(Names)
  BY <1>1
<1>3. /\ Len(a) \in Nat /\ Len(s) \in Nat /\ Len(x) = Len(a) + Len(s)
      /\ \A i \in 1 .. Len(a) : x[i] = a[i]
  BY <1>1
<1>4. Len(a) <= Len(x)
  BY <1>3
<1>5. IsPrefix(a, x)
  BY <1>2, <1>3, <1>4, PrefixPoints
<1>6. QED
  BY <1>2, <1>5

\* Two places do not go to the same.
LEMMA GoesApart ==
  ASSUME NEW a \in Seq(Names), NEW b \in Seq(Names), NEW x, NEW z, NEW y,
         Goes(a, b, x, y), Goes(a, b, z, y)
  PROVE  x = z
<1>1. PICK s \in Seq(Names) : x = a \o s /\ y = b \o s
  BY DEF Goes
<1>2. PICK t \in Seq(Names) : z = a \o t /\ y = b \o t
  BY DEF Goes
<1>3. b \o s = b \o t
  BY <1>1, <1>2
<1>4. s = t
  BY <1>3, ConcatSimplifications
<1>5. QED
  BY <1>1, <1>2, <1>4

-----------------------------------------------------------------------------
(* The places of paths in a tree.                                            *)

Place(t, path) == [i \in DOMAIN path |-> t[path[i]].name]

LEMMA PlaceTyped ==
  ASSUME NEW t, Good(t), NEW path \in IdPaths, Chain(t, path)
  PROVE  /\ Place(t, path) \in Seq(Names) /\ Len(Place(t, path)) = Len(path)
         /\ Len(path) \in Nat
         /\ \A i \in 1 .. Len(path) : Place(t, path)[i] = t[path[i]].name
<1>1. Len(path) \in Nat /\ path \in Seq(Nat) /\ DOMAIN path = 1 .. Len(path)
  BY DEF IdPaths
<1>2. \A i \in 1 .. Len(path) : t[path[i]].name \in Names
  BY <1>1 DEF Chain, Good
<1>3. Place(t, path) \in [1 .. Len(path) -> Names]
  BY <1>1, <1>2 DEF Place
<1>4. Place(t, path) \in Seq(Names) /\ Len(Place(t, path)) = Len(path)
  BY <1>1, <1>3
<1>5. QED
  BY <1>1, <1>4 DEF Place

LEMMA PlaceAppended ==
  ASSUME NEW t, Good(t), NEW path \in IdPaths, Chain(t, path),
         NEW id \in DOMAIN t \ {Root}
  PROVE  /\ Place(t, Append(path, id)) = Append(Place(t, path), t[id].name)
         /\ t[id].name \in Names
<1>1. Len(path) \in Nat /\ path \in Seq(Nat) /\ id \in Nat /\ t[id].name \in Names
  BY DEF IdPaths, Good, IsTree
<1>2. /\ Place(t, path) \in Seq(Names) /\ Len(Place(t, path)) = Len(path)
      /\ \A i \in 1 .. Len(path) : Place(t, path)[i] = t[path[i]].name
  BY PlaceTyped
<1>3. /\ DOMAIN Append(path, id) = 1 .. Len(path) + 1
      /\ \A i \in 1 .. Len(path) : Append(path, id)[i] = path[i]
      /\ Append(path, id)[Len(path) + 1] = id
  BY <1>1
<1> DEFINE p == Place(t, Append(path, id))
           q == Append(Place(t, path), t[id].name)
<1>4. /\ p \in [1 .. Len(path) + 1 -> Names]
      /\ \A i \in 1 .. Len(path) + 1 : p[i] = t[Append(path, id)[i]].name
  <2>1. \A i \in 1 .. Len(path) + 1 : t[Append(path, id)[i]].name \in Names
    <3>1. \A i \in 1 .. Len(path) : t[path[i]].name \in Names
      BY <1>1 DEF Chain, Good
    <3>2. QED
      BY <1>1, <1>3, <3>1
  <2>2. QED
    BY <1>3, <2>1 DEF Place
<1>5. /\ q \in Seq(Names) /\ Len(q) = Len(path) + 1 /\ q[Len(path) + 1] = t[id].name
      /\ \A i \in 1 .. Len(path) : q[i] = Place(t, path)[i]
  BY <1>1, <1>2
<1> HIDE DEF p, q
<1>6. \A i \in 1 .. Len(path) + 1 : p[i] = q[i]
  BY <1>1, <1>2, <1>3, <1>4, <1>5
<1>7. p \in Seq(Names) /\ Len(p) = Len(path) + 1
  BY <1>1, <1>4
<1>8. p = q
  BY <1>5, <1>6, <1>7, SeqEqual
<1>9. QED
  BY <1>1, <1>8 DEF p, q

LEMMA PlaceGrown ==
  ASSUME NEW t, NEW u, Grown(t, u), NEW path, Chain(t, path)
  PROVE  Place(u, path) = Place(t, path) /\ Chain(u, path)
<1>1. \A i \in DOMAIN path : u[path[i]].name = t[path[i]].name
  BY DEF Chain, Grown, Alike
<1>2. QED
  BY <1>1, ChainGrown DEF Place

LEMMA ChainPrefix ==
  ASSUME NEW t, Good(t), NEW p \in IdPaths, Chain(t, p), NEW q \in IdPaths, IsPrefix(q, p)
  PROVE  Chain(t, q) /\ IsPrefix(Place(t, q), Place(t, p))
<1>1. /\ q \in Seq(Nat) /\ p \in Seq(Nat) /\ Len(q) \in Nat /\ Len(p) \in Nat /\ Len(q) <= Len(p)
      /\ DOMAIN q = 1 .. Len(q) /\ DOMAIN p = 1 .. Len(p)
      /\ \A i \in 1 .. Len(q) : q[i] = p[i] /\ i \in 1 .. Len(p)
  BY PrefixPoints DEF IdPaths
<1>2. ASSUME NEW i \in 1 .. Len(q)
      PROVE  q[i] \in DOMAIN t \ {Root} /\ t[q[i]].parent = IF i = 1 THEN Root ELSE q[i - 1]
  <2>1. i = 1 \/ i - 1 \in 1 .. Len(q)
    BY <1>1
  <2>2. QED
    BY <1>1, <2>1 DEF Chain
<1>3. Chain(t, q)
  BY <1>1, <1>2 DEF Chain
<1>4. /\ Place(t, p) \in Seq(Names) /\ Len(Place(t, p)) = Len(p)
      /\ \A i \in 1 .. Len(p) : Place(t, p)[i] = t[p[i]].name
      /\ Place(t, q) \in Seq(Names) /\ Len(Place(t, q)) = Len(q)
      /\ \A i \in 1 .. Len(q) : Place(t, q)[i] = t[q[i]].name
  BY <1>3, PlaceTyped
<1>5. \A i \in 1 .. Len(q) : Place(t, q)[i] = Place(t, p)[i]
  BY <1>1, <1>4
<1>6. IsPrefix(Place(t, q), Place(t, p))
  BY <1>1, <1>4, <1>5, PrefixPoints
<1>7. QED
  BY <1>3, <1>6

\* The element of a path after a part of it.
LEMMA ChainNext ==
  ASSUME NEW t, Good(t), NEW p \in IdPaths, Chain(t, p), NEW q \in IdPaths, IsPrefix(q, p), p # q
  PROVE  \E c \in DOMAIN t \ {Root} :
           /\ c = p[Len(q) + 1] /\ t[c].parent = Target(q) /\ c \in Range(t[Target(q)].children)
           /\ Append(q, c) \in IdPaths /\ Chain(t, Append(q, c)) /\ IsPrefix(Append(q, c), p)
<1> DEFINE c == p[Len(q) + 1]
<1>1. c \in Nat /\ IsPrefix(Append(q, c), p)
  BY PrefixNext DEF IdPaths
<1> HIDE DEF c
<1>2. /\ Append(q, c) \in IdPaths /\ Append(q, c) # <<>>
      /\ Target(Append(q, c)) = c /\ Parent(Append(q, c)) = Target(q)
  BY <1>1, AppendedPath
<1>3. Chain(t, Append(q, c))
  BY <1>1, <1>2, ChainPrefix
<1>4. c \in DOMAIN t \ {Root} /\ t[c].parent = Target(q)
  BY <1>2, <1>3, ChainTarget
<1>5. c \in Range(t[Target(q)].children)
  BY <1>4 DEF Good, Sound
<1>6. QED
  BY <1>1, <1>2, <1>3, <1>4, <1>5 DEF c

LEMMA FileEnds ==
  ASSUME NEW t, Good(t), NEW p \in IdPaths, Chain(t, p), NEW q \in IdPaths, IsPrefix(q, p),
         t[Target(q)].kind = "file"
  PROVE  p = q
<1> SUFFICES ASSUME p # q PROVE FALSE
  OBVIOUS
<1>1. PICK c \in DOMAIN t \ {Root} : c \in Range(t[Target(q)].children)
  BY ChainNext
<1>2. Chain(t, q)
  BY ChainPrefix
<1>3. Target(q) \in DOMAIN t
  BY <1>2, ChainTarget
<1>4. t[Target(q)].children = <<>>
  BY <1>3 DEF Good, Sound
<1>5. QED
  BY <1>1, <1>4, EmptyRange

\* An element has one path.
LEMMA ChainUnique ==
  ASSUME NEW t, Good(t), NEW p \in IdPaths, Chain(t, p), NEW q \in IdPaths, Chain(t, q),
         Target(p) = Target(q)
  PROVE  p = q
<1> DEFINE Same(x, y) == Chain(t, x) /\ Chain(t, y) /\ Target(x) = Target(y) => x = y
           T == {n \in Nat : \A x, y \in IdPaths : Len(x) = n => Same(x, y)}
<1>1. 0 \in T
  <2>1. ASSUME NEW x \in IdPaths, NEW y \in IdPaths, Len(x) = 0,
               Chain(t, x), Chain(t, y), Target(x) = Target(y)
        PROVE  x = y
    <3>1. x = <<>>
      BY <2>1, EmptySeq DEF IdPaths
    <3>2. Target(y) = Root
      BY <2>1, <3>1 DEF Target
    <3>3. y = <<>>
      BY <2>1, <3>2, ChainTarget
    <3>4. QED
      BY <3>1, <3>3
  <2>2. QED
    BY <2>1
<1>2. ASSUME NEW n \in Nat, n \in T
      PROVE  n + 1 \in T
  <2>1. ASSUME NEW x \in IdPaths, NEW y \in IdPaths, Len(x) = n + 1,
               Chain(t, x), Chain(t, y), Target(x) = Target(y)
        PROVE  x = y
    <3>1. x # <<>>
      BY <2>1, EmptySeq DEF IdPaths
    <3>2. y # <<>>
      BY <2>1, <3>1, ChainTarget
    <3>3. /\ Front(x) \in IdPaths /\ x = Append(Front(x), Last(x)) /\ Len(Front(x)) = Len(x) - 1
          /\ Front(y) \in IdPaths /\ y = Append(Front(y), Last(y))
          /\ Last(x) \in Nat /\ Last(y) \in Nat
      BY <3>1, <3>2, FrontAppended DEF IdPaths
    <3>4. IsPrefix(Front(x), x) /\ IsPrefix(Front(y), y)
      BY <3>1, <3>2, FrontAppended DEF IdPaths
    <3>5. Chain(t, Front(x)) /\ Chain(t, Front(y))
      BY <2>1, <3>3, <3>4, ChainPrefix
    <3>6. Target(Front(x)) = Target(Front(y))
      BY <2>1, <3>1, <3>2, ChainTarget DEF Parent
    <3>7. Len(Front(x)) = n
      BY <2>1, <3>3
    <3>8. Front(x) = Front(y)
      BY <1>2, <3>3, <3>5, <3>6, <3>7
    <3>9. Last(x) = Last(y)
      BY <2>1, <3>1, <3>2 DEF Target
    <3>10. QED
      BY <3>3, <3>8, <3>9
  <2>2. QED
    BY <2>1
<1> HIDE DEF T
<1>3. Nat \subseteq T
  BY <1>1, <1>2, SetInduction
<1>4. Len(p) \in T
  BY <1>3 DEF IdPaths
<1>5. QED
  BY <1>4 DEF T

LEMMA FirstNamed ==
  ASSUME NEW path, Resolves(path), NEW i \in DOMAIN path,
         NEW cs, cs = tree[Target(SubSeq(path, 1, i - 1))].children
  PROVE  \E j \in DOMAIN cs : /\ cs[j] = path[i]
                             /\ \A k \in 1 .. (j - 1) : tree[cs[k]].name # tree[path[i]].name
BY DEF Resolves

\* Paths that resolve are told apart by their names: the first child of a name is
\* taken each time.
LEMMA NamesResolve ==
  ASSUME Good(tree), NEW from \in IdPaths, Chain(tree, from), Resolves(from),
         NEW to \in IdPaths, Chain(tree, to), Resolves(to),
         IsPrefix(Place(tree, to), Place(tree, from))
  PROVE  IsPrefix(to, from)
<1>1. /\ Len(to) \in Nat /\ Len(from) \in Nat /\ to \in Seq(Nat) /\ from \in Seq(Nat)
      /\ DOMAIN to = 1 .. Len(to) /\ DOMAIN from = 1 .. Len(from)
  BY DEF IdPaths
<1>2. /\ Len(to) <= Len(from)
      /\ \A i \in 1 .. Len(to) : tree[to[i]].name = tree[from[i]].name
  <2>1. /\ Place(tree, to) \in Seq(Names) /\ Len(Place(tree, to)) = Len(to)
        /\ \A i \in 1 .. Len(to) : Place(tree, to)[i] = tree[to[i]].name
        /\ Place(tree, from) \in Seq(Names) /\ Len(Place(tree, from)) = Len(from)
        /\ \A i \in 1 .. Len(from) : Place(tree, from)[i] = tree[from[i]].name
    BY PlaceTyped
  <2>2. /\ Len(Place(tree, to)) <= Len(Place(tree, from))
        /\ \A i \in 1 .. Len(Place(tree, to)) : Place(tree, to)[i] = Place(tree, from)[i]
    BY <2>1, PrefixPoints
  <2>3. Len(to) <= Len(from)
    BY <2>1, <2>2
  <2>4. QED
    BY <1>1, <2>1, <2>2, <2>3
<1> DEFINE T == {n \in Nat : \A i \in 1 .. n : i <= Len(to) => to[i] = from[i]}
<1>3. 0 \in T
  OBVIOUS
<1>4. ASSUME NEW n \in Nat, n \in T
      PROVE  n + 1 \in T
  <2>1. ASSUME n + 1 <= Len(to)
        PROVE  to[n + 1] = from[n + 1]
    <3>1. \A i \in 1 .. n : to[i] = from[i]
      BY <1>1, <1>4, <2>1
    <3>2. SubSeq(to, 1, n) = SubSeq(from, 1, n)
      <4>1. n <= Len(to) /\ n <= Len(from)
        BY <1>1, <1>2, <2>1
      <4>2. /\ SubSeq(to, 1, n) \in Seq(Nat) /\ Len(SubSeq(to, 1, n)) = n
            /\ \A i \in 1 .. n : SubSeq(to, 1, n)[i] = to[i]
        BY <1>1, <4>1
      <4>3. /\ SubSeq(from, 1, n) \in Seq(Nat) /\ Len(SubSeq(from, 1, n)) = n
            /\ \A i \in 1 .. n : SubSeq(from, 1, n)[i] = from[i]
        BY <1>1, <4>1
      <4>4. QED
        BY <3>1, <4>2, <4>3, SeqEqual
    <3> DEFINE s == SubSeq(to, 1, n)
               cs == tree[Target(s)].children
    <3>3. n + 1 \in 1 .. Len(to) /\ n + 1 \in 1 .. Len(from) /\ (n + 1) - 1 = n
      BY <1>1, <1>2, <2>1
    <3>4. PICK j \in DOMAIN cs : /\ cs[j] = to[n + 1]
                                 /\ \A k \in 1 .. (j - 1) : tree[cs[k]].name # tree[to[n + 1]].name
      <4>1. n + 1 \in DOMAIN to /\ cs = tree[Target(SubSeq(to, 1, (n + 1) - 1))].children
        BY <1>1, <3>3
      <4> HIDE DEF cs
      <4>2. QED
        BY <4>1, FirstNamed
    <3>5. PICK l \in DOMAIN cs : /\ cs[l] = from[n + 1]
                                 /\ \A k \in 1 .. (l - 1) : tree[cs[k]].name # tree[from[n + 1]].name
      <4>1. n + 1 \in DOMAIN from /\ cs = tree[Target(SubSeq(from, 1, (n + 1) - 1))].children
        BY <1>1, <3>2, <3>3
      <4> HIDE DEF cs
      <4>2. QED
        BY <4>1, FirstNamed
    <3>6. tree[cs[j]].name = tree[cs[l]].name
      BY <1>2, <3>3, <3>4, <3>5
    <3>7. cs \in Seq(Nat)
      <4>1. to[n + 1] \in DOMAIN tree /\ Chain(tree, s)
        <5>1. s \in IdPaths
          BY <1>1, <3>3 DEF IdPaths
        <5>2. IsPrefix(s, to)
          <6>1. /\ Len(s) = n /\ \A i \in 1 .. n : s[i] = to[i]
            BY <1>1, <3>3
          <6>2. n <= Len(to)
            BY <1>1, <3>3
          <6> HIDE DEF s
          <6>3. QED
            BY <1>1, <5>1, <6>1, <6>2, PrefixPoints DEF IdPaths
        <5> HIDE DEF s
        <5>3. Chain(tree, s)
          BY <5>1, <5>2, ChainPrefix
        <5>4. to[n + 1] \in DOMAIN tree
          BY <1>1, <3>3 DEF Chain
        <5>5. QED
          BY <5>3, <5>4
      <4>2. Target(s) \in DOMAIN tree
        <5>1. s \in IdPaths
          BY <1>1, <3>3 DEF IdPaths
        <5> HIDE DEF s
        <5>2. QED
          BY <4>1, <5>1, ChainTarget
      <4>3. QED
        BY <4>2 DEF Good, IsTree, Elements, IdPaths
    <3> HIDE DEF cs
    <3>8. j \in Nat /\ l \in Nat /\ j >= 1 /\ l >= 1
      BY <3>7
    <3>9. ~(j < l) /\ ~(l < j)
      <4>1. ASSUME j < l PROVE FALSE
        <5>1. j \in 1 .. (l - 1)
          BY <3>8, <4>1
        <5>2. QED
          BY <3>5, <3>6, <5>1
      <4>2. ASSUME l < j PROVE FALSE
        <5>1. l \in 1 .. (j - 1)
          BY <3>8, <4>2
        <5>2. QED
          BY <3>4, <3>6, <5>1
      <4>3. QED
        BY <4>1, <4>2
    <3>10. j = l
      BY <3>8, <3>9
    <3>11. QED
      BY <3>4, <3>5, <3>10
  <2>2. ASSUME NEW i \in 1 .. n + 1, i <= Len(to)
        PROVE  to[i] = from[i]
    <3>1. i \in 1 .. n \/ i = n + 1
      BY <1>4
    <3>2. QED
      BY <1>4, <2>1, <2>2, <3>1
  <2>3. QED
    BY <1>4, <2>2
<1> HIDE DEF T
<1>5. Nat \subseteq T
  BY <1>3, <1>4, SetInduction
<1>6. \A i \in 1 .. Len(to) : to[i] = from[i]
  <2>1. Len(to) \in T
    BY <1>1, <1>5
  <2>2. QED
    BY <1>1, <2>1 DEF T
<1>7. QED
  BY <1>1, <1>2, <1>6, PrefixPoints DEF IdPaths

-----------------------------------------------------------------------------
(* The disk: what is somewhere is in a folder.                               *)

DiskClosed(d) ==
  \A place \in DOMAIN d : place # <<>> => Front(place) \in DOMAIN d /\ d[Front(place)] = "folder"

LEMMA DiskAbove ==
  ASSUME NEW d, DiskClosed(d), DOMAIN d \subseteq Seq(Names), NEW q \in DOMAIN d,
         NEW s \in Seq(Names), IsPrefix(s, q)
  PROVE  s \in DOMAIN d
<1> DEFINE T == {n \in Nat :
                   \A x \in DOMAIN d : Len(x) = Len(s) + n /\ IsPrefix(s, x) => s \in DOMAIN d}
<1>0. Len(s) \in Nat /\ \A x \in DOMAIN d : x \in Seq(Names) /\ Len(x) \in Nat
  <2>1. \A x \in Seq(Names) : Len(x) \in Nat
    OBVIOUS
  <2>2. QED
    BY <2>1
<1>1. 0 \in T
  <2>1. ASSUME NEW x \in DOMAIN d, Len(x) = Len(s) + 0, IsPrefix(s, x)
        PROVE  s \in DOMAIN d
    <3>1. Len(x) = Len(s) /\ \A i \in 1 .. Len(s) : s[i] = x[i]
      BY <1>0, <2>1, PrefixPoints
    <3>2. s = x
      BY <1>0, <3>1, SeqEqual
    <3>3. QED
      BY <3>2
  <2>2. QED
    BY <2>1
<1>2. ASSUME NEW n \in Nat, n \in T
      PROVE  n + 1 \in T
  <2>1. ASSUME NEW x \in DOMAIN d, Len(x) = Len(s) + (n + 1), IsPrefix(s, x)
        PROVE  s \in DOMAIN d
    <3>1. x \in Seq(Names) /\ Len(x) # 0 /\ s # x
      BY <1>0, <1>2, <2>1
    <3>2. x # <<>>
      BY <3>1, EmptySeq
    <3>3. /\ Front(x) \in Seq(Names) /\ Last(x) \in Names /\ x = Append(Front(x), Last(x))
          /\ Len(Front(x)) = Len(x) - 1
      BY <3>1, <3>2, FrontAppended
    <3>4. IsPrefix(s, Append(Front(x), Last(x))) =>
            IsPrefix(s, Front(x)) \/ s = Append(Front(x), Last(x))
      BY <3>3, PrefixAppended
    <3>5. IsPrefix(s, Front(x))
      BY <2>1, <3>1, <3>3, <3>4, Zenon
    <3>6. Front(x) \in DOMAIN d
      BY <3>2 DEF DiskClosed
    <3>7. Len(Front(x)) = Len(s) + n
      BY <1>0, <1>2, <2>1, <3>3
    <3>8. QED
      BY <1>2, <3>5, <3>6, <3>7
  <2>2. QED
    BY <1>2, <2>1
<1> HIDE DEF T
<1>3. Nat \subseteq T
  BY <1>1, <1>2, SetInduction
<1>4. PICK n \in Nat : Len(q) = Len(s) + n
  <2>1. Len(s) <= Len(q)
    BY <1>0, PrefixPoints
  <2>2. Len(q) - Len(s) \in Nat /\ Len(q) = Len(s) + (Len(q) - Len(s))
    BY <1>0, <2>1
  <2>3. QED
    BY <2>2
<1>5. QED
  BY <1>3, <1>4 DEF T

\* What can be removed is alone.
LEMMA RemovedAlone ==
  ASSUME DiskClosed(disk), DOMAIN disk \subseteq Seq(Names), NEW place \in Seq(Names),
         Removable(place), NEW q \in DOMAIN disk, IsPrefix(place, q)
  PROVE  q = place
<1> SUFFICES ASSUME q # place PROVE FALSE
  OBVIOUS
<1>1. PICK e \in Names : IsPrefix(Append(place, e), q)
  BY PrefixNext
<1>2. Append(place, e) \in DOMAIN disk
  <2>1. Append(place, e) \in Seq(Names)
    OBVIOUS
  <2>2. QED
    BY <1>1, <2>1, DiskAbove
<1>3. Front(Append(place, e)) = place /\ Append(place, e) # <<>>
  BY FrontOfAppend
<1>4. QED
  BY <1>2, <1>3 DEF Removable, Inside

LEMMA ErasedOne ==
  ASSUME DiskClosed(disk), DOMAIN disk \subseteq Seq(Names), NEW place \in Seq(Names),
         Removable(place)
  PROVE  /\ DOMAIN Erased(place) = DOMAIN disk \ {place}
         /\ \A q \in DOMAIN disk \ {place} : Erased(place)[q] = disk[q]
<1>1. \A q \in DOMAIN disk : IsPrefix(place, q) <=> q = place
  BY RemovedAlone, PrefixOfItself
<1>2. QED
  BY <1>1 DEF Erased

LEMMA PutClosed ==
  ASSUME NEW d, DiskClosed(d), NEW place, Front(place) \in DOMAIN d, d[Front(place)] = "folder",
         place \in DOMAIN d => d[place] # "folder", NEW v
  PROVE  DiskClosed(Put(d, place, v))
<1>1. /\ DOMAIN Put(d, place, v) = DOMAIN d \cup {place}
      /\ \A q \in DOMAIN d : q # place => Put(d, place, v)[q] = d[q]
  BY DEF Put
<1> HIDE DEF Put
<1>2. Front(place) # place
  OBVIOUS
<1>3. QED
  BY <1>1, <1>2 DEF DiskClosed

LEMMA ErasedClosed ==
  ASSUME DiskClosed(disk), DOMAIN disk \subseteq Seq(Names), NEW place \in Seq(Names)
  PROVE  DiskClosed(Erased(place))
<1>1. /\ DOMAIN Erased(place) = {q \in DOMAIN disk : ~IsPrefix(place, q)}
      /\ \A q \in DOMAIN Erased(place) : Erased(place)[q] = disk[q]
  BY DEF Erased
<1>2. ASSUME NEW q \in DOMAIN disk, q # <<>>, IsPrefix(place, Front(q))
      PROVE  IsPrefix(place, q)
  <2>1. q \in Seq(Names) /\ Front(q) \in Seq(Names) /\ IsPrefix(Front(q), q)
    BY <1>2, FrontAppended
  <2>2. QED
    BY <1>2, <2>1, PrefixTransitive
<1>3. QED
  BY <1>1, <1>2 DEF DiskClosed

-----------------------------------------------------------------------------
(* What a move has copied.  A file's content is stored elsewhere, at the     *)
(* place that corresponds to its own while there is something to copy, or a  *)
(* call will copy it there.                                                  *)

Lies(t, from, p) ==
  p \in IdPaths /\ Chain(t, p) /\ IsPrefix(from, p) /\ t[Target(p)].kind = "file"

Dest(t, f) ==
  IF f.op = "copy" THEN Place(t, f.to) ELSE Append(Place(t, f.to), t[Target(f.path)].name)

\* A call writes nothing into the source; that of a folder writes only its children.
Clear(t, a, f) ==
  IF f.op = "copy" /\ t[Target(f.path)].kind = "folder"
  THEN \A c \in Range(t[Target(f.path)].children) : Off(a, Append(Dest(t, f), t[c].name))
  ELSE Off(a, Dest(t, f))

Aimed(t, a, b, f) ==
  /\ Goes(a, b, Place(t, f.path), Dest(t, f))
  /\ Clear(t, a, f)
  /\ f.op = "copy" => t[Target(f.path)].kind = t[Target(f.to)].kind

Copies(w) == {f \in Range(w) : f.op \in {"copy", "make"}}

Awaited(t, w, x) == \E f \in Copies(w) : \E p : Lies(t, f.path, p) /\ Place(t, p) = x

Excused(ch, d, x) == \E change \in ch : change[1] = x \/ change[2] = d[x]

Stored(w, d, ch, a, b, x) ==
  x \in DOMAIN d /\ d[x] \in Data =>
    \/ Excused(ch, d, x)
    \/ \E y \in DOMAIN d : Off(a, y) /\ d[y] = d[x] /\ (Copies(w) # {} => Goes(a, b, x, y))

Carried(t, w, d, ch, from, b) ==
  /\ \A f \in Copies(w) : Aimed(t, Place(t, from), b, f)
  /\ \A p : Lies(t, from, p) =>
       Awaited(t, w, Place(t, p)) \/ Stored(w, d, ch, Place(t, from), b, Place(t, p))

\* The source is deleted last, and all that is copied or deleted is in it.
Ending(w, from) ==
  /\ w # <<>> /\ Last(w).op = "delete" /\ Last(w).path = from
  /\ \A f \in Range(w) : f.op \in {"copy", "make", "delete"} /\ IsPrefix(from, f.path)

LEMMA CopyFacts ==
  ASSUME NEW t, Good(t), NEW w \in Seq(Frames), \A g \in Range(w) : Fits(t, g),
         NEW f \in Copies(w)
  PROVE  /\ f \in Frames /\ f.path \in IdPaths /\ Chain(t, f.path)
         /\ f.to \in IdPaths /\ Chain(t, f.to)
         /\ Target(f.path) \in DOMAIN t /\ Target(f.to) \in DOMAIN t
         /\ Place(t, f.path) \in Seq(Names) /\ Place(t, f.to) \in Seq(Names)
<1>1. f \in Range(w) /\ f.op \in {"copy", "make"}
  BY DEF Copies
<1>2. f \in Frames
  BY <1>1 DEF Range
<1>3. f.path \in IdPaths /\ Chain(t, f.path) /\ f.to \in IdPaths /\ Chain(t, f.to)
  BY <1>1, <1>2 DEF Frames, Fits
<1>4. QED
  BY <1>2, <1>3, ChainTarget, PlaceTyped

LEMMA LiesPlace ==
  ASSUME NEW t, Good(t), NEW from \in IdPaths, NEW p, Lies(t, from, p)
  PROVE  /\ p \in IdPaths /\ Chain(t, p) /\ Chain(t, from)
         /\ Place(t, from) \in Seq(Names) /\ Place(t, p) \in Seq(Names)
         /\ IsPrefix(Place(t, from), Place(t, p))
<1>1. p \in IdPaths /\ Chain(t, p) /\ IsPrefix(from, p)
  BY DEF Lies
<1>2. Chain(t, from) /\ IsPrefix(Place(t, from), Place(t, p))
  BY <1>1, ChainPrefix
<1>3. QED
  BY <1>1, <1>2, PlaceTyped

\* Nothing changes but that another place than x and all those outside is taken.
LEMMA StoredKept ==
  ASSUME NEW w, NEW v, NEW d, NEW e, NEW ch, NEW a, NEW b, NEW x, Stored(w, d, ch, a, b, x),
         Copies(v) # {} => Copies(w) # {},
         \A y \in DOMAIN d : Off(a, y) => y \in DOMAIN e /\ e[y] = d[y],
         x \in DOMAIN e => x \in DOMAIN d /\ e[x] = d[x]
  PROVE  Stored(v, e, ch, a, b, x)
<1> SUFFICES ASSUME x \in DOMAIN e, e[x] \in Data, ~Excused(ch, e, x)
             PROVE  \E y \in DOMAIN e :
                      Off(a, y) /\ e[y] = e[x] /\ (Copies(v) # {} => Goes(a, b, x, y))
  BY DEF Stored
<1>1. x \in DOMAIN d /\ d[x] = e[x] /\ ~Excused(ch, d, x)
  BY DEF Excused
<1>2. PICK y \in DOMAIN d : Off(a, y) /\ d[y] = d[x] /\ (Copies(w) # {} => Goes(a, b, x, y))
  BY <1>1 DEF Stored
<1>3. QED
  BY <1>1, <1>2

LEMMA CopiesLeft ==
  ASSUME NEW w \in Seq(Frames), w # <<>>
  PROVE  /\ Head(w) \in Range(w) /\ Range(w) = Range(Tail(w)) \cup {Head(w)}
         /\ Copies(Tail(w)) \subseteq Copies(w)
         /\ Copies(w) \subseteq Copies(Tail(w)) \cup {Head(w)}
         /\ Head(w).op \in {"copy", "make"} => Head(w) \in Copies(w)
<1>1. Head(w) \in Range(w) /\ Range(w) = Range(Tail(w)) \cup {Head(w)}
  BY TailRange
<1>2. QED
  BY <1>1 DEF Copies

\* A file's contents are copied.
LEMMA CarriedCopied ==
  ASSUME NEW t, Good(t), NEW w \in Seq(Frames), w # <<>>, \A g \in Range(w) : Fits(t, g),
         NEW from \in IdPaths, Chain(t, from), NEW b \in Seq(Names), NEW d, NEW ch,
         Carried(t, w, d, ch, from, b), Head(w).op = "copy",
         t[Target(Head(w).path)].kind = "file", Place(t, Head(w).path) \in DOMAIN d
  PROVE  Carried(t, Tail(w), Put(d, Place(t, Head(w).to), d[Place(t, Head(w).path)]), ch, from, b)
<1> DEFINE f == Head(w)
           a == Place(t, from)
           z == Place(t, f.path)
           to == Place(t, f.to)
           e == Put(d, to, d[z])
<1>1. /\ f \in Copies(w) /\ Copies(Tail(w)) \subseteq Copies(w)
      /\ Copies(w) \subseteq Copies(Tail(w)) \cup {f}
  BY CopiesLeft
<1>2. /\ f.path \in IdPaths /\ Chain(t, f.path) /\ z \in Seq(Names) /\ to \in Seq(Names)
      /\ a \in Seq(Names)
  BY <1>1, CopyFacts, PlaceTyped
<1>3. Goes(a, b, z, to) /\ Off(a, to)
  <2>1. Aimed(t, a, b, f)
    BY <1>1 DEF Carried
  <2>2. QED
    BY <2>1 DEF Aimed, Clear, Dest
<1>4. /\ DOMAIN e = DOMAIN d \cup {to} /\ e[to] = d[z]
      /\ \A y \in DOMAIN d : y # to => e[y] = d[y]
  BY DEF Put
<1> HIDE DEF a, z, to, e
<1>5. ASSUME NEW p, Lies(t, from, p), ~Awaited(t, Tail(w), Place(t, p))
      PROVE  Stored(Tail(w), e, ch, a, b, Place(t, p))
  <2> DEFINE x == Place(t, p)
  <2>1. x # to
    <3>1. IsPrefix(a, x)
      BY <1>5, LiesPlace DEF a
    <3>2. QED
      BY <1>3, <3>1 DEF Off
  <2>2. CASE x = z
    <3>1. e[x] = d[z] /\ to \in DOMAIN e
      BY <1>4, <2>1, <2>2, z \in DOMAIN d DEF z
    <3>2. Off(a, to) /\ e[to] = e[x] /\ Goes(a, b, x, to)
      BY <1>3, <1>4, <2>2, <3>1
    <3> HIDE DEF x
    <3>3. QED
      BY <3>1, <3>2 DEF Stored, x
  <2>3. CASE x # z
    <3>1. ~Awaited(t, w, x)
      <4> SUFFICES ASSUME NEW g \in Copies(w), NEW q, Lies(t, g.path, q), Place(t, q) = x
                   PROVE  FALSE
        BY DEF Awaited
      <4>1. g = f
        BY <1>1, <1>5 DEF Awaited
      <4>2. q = f.path
        BY <1>2, <4>1, FileEnds DEF Lies
      <4>3. QED
        BY <2>3, <4>2 DEF z
    <3>2. Stored(w, d, ch, a, b, x)
      BY <1>5, <3>1 DEF Carried, a
    <3> HIDE DEF x
    <3>3. SUFFICES ASSUME x \in DOMAIN e, e[x] \in Data, ~Excused(ch, e, x)
                   PROVE  \E y \in DOMAIN e :
                            Off(a, y) /\ e[y] = e[x] /\ (Copies(Tail(w)) # {} => Goes(a, b, x, y))
      BY DEF Stored, x
    <3>4. x \in DOMAIN d /\ d[x] = e[x] /\ ~Excused(ch, d, x)
      BY <1>4, <2>1, <3>3 DEF Excused, x
    <3>5. PICK y \in DOMAIN d : Off(a, y) /\ d[y] = d[x] /\ Goes(a, b, x, y)
      BY <1>1, <3>2, <3>3, <3>4 DEF Stored
    <3>6. y # to
      BY <1>2, <1>3, <2>3, <3>5, GoesApart DEF x, a
    <3>7. QED
      BY <1>4, <3>4, <3>5, <3>6
  <2>4. QED
    BY <2>2, <2>3
<1>6. QED
  BY <1>1, <1>5 DEF Carried, a, e, to, z

\* A folder is copied child by child.
LEMMA CarriedListed ==
  ASSUME NEW t, Good(t), NEW w \in Seq(Frames), w # <<>>, \A g \in Range(w) : Fits(t, g),
         NEW from \in IdPaths, Chain(t, from), NEW b \in Seq(Names), NEW d, NEW ch,
         Carried(t, w, d, ch, from, b), Head(w).op = "copy",
         t[Target(Head(w).path)].kind = "folder",
         NEW v, \A g \in Range(Tail(w)) : g \in Range(v),
         \A c \in Range(t[Target(Head(w).path)].children) :
           MakeFrame(Append(Head(w).path, c), Head(w).to) \in Range(v),
         \A g \in Range(v) :
           \/ g \in Range(Tail(w))
           \/ \E c \in Range(t[Target(Head(w).path)].children) :
                g = MakeFrame(Append(Head(w).path, c), Head(w).to)
  PROVE  Carried(t, v, d, ch, from, b)
<1> DEFINE f == Head(w)
           a == Place(t, from)
           children == t[Target(f.path)].children
           made(c) == MakeFrame(Append(f.path, c), f.to)
<1>1. /\ f \in Copies(w) /\ Copies(Tail(w)) \subseteq Copies(w)
      /\ Copies(w) \subseteq Copies(Tail(w)) \cup {f}
  BY CopiesLeft
<1>2. /\ f.path \in IdPaths /\ Chain(t, f.path) /\ Target(f.path) \in DOMAIN t
      /\ Place(t, f.path) \in Seq(Names) /\ Place(t, f.to) \in Seq(Names) /\ a \in Seq(Names)
  BY <1>1, CopyFacts, PlaceTyped
<1>3. /\ Goes(a, b, Place(t, f.path), Place(t, f.to))
      /\ \A c \in Range(children) : Off(a, Append(Place(t, f.to), t[c].name))
  <2>1. Aimed(t, a, b, f)
    BY <1>1 DEF Carried
  <2>2. QED
    BY <2>1 DEF Aimed, Clear, Dest
<1>4. ASSUME NEW c \in Range(children)
      PROVE  /\ made(c).op = "make" /\ made(c).path = Append(f.path, c) /\ made(c).to = f.to
             /\ made(c) \in Copies(v) /\ Aimed(t, a, b, made(c))
  <2>1. /\ made(c).op = "make" /\ made(c).path = Append(f.path, c) /\ made(c).to = f.to
        /\ made(c) \in Copies(v)
    BY <1>4 DEF MakeFrame, Copies
  <2>2. c \in DOMAIN t \ {Root} /\ c \in Nat
    BY <1>2, <1>4 DEF Good, Sound, IsTree
  <2> HIDE DEF made, children
  <2>3. Place(t, made(c).path) = Append(Place(t, f.path), t[c].name) /\ t[c].name \in Names
    BY <1>2, <2>1, <2>2, PlaceAppended
  <2>4. Target(made(c).path) = c
    BY <1>2, <2>1, <2>2, AppendedPath
  <2>5. Dest(t, made(c)) = Append(Place(t, f.to), t[c].name)
    BY <2>1, <2>4 DEF Dest
  <2>6. Goes(a, b, Place(t, made(c).path), Dest(t, made(c)))
    BY <1>2, <1>3, <2>3, <2>5, GoesAppended
  <2>7. Clear(t, a, made(c))
    BY <1>3, <1>4, <2>1, <2>5 DEF Clear
  <2>8. QED
    BY <2>1, <2>6, <2>7 DEF Aimed
<1> HIDE DEF made
<1>5. Copies(Tail(w)) \subseteq Copies(v)
  BY DEF Copies
<1>6. \A g \in Copies(v) : Aimed(t, a, b, g)
  <2>1. ASSUME NEW g \in Copies(v)
        PROVE  Aimed(t, a, b, g)
    <3>1. CASE g \in Range(Tail(w))
      <4>1. g \in Copies(w)
        BY <1>1, <3>1 DEF Copies
      <4>2. QED
        BY <4>1 DEF Carried
    <3>2. CASE \E c \in Range(children) : g = made(c)
      BY <1>4, <3>2
    <3>3. QED
      BY <3>1, <3>2 DEF Copies, made
  <2>2. QED
    BY <2>1
<1>7. ASSUME NEW p, Lies(t, from, p), ~Awaited(t, v, Place(t, p))
      PROVE  Stored(v, d, ch, a, b, Place(t, p))
  <2> DEFINE x == Place(t, p)
  <2>1. ~Awaited(t, w, x)
    <3> SUFFICES ASSUME NEW g \in Copies(w), NEW q, Lies(t, g.path, q), Place(t, q) = x
                 PROVE  FALSE
      BY DEF Awaited
    <3>1. g = f
      BY <1>1, <1>5, <1>7 DEF Awaited
    <3>2. q \in IdPaths /\ Chain(t, q) /\ IsPrefix(f.path, q) /\ q # f.path
      BY <3>1 DEF Lies
    <3>3. PICK c \in Range(children) : IsPrefix(Append(f.path, c), q)
      BY <1>2, <3>2, ChainNext
    <3>4. made(c) \in Copies(v) /\ Lies(t, made(c).path, q)
      BY <1>4, <3>3 DEF Lies
    <3>5. QED
      BY <1>7, <3>4 DEF Awaited
  <2>2. Stored(w, d, ch, a, b, x)
    BY <1>7, <2>1 DEF Carried
  <2> HIDE DEF x
  <2>3. Stored(v, d, ch, a, b, x)
    BY <1>1, <2>2, StoredKept
  <2>4. QED
    BY <2>3 DEF x
<1>8. QED
  BY <1>6, <1>7 DEF Carried

\* An element is made, and its contents are copied next.
MadeAt(t, w) == Append(Place(t, Head(w).to), t[Target(Head(w).path)].name)

CopyOf(w, id) == CopyFrame(Head(w).path, Append(Head(w).to, id))

Made(t, w, u, id) ==
  /\ id \notin DOMAIN t /\ DOMAIN u = DOMAIN t \cup {id}
  /\ u[id].children = <<>> /\ u[id].parent = Target(Head(w).to)
  /\ u[id].kind = t[Target(Head(w).path)].kind /\ u[id].name = t[Target(Head(w).path)].name
  /\ \A x \in DOMAIN t : x # Target(Head(w).to) => u[x].children = t[x].children

LEMMA CarriedMade ==
  ASSUME NEW t, Good(t), NEW w \in Seq(Frames), w # <<>>, \A g \in Range(w) : Fits(t, g),
         NEW from \in IdPaths, Chain(t, from), NEW b \in Seq(Names), NEW d, NEW ch,
         Carried(t, w, d, ch, from, b), \A g \in Range(w) : IsPrefix(from, g.path),
         Head(w).op = "make",
         NEW u, Good(u), Grown(t, u), NEW id \in Nat, Made(t, w, u, id), NEW v,
         t[Target(Head(w).path)].kind = "folder" => MadeAt(t, w) \notin DOMAIN d,
         NEW rest \in Seq(Frames), Range(rest) = Range(Tail(w)) \cup {CopyOf(w, id)}
  PROVE  Carried(u, rest, Put(d, MadeAt(t, w), v), ch, from, b)
<1> DEFINE g == Head(w)
           a == Place(t, from)
           z == Place(t, g.path)
           place == MadeAt(t, w)
           e == Put(d, place, v)
           name == t[Target(g.path)].name
           f == CopyOf(w, id)
<1>0. /\ id \notin DOMAIN t /\ DOMAIN u = DOMAIN t \cup {id}
      /\ u[id].children = <<>> /\ u[id].parent = Target(g.to)
      /\ u[id].kind = t[Target(g.path)].kind /\ u[id].name = name
      /\ \A x \in DOMAIN t : x # Target(g.to) => u[x].children = t[x].children
      /\ place = Append(Place(t, g.to), name) /\ f = CopyFrame(g.path, Append(g.to, id))
  BY DEF Made, MadeAt, CopyOf
<1> HIDE DEF place, f
<1>1. /\ g \in Copies(w) /\ Copies(Tail(w)) \subseteq Copies(w)
      /\ Copies(w) \subseteq Copies(Tail(w)) \cup {g}
  BY CopiesLeft
<1>2. /\ g.path \in IdPaths /\ Chain(t, g.path) /\ Target(g.path) \in DOMAIN t
      /\ g.to \in IdPaths /\ Chain(t, g.to) /\ Target(g.to) \in DOMAIN t
      /\ z \in Seq(Names) /\ Place(t, g.to) \in Seq(Names) /\ a \in Seq(Names)
      /\ g \in Range(w) /\ IsPrefix(from, g.path)
  BY <1>1, CopyFacts, PlaceTyped DEF Copies
<1>3. name \in Names /\ id \in DOMAIN u \ {Root} /\ Root \in DOMAIN t
  <2>1. Root \in DOMAIN t
    BY DEF Good, Sound
  <2>2. Target(g.path) # Root
    BY <1>2 DEF Fits
  <2>3. QED
    BY <1>0, <1>2, <2>1, <2>2 DEF Good
<1>4. Goes(a, b, z, place) /\ Off(a, place) /\ place \in Seq(Names)
  <2>1. Aimed(t, a, b, g)
    BY <1>1 DEF Carried
  <2>2. QED
    BY <1>0, <1>2, <1>3, <2>1 DEF Aimed, Clear, Dest
<1>5. ~IsPrefix(from, g.to)
  <2> SUFFICES ASSUME IsPrefix(from, g.to) PROVE FALSE
    OBVIOUS
  <2>1. IsPrefix(a, Place(t, g.to))
    BY <1>2, ChainPrefix
  <2>2. IsPrefix(Place(t, g.to), place)
    BY <1>0, <1>2, <1>3, PrefixAppended
  <2>3. IsPrefix(a, place)
    BY <1>2, <1>4, <2>1, <2>2, PrefixTransitive
  <2>4. QED
    BY <1>4, <2>3 DEF Off
<1>6. /\ DOMAIN e = DOMAIN d \cup {place}
      /\ \A y \in DOMAIN d : y # place => e[y] = d[y]
  BY DEF Put
<1>7. Place(u, from) = a
  BY PlaceGrown
<1> HIDE DEF e, z, a, name
<1>8. /\ f.op = "copy" /\ f.path = g.path /\ f.to = Append(g.to, id)
      /\ f \in Copies(rest) /\ Copies(Tail(w)) \subseteq Copies(rest)
      /\ Copies(rest) \subseteq Copies(Tail(w)) \cup {f}
  BY <1>0 DEF CopyFrame, Copies, f
<1>9. Aimed(u, a, b, f)
  <2>1. Place(u, f.path) = z
    BY <1>2, <1>8, PlaceGrown DEF z
  <2>2. Place(u, f.to) = place
    <3>1. Place(u, g.to) = Place(t, g.to) /\ Chain(u, g.to)
      BY <1>2, PlaceGrown
    <3>2. Place(u, Append(g.to, id)) = Append(Place(t, g.to), u[id].name)
      BY <1>2, <1>3, <3>1, PlaceAppended
    <3>3. QED
      BY <1>0, <1>8, <3>2
  <2>3. Target(f.to) = id /\ Target(f.path) = Target(g.path)
    <3>1. Target(Append(g.to, id)) = id
      BY <1>2, AppendedPath
    <3>2. QED
      BY <1>8, <3>1
  <2>4. u[Target(f.path)].kind = u[Target(f.to)].kind
    BY <1>0, <1>2, <2>3 DEF Grown, Alike
  <2>5. Clear(u, a, f)
    <3>1. ASSUME NEW c \in Range(u[Target(f.path)].children)
          PROVE  Off(a, Append(place, u[c].name))
      <4>1. Target(f.path) \in DOMAIN u
        BY <1>0, <1>2, <2>3
      <4>2. c \in DOMAIN u \ {Root}
        BY <3>1, <4>1 DEF Good, Sound
      <4>3. u[c].name \in Names
        BY <4>2 DEF Good
      <4>4. QED
        BY <1>2, <1>4, <4>3, OffAppended
    <3>2. QED
      BY <1>4, <1>8, <2>2, <3>1 DEF Clear, Dest
  <2>6. QED
    BY <1>4, <1>8, <2>1, <2>2, <2>4, <2>5 DEF Aimed, Dest
<1>10. ASSUME NEW h \in Copies(Tail(w))
       PROVE  Aimed(u, a, b, h)
  <2>1. h \in Copies(w) /\ h \in Range(w)
    BY <1>1 DEF Copies
  <2>2. Aimed(t, a, b, h)
    BY <2>1 DEF Carried, a
  <2>3. /\ h.path \in IdPaths /\ Chain(t, h.path) /\ Target(h.path) \in DOMAIN t
        /\ h.to \in IdPaths /\ Chain(t, h.to) /\ Target(h.to) \in DOMAIN t
    BY <2>1, CopyFacts
  <2>4. Place(u, h.path) = Place(t, h.path) /\ Place(u, h.to) = Place(t, h.to)
    BY <2>3, PlaceGrown
  <2>5. /\ u[Target(h.path)].kind = t[Target(h.path)].kind
        /\ u[Target(h.path)].name = t[Target(h.path)].name
        /\ u[Target(h.to)].kind = t[Target(h.to)].kind
    BY <2>3 DEF Grown, Alike
  <2>6. Dest(u, h) = Dest(t, h)
    BY <2>4, <2>5 DEF Dest
  <2>7. u[Target(h.path)].children = t[Target(h.path)].children
    <3>1. Target(h.path) # Target(g.to)
      BY <1>2, <1>5, <2>1, <2>3, ChainUnique
    <3>2. QED
      BY <1>0, <2>3, <3>1
  <2>8. \A c \in Range(t[Target(h.path)].children) : u[c].name = t[c].name
    BY <2>3 DEF Good, Sound, Grown, Alike
  <2>9. Clear(u, a, h)
    BY <2>2, <2>5, <2>6, <2>7, <2>8 DEF Aimed, Clear
  <2>10. QED
    BY <2>2, <2>4, <2>5, <2>6, <2>9 DEF Aimed
<1>11. ASSUME NEW p, Lies(u, from, p)
       PROVE  Lies(t, from, p) /\ Place(u, p) = Place(t, p)
  <2>1. p \in IdPaths /\ Chain(u, p) /\ IsPrefix(from, p) /\ u[Target(p)].kind = "file"
    BY <1>11 DEF Lies
  <2>2. Target(p) # id
    <3> SUFFICES ASSUME Target(p) = id PROVE FALSE
      OBVIOUS
    <3>1. p # <<>> /\ Parent(p) = Target(g.to)
      BY <1>0, <1>3, <2>1, ChainTarget
    <3>2. /\ Front(p) \in IdPaths /\ Last(p) \in Nat /\ p = Append(Front(p), Last(p))
          /\ IsPrefix(Front(p), p)
      BY <2>1, <3>1, FrontAppended DEF IdPaths
    <3>3. Chain(u, Front(p)) /\ Chain(u, g.to)
      BY <1>2, <2>1, <3>2, ChainPrefix, ChainGrown
    <3>4. Front(p) = g.to
      BY <1>2, <3>1, <3>2, <3>3, ChainUnique DEF Parent
    <3>5. from # p
      BY <1>0, ChainTarget
    <3>6. IsPrefix(from, Append(Front(p), Last(p))) =>
            IsPrefix(from, Front(p)) \/ from = Append(Front(p), Last(p))
      BY <3>2, PrefixAppended DEF IdPaths
    <3>7. IsPrefix(from, Front(p))
      BY <2>1, <3>2, <3>5, <3>6, Zenon
    <3>8. QED
      BY <1>5, <3>4, <3>7
  <2>3. Chain(t, p)
    <3>1. DOMAIN t = DOMAIN u \ {id}
      BY <1>0
    <3>2. QED
      BY <1>0, <1>3, <2>1, <2>2, <3>1, ChainShrunk
  <2>4. Target(p) \in DOMAIN t
    BY <2>1, <2>3, ChainTarget
  <2>5. Place(u, p) = Place(t, p)
    BY <2>3, PlaceGrown
  <2>6. QED
    BY <2>1, <2>3, <2>4, <2>5 DEF Lies, Grown, Alike
<1>12. ASSUME NEW q, NEW h, Lies(t, h, q)
       PROVE  Lies(u, h, q) /\ Place(u, q) = Place(t, q)
  <2>1. q \in IdPaths /\ Chain(t, q) /\ IsPrefix(h, q) /\ t[Target(q)].kind = "file"
    BY <1>12 DEF Lies
  <2>2. Chain(u, q) /\ Place(u, q) = Place(t, q) /\ Target(q) \in DOMAIN t
    BY <2>1, PlaceGrown, ChainTarget
  <2>3. QED
    BY <2>1, <2>2 DEF Lies, Grown, Alike
<1>13. ASSUME NEW p, Lies(u, from, p), ~Awaited(u, rest, Place(u, p))
       PROVE  Stored(rest, e, ch, a, b, Place(u, p))
  <2> DEFINE x == Place(t, p)
  <2>1. Lies(t, from, p) /\ Place(u, p) = x
    BY <1>11, <1>13
  <2>2. x # place
    <3>1. IsPrefix(a, x)
      BY <2>1, LiesPlace DEF a
    <3>2. QED
      BY <1>4, <3>1 DEF Off
  <2>3. ~Awaited(t, w, x)
    <3> SUFFICES ASSUME NEW h \in Copies(w), NEW q, Lies(t, h.path, q), Place(t, q) = x
                 PROVE  FALSE
      BY DEF Awaited
    <3>1. Lies(u, h.path, q) /\ Place(u, q) = x
      BY <1>12
    <3>2. h \in Copies(rest) \/ h.path = f.path
      BY <1>1, <1>8
    <3>3. QED
      BY <1>8, <1>13, <2>1, <3>1, <3>2 DEF Awaited
  <2>4. Stored(w, d, ch, a, b, x)
    BY <2>1, <2>3 DEF Carried, a
  <2>5. t[Target(g.path)].kind = "file" => x # z
    <3> SUFFICES ASSUME t[Target(g.path)].kind = "file", x = z PROVE FALSE
      OBVIOUS
    <3>1. Lies(t, g.path, g.path)
      BY <1>2, PrefixOfItself DEF Lies, IdPaths
    <3>2. Lies(u, f.path, g.path) /\ Place(u, g.path) = x
      BY <1>8, <1>12, <3>1 DEF z
    <3>3. QED
      BY <1>8, <1>13, <2>1, <3>2 DEF Awaited
  <2> HIDE DEF x
  <2>6. SUFFICES ASSUME x \in DOMAIN e, e[x] \in Data, ~Excused(ch, e, x)
                 PROVE  \E y \in DOMAIN e :
                          Off(a, y) /\ e[y] = e[x] /\ (Copies(rest) # {} => Goes(a, b, x, y))
    BY <2>1 DEF Stored
  <2>7. x \in DOMAIN d /\ d[x] = e[x] /\ ~Excused(ch, d, x)
    BY <1>6, <2>2, <2>6 DEF Excused
  <2>8. PICK y \in DOMAIN d : Off(a, y) /\ d[y] = d[x] /\ Goes(a, b, x, y)
    BY <1>1, <2>4, <2>6, <2>7 DEF Stored
  <2>9. y # place
    <3> SUFFICES ASSUME y = place PROVE FALSE
      OBVIOUS
    <3>1. t[Target(g.path)].kind = "file"
      BY <1>2, <2>8 DEF Good, IsTree, Elements, Kinds, place
    <3>2. x = z
      BY <1>2, <1>4, <2>8, GoesApart
    <3>3. QED
      BY <2>5, <3>1, <3>2
  <2>10. QED
    BY <1>6, <2>7, <2>8, <2>9
<1>14. QED
  BY <1>7, <1>8, <1>9, <1>10, <1>13 DEF Carried, e, place

\* Only the copying calls count.
LEMMA CarriedOn ==
  ASSUME NEW t, NEW w, NEW d, NEW ch, NEW from, NEW b, Carried(t, w, d, ch, from, b),
         NEW v, Copies(v) = Copies(w)
  PROVE  Carried(t, v, d, ch, from, b)
BY DEF Carried, Awaited, Stored

\* All is still to copy.
LEMMA CarriedFirst ==
  ASSUME NEW t, NEW w, NEW d, NEW ch, NEW from, NEW b, NEW f, Copies(w) = {f}, f.path = from,
         Aimed(t, Place(t, from), b, f)
  PROVE  Carried(t, w, d, ch, from, b)
BY DEF Carried, Awaited

\* An element of the source is deleted, when all is copied.
LEMMA CarriedDeleted ==
  ASSUME NEW t, Good(t), NEW u, Good(u), Grown(u, t), NEW w, Copies(w) = {}, NEW v, Copies(v) = {},
         NEW from \in IdPaths, Chain(u, from), NEW b, NEW d, NEW ch, Carried(t, w, d, ch, from, b),
         NEW z, IsPrefix(Place(t, from), z), NEW e, DOMAIN e = DOMAIN d \ {z},
         \A y \in DOMAIN e : e[y] = d[y]
  PROVE  Carried(u, v, e, ch, from, b)
<1> DEFINE a == Place(t, from)
<1>1. Place(u, from) = a
  BY PlaceGrown
<1>2. ASSUME NEW p, Lies(u, from, p)
      PROVE  Stored(v, e, ch, a, b, Place(u, p))
  <2>1. p \in IdPaths /\ Chain(u, p) /\ IsPrefix(from, p) /\ u[Target(p)].kind = "file"
    BY <1>2 DEF Lies
  <2>2. Place(u, p) = Place(t, p) /\ Chain(t, p) /\ Target(p) \in DOMAIN u
    BY <2>1, PlaceGrown, ChainTarget
  <2>3. Lies(t, from, p)
    BY <2>1, <2>2 DEF Lies, Grown, Alike
  <2>4. Stored(w, d, ch, a, b, Place(t, p))
    BY <2>3 DEF Carried, Awaited
  <2>5. \A y \in DOMAIN d : Off(a, y) => y \in DOMAIN e /\ e[y] = d[y]
    BY DEF Off
  <2>6. Place(t, p) \in DOMAIN e => Place(t, p) \in DOMAIN d /\ e[Place(t, p)] = d[Place(t, p)]
    OBVIOUS
  <2> DEFINE x == Place(t, p)
  <2> HIDE DEF a, x
  <2>7. Stored(v, e, ch, a, b, x)
    BY <2>4, <2>5, <2>6, StoredKept DEF x
  <2>8. QED
    BY <2>2, <2>7 DEF x
<1>3. QED
  BY <1>1, <1>2 DEF Carried

\* Another program puts something somewhere.
LEMMA CarriedAdded ==
  ASSUME NEW t, NEW w, NEW d, NEW ch, NEW from, NEW b, Carried(t, w, d, ch, from, b),
         NEW z, z \notin DOMAIN d, NEW v
  PROVE  Carried(t, w, Put(d, z, v), ch \cup {<<z, v>>}, from, b)
<1> DEFINE e == Put(d, z, v)
           more == ch \cup {<<z, v>>}
<1>1. DOMAIN e = DOMAIN d \cup {z} /\ e[z] = v /\ \A y \in DOMAIN d : e[y] = d[y]
  BY DEF Put
<1> HIDE DEF e
<1>2. <<z, v>> \in more /\ <<z, v>>[1] = z /\ ch \subseteq more
  OBVIOUS
<1> HIDE DEF more
<1>3. ASSUME NEW a, NEW x, Stored(w, d, ch, a, b, x)
      PROVE  Stored(w, e, more, a, b, x)
  <2>1. CASE x = z
    BY <1>2, <2>1 DEF Stored, Excused
  <2>2. CASE x # z
    BY <1>1, <1>2, <1>3, <2>2 DEF Stored, Excused
  <2>3. QED
    BY <2>1, <2>2
<1>4. QED
  BY <1>3 DEF Carried, e, more

\* Another program removes something.
LEMMA CarriedRemoved ==
  ASSUME NEW t, NEW w, NEW d, NEW ch, NEW from, NEW b, Carried(t, w, d, ch, from, b),
         NEW z, z \in DOMAIN d, NEW e, DOMAIN e = DOMAIN d \ {z}, \A y \in DOMAIN e : e[y] = d[y]
  PROVE  Carried(t, w, e, ch \cup {<<z, d[z]>>}, from, b)
<1> DEFINE more == ch \cup {<<z, d[z]>>}
<1>2. <<z, d[z]>> \in more /\ <<z, d[z]>>[2] = d[z] /\ ch \subseteq more
  OBVIOUS
<1> HIDE DEF more
<1>3. ASSUME NEW a, NEW x, Stored(w, d, ch, a, b, x)
      PROVE  Stored(w, e, more, a, b, x)
  <2>1. CASE x \in DOMAIN e /\ d[x] = d[z]
    BY <1>2, <2>1 DEF Stored, Excused
  <2>2. CASE ~(x \in DOMAIN e /\ d[x] = d[z])
    BY <1>2, <1>3, <2>2 DEF Stored, Excused
  <2>3. QED
    BY <2>1, <2>2
<1>4. QED
  BY <1>3 DEF Carried, more

\* A place outside the source is not in it either on the disk, nor the source in a
\* new element there.
LEMMA FirstOff ==
  ASSUME Good(tree), NEW from \in IdPaths, Chain(tree, from), Resolves(from),
         NEW to \in IdPaths, Chain(tree, to), Resolves(to), ~IsPrefix(from, to),
         NEW n \in Names, \A c \in Range(tree[Target(to)].children) : tree[c].name # n
  PROVE  Off(Place(tree, from), Append(Place(tree, to), n))
<1> DEFINE a == Place(tree, from)
           y == Place(tree, to)
<1>1. a \in Seq(Names) /\ y \in Seq(Names) /\ Len(a) = Len(from) /\ Len(y) = Len(to)
  BY PlaceTyped
<1>2. /\ IsPrefix(a, y) => IsPrefix(from, to)
      /\ IsPrefix(y, a) => IsPrefix(to, from)
  BY NamesResolve
<1>3. \A i \in 1 .. Len(from) : a[i] = tree[from[i]].name
  BY PlaceTyped
<1> HIDE DEF a, y
<1>4. to # from
  BY PrefixOfItself DEF IdPaths
<1>5. ASSUME IsPrefix(Append(y, n), a)
      PROVE  FALSE
  <2>1. IsPrefix(y, a) /\ a[Len(y) + 1] = n
    BY <1>1, <1>5, PrefixAppended
  <2>2. PICK c \in DOMAIN tree \ {Root} :
          c = from[Len(to) + 1] /\ c \in Range(tree[Target(to)].children)
    BY <1>2, <1>4, <2>1, ChainNext
  <2>3. Len(to) + 1 \in 1 .. Len(from)
    BY <1>2, <1>4, <2>1, PrefixNext DEF IdPaths
  <2>4. tree[c].name = n
    BY <1>1, <1>3, <2>1, <2>2, <2>3
  <2>5. QED
    BY <2>2, <2>4
<1>6. ASSUME IsPrefix(a, Append(y, n))
      PROVE  FALSE
  <2>1. IsPrefix(a, y) \/ a = Append(y, n)
    BY <1>1, <1>6, PrefixAppended
  <2>2. a = Append(y, n)
    BY <1>2, <2>1
  <2>3. IsPrefix(Append(y, n), a)
    BY <1>1, <2>2, PrefixOfItself
  <2>4. QED
    BY <1>5, <2>3
<1>7. QED
  BY <1>5, <1>6 DEF Off, a, y

LEMMA FileOff ==
  ASSUME Good(tree), NEW from \in IdPaths, Chain(tree, from), Resolves(from),
         NEW to \in IdPaths, Chain(tree, to), Resolves(to), ~IsPrefix(from, to),
         tree[Target(to)].kind = "file"
  PROVE  Off(Place(tree, from), Place(tree, to))
<1>1. /\ IsPrefix(Place(tree, from), Place(tree, to)) => IsPrefix(from, to)
      /\ IsPrefix(Place(tree, to), Place(tree, from)) => IsPrefix(to, from)
  BY NamesResolve
<1>2. IsPrefix(to, from) => from = to
  BY FileEnds
<1>3. IsPrefix(to, to)
  BY PrefixOfItself DEF IdPaths
<1>4. QED
  BY <1>1, <1>2, <1>3 DEF Off

-----------------------------------------------------------------------------
(* The calls of a move.                                                      *)

LEMMA LastConcat ==
  ASSUME NEW S, NEW s \in Seq(S), NEW t \in Seq(S), t # <<>>
  PROVE  Last(s \o t) = Last(t) /\ s \o t # <<>>
<1>1. /\ Len(s) \in Nat /\ Len(t) \in Nat /\ Len(t) # 0 /\ s \o t \in Seq(S)
      /\ Len(s \o t) = Len(s) + Len(t)
      /\ \A i \in 1 .. Len(s) + Len(t) :
           (s \o t)[i] = IF i <= Len(s) THEN s[i] ELSE t[i - Len(s)]
  BY EmptySeq
<1> DEFINE u == s \o t
<1> HIDE DEF u
<1>2. /\ Len(u) = Len(s) + Len(t) /\ Len(u) \in 1 .. Len(s) + Len(t) /\ ~(Len(u) <= Len(s))
      /\ Len(u) - Len(s) = Len(t)
  BY <1>1 DEF u
<1>3. u[Len(u)] = t[Len(t)]
  BY <1>1, <1>2 DEF u
<1>4. u # <<>>
  BY <1>1, <1>2 DEF u
<1>5. QED
  BY <1>3, <1>4 DEF Last, u

LEMMA LastTail ==
  ASSUME NEW S, NEW w \in Seq(S), w # <<>>
  PROVE  IF Tail(w) = <<>> THEN Last(w) = Head(w) ELSE Last(Tail(w)) = Last(w)
<1>1. /\ Len(w) \in Nat /\ Len(w) >= 1 /\ Tail(w) \in Seq(S) /\ Len(Tail(w)) = Len(w) - 1
      /\ \A i \in 1 .. Len(w) - 1 : Tail(w)[i] = w[i + 1]
      /\ Head(w) = w[1]
  BY EmptySeq
<1>2. CASE Tail(w) = <<>>
  <2>1. Len(Tail(w)) = 0
    BY <1>1, <1>2, EmptySeq
  <2>2. Len(w) = 1
    <3>1. \A n \in Nat : n - 1 = 0 => n = 1
      OBVIOUS
    <3>2. QED
      BY <1>1, <2>1, <3>1
  <2>3. QED
    BY <1>1, <1>2, <2>2 DEF Last
<1>3. CASE Tail(w) # <<>>
  <2>1. Len(Tail(w)) # 0
    BY <1>1, <1>3, EmptySeq
  <2>2. /\ Len(w) - 1 \in 1 .. Len(w) - 1 /\ (Len(w) - 1) + 1 = Len(w)
    BY <1>1, <2>1
  <2>3. Tail(w)[Len(w) - 1] = w[Len(w)]
    BY <1>1, <2>2
  <2>4. QED
    BY <1>1, <1>3, <2>3 DEF Last
<1>4. QED
  BY <1>2, <1>3

\* The deletion stays last.
LEMMA EndingLeft ==
  ASSUME NEW from, NEW w \in Seq(Frames), Ending(w, from)
  PROVE  /\ Head(w).op # "delete" => Tail(w) # <<>>
         /\ Tail(w) # <<>> => Ending(Tail(w), from)
         /\ Tail(w) = <<>> => Head(w).path = from
<1>1. w # <<>> /\ Last(w).op = "delete" /\ Last(w).path = from
  BY DEF Ending
<1>2. Range(w) = Range(Tail(w)) \cup {Head(w)}
  BY <1>1, TailRange
<1>3. IF Tail(w) = <<>> THEN Last(w) = Head(w) ELSE Last(Tail(w)) = Last(w)
  BY <1>1, LastTail
<1>4. CASE Tail(w) = <<>>
  BY <1>1, <1>3, <1>4
<1>5. CASE Tail(w) # <<>>
  BY <1>1, <1>2, <1>3, <1>5 DEF Ending
<1>6. QED
  BY <1>4, <1>5

LEMMA EndingKept ==
  ASSUME NEW from, NEW w \in Seq(Frames), Ending(w, from), Head(w).op # "delete",
         NEW calls \in Seq(Frames),
         \A f \in Range(calls) : f.op \in {"copy", "make"} /\ IsPrefix(from, f.path)
  PROVE  Ending(calls \o Tail(w), from)
<1>1. Tail(w) # <<>> /\ Ending(Tail(w), from)
  BY EndingLeft
<1>2. Tail(w) \in Seq(Frames)
  BY TailRange DEF Ending
<1>3. Last(calls \o Tail(w)) = Last(Tail(w)) /\ calls \o Tail(w) # <<>>
  BY <1>1, <1>2, LastConcat
<1>4. Range(calls \o Tail(w)) = Range(calls) \cup Range(Tail(w))
  BY <1>2, ConcatRange
<1>5. QED
  BY <1>1, <1>3, <1>4 DEF Ending

LEMMA EndingOpened ==
  ASSUME NEW from, NEW w \in Seq(Frames), Ending(w, from), Head(w).op = "delete",
         NEW made \in Seq(Frames),
         \A f \in Range(made) : f.op = "delete" /\ IsPrefix(from, f.path)
  PROVE  Ending(made \o <<DeleteFrame(Head(w).path, TRUE)>> \o Tail(w), from)
<1> DEFINE g == DeleteFrame(Head(w).path, TRUE)
           last == <<g>>
           calls == made \o last
           rest == Tail(w)
<1>1. /\ w # <<>> /\ Head(w) \in Range(w) /\ Head(w) \in Frames
      /\ rest \in Seq(Frames) /\ Range(w) = Range(rest) \cup {Head(w)}
  BY TailRange DEF Ending
<1>2. g \in Frames /\ g.op = "delete" /\ g.path = Head(w).path
  <2>1. Head(w).path \in IdPaths
    BY <1>1 DEF Frames
  <2>2. QED
    BY <2>1 DEF DeleteFrame, Frames
<1> HIDE DEF g
<1>3. last \in Seq(Frames) /\ last # <<>> /\ Range(last) = {g} /\ Last(last) = g
  <2>1. last \in Seq(Frames) /\ Len(last) = 1 /\ last[1] = g /\ DOMAIN last = {1}
    BY <1>2
  <2>2. QED
    BY <2>1 DEF Range, Last
<1> HIDE DEF last
<1>4. /\ calls \in Seq(Frames) /\ calls # <<>> /\ Last(calls) = g
      /\ Range(calls) = Range(made) \cup {g}
  BY <1>3, LastConcat, ConcatRange
<1> HIDE DEF calls, rest
<1>5. \A f \in Range(calls) : f.op = "delete" /\ IsPrefix(from, f.path)
  BY <1>1, <1>2, <1>4 DEF Ending
<1>6. Ending(calls \o rest, from)
  <2>1. CASE rest = <<>>
    <3>1. calls \o rest = calls
      BY <1>4, <2>1, ConcatEmptySeq
    <3>2. Head(w).path = from
      BY <2>1, EndingLeft DEF rest
    <3>3. QED
      BY <1>2, <1>4, <1>5, <3>1, <3>2 DEF Ending
  <2>2. CASE rest # <<>>
    <3>1. Ending(rest, from)
      BY <2>2, EndingLeft DEF rest
    <3>2. Last(calls \o rest) = Last(rest) /\ calls \o rest # <<>>
      BY <1>1, <1>4, <2>2, LastConcat
    <3>3. Range(calls \o rest) = Range(calls) \cup Range(rest)
      BY <1>1, <1>4, ConcatRange
    <3>4. QED
      BY <1>5, <3>1, <3>2, <3>3 DEF Ending
  <2>3. QED
    BY <2>1, <2>2
<1>7. QED
  BY <1>6 DEF calls, last, g, rest

-----------------------------------------------------------------------------
(* The invariant of moves to a place outside their source.                   *)

Moving == request.kind = "move" /\ ~IsPrefix(request.from, request.to)

Starting ==
  /\ work = <<CopyFrame(request.from, request.to), DeleteFrame(request.from, FALSE)>>
  /\ Resolves(request.from) /\ Resolves(request.to)

Underway == \E b \in Seq(Names) : Carried(tree, work, disk, touched, request.from, b)

MoveInv ==
  /\ DiskClosed(disk)
  /\ work = <<>> => request = NoRequest
  /\ ~reused /\ Moving => Ending(work, request.from) /\ (Starting \/ Underway)

LEMMA InitMoveInv == Init => MoveInv
<1> SUFFICES ASSUME Init PROVE MoveInv
  OBVIOUS
<1>1. DiskClosed(disk)
  BY DEF Init, DiskClosed
<1>2. request = NoRequest
  BY DEF Init
<1>3. ~Moving
  BY <1>2 DEF Moving, NoRequest
<1>4. QED
  BY <1>1, <1>2, <1>3 DEF MoveInv

LEMMA OnDiskPlace ==
  ASSUME NEW path
  PROVE  OnDisk(path) = Place(tree, path)
BY DEF OnDisk, Place

\* What is known during a move.
LEMMA MoveFacts ==
  ASSUME IInv, MoveInv, ~reused, Moving
  PROVE  /\ work \in Seq(Frames) /\ work # <<>> /\ Good(tree) /\ Planned(tree, work, request.from)
         /\ \A g \in Range(work) : Fits(tree, g)
         /\ Ending(work, request.from) /\ Top \in Range(work) /\ IsPrefix(request.from, Top.path)
         /\ request.from \in IdPaths /\ request.to \in IdPaths /\ request.from # <<>>
         /\ Chain(tree, request.from) /\ Place(tree, request.from) \in Seq(Names)
<1>1. /\ work \in Seq(Frames) /\ Good(tree) /\ Planned(tree, work, request.from)
      /\ request.from \in IdPaths /\ request.to \in IdPaths
  BY Opened DEF CallsTyped
<1>2. Ending(work, request.from) /\ work # <<>>
  BY DEF MoveInv, Ending
<1>3. \A g \in Range(work) : Fits(tree, g)
  BY <1>1 DEF Planned
<1>4. Top \in Range(work) /\ IsPrefix(request.from, Top.path)
  <2>1. Head(work) \in Range(work)
    BY <1>1, <1>2, TailRange
  <2>2. QED
    BY <1>2, <2>1 DEF Ending, Top
<1>5. Last(work) \in Range(work)
  <2>1. Len(work) \in 1 .. Len(work) /\ DOMAIN work = 1 .. Len(work)
    BY <1>1, <1>2, EmptySeq
  <2>2. QED
    BY <2>1 DEF Last, Range
<1>6. Chain(tree, request.from)
  BY <1>2, <1>3, <1>5 DEF Ending, Fits
<1>7. request.from # <<>>
  BY <1>1, PrefixOfItself DEF Moving, IdPaths
<1>8. QED
  BY <1>1, <1>2, <1>3, <1>4, <1>6, <1>7, PlaceTyped

LEMMA StartFacts ==
  ASSUME IInv, MoveInv, ~reused, Moving, Starting
  PROVE  /\ Top = CopyFrame(request.from, request.to)
         /\ Top.op = "copy" /\ Top.path = request.from /\ Top.to = request.to
         /\ Tail(work) = <<DeleteFrame(request.from, FALSE)>>
         /\ Copies(work) = {Top} /\ Copies(Tail(work)) = {}
         /\ Chain(tree, request.to) /\ Place(tree, request.to) \in Seq(Names)
         /\ Target(request.to) \in DOMAIN tree /\ Target(request.from) \in DOMAIN tree \ {Root}
<1> DEFINE f == CopyFrame(request.from, request.to)
           g == DeleteFrame(request.from, FALSE)
<1>1. f.op = "copy" /\ f.path = request.from /\ f.to = request.to /\ g.op = "delete"
  BY DEF CopyFrame, DeleteFrame
<1>2. work = <<f, g>>
  BY DEF Starting
<1>3. /\ work \in Seq(Frames) /\ work # <<>> /\ Good(tree) /\ Top \in Range(work)
      /\ \A h \in Range(work) : Fits(tree, h)
      /\ request.from \in IdPaths /\ request.to \in IdPaths /\ request.from # <<>>
      /\ Chain(tree, request.from)
  BY MoveFacts
<1> HIDE DEF f, g
<1>4. Top = f /\ Tail(work) = <<g>> /\ DOMAIN work = {1, 2} /\ work[1] = f /\ work[2] = g
  BY <1>2 DEF Top
<1>5. DOMAIN <<g>> = {1} /\ <<g>>[1] = g
  OBVIOUS
<1>6. Copies(work) = {Top} /\ Copies(Tail(work)) = {}
  <2>1. Range(work) = {f, g} /\ Range(<<g>>) = {g}
    BY <1>4, <1>5 DEF Range
  <2>2. QED
    BY <1>1, <1>4, <2>1 DEF Copies
<1>7. Chain(tree, request.to)
  BY <1>1, <1>3, <1>4 DEF Fits
<1>8. QED
  BY <1>1, <1>3, <1>4, <1>6, <1>7, ChainTarget, PlaceTyped DEF f, g

\* A move starts as all that is still to copy.
LEMMA AllToCopy ==
  ASSUME IInv, MoveInv, ~reused, Moving, Starting,
         \/ IsFile(Top.path) /\ IsFile(Top.to)
         \/ IsFolder(Top.path) /\ IsFolder(Top.to) /\ NamesIn(Top.path) \cap NamesIn(Top.to) = {}
  PROVE  Underway
<1> DEFINE from == request.from
           to == request.to
           a == Place(tree, from)
           b == Place(tree, to)
<1>1. /\ Good(tree) /\ from \in IdPaths /\ Chain(tree, from) /\ a \in Seq(Names)
      /\ to \in IdPaths /\ Chain(tree, to) /\ b \in Seq(Names) /\ ~IsPrefix(from, to)
      /\ Resolves(from) /\ Resolves(to)
      /\ Target(from) \in DOMAIN tree /\ Target(to) \in DOMAIN tree
  BY MoveFacts, StartFacts DEF Moving, Starting
<1>2. /\ Top.op = "copy" /\ Top.path = from /\ Top.to = to /\ Copies(work) = {Top}
  BY StartFacts
<1>3. Goes(a, b, a, b)
  BY <1>1, GoesFirst
<1>4. Dest(tree, Top) = b
  BY <1>2 DEF Dest
<1> HIDE DEF from, to, a, b
<1>5. CASE IsFile(Top.path) /\ IsFile(Top.to)
  <2>1. tree[Target(from)].kind = "file" /\ tree[Target(to)].kind = "file"
    BY <1>2, <1>5 DEF IsFile
  <2>2. Off(a, b)
    BY <1>1, <2>1, FileOff DEF a, b
  <2>3. Aimed(tree, a, b, Top)
    BY <1>2, <1>3, <1>4, <2>1, <2>2 DEF Aimed, Clear, a
  <2>4. Carried(tree, work, disk, touched, from, b)
    BY <1>2, <2>3, CarriedFirst DEF a
  <2>5. QED
    BY <1>1, <2>4 DEF Underway, from
<1>6. CASE IsFolder(Top.path) /\ IsFolder(Top.to) /\ NamesIn(Top.path) \cap NamesIn(Top.to) = {}
  <2>1. /\ tree[Target(from)].kind = "folder" /\ tree[Target(to)].kind = "folder"
        /\ NamesIn(from) \cap NamesIn(to) = {}
    BY <1>2, <1>6 DEF IsFolder
  <2>2. ASSUME NEW c \in Range(tree[Target(from)].children)
        PROVE  Off(a, Append(b, tree[c].name))
    <3>1. tree[c].name \in Names
      BY <1>1 DEF Good, Sound
    <3>2. \A e \in Range(tree[Target(to)].children) : tree[e].name # tree[c].name
      BY <2>1 DEF NamesIn, Children
    <3>3. QED
      BY <1>1, <3>1, <3>2, FirstOff DEF a, b
  <2>3. Clear(tree, a, Top)
    BY <1>2, <1>4, <2>1, <2>2 DEF Clear
  <2>4. Aimed(tree, a, b, Top)
    BY <1>2, <1>3, <1>4, <2>1, <2>3 DEF Aimed, a
  <2>5. Carried(tree, work, disk, touched, from, b)
    BY <1>2, <2>4, CarriedFirst DEF a
  <2>6. QED
    BY <1>1, <2>5 DEF Underway, from
<1>7. QED
  BY <1>5, <1>6

\* Nothing is under way after the step.
LEMMA NotMoving ==
  ASSUME DiskClosed(disk'), request' = NoRequest
  PROVE  MoveInv'
<1>1. ~Moving'
  BY DEF Moving, NoRequest
<1>2. QED
  BY <1>1 DEF MoveInv

\* A step of a request.
LEMMA MoveContinued ==
  ASSUME MoveInv, NEW calls, Continue(calls), DiskClosed(disk'),
         ~reused' /\ Moving /\ calls # <<>> =>
           /\ Ending(calls, request.from)
           /\ \E b \in Seq(Names) : Carried(tree', calls, disk', touched, request.from, b)
  PROVE  MoveInv'
<1>1. CASE calls = <<>>
  <2>1. request' = NoRequest
    BY <1>1 DEF Continue
  <2>2. QED
    BY <2>1, NotMoving
<1>2. CASE calls # <<>>
  <2>1. work' = calls /\ request' = request /\ touched' = touched
    BY <1>2 DEF Continue
  <2>2. ASSUME ~reused', Moving'
        PROVE  Ending(work', request'.from) /\ Underway'
    <3>1. Moving
      BY <2>1, <2>2 DEF Moving
    <3>2. QED
      BY <1>2, <2>1, <2>2, <3>1 DEF Underway
  <2>3. QED
    BY <1>2, <2>1, <2>2 DEF MoveInv
<1>3. QED
  BY <1>1, <1>2

\* A request is served at once, or the thread ends.
LEMMA MoveServed ==
  ASSUME MoveInv, Serve, DiskClosed(disk'), UNCHANGED request
  PROVE  MoveInv'
BY NotMoving DEF MoveInv, Serve

LEMMA MoveUnchanged ==
  ASSUME MoveInv, UNCHANGED <<disk, touched, reused, tree, request, work>>
  PROVE  MoveInv'
<1>1. UNCHANGED <<Moving, Starting, Underway>>
  BY DEF Moving, Starting, Underway, Resolves
<1>2. QED
  BY <1>1 DEF MoveInv

LEMMA CreatedClosed ==
  ASSUME DiskClosed(disk), NEW place, NEW kind, CanCreate(place, kind), NEW v
  PROVE  DiskClosed(Put(disk, place, v))
<1>1. /\ Front(place) \in DOMAIN disk /\ disk[Front(place)] = "folder"
      /\ place \in DOMAIN disk => disk[place] # "folder"
  BY DEF CanCreate, IsDir
<1>2. QED
  BY <1>1, PutClosed

LEMMA RequestsMove ==
  ASSUME IInv, MoveInv, Requests
  PROVE  MoveInv'
<1>0. DiskClosed(disk)
  BY DEF MoveInv
<1>1. ASSUME NEW path \in Existing, NEW name \in Names, NEW kind \in Kinds,
             Create(path, name, kind) \/ CreateInFile(path, name, kind)
      PROVE  MoveInv'
  <2>1. DiskClosed(disk') /\ Serve /\ UNCHANGED request
    BY <1>0, <1>1, CreatedClosed DEF Create, CreateInFile, Created
  <2>2. QED
    BY <2>1, MoveServed
<1>2. ASSUME NEW path \in Existing, ListFile(path)
      PROVE  MoveInv'
  BY <1>0, <1>2, MoveServed DEF ListFile
<1>3. ASSUME NEW path \in Existing, NEW data \in Data, Write(path, data)
      PROVE  MoveInv'
  <2>1. DiskClosed(disk') /\ Serve /\ UNCHANGED request
    BY <1>0, <1>3, CreatedClosed DEF Write
  <2>2. QED
    BY <2>1, MoveServed
<1>4. CASE CreateFails \/ LeaveDevice
  BY <1>0, <1>4, MoveServed DEF CreateFails, LeaveDevice
<1>5. ASSUME NEW kind, NEW from, NEW to, NEW calls, calls # <<>>, Start(kind, from, to, calls),
             kind # "move"
      PROVE  MoveInv'
  <2>1. work' # <<>> /\ request'.kind # "move" /\ disk' = disk
    BY <1>5 DEF Start
  <2>2. QED
    BY <1>0, <2>1 DEF MoveInv, Moving
<1>6. ASSUME NEW path \in Existing, NEW to \in Existing, NEW recursive \in BOOLEAN,
             List(path) \/ Delete(path, recursive) \/ Copy(path, to)
      PROVE  MoveInv'
  <2>1. \A f : <<f>> # <<>>
    OBVIOUS
  <2>2. QED
    BY <1>5, <1>6, <2>1 DEF List, Delete, Copy
<1>7. ASSUME NEW path \in Existing, NEW to \in Existing, Move(path, to)
      PROVE  MoveInv'
  <2> DEFINE f == CopyFrame(path, to)
             g == DeleteFrame(path, FALSE)
  <2>1. /\ f.op = "copy" /\ f.path = path /\ g.op = "delete" /\ g.path = path
    BY DEF CopyFrame, DeleteFrame
  <2>2. /\ work' = <<f, g>> /\ request' = [kind |-> "move", from |-> path, to |-> to]
        /\ disk' = disk /\ tree' = tree /\ ~reused
    BY <1>7 DEF Move, Start, Serve
  <2>3. request'.from = path /\ request'.to = to
    BY <2>2
  <2>4. Starting'
    <3>1. Resolves(path) /\ Resolves(to)
      BY DEF Existing
    <3>2. Resolves(path)' /\ Resolves(to)'
      BY <2>2, <3>1 DEF Resolves
    <3>3. QED
      BY <2>2, <2>3, <3>2 DEF Starting, Resolves
  <2>5. path \in IdPaths
    BY <2>2, Resolved
  <2> HIDE DEF f, g
  <2>6. Ending(work', path)
    <3>1. /\ DOMAIN <<f, g>> = {1, 2} /\ <<f, g>>[1] = f /\ <<f, g>>[2] = g /\ Len(<<f, g>>) = 2
          /\ <<f, g>> # <<>>
      OBVIOUS
    <3>2. Range(<<f, g>>) = {f, g} /\ Last(<<f, g>>) = g
      BY <3>1 DEF Range, Last
    <3>3. IsPrefix(path, path)
      BY <2>5, PrefixOfItself DEF IdPaths
    <3>4. QED
      BY <2>1, <2>2, <3>1, <3>2, <3>3 DEF Ending
  <2>7. work' # <<>>
    BY <2>2
  <2>8. QED
    BY <1>0, <2>2, <2>3, <2>4, <2>6, <2>7 DEF MoveInv
<1>8. QED
  BY <1>1, <1>2, <1>3, <1>4, <1>6, <1>7 DEF Requests

\* A call of a move that is not the first.
LEMMA CallUnderway ==
  ASSUME IInv, MoveInv, ~reused, Moving, Top.op # "copy"
  PROVE  Underway
<1>1. ~Starting
  BY StartFacts
<1>2. QED
  BY <1>1 DEF MoveInv

\* Contents are copied from the source to a place outside it.
LEMMA ContentsWritten ==
  ASSUME IInv, MoveInv, Moving, CopyContents
  PROVE  /\ Underway
         /\ \A b \in Seq(Names) : Carried(tree, work, disk, touched, request.from, b) =>
              /\ Off(Place(tree, request.from), Place(tree, Top.to))
              /\ disk' = Put(disk, Place(tree, Top.to), disk[Place(tree, Top.path)])
<1>1. ~reused /\ Top.op = "copy" /\ Head(work).op = "copy" /\ IsFile(Top.path) /\ IsFile(Top.to)
  BY DEF CopyContents, Step, Top
<1>2. Underway
  <2>1. CASE Starting
    BY <1>1, <2>1, AllToCopy
  <2>2. CASE ~Starting
    BY <1>1, <2>2 DEF MoveInv
  <2>3. QED
    BY <2>1, <2>2
<1>3. ASSUME NEW b \in Seq(Names), Carried(tree, work, disk, touched, request.from, b)
      PROVE  /\ Off(Place(tree, request.from), Place(tree, Top.to))
             /\ disk' = Put(disk, Place(tree, Top.to), disk[Place(tree, Top.path)])
  <2>1. /\ work \in Seq(Frames) /\ work # <<>> /\ Good(tree)
        /\ Place(tree, request.from) \in Seq(Names)
    BY <1>1, MoveFacts
  <2>2. Top \in Copies(work)
    BY <1>1, <2>1, CopiesLeft DEF Top
  <2>3. Aimed(tree, Place(tree, request.from), b, Top)
    BY <1>3, <2>2 DEF Carried
  <2>4. /\ Goes(Place(tree, request.from), b, Place(tree, Top.path), Place(tree, Top.to))
        /\ Off(Place(tree, request.from), Place(tree, Top.to))
    BY <1>1, <2>3 DEF Aimed, Clear, Dest, IsFile
  <2>5. IsPrefix(Place(tree, request.from), Place(tree, Top.path))
    BY <2>1, <2>4, GoesTyped
  <2>6. Place(tree, Top.path) # Place(tree, Top.to)
    BY <2>4, <2>5 DEF Off
  <2>7. disk' = Copied(Place(tree, Top.path), Place(tree, Top.to))
    BY OnDiskPlace DEF CopyContents
  <2>8. QED
    BY <2>4, <2>6, <2>7 DEF Copied
<1>4. QED
  BY <1>2, <1>3

LEMMA CopyContentsMove ==
  ASSUME IInv, MoveInv, CopyContents
  PROVE  MoveInv'
<1>1. /\ ~reused /\ Top.op = "copy" /\ Head(work).op = "copy" /\ Continue(Tail(work))
      /\ UNCHANGED <<reused, tree>> /\ Place(tree, Top.path) \in DOMAIN disk
      /\ tree[Target(Top.path)].kind = "file"
  BY OnDiskPlace DEF CopyContents, Step, Top, IsFile
<1>2. DiskClosed(disk')
  <2>1. CanCreate(OnDisk(Top.to), "file") /\ disk' = Copied(OnDisk(Top.path), OnDisk(Top.to))
    BY DEF CopyContents
  <2>2. DiskClosed(disk)
    BY DEF MoveInv
  <2>3. QED
    BY <2>1, <2>2, CreatedClosed DEF Copied
<1>3. ASSUME Moving
      PROVE  /\ Ending(Tail(work), request.from)
             /\ \E b \in Seq(Names) : Carried(tree', Tail(work), disk', touched, request.from, b)
  <2>1. /\ work \in Seq(Frames) /\ work # <<>> /\ Good(tree) /\ \A g \in Range(work) : Fits(tree, g)
        /\ request.from \in IdPaths /\ Chain(tree, request.from) /\ Ending(work, request.from)
    BY <1>1, <1>3, MoveFacts
  <2>2. Ending(Tail(work), request.from)
    BY <1>1, <2>1, EndingLeft
  <2>3. PICK b \in Seq(Names) : Carried(tree, work, disk, touched, request.from, b)
    BY <1>3, ContentsWritten DEF Underway
  <2>4. disk' = Put(disk, Place(tree, Head(work).to), disk[Place(tree, Head(work).path)])
    BY <1>3, <2>3, ContentsWritten DEF Top
  <2>5. Carried(tree, Tail(work), disk', touched, request.from, b)
    BY <1>1, <2>1, <2>3, <2>4, CarriedCopied DEF Top
  <2>6. QED
    BY <1>1, <2>2, <2>5
<1>4. QED
  BY <1>1, <1>2, <1>3, MoveContinued

LEMMA DiscoverMove ==
  ASSUME IInv, MoveInv, Discover
  PROVE  MoveInv'
<1>1. ~reused /\ Top.op = "list" /\ work # <<>> /\ disk' = disk
  BY DEF Discover, Step, Top
<1>2. ~Moving
  <2> SUFFICES ASSUME Moving PROVE FALSE
    OBVIOUS
  <2>1. Ending(work, request.from) /\ Top \in Range(work)
    BY <1>1, MoveFacts
  <2>2. QED
    BY <1>1, <2>1 DEF Ending
<1>3. \E calls : Continue(calls)
  BY DEF Discover
<1>4. DiskClosed(disk')
  BY <1>1 DEF MoveInv
<1>5. QED
  BY <1>2, <1>3, <1>4, MoveContinued

LEMMA CopyFileMove ==
  ASSUME IInv, MoveInv, CopyFile
  PROVE  MoveInv'
<1> DEFINE f == MakeFrame(Top.path, Top.to)
           single == <<f>>
           calls == single \o Tail(work)
<1>1. /\ ~reused /\ Top.op = "copy" /\ Head(work).op = "copy" /\ Continue(calls)
      /\ UNCHANGED <<disk, reused, tree>> /\ IsFile(Top.path) /\ IsFolder(Top.to)
      /\ tree[Target(Top.path)].name \notin NamesIn(Top.to)
  BY DEF CopyFile, Step, Top
<1>2. DiskClosed(disk')
  BY <1>1 DEF MoveInv
<1>3. f.op = "make" /\ f.path = Top.path /\ f.to = Top.to
  BY DEF MakeFrame
<1>4. ASSUME Moving
      PROVE  /\ Ending(calls, request.from)
             /\ \E b \in Seq(Names) : Carried(tree', calls, disk', touched, request.from, b)
  <2>1. /\ work \in Seq(Frames) /\ work # <<>> /\ Good(tree) /\ \A g \in Range(work) : Fits(tree, g)
        /\ request.from \in IdPaths /\ Chain(tree, request.from) /\ Ending(work, request.from)
        /\ Top \in Range(work) /\ IsPrefix(request.from, Top.path)
    BY <1>1, <1>4, MoveFacts
  <2>2. single \in Seq(Frames) /\ Range(single) = {f}
    <3>1. f \in Frames
      <4>1. Top.path \in IdPaths /\ Top.to \in IdPaths
        BY <1>1, <2>1, TailRange DEF Frames, Top
      <4>2. QED
        BY <4>1 DEF MakeFrame, Frames
    <3> HIDE DEF f
    <3>2. single \in Seq(Frames) /\ DOMAIN single = {1} /\ single[1] = f
      BY <3>1
    <3>3. QED
      BY <3>2 DEF Range
  <2> HIDE DEF f, single
  <2>3. Ending(calls, request.from)
    BY <1>1, <1>3, <2>1, <2>2, EndingKept
  <2>4. ~Underway
    <3> SUFFICES ASSUME NEW b \in Seq(Names), Carried(tree, work, disk, touched, request.from, b)
                 PROVE  FALSE
      BY DEF Underway
    <3>1. Top \in Copies(work)
      BY <1>1, <2>1, CopiesLeft DEF Top
    <3>2. tree[Target(Top.path)].kind = tree[Target(Top.to)].kind
      BY <1>1, <3>1 DEF Carried, Aimed
    <3>3. QED
      BY <1>1, <3>2 DEF IsFile, IsFolder
  <2>5. Starting
    BY <1>1, <1>4, <2>4 DEF MoveInv
  <2>6. /\ Top.path = request.from /\ Top.to = request.to /\ Copies(Tail(work)) = {}
        /\ Chain(tree, request.to) /\ Place(tree, request.to) \in Seq(Names)
        /\ Target(request.from) \in DOMAIN tree \ {Root} /\ request.to \in IdPaths
    BY <1>1, <1>4, <2>5, StartFacts, MoveFacts
  <2> DEFINE a == Place(tree, request.from)
             n == tree[Target(request.from)].name
             b == Append(Place(tree, request.to), n)
  <2>7. n \in Names /\ a \in Seq(Names)
    BY <2>1, <2>6, PlaceTyped DEF Good
  <2>8. Off(a, b)
    <3>1. \A c \in Range(tree[Target(request.to)].children) : tree[c].name # n
      BY <1>1, <2>6 DEF NamesIn, Children
    <3>2. Resolves(request.from) /\ Resolves(request.to) /\ ~IsPrefix(request.from, request.to)
      BY <1>4, <2>5 DEF Starting, Moving
    <3>3. QED
      BY <2>1, <2>6, <2>7, <3>1, <3>2, FirstOff
  <2>9. Dest(tree, f) = b
    BY <1>3, <2>6 DEF Dest
  <2>10. b \in Seq(Names)
    BY <2>6, <2>7
  <2> HIDE DEF a, b, n
  <2>11. Goes(a, b, a, b)
    BY <2>7, <2>10, GoesFirst
  <2>12. Aimed(tree, a, b, f)
    BY <1>3, <2>6, <2>8, <2>9, <2>11 DEF Aimed, Clear, a
  <2>13. Copies(calls) = {f}
    <3>1. Range(calls) = Range(single) \cup Range(Tail(work))
      <4>1. Tail(work) \in Seq(Frames)
        BY <2>1, TailRange
      <4>2. QED
        BY <2>2, <4>1, ConcatRange
    <3>2. QED
      BY <1>3, <2>2, <2>6, <3>1 DEF Copies
  <2>14. Carried(tree, calls, disk, touched, request.from, b)
    BY <1>3, <2>6, <2>12, <2>13, CarriedFirst DEF a
  <2>15. QED
    BY <1>1, <2>3, <2>10, <2>14
<1> HIDE DEF calls
<1>5. QED
  BY <1>1, <1>2, <1>4, MoveContinued

LEMMA CopyFolderMove ==
  ASSUME IInv, MoveInv, CopyFolder
  PROVE  MoveInv'
<1> DEFINE path == Top.path
           to == Top.to
           children == Children(path)
           made == [i \in DOMAIN children |-> MakeFrame(Append(path, children[i]), to)]
           calls == made \o Tail(work)
<1>1. /\ ~reused /\ Top.op = "copy" /\ Head(work).op = "copy" /\ Continue(calls)
      /\ UNCHANGED <<disk, reused, tree>> /\ IsFolder(path) /\ IsFolder(to)
      /\ NamesIn(path) \cap NamesIn(to) = {}
  BY DEF CopyFolder, Step, Top
<1>2. DiskClosed(disk')
  BY <1>1 DEF MoveInv
<1>3. ASSUME Moving
      PROVE  /\ Ending(calls, request.from)
             /\ \E b \in Seq(Names) : Carried(tree', calls, disk', touched, request.from, b)
  <2>1. /\ work \in Seq(Frames) /\ work # <<>> /\ Good(tree) /\ \A g \in Range(work) : Fits(tree, g)
        /\ request.from \in IdPaths /\ Chain(tree, request.from) /\ Ending(work, request.from)
        /\ Top \in Range(work) /\ IsPrefix(request.from, path) /\ Tail(work) \in Seq(Frames)
    BY <1>1, <1>3, MoveFacts, TailRange
  <2>2. path \in IdPaths /\ to \in IdPaths /\ Chain(tree, path) /\ Target(path) \in DOMAIN tree
    <3>1. Top \in Frames
      BY <2>1, TailRange DEF Top
    <3>2. path \in IdPaths /\ to \in IdPaths /\ Chain(tree, path)
      BY <1>1, <2>1, <3>1 DEF Frames, Fits
    <3>3. QED
      BY <2>1, <3>2, ChainTarget
  <2>3. children \in Seq(Nat) /\ DOMAIN children = 1 .. Len(children) /\ Len(children) \in Nat
    BY <2>1, <2>2 DEF Children, Good, IsTree, Elements, IdPaths
  <2>4. children = tree[Target(path)].children /\ tree[Target(path)].kind = "folder"
    BY <1>1 DEF Children, IsFolder
  <2> HIDE DEF path, to, children
  <2>5. ASSUME NEW i \in DOMAIN children
        PROVE  /\ made[i] = MakeFrame(Append(path, children[i]), to)
               /\ made[i] \in Frames /\ made[i].op = "make" /\ IsPrefix(request.from, made[i].path)
    <3>1. children[i] \in Nat
      BY <2>3, <2>5
    <3>2. Append(path, children[i]) \in IdPaths /\ IsPrefix(request.from, Append(path, children[i]))
      BY <2>1, <2>2, <3>1, AppendedPath, PrefixAppended DEF IdPaths
    <3> DEFINE f == MakeFrame(Append(path, children[i]), to)
    <3>3. f \in Frames /\ f.op = "make" /\ f.path = Append(path, children[i])
      BY <2>2, <3>2 DEF MakeFrame, Frames
    <3>4. made[i] = f
      BY <2>5
    <3> HIDE DEF f, made
    <3>5. QED
      BY <3>2, <3>3, <3>4 DEF f
  <2>6. DOMAIN made = 1 .. Len(children) /\ DOMAIN made = DOMAIN children
    BY <2>3
  <2>7. made \in Seq(Frames)
    <3>1. made \in [1 .. Len(children) -> Frames]
      BY <2>3, <2>5, <2>6
    <3> HIDE DEF made
    <3>2. QED
      BY <2>3, <3>1
  <2> HIDE DEF made
  <2>8. \A f \in Range(made) : f.op \in {"copy", "make"} /\ IsPrefix(request.from, f.path)
    BY <2>5, <2>6 DEF Range
  <2>9. Ending(calls, request.from)
    BY <1>1, <2>1, <2>7, <2>8, EndingKept
  <2>10. Underway
    <3>1. CASE Starting
      BY <1>1, <1>3, <3>1, AllToCopy DEF path, to
    <3>2. CASE ~Starting
      BY <1>1, <1>3, <3>2 DEF MoveInv
    <3>3. QED
      BY <3>1, <3>2
  <2>11. PICK b \in Seq(Names) : Carried(tree, work, disk, touched, request.from, b)
    BY <2>10 DEF Underway
  <2>12. Range(calls) = Range(made) \cup Range(Tail(work))
    BY <2>1, <2>7, ConcatRange
  <2>13. /\ \A c \in Range(children) : MakeFrame(Append(path, c), to) \in Range(made)
         /\ \A g \in Range(made) :
              \E c \in Range(children) : g = MakeFrame(Append(path, c), to)
    BY <2>5, <2>6 DEF Range
  <2> HIDE DEF calls
  <2>14. Carried(tree, calls, disk, touched, request.from, b)
    <3> DEFINE kids == tree[Target(Head(work).path)].children
    <3>1. kids = children /\ Head(work).path = path /\ Head(work).to = to
      BY <2>4 DEF path, to, Top
    <3>2. tree[Target(Head(work).path)].kind = "folder"
      BY <2>4, <3>1
    <3> HIDE DEF kids
    <3>3. \A g \in Range(Tail(work)) : g \in Range(calls)
      BY <2>12
    <3>4. \A c \in Range(kids) :
            MakeFrame(Append(Head(work).path, c), Head(work).to) \in Range(calls)
      BY <2>12, <2>13, <3>1
    <3>5. \A g \in Range(calls) :
            \/ g \in Range(Tail(work))
            \/ \E c \in Range(kids) : g = MakeFrame(Append(Head(work).path, c), Head(work).to)
      BY <2>12, <2>13, <3>1
    <3>6. QED
      BY <1>1, <2>1, <2>11, <3>2, <3>3, <3>4, <3>5, CarriedListed DEF kids
  <2>15. QED
    BY <1>1, <2>9, <2>14
<1> HIDE DEF calls
<1>4. QED
  BY <1>1, <1>2, <1>3, MoveContinued

\* A call makes an element at a place outside the source.
LEMMA PlaceMade ==
  ASSUME IInv, MoveInv, Moving, Make
  PROVE  /\ Underway
         /\ \A b \in Seq(Names) : Carried(tree, work, disk, touched, request.from, b) =>
              Off(Place(tree, request.from),
                  Append(Place(tree, Top.to), tree[Target(Top.path)].name))
<1>1. ~reused /\ Top.op = "make" /\ Head(work).op = "make"
  BY DEF Make, Step, Top
<1>2. Underway
  BY <1>1, CallUnderway
<1>3. ASSUME NEW b \in Seq(Names), Carried(tree, work, disk, touched, request.from, b)
      PROVE  Off(Place(tree, request.from),
                 Append(Place(tree, Top.to), tree[Target(Top.path)].name))
  <2>1. work \in Seq(Frames) /\ work # <<>>
    BY <1>1, MoveFacts
  <2>2. Top \in Copies(work)
    BY <1>1, <2>1, CopiesLeft DEF Top
  <2>3. Clear(tree, Place(tree, request.from), Top)
    BY <1>3, <2>2 DEF Carried, Aimed
  <2>4. QED
    BY <1>1, <2>3 DEF Clear, Dest
<1>4. QED
  BY <1>2, <1>3

LEMMA MakeMove ==
  ASSUME IInv, MoveInv, Make
  PROVE  MoveInv'
<1> DEFINE path == Top.path
           to == Top.to
           source == tree[Target(path)]
           place == Append(OnDisk(to), source.name)
           f == CopyFrame(path, Append(to, counter))
           single == <<f>>
           calls == single \o Tail(work)
           v == IF source.kind = "file" THEN "empty" ELSE "folder"
           e == Element(source.name, source.kind, Target(to))
<1>1. /\ ~reused /\ Top.op = "make" /\ Head(work).op = "make" /\ Continue(calls)
      /\ CanCreate(place, source.kind) /\ disk' = Put(disk, place, v)
      /\ AddElement(to, source.name, source.kind)
  BY DEF Make, Step, Top, Created
<1>2. DiskClosed(disk')
  <2>1. DiskClosed(disk) /\ CanCreate(place, source.kind) /\ disk' = Put(disk, place, v)
    BY <1>1 DEF MoveInv
  <2> HIDE DEF place, source, v
  <2>2. QED
    BY <2>1, CreatedClosed
<1>3. ASSUME Moving, ~reused'
      PROVE  /\ Ending(calls, request.from)
             /\ \E b \in Seq(Names) : Carried(tree', calls, disk', touched, request.from, b)
  <2>1. /\ work \in Seq(Frames) /\ work # <<>> /\ Good(tree) /\ \A g \in Range(work) : Fits(tree, g)
        /\ request.from \in IdPaths /\ Chain(tree, request.from) /\ Ending(work, request.from)
        /\ Top \in Range(work) /\ IsPrefix(request.from, path) /\ Tail(work) \in Seq(Frames)
    BY <1>1, <1>3, MoveFacts, TailRange
  <2>2. /\ path \in IdPaths /\ to \in IdPaths /\ Chain(tree, path) /\ Target(path) \in DOMAIN tree
        /\ IsFolderIn(tree, Target(to)) /\ Target(path) # Root /\ Top \in Frames
    <3>1. Top \in Frames
      BY <2>1, TailRange DEF Top
    <3>2. /\ path \in IdPaths /\ to \in IdPaths /\ Chain(tree, path)
          /\ IsFolderIn(tree, Target(to)) /\ Target(path) # Root
      BY <1>1, <2>1, <3>1 DEF Frames, Fits
    <3>3. QED
      BY <2>1, <3>1, <3>2, ChainTarget
  <2>3. counter \in Nat /\ counter \notin DOMAIN tree
    <3>1. counter \in Nat
      BY <1>1, Opened DEF TreesTyped
    <3>2. counter \notin DOMAIN tree
      BY <1>1, <1>3 DEF AddElement
    <3>3. QED
      BY <3>1, <3>2
  <2>4. tree' = Inserted(tree, Target(to), counter, e)
    BY <1>1 DEF AddElement
  <2>5. /\ IsNewUnder(e, Target(to)) /\ e.children = <<>> /\ e.parent = Target(to)
        /\ e.kind = source.kind /\ e.name = source.name
    <3>1. source.name \in Names /\ source.kind \in Kinds
      BY <2>1, <2>2 DEF Good, IsTree, Elements
    <3>2. Target(to) \in Nat
      BY <2>1, <2>2 DEF IsFolderIn, Good, IsTree
    <3> HIDE DEF source, to
    <3>3. QED
      BY <3>1, <3>2 DEF IsNewUnder, Element, Elements, IdPaths
  <2> HIDE DEF e
  <2> DEFINE u == Inserted(tree, Target(to), counter, e)
             dest == Target(to)
  <2>6. /\ Good(u) /\ Grown(tree, u) /\ IsGrownBy(tree, u, counter, e)
    <3> HIDE DEF to, u
    <3>1. QED
      BY <2>1, <2>2, <2>3, <2>5, InsertedGood DEF u
  <2>7. \A x \in DOMAIN tree : x # dest => u[x].children = tree[x].children
    <3>1. dest \in DOMAIN tree
      BY <2>2 DEF IsFolderIn
    <3> HIDE DEF to, dest
    <3>2. Target(to) = dest
      BY DEF dest
    <3>3. QED
      BY <2>3, <3>1, <3>2 DEF Inserted, Put
  <2>8. DOMAIN u = DOMAIN tree \cup {counter} /\ u[counter] = e
    BY <2>6 DEF IsGrownBy
  <2> HIDE DEF u
  <2>9. single \in Seq(Frames) /\ Range(single) = {f} /\ f.op = "copy" /\ f.path = path
    <3>1. f \in Frames /\ f.op = "copy" /\ f.path = path
      <4>1. Append(to, counter) \in IdPaths
        BY <2>2, <2>3, AppendedPath
      <4> HIDE DEF to, path
      <4>2. QED
        BY <2>2, <4>1 DEF CopyFrame, Frames
    <3> HIDE DEF f
    <3>2. single \in Seq(Frames) /\ DOMAIN single = {1} /\ single[1] = f
      BY <3>1
    <3>3. QED
      BY <3>1, <3>2 DEF Range
  <2> HIDE DEF single
  <2>10. Ending(calls, request.from)
    <3>1. \A g \in Range(single) : g.op \in {"copy", "make"} /\ IsPrefix(request.from, g.path)
      BY <2>1, <2>9
    <3>2. QED
      BY <1>1, <2>1, <2>9, <3>1, EndingKept
  <2>11. PICK b \in Seq(Names) : Carried(tree, work, disk, touched, request.from, b)
    <3>1. Underway
      BY <1>3, PlaceMade
    <3>2. QED
      BY <3>1 DEF Underway
  <2>12. calls \in Seq(Frames) /\ Range(calls) = Range(Tail(work)) \cup {f}
    <3>1. Range(calls) = Range(single) \cup Range(Tail(work)) /\ calls \in Seq(Frames)
      BY <2>1, <2>9, ConcatRange
    <3>2. QED
      BY <2>9, <3>1
  <2> HIDE DEF calls
  <2>13. Carried(u, calls, Put(disk, place, v), touched, request.from, b)
    <3>1. /\ Head(work).path = path /\ Head(work).to = to
          /\ tree[Target(Head(work).path)] = source
      BY DEF Top
    <3>2. place = MadeAt(tree, work) /\ f = CopyOf(work, counter)
      BY <3>1, OnDiskPlace DEF MadeAt, CopyOf
    <3>3. tree[Target(Head(work).path)].kind = "folder" => MadeAt(tree, work) \notin DOMAIN disk
      BY <1>1, <3>1, <3>2 DEF CanCreate
    <3>4. /\ u[counter].children = <<>> /\ u[counter].parent = Target(Head(work).to)
          /\ u[counter].kind = tree[Target(Head(work).path)].kind
          /\ u[counter].name = tree[Target(Head(work).path)].name
      BY <2>5, <2>8, <3>1
    <3>5. \A x \in DOMAIN tree : x # Target(Head(work).to) => u[x].children = tree[x].children
      BY <2>7, <3>1
    <3> HIDE DEF v, place, f, path, to, source, dest
    <3>6. Made(tree, work, u, counter)
      BY <2>3, <2>8, <3>4, <3>5 DEF Made
    <3>7. Head(work).op = "make" /\ \A g \in Range(work) : IsPrefix(request.from, g.path)
      BY <1>1, <2>1 DEF Ending
    <3>8. Range(calls) = Range(Tail(work)) \cup {CopyOf(work, counter)} /\ calls \in Seq(Frames)
      BY <2>12, <3>2
    <3>9. Carried(u, calls, Put(disk, MadeAt(tree, work), v), touched, request.from, b)
      BY <2>1, <2>3, <2>6, <2>11, <3>3, <3>6, <3>7, <3>8, CarriedMade
    <3>10. QED
      BY <3>2, <3>9
  <2>14. tree' = u
    BY <2>4 DEF u
  <2>15. QED
    BY <1>1, <2>10, <2>13, <2>14
<1> HIDE DEF calls
<1>4. QED
  BY <1>1, <1>2, <1>3, MoveContinued

\* During the deletion nothing is left to copy.
LEMMA DeletionUnderway ==
  ASSUME IInv, MoveInv, ~reused, Moving, Top.op = "delete"
  PROVE  Underway /\ Copies(work) = {} /\ Copies(Tail(work)) = {}
<1>1. Underway
  BY CallUnderway
<1>2. /\ work \in Seq(Frames) /\ work # <<>> /\ Good(tree) /\ Planned(tree, work, request.from)
  BY MoveFacts
<1>3. Deleting(tree, work, request.from)
  BY <1>2, DeletingBegins DEF Top
<1>4. Copies(work) = {}
  BY <1>3 DEF Deleting, Copies
<1>5. Copies(Tail(work)) \subseteq Copies(work)
  BY <1>2, CopiesLeft
<1>6. QED
  BY <1>1, <1>4, <1>5

LEMMA OpenFolderMove ==
  ASSUME IInv, MoveInv, OpenFolder
  PROVE  MoveInv'
<1> DEFINE path == Top.path
           children == Children(path)
           made == [i \in DOMAIN children |-> DeleteFrame(Append(path, children[i]), FALSE)]
           calls == made \o <<DeleteFrame(path, TRUE)>> \o Tail(work)
<1>1. /\ ~reused /\ Top.op = "delete" /\ Head(work).op = "delete" /\ Continue(calls)
      /\ UNCHANGED <<disk, reused, tree>>
  BY DEF OpenFolder, Step, Top
<1>2. DiskClosed(disk')
  BY <1>1 DEF MoveInv
<1>3. ASSUME Moving
      PROVE  /\ Ending(calls, request.from)
             /\ \E b \in Seq(Names) : Carried(tree', calls, disk', touched, request.from, b)
  <2>1. /\ work \in Seq(Frames) /\ work # <<>> /\ Good(tree) /\ \A g \in Range(work) : Fits(tree, g)
        /\ request.from \in IdPaths /\ Ending(work, request.from)
        /\ Top \in Range(work) /\ IsPrefix(request.from, path) /\ Tail(work) \in Seq(Frames)
    BY <1>1, <1>3, MoveFacts, TailRange
  <2>2. path \in IdPaths /\ Target(path) \in DOMAIN tree
    <3>1. Top \in Frames
      BY <2>1, TailRange DEF Top
    <3>2. path \in IdPaths /\ Chain(tree, path)
      BY <2>1, <3>1 DEF Frames, Fits
    <3>3. QED
      BY <2>1, <3>2, ChainTarget
  <2>3. children \in Seq(Nat) /\ DOMAIN children = 1 .. Len(children) /\ Len(children) \in Nat
    BY <2>1, <2>2 DEF Children, Good, IsTree, Elements, IdPaths
  <2>4. path = Head(work).path
    BY DEF Top
  <2> HIDE DEF path, children
  <2>5. ASSUME NEW i \in DOMAIN children
        PROVE  made[i] \in Frames /\ made[i].op = "delete" /\ IsPrefix(request.from, made[i].path)
    <3>1. children[i] \in Nat
      BY <2>3, <2>5
    <3>2. Append(path, children[i]) \in IdPaths /\ IsPrefix(request.from, Append(path, children[i]))
      BY <2>1, <2>2, <3>1, AppendedPath, PrefixAppended DEF IdPaths
    <3> DEFINE f == DeleteFrame(Append(path, children[i]), FALSE)
    <3>3. f \in Frames /\ f.op = "delete" /\ f.path = Append(path, children[i])
      BY <3>2 DEF DeleteFrame, Frames
    <3>4. made[i] = f
      BY <2>5
    <3> HIDE DEF f, made
    <3>5. QED
      BY <3>2, <3>3, <3>4
  <2>6. DOMAIN made = 1 .. Len(children) /\ DOMAIN made = DOMAIN children
    BY <2>3
  <2>7. made \in Seq(Frames)
    <3>1. made \in [1 .. Len(children) -> Frames]
      BY <2>3, <2>5, <2>6
    <3> HIDE DEF made
    <3>2. QED
      BY <2>3, <3>1
  <2> HIDE DEF made
  <2>8. \A f \in Range(made) : f.op = "delete" /\ IsPrefix(request.from, f.path)
    BY <2>5, <2>6 DEF Range
  <2>9. Ending(calls, request.from)
    BY <1>1, <2>1, <2>4, <2>7, <2>8, EndingOpened
  <2>10. Copies(calls) = Copies(work)
    <3> DEFINE g == DeleteFrame(path, TRUE)
               last == <<g>>
    <3>1. g \in Frames /\ g.op = "delete"
      BY <2>2 DEF DeleteFrame, Frames
    <3> HIDE DEF g
    <3>2. last \in Seq(Frames) /\ DOMAIN last = {1} /\ last[1] = g
      BY <3>1
    <3> HIDE DEF last
    <3>3. Range(last) = {g}
      BY <3>2 DEF Range
    <3>4. made \o last \in Seq(Frames) /\ Range(made \o last) = Range(made) \cup {g}
      BY <2>7, <3>2, <3>3, ConcatRange
    <3> DEFINE first == made \o last
               rest == Tail(work)
    <3> HIDE DEF first, rest
    <3>5. Range(first \o rest) = Range(first) \cup Range(rest)
      BY <2>1, <3>4, ConcatRange DEF first, rest
    <3>6. Copies(work) = {} /\ Copies(Tail(work)) = {}
      BY <1>1, <1>3, DeletionUnderway
    <3>7. Range(calls) = Range(made) \cup {g} \cup Range(Tail(work))
      BY <3>4, <3>5 DEF first, last, g, rest
    <3>8. QED
      BY <2>8, <3>1, <3>6, <3>7 DEF Copies
  <2>11. PICK b \in Seq(Names) : Carried(tree, work, disk, touched, request.from, b)
    BY <1>1, <1>3, DeletionUnderway DEF Underway
  <2> HIDE DEF calls
  <2>12. Carried(tree, calls, disk, touched, request.from, b)
    BY <2>10, <2>11, CarriedOn
  <2>13. QED
    BY <1>1, <2>9, <2>12
<1> HIDE DEF calls
<1>4. QED
  BY <1>1, <1>2, <1>3, MoveContinued

\* What a deletion removes is one place, in the source if it is a move's.
LEMMA ElementGone ==
  ASSUME IInv, MoveInv, DeleteElement
  PROVE  LET z == Place(tree, Top.path)
         IN  /\ z \in Seq(Names) /\ z \in DOMAIN disk
             /\ DOMAIN disk' = DOMAIN disk \ {z} /\ \A y \in DOMAIN disk' : disk'[y] = disk[y]
             /\ Top.path \in IdPaths /\ Chain(tree, Top.path) /\ Top.op = "delete"
             /\ Moving => IsPrefix(Place(tree, request.from), z)
<1> DEFINE z == Place(tree, Top.path)
<1>1. /\ threadUp /\ ~reused /\ work # <<>> /\ Top.op = "delete"
      /\ Removable(z) /\ disk' = Erased(z)
  BY OnDiskPlace DEF DeleteElement, Deletes, Step, Top
<1>2. /\ Top \in Frames /\ Chain(tree, Top.path) /\ Good(tree) /\ DiskTyped(disk)
  BY <1>1, FirstCall, Opened DEF PlainTyped
<1>3. Top.path \in IdPaths
  BY <1>1, <1>2 DEF Frames
<1>4. z \in Seq(Names)
  BY <1>2, <1>3, PlaceTyped
<1>5. ASSUME Moving
      PROVE  IsPrefix(Place(tree, request.from), z)
  BY <1>1, <1>2, <1>3, <1>5, MoveFacts, ChainPrefix
<1> HIDE DEF z
<1>6. /\ DOMAIN disk' = DOMAIN disk \ {z} /\ \A y \in DOMAIN disk' : disk'[y] = disk[y]
  BY <1>1, <1>2, <1>4, ErasedOne DEF MoveInv, DiskTyped
<1>7. QED
  BY <1>1, <1>2, <1>3, <1>4, <1>5, <1>6 DEF z, Removable

LEMMA DeleteElementMove ==
  ASSUME IInv, MoveInv, DeleteElement
  PROVE  MoveInv'
<1> DEFINE z == Place(tree, Top.path)
<1>1. /\ ~reused /\ ~reused' /\ Continue(Tail(work)) /\ disk' = Erased(z)
      /\ Head(work).op = "delete" /\ IInv'
  BY OnDiskPlace, DeleteElementStep DEF DeleteElement, Deletes, Step
<1>2. /\ z \in Seq(Names) /\ DOMAIN disk' = DOMAIN disk \ {z}
      /\ \A y \in DOMAIN disk' : disk'[y] = disk[y]
      /\ Top.path \in IdPaths /\ Chain(tree, Top.path) /\ Top.op = "delete"
      /\ Moving => IsPrefix(Place(tree, request.from), z)
  BY ElementGone
<1> HIDE DEF z
<1>3. DiskClosed(disk')
  <2>1. DiskClosed(disk) /\ DOMAIN disk \subseteq Seq(Names)
    BY <1>1, Opened DEF MoveInv, PlainTyped, DiskTyped
  <2>2. QED
    BY <1>1, <1>2, <2>1, ErasedClosed
<1>4. ASSUME Moving, Tail(work) # <<>>
      PROVE  /\ Ending(Tail(work), request.from)
             /\ \E b \in Seq(Names) : Carried(tree', Tail(work), disk', touched, request.from, b)
  <2>1. /\ work \in Seq(Frames) /\ work # <<>> /\ Good(tree) /\ request.from \in IdPaths
        /\ Planned(tree, work, request.from) /\ Ending(work, request.from)
    BY <1>1, <1>4, MoveFacts
  <2>2. Ending(Tail(work), request.from)
    BY <1>4, <2>1, EndingLeft
  <2>3. PICK b \in Seq(Names) : Carried(tree, work, disk, touched, request.from, b)
    BY <1>1, <1>2, <1>4, DeletionUnderway DEF Underway
  <2>4. Copies(work) = {} /\ Copies(Tail(work)) = {}
    BY <1>1, <1>2, <1>4, DeletionUnderway
  <2>5. Good(tree') /\ Grown(tree', tree)
    <3> DEFINE id == Target(Top.path)
    <3>1. id \in DOMAIN tree \ {Root} /\ tree[id].parent = Parent(Top.path)
      BY <1>2, <2>1, ChainTarget DEF DeleteElement
    <3>2. tree[id].children = <<>>
      <4>1. Deleting(tree, work, request.from)
        BY <1>1, <2>1, DeletingBegins
      <4>2. /\ Head(work).path # <<>>
            /\ Head(work).open \/ tree[Target(Head(work).path)].children = <<>>
        BY DEF DeleteElement, Deletes, Top, Children
      <4>3. QED
        BY <2>1, <4>1, <4>2, ElementDeleted DEF Top
    <3>3. tree' = Removed(tree, tree[id].parent, id)
      BY <3>1 DEF DeleteElement
    <3> HIDE DEF id
    <3>4. QED
      BY <2>1, <3>1, <3>2, <3>3, RemovedGood
  <2>6. Chain(tree', request.from)
    <3>1. work' = Tail(work) /\ Tail(work) \in Seq(Frames)
      BY <1>1, <2>1, TailRange DEF Continue
    <3>2. \A g \in Range(work') : Fits(tree', g)
      BY <1>1 DEF IInv, Planned
    <3>3. Last(Tail(work)) \in Range(Tail(work)) /\ Last(Tail(work)).path = request.from
      <4>1. Len(Tail(work)) \in 1 .. Len(Tail(work)) /\ DOMAIN Tail(work) = 1 .. Len(Tail(work))
        BY <1>4, <3>1, EmptySeq
      <4>2. Last(Tail(work)) \in Range(Tail(work))
        BY <4>1 DEF Last, Range
      <4>3. QED
        BY <2>2, <4>2 DEF Ending
    <3>4. QED
      BY <3>1, <3>2, <3>3 DEF Fits
  <2>7. Carried(tree', Tail(work), disk', touched, request.from, b)
    BY <1>2, <1>4, <2>1, <2>3, <2>4, <2>5, <2>6, CarriedDeleted
  <2>8. QED
    BY <2>2, <2>7
<1>5. QED
  BY <1>1, <1>3, <1>4, MoveContinued

LEMMA DeleteRootMove ==
  ASSUME IInv, MoveInv, DeleteRoot
  PROVE  MoveInv' /\ ~Moving
<1>1. /\ ~reused /\ Top.path = <<>> /\ disk' = Erased(<<>>)
      /\ UNCHANGED <<touched, reused, tree, request, work>>
  BY DEF DeleteRoot, Deletes, Step
<1>2. ~Moving
  <2> SUFFICES ASSUME Moving PROVE FALSE
    OBVIOUS
  <2>1. IsPrefix(request.from, Top.path) /\ request.from \in Seq(Nat) /\ request.from # <<>>
    BY <1>1, MoveFacts DEF IdPaths
  <2>2. PICK e \in Seq(Nat) : e = <<>>
    BY EmptySeq
  <2>3. IsPrefix(request.from, e) /\ IsPrefix(e, request.from)
    BY <1>1, <2>1, <2>2, PrefixOfItself
  <2>4. QED
    BY <2>1, <2>2, <2>3, PrefixBoth
<1>3. DiskClosed(disk')
  <2>1. DiskClosed(disk) /\ DOMAIN disk \subseteq Seq(Names)
    BY <1>1, Opened DEF MoveInv, PlainTyped, DiskTyped
  <2>2. PICK e \in Seq(Names) : e = <<>>
    BY EmptySeq
  <2>3. QED
    BY <1>1, <2>1, <2>2, ErasedClosed
<1>4. ~Moving'
  BY <1>1, <1>2 DEF Moving
<1>5. QED
  BY <1>1, <1>2, <1>3, <1>4 DEF MoveInv

LEMMA AbandonMove ==
  ASSUME MoveInv, Refused \/ DiskFails \/ MakeFails
  PROVE  MoveInv'
<1>1. Continue(<<>>) /\ disk' = disk
  BY DEF Refused, DiskFails, MakeFails, Abandon
<1>2. request' = NoRequest
  BY <1>1 DEF Continue
<1>3. QED
  BY <1>1, <1>2, NotMoving DEF MoveInv

LEMMA OutsideMove ==
  ASSUME IInv, MoveInv, Outside
  PROVE  MoveInv'
<1>1. PICK place \in Places :
        OutsideRemoves(place) \/ \E content \in Data \cup {"folder"} : OutsideAdds(place, content)
  BY DEF Outside
<1>2. place \in Seq(Names)
  <2>1. PICK n \in 1 .. MaxDepth : place \in [1 .. n -> Names]
    BY DEF Places
  <2>2. n \in Nat
    BY FilesystemAssumption
  <2>3. QED
    BY <2>1, <2>2
<1>3. DiskClosed(disk) /\ DOMAIN disk \subseteq Seq(Names)
  <2>1. PlainTyped
    BY TypeParts DEF IInv
  <2>2. QED
    BY <2>1 DEF MoveInv, PlainTyped, DiskTyped
<1>4. UNCHANGED <<reused, tree, request, work>>
  BY <1>1 DEF OutsideRemoves, OutsideAdds, server
<1>5. SUFFICES /\ DiskClosed(disk')
               /\ \A b \in Seq(Names) :
                    ~reused /\ Moving /\ Carried(tree, work, disk, touched, request.from, b) =>
                      Carried(tree, work, disk', touched', request.from, b)
  <2>1. Moving' = Moving /\ Starting' = Starting
    BY <1>4 DEF Moving, Starting, Resolves
  <2>2. ~reused /\ Moving /\ Underway => Underway'
    BY <1>4, <1>5 DEF Underway
  <2>3. QED
    BY <1>4, <1>5, <2>1, <2>2 DEF MoveInv
<1>6. Moving /\ ~reused => work # <<>>
  BY DEF MoveInv, Ending
<1>7. CASE OutsideRemoves(place)
  <2>1. /\ Removable(place) /\ place \in DOMAIN disk /\ disk' = Erased(place)
        /\ work # <<>> => touched' = touched \cup {<<place, disk[place]>>}
    BY <1>7 DEF OutsideRemoves, Touch, Removable
  <2>2. DOMAIN disk' = DOMAIN disk \ {place} /\ \A y \in DOMAIN disk' : disk'[y] = disk[y]
    BY <1>2, <1>3, <2>1, ErasedOne
  <2>3. DiskClosed(disk')
    BY <1>2, <1>3, <2>1, ErasedClosed
  <2>4. ASSUME ~reused, Moving, NEW b \in Seq(Names),
               Carried(tree, work, disk, touched, request.from, b)
        PROVE  Carried(tree, work, disk', touched', request.from, b)
    <3>1. Carried(tree, work, disk', touched \cup {<<place, disk[place]>>}, request.from, b)
      BY <2>1, <2>2, <2>4, CarriedRemoved
    <3>2. QED
      BY <1>6, <2>1, <2>4, <3>1
  <2>5. QED
    BY <2>3, <2>4
<1>8. CASE \E content \in Data \cup {"folder"} : OutsideAdds(place, content)
  <2>1. PICK content \in Data \cup {"folder"} :
          /\ place \notin DOMAIN disk /\ IsDir(Front(place))
          /\ disk' = Put(disk, place, content)
          /\ work # <<>> => touched' = touched \cup {<<place, content>>}
    BY <1>8 DEF OutsideAdds, Touch
  <2>2. DiskClosed(disk')
    BY <1>3, <2>1, PutClosed DEF IsDir
  <2>3. ASSUME ~reused, Moving, NEW b \in Seq(Names),
               Carried(tree, work, disk, touched, request.from, b)
        PROVE  Carried(tree, work, disk', touched', request.from, b)
    <3>1. Carried(tree, work, Put(disk, place, content), touched \cup {<<place, content>>},
                  request.from, b)
      BY <2>1, <2>3, CarriedAdded
    <3>2. QED
      BY <1>6, <2>1, <2>3, <3>1
  <2>4. QED
    BY <2>2, <2>3
<1>9. QED
  BY <1>1, <1>7, <1>8

LEMMA NextMove == IInv /\ MoveInv /\ [Next]_vars => MoveInv'
<1> SUFFICES ASSUME IInv, MoveInv, [Next]_vars
             PROVE  MoveInv'
  OBVIOUS
<1>1. CASE Requests
  BY <1>1, RequestsMove
<1>2. CASE RequestStep
  BY <1>2, DiscoverMove, CopyContentsMove, CopyFileMove, CopyFolderMove, MakeMove, OpenFolderMove,
     DeleteElementMove, DeleteRootMove, AbandonMove DEF RequestStep
<1>3. CASE Outside
  BY <1>3, OutsideMove
<1>4. CASE Database \/ Save
  <2>1. UNCHANGED <<disk, touched, reused, tree, request, work>>
    BY <1>4 DEF Database, ApplyInsertion, ApplyDeletion, ApplyFolderDeletion, Apply, Save, server
  <2>2. QED
    BY <2>1, MoveUnchanged
<1>5. CASE Restart
  <2>1. request' = NoRequest /\ disk' = disk
    BY <1>5 DEF Restart
  <2>2. QED
    BY <2>1, NotMoving DEF MoveInv
<1>6. CASE UNCHANGED vars
  <2>1. UNCHANGED <<disk, touched, reused, tree, request, work>>
    BY <1>6 DEF vars, server
  <2>2. QED
    BY <2>1, MoveUnchanged
<1>7. QED
  BY <1>1, <1>2, <1>3, <1>4, <1>5, <1>6 DEF Next

\* What a step of a move may do to a content of its source.
Keeps ==
  \A place \in DOMAIN disk :
    IsPrefix(OnDisk(request.from), place) /\ disk[place] \in Data =>
      \/ disk[place] \in Range(disk')
      \/ \E change \in touched : change[1] = place \/ change[2] = disk[place]
      \/ Replaced(place)

LEMMA PutKeeps ==
  ASSUME NEW y, Off(Place(tree, request.from), y), NEW v, disk' = Put(disk, y, v)
  PROVE  Keeps
<1>1. ASSUME NEW place \in DOMAIN disk, IsPrefix(OnDisk(request.from), place)
      PROVE  disk[place] \in Range(disk')
  <2>1. place # y
    BY <1>1, OnDiskPlace DEF Off
  <2>2. place \in DOMAIN disk' /\ disk'[place] = disk[place]
    BY <2>1 DEF Put
  <2>3. QED
    BY <2>2 DEF Range
<1>2. QED
  BY <1>1 DEF Keeps

LEMMA DeletionKeeps ==
  ASSUME IInv, MoveInv, Moving, DeleteElement
  PROVE  Keeps
<1> DEFINE a == Place(tree, request.from)
           z == Place(tree, Top.path)
<1>1. /\ z \in Seq(Names) /\ z \in DOMAIN disk /\ DOMAIN disk' = DOMAIN disk \ {z}
      /\ \A y \in DOMAIN disk' : disk'[y] = disk[y]
      /\ Top.path \in IdPaths /\ Chain(tree, Top.path) /\ Top.op = "delete" /\ IsPrefix(a, z)
  BY ElementGone
<1>2. ~reused /\ Deletes
  BY DEF DeleteElement, Deletes, Step
<1>3. /\ Good(tree) /\ IsPrefix(request.from, Top.path)
  BY <1>2, MoveFacts
<1>4. PICK b \in Seq(Names) : Carried(tree, work, disk, touched, request.from, b)
  BY <1>1, <1>2, DeletionUnderway DEF Underway
<1>5. Copies(work) = {}
  BY <1>1, <1>2, DeletionUnderway
<1>6. ASSUME NEW place \in DOMAIN disk, place # z
      PROVE  disk[place] \in Range(disk')
  BY <1>1, <1>6 DEF Range
<1>7. CASE tree[Target(Top.path)].kind = "folder"
  <2>1. Replaced(z)
    BY <1>2, <1>7, OnDiskPlace DEF Replaced, IsFolder
  <2>2. QED
    BY <1>6, <2>1 DEF Keeps
<1>8. CASE tree[Target(Top.path)].kind = "file"
  <2>1. Lies(tree, request.from, Top.path)
    BY <1>1, <1>3, <1>8 DEF Lies
  <2>2. Stored(work, disk, touched, a, b, z)
    BY <1>4, <1>5, <2>1 DEF Carried, Awaited
  <2>3. ASSUME disk[z] \in Data
        PROVE  \/ disk[z] \in Range(disk')
               \/ \E change \in touched : change[1] = z \/ change[2] = disk[z]
    <3>1. CASE Excused(touched, disk, z)
      BY <3>1 DEF Excused
    <3>2. CASE ~Excused(touched, disk, z)
      <4>1. PICK y \in DOMAIN disk : Off(a, y) /\ disk[y] = disk[z]
        BY <1>1, <2>2, <2>3, <3>2 DEF Stored
      <4>2. y # z
        BY <1>1, <4>1 DEF Off
      <4>3. QED
        BY <1>6, <4>1, <4>2
    <3>3. QED
      BY <3>1, <3>2
  <2>4. QED
    BY <1>6, <2>3 DEF Keeps
<1>9. tree[Target(Top.path)].kind \in {"file", "folder"}
  <2>1. Target(Top.path) \in DOMAIN tree
    BY <1>1, <1>3, ChainTarget
  <2>2. QED
    BY <1>3, <2>1 DEF Good, IsTree, Elements, Kinds
<1>10. QED
  BY <1>7, <1>8, <1>9

LEMMA StepKeeps ==
  ASSUME IInv, MoveInv, Moving, outside' = outside, [Next]_vars
  PROVE  Keeps
<1>1. ASSUME disk' = disk
      PROVE  Keeps
  BY <1>1 DEF Keeps, Range
<1>2. CASE Requests
  <2>1. Serve
    BY <1>2 DEF Requests, Create, CreateInFile, List, ListFile, Delete, Copy, Move, Write, Start,
                CreateFails, LeaveDevice
  <2>2. ~Moving
    BY <2>1 DEF Serve, MoveInv, Moving, NoRequest
  <2>3. QED
    BY <2>2
<1>3. CASE CopyContents
  <2>1. PICK b \in Seq(Names) : Carried(tree, work, disk, touched, request.from, b)
    BY <1>3, ContentsWritten DEF Underway
  <2>2. QED
    BY <1>3, <2>1, ContentsWritten, PutKeeps
<1>4. CASE Make
  <2> DEFINE y == Append(Place(tree, Top.to), tree[Target(Top.path)].name)
             v == IF tree[Target(Top.path)].kind = "file" THEN "empty" ELSE "folder"
  <2>1. PICK b \in Seq(Names) : Carried(tree, work, disk, touched, request.from, b)
    BY <1>4, PlaceMade DEF Underway
  <2>2. Off(Place(tree, request.from), y)
    BY <1>4, <2>1, PlaceMade
  <2>3. disk' = Put(disk, y, v)
    BY <1>4, OnDiskPlace DEF Make, Created
  <2> HIDE DEF y, v
  <2>4. QED
    BY <2>2, <2>3, PutKeeps
<1>5. CASE DeleteElement
  BY <1>5, DeletionKeeps
<1>6. CASE DeleteRoot
  BY <1>6, DeleteRootMove
<1>7. CASE Discover \/ CopyFile \/ CopyFolder \/ OpenFolder \/ Refused \/ DiskFails \/ MakeFails
  BY <1>1, <1>7 DEF Discover, CopyFile, CopyFolder, OpenFolder, Refused, DiskFails, MakeFails
<1>8. CASE Outside
  <2>1. outside' = outside + 1
    BY <1>8 DEF Outside, OutsideAdds, OutsideRemoves, Touch
  <2>2. outside \in Nat
    BY DEF IInv, TypeOK
  <2>3. QED
    BY <2>1, <2>2
<1>9. CASE Database \/ Save \/ Restart
  BY <1>1, <1>9 DEF Database, ApplyInsertion, ApplyDeletion, ApplyFolderDeletion, Apply, Save,
                    Restart
<1>10. CASE UNCHANGED vars
  BY <1>1, <1>10 DEF vars
<1>11. QED
  BY <1>2, <1>3, <1>4, <1>5, <1>6, <1>7, <1>8, <1>9, <1>10 DEF Next, RequestStep

\* A move to a place outside its source loses none of the contents it finds there: what
\* a step of it deletes is stored elsewhere by then, unless another program changed it.
THEOREM MovesKeepData == Spec => MoveKeepsData
<1>1. IInv /\ MoveInv /\ [Next]_vars =>
        [request.kind = "move" /\ ~IsPrefix(request.from, request.to) /\ outside' = outside =>
           \A place \in DOMAIN disk :
             IsPrefix(OnDisk(request.from), place) /\ disk[place] \in Data =>
               \/ disk[place] \in Range(disk')
               \/ \E change \in touched : change[1] = place \/ change[2] = disk[place]
               \/ Replaced(place)]_vars
  BY StepKeeps DEF Moving, Keeps
<1>2. Init => MoveInv
  BY InitMoveInv
<1>3. IInv /\ MoveInv /\ [Next]_vars => MoveInv'
  BY NextMove
<1>4. QED
  BY <1>1, <1>2, <1>3, InvariantHolds, PTL DEF Spec, MoveKeepsData

=============================================================================
