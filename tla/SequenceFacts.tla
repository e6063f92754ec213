---------------------------- MODULE SequenceFacts ----------------------------
(***************************************************************************)
(* Facts about sequences that the library does not have, or has in a form  *)
(* that takes an operator.  What is said of every number, or of every      *)
(* sequence, is said by a set here: that of those it is true of.  A fold   *)
(* is a recursive function chosen by its equation, so that there is one is *)
(* what has to be proved first, as the smallest length for which there is  *)
(* none.                                                                   *)
(***************************************************************************)
EXTENDS Integers, SequencesExt, SequenceTheorems, WellFoundedInduction, TLAPS

\* The smallest of some numbers is one of them.
LEMMA MinIsSmallest ==
  ASSUME NEW T, T \subseteq Nat, T # {}
  PROVE  Min(T) \in T /\ \A y \in T : Min(T) <= y
<1>1. IsWellFoundedOn(OpToRel(<, Nat), Nat) BY NatLessThanWellFounded
<1>2. \A a, b \in Nat : a < b => <<a, b>> \in OpToRel(<, Nat) BY DEF OpToRel
<1>3. \E less : IsWellFoundedOn(less, Nat) /\ \A a, b \in Nat : a < b => <<a, b>> \in less
  BY <1>1, <1>2, Zenon
<1>4. ASSUME NEW less, IsWellFoundedOn(less, Nat)
      PROVE  \E x \in T : \A y \in T : ~(<<y, x>> \in less)
  BY <1>4, WFMin
<1>5. \E x \in T : \A y \in T : ~(y < x)
  BY <1>3, <1>4, Zenon
<1>6. \E x \in T : \A y \in T : x <= y BY <1>5
<1> QED BY <1>6 DEF Min

\* The largest of some numbers up to n is one of them.
LEMMA MaxIsLargest ==
  ASSUME NEW n \in Nat, NEW T, T \subseteq 0..n, T # {}
  PROVE  Max(T) \in T /\ \A y \in T : Max(T) >= y
<1> DEFINE R == {x \in 0..n : n - x \in T}
<1>1. R \subseteq Nat OBVIOUS
<1>2. R # {}
  <2>1. PICK x \in T : TRUE OBVIOUS
  <2>2. n - x \in 0..n /\ n - (n - x) = x BY <2>1
  <2> QED BY <2>1, <2>2
<1>3. Min(R) \in R /\ \A y \in R : Min(R) <= y BY <1>1, <1>2, MinIsSmallest
<1>4. n - Min(R) \in T /\ \A y \in T : n - Min(R) >= y
  <2>1. \A y \in T : n - y \in R
    <3> SUFFICES ASSUME NEW y \in T PROVE n - y \in R OBVIOUS
    <3>1. n - y \in 0..n /\ n - (n - y) = y OBVIOUS
    <3> QED BY <3>1
  <2>2. \A y \in T : Min(R) <= n - y BY <1>3, <2>1
  <2> HIDE DEF R
  <2>3. Min(R) \in 0..n /\ n - Min(R) \in T BY <1>3 DEF R
  <2> QED BY <2>2, <2>3
<1>5. \E x \in T : \A y \in T : x >= y BY <1>4
<1> QED BY <1>5 DEF Max

\* Induction over the numbers up to n: G is the set of those that are as claimed.
LEMMA UpTo ==
  ASSUME NEW n \in Nat, NEW G \in SUBSET (0..n), 0 \in G,
         \A k \in 1..n : k - 1 \in G => k \in G
  PROVE  G = 0..n
<1> DEFINE T == 0..n \ G
<1>1. SUFFICES ASSUME T # {} PROVE FALSE OBVIOUS
<1>2. T \subseteq Nat OBVIOUS
<1> HIDE DEF T
<1>3. Min(T) \in T /\ \A k \in T : Min(T) <= k BY <1>1, <1>2, MinIsSmallest
<1> DEFINE m == Min(T)
<1>4. m \in 0..n /\ m \notin G BY <1>3 DEF T
<1>5. \A k \in 0..n : k \notin G => m <= k BY <1>3 DEF T
<1> HIDE DEF m
<1>6. m # 0 BY <1>4
<1>7. m \in 1..n /\ m - 1 \in 0..n /\ ~(m <= m - 1) BY <1>4, <1>6
<1> QED BY <1>4, <1>5, <1>7

\* There is a function on the sets of numbers up to n that takes the largest number
\* off and applies F to what is left.
FoldsSets(V, base, n, F, it) ==
  /\ it \in [SUBSET (1..n) -> V]
  /\ it = [s \in SUBSET (1..n) |-> IF s = {} THEN base ELSE F[Max(s)][it[s \ {Max(s)}]]]

\* What is left of a set is a set of its kind, and below the number taken off.
LEMMA RestIsSmaller ==
  ASSUME NEW n \in Nat, NEW s \in SUBSET (1..n), s # {}
  PROVE  Max(s) \in s /\ s \ {Max(s)} \in SUBSET (1..Max(s) - 1)
<1>1. s \subseteq 0..n OBVIOUS
<1> DEFINE x == Max(s)
<1>2. x \in s /\ \A y \in s : x >= y BY <1>1, MaxIsLargest
<1> HIDE DEF x
<1>3. ASSUME NEW y \in s \ {x} PROVE y \in 1..x - 1
  <2>1. y \in 1..n /\ x \in 1..n /\ x >= y /\ x # y BY <1>2
  <2> QED BY <2>1
<1>4. x \in s /\ s \ {x} \in SUBSET (1..x - 1) BY <1>2, <1>3
<1> QED BY <1>4 DEF x

\* Such a function there is, for any step F.
LEMMA FoldExists ==
  ASSUME NEW V, NEW base \in V, NEW n \in Nat, NEW F \in [1..n -> [V -> V]]
  PROVE  \E it : FoldsSets(V, base, n, F, it)
<1> DEFINE None == {k \in 0..n : ~\E it : FoldsSets(V, base, k, F, it)}
<1>1. SUFFICES None = {} BY DEF None
<1>2. SUFFICES ASSUME None # {} PROVE FALSE OBVIOUS
<1> DEFINE m == Min(None)
<1>3. m \in None /\ \A k \in None : m <= k
  <2>1. None \subseteq Nat OBVIOUS
  <2> HIDE DEF None
  <2> QED BY <1>2, <2>1, MinIsSmallest
<1>4. m # 0
  <2>1. 1..0 = {} OBVIOUS
  <2> DEFINE it == [s \in SUBSET (1..0) |-> base]
  <2>2. it \in [SUBSET (1..0) -> V] OBVIOUS
  <2>3. \A s \in SUBSET (1..0) : s = {} BY <2>1
  <2>4. it = [s \in SUBSET (1..0) |-> IF s = {} THEN base ELSE F[Max(s)][it[s \ {Max(s)}]]]
    BY <2>3, Zenon
  <2>5. \E g : FoldsSets(V, base, 0, F, g) BY <2>2, <2>4, Zenon DEF FoldsSets
  <2> QED BY <1>3, <2>5
<1>5. m \in 1..n /\ m - 1 \in 0..n /\ m - 1 \notin None
  <2> HIDE DEF None
  <2>1. m \in 0..n BY <1>3 DEF None
  <2> HIDE DEF m
  <2>2. m \in 1..n /\ m - 1 \in 0..n BY <1>4, <2>1
  <2>3. m - 1 \notin None BY <2>2, <1>3
  <2> QED BY <2>2, <2>3
<1> HIDE DEF m
<1>6. PICK it : FoldsSets(V, base, m - 1, F, it) BY <1>5
<1> DEFINE g == [s \in SUBSET (1..m) |-> IF m \notin s THEN it[s] ELSE F[m][it[s \ {m}]]]
<1>7. \A s \in SUBSET (1..m) : s \ {m} \in SUBSET (1..m - 1) BY <1>5
<1>8. /\ it \in [SUBSET (1..m - 1) -> V]
      /\ \A s \in SUBSET (1..m - 1) :
           it[s] = IF s = {} THEN base ELSE F[Max(s)][it[s \ {Max(s)}]]
  BY <1>6 DEF FoldsSets
<1>9. F[m] \in [V -> V] BY <1>5
<1>10. \A s \in SUBSET (1..m) : m \notin s => s \in SUBSET (1..m - 1) BY <1>5
<1>11. g \in [SUBSET (1..m) -> V]
  <2> SUFFICES ASSUME NEW s \in SUBSET (1..m)
               PROVE  (IF m \notin s THEN it[s] ELSE F[m][it[s \ {m}]]) \in V
    OBVIOUS
  <2>1. it[s \ {m}] \in V BY <1>7, <1>8
  <2>2. F[m][it[s \ {m}]] \in V BY <1>9, <2>1
  <2>3. m \notin s => it[s] \in V BY <1>8, <1>10
  <2> QED BY <2>2, <2>3
<1>12. \A s \in SUBSET (1..m) : g[s] = IF s = {} THEN base ELSE F[Max(s)][g[s \ {Max(s)}]]
  <2> SUFFICES ASSUME NEW s \in SUBSET (1..m), s # {}
               PROVE  g[s] = F[Max(s)][g[s \ {Max(s)}]]
    <3>1. g[{}] = base
      <4>1. {} \in SUBSET (1..m) /\ {} \in SUBSET (1..m - 1) /\ m \notin {} OBVIOUS
      <4>2. it[{}] = base BY <1>8, <4>1
      <4> QED BY <4>1, <4>2
    <3> QED BY <3>1
  <2>1. Max(s) \in s /\ s \ {Max(s)} \in SUBSET (1..Max(s) - 1)
    <3>1. m \in Nat BY <1>5
    <3> HIDE DEF g
    <3> QED BY <3>1, RestIsSmaller
  <2>2. s \ {Max(s)} \in SUBSET (1..m) OBVIOUS
  <2>3. CASE m \in s
    <3>1. Max(s) = m
      <4>1. Max(s) \in 1..m BY <2>1
      <4>2. m # Max(s) => m \in 1..Max(s) - 1 BY <2>1, <2>3
      <4> QED BY <1>5, <4>1, <4>2
    <3>2. g[s \ {m}] = it[s \ {m}] BY <2>2, <3>1
    <3> QED BY <2>3, <3>1, <3>2
  <2>4. CASE m \notin s
    <3>1. s \in SUBSET (1..m - 1) BY <1>10, <2>4
    <3>2. g[s] = F[Max(s)][it[s \ {Max(s)}]] BY <1>8, <2>4, <3>1
    <3>3. g[s \ {Max(s)}] = it[s \ {Max(s)}] BY <2>2, <2>4
    <3> QED BY <3>2, <3>3
  <2> QED BY <2>3, <2>4
<1>13. FoldsSets(V, base, m, F, g)
  <2> HIDE DEF g
  <2>1. g = [s \in SUBSET (1..m) |-> g[s]] BY <1>11
  <2>2. g = [s \in SUBSET (1..m) |->
              IF s = {} THEN base ELSE F[Max(s)][g[s \ {Max(s)}]]]
    BY <1>12, <2>1, Zenon
  <2> QED BY <1>11, <2>2 DEF FoldsSets
<1> QED BY <1>3, <1>13

\* The sets such a function goes through, number by number.
LEMMA InitialSets ==
  ASSUME NEW n \in Nat
  PROVE  /\ 1..0 = {}
         /\ \A k \in 0..n : 1..k \in SUBSET (1..n)
         /\ \A k \in 1..n : /\ 1..k # {} /\ Max(1..k) = k
                            /\ (1..k) \ {k} = 1..k - 1
<1>1. 1..0 = {} /\ \A k \in 0..n : 1..k \in SUBSET (1..n) OBVIOUS
<1>2. ASSUME NEW k \in 1..n
      PROVE  1..k # {} /\ Max(1..k) = k /\ (1..k) \ {k} = 1..k - 1
  <2>1. k \in 1..k OBVIOUS
  <2>2. 1..k \subseteq 0..k /\ k \in Nat OBVIOUS
  <2>3. Max(1..k) \in 1..k /\ \A y \in 1..k : Max(1..k) >= y
    <3> DEFINE T == 1..k
    <3>1. T \subseteq 0..k /\ T # {} BY <2>1, <2>2
    <3> HIDE DEF T
    <3>2. Max(T) \in T /\ \A y \in T : Max(T) >= y BY <2>2, <3>1, MaxIsLargest
    <3> QED BY <3>2 DEF T
  <2>4. Max(1..k) = k BY <2>1, <2>3
  <2>5. (1..k) \ {k} = 1..k - 1 OBVIOUS
  <2> QED BY <2>1, <2>4, <2>5
<1> QED BY <1>1, <1>2

-----------------------------------------------------------------------------

\* A prefix, element by element.
LEMMA PrefixIs ==
  ASSUME NEW S, NEW s \in Seq(S), NEW t \in Seq(S)
  PROVE  IsPrefix(s, t) <=> Len(s) <= Len(t) /\ \A i \in 1..Len(s) : s[i] = t[i]
<1>1. Len(s) \in Nat /\ Len(t) \in Nat /\ SubSeq(s, 1, Len(s)) = s BY LenProperties, SubSeqFull
<1>2. ASSUME Len(s) <= Len(t)
      PROVE  LET p == SubSeq(t, 1, Len(s)) IN
             p \in Seq(S) /\ Len(p) = Len(s) /\ \A i \in 1..Len(s) : p[i] = t[i]
  <2> DEFINE p == SubSeq(t, 1, Len(s))
  <2>1. \A i \in 1..Len(s) : t[i] \in S BY <1>1, <1>2, ElementOfSeq
  <2>2. /\ p \in Seq(S) /\ Len(p) = IF 1 <= Len(s) THEN Len(s) - 1 + 1 ELSE 0
        /\ \A i \in 1..Len(s) - 1 + 1 : p[i] = t[1 + i - 1]
    BY <1>1, <2>1, SubSeqProperties
  <2> HIDE DEF p
  <2>3. Len(p) = Len(s) /\ \A i \in 1..Len(s) : p[i] = t[i] BY <1>1, <2>2
  <2> QED BY <2>2, <2>3 DEF p
<1>3. ASSUME IsPrefix(s, t) PROVE Len(s) <= Len(t) /\ \A i \in 1..Len(s) : s[i] = t[i]
  BY <1>1, <1>2, <1>3 DEF IsPrefix
<1>4. ASSUME Len(s) <= Len(t), \A i \in 1..Len(s) : s[i] = t[i] PROVE IsPrefix(s, t)
  BY <1>1, <1>2, <1>4, SeqEqual DEF IsPrefix
<1> QED BY <1>3, <1>4

\* A set of sequences that has the empty one, and with each the longer ones by an
\* element, has them all.
LEMMA AllSequences ==
  ASSUME NEW S, NEW G \in SUBSET Seq(S), <<>> \in G,
         \A s \in G : \A x \in S : Append(s, x) \in G
  PROVE  G = Seq(S)
<1> SUFFICES ASSUME NEW s \in Seq(S) PROVE s \in G OBVIOUS
<1> DEFINE n == Len(s)
           H == {k \in 0..n : SubSeq(s, 1, k) \in G}
<1>1. n \in Nat BY LenProperties
<1>2. 0 \in H
  <2>1. SubSeq(s, 1, 0) = <<>> BY SubSeqEmpty
  <2>2. SubSeq(s, 1, 0) \in G BY <2>1, Zenon
  <2>3. 0 \in 0..n BY <1>1
  <2> QED BY <2>2, <2>3, Zenon
<1>3. ASSUME NEW k \in 1..n, k - 1 \in H PROVE k \in H
  <2> DEFINE t == SubSeq(s, 1, k - 1)
  <2>1. t \in G BY <1>3
  <2>2. s[k] \in S BY ElementOfSeq
  <2>3. 1 \in 1..n /\ k \in 1..n BY <1>1
  <2>4. SubSeq(s, 1, k) = t \o <<s[k]>> BY <2>3, SubSeqRecursiveSecond
  <2> HIDE DEF t
  <2>5. Append(t, s[k]) = t \o <<s[k]>> BY <2>1, <2>2, AppendIsConcat
  <2>6. k \in 0..n BY <1>1
  <2> QED BY <2>1, <2>2, <2>4, <2>5, <2>6
<1>4. n \in H
  <2>1. H \in SUBSET (0..n) OBVIOUS
  <2> HIDE DEF H
  <2>2. H = 0..n BY <1>1, <1>2, <1>3, <2>1, UpTo
  <2> QED BY <1>1, <2>2
<1> QED BY <1>4, SubSeqFull
=============================================================================
