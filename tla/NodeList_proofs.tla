-------------------------- MODULE NodeList_proofs ---------------------------
(***************************************************************************)
(* Proofs about the linked list, for every finite set of addresses and     *)
(* every set of values: the pointers are those of one sequence of nodes,   *)
(* and each call does to that sequence what list.h says.                   *)
(***************************************************************************)
EXTENDS ListReleases, SequenceTheorems, FiniteSetTheorems, TLAPS

(* Every set of natural numbers that is not empty has a least element.     *)
LEMMA LeastElement ==
  ASSUME NEW T, T \subseteq Nat, T # {}
  PROVE  \E m \in T : \A n \in T : m <= n
<1>1. \A x, y \in Nat : x < y => << x, y >> \in OpToRel(<, Nat)
  BY Zenon DEF OpToRel
<1>2. \E R : IsWellFoundedOn(R, Nat) /\ \A x, y \in Nat : x < y => << x, y >> \in R
  BY <1>1, NatLessThanWellFounded, Zenon
<1>3. PICK R : IsWellFoundedOn(R, Nat) /\ \A x, y \in Nat : x < y => << x, y >> \in R
  BY <1>2
<1>4. \E m \in T : \A n \in T : ~ (<< n, m >> \in R)
  <2>1. IsWellFoundedOn(R, Nat)
    BY <1>3
  <2> QED
    BY <2>1, WFMin, Zenon
<1>5. PICK m \in T : \A n \in T : ~ (<< n, m >> \in R)
  BY <1>4
<1>6. \A n \in T : m <= n
  <2> TAKE n \in T
  <2>1. m \in Nat /\ n \in Nat
    OBVIOUS
  <2>2. ~ (n < m)
    BY <1>3, <1>5, <2>1, Zenon
  <2> QED
    BY <2>1, <2>2
<1> QED
  BY <1>6

(* The index before the i-th of k indices, when there is one.              *)
LEMMA Before ==
  ASSUME NEW k \in Nat, NEW i \in 1 .. k, i # 1
  PROVE  i - 1 \in 1 .. k /\ i - 1 \in 1 .. k - 1 /\ (i - 1) + 1 = i
OBVIOUS

Distinct(s) == \A i, j \in 1 .. Len(s) : s[i] = s[j] => i = j

(* No sequence of distinct nodes is longer than there are nodes.           *)
LEMMA DistinctIsShort ==
  ASSUME NEW s \in Seq(Nodes), Distinct(s)
  PROVE  /\ Cardinality(Nodes) \in Nat
         /\ Len(s) \in Nat /\ Len(s) <= Cardinality(Nodes)
<1>1. Len(s) \in Nat /\ s \in [1 .. Len(s) -> Nodes]
  BY LenProperties
<1>2. s \in Injection(1 .. Len(s), Nodes)
  BY <1>1 DEF Distinct, Injection, IsInjective
<1>3. Cardinality(1 .. Len(s)) <= Cardinality(Nodes)
  BY <1>2, NodesAssumption, FS_Injection
<1>4. Cardinality(1 .. Len(s)) = Len(s)
  <2>1. 1 \in Int /\ Len(s) \in Int
    BY <1>1
  <2>2. Cardinality(1 .. Len(s)) = IF 1 > Len(s) THEN 0 ELSE Len(s) - 1 + 1
    BY <2>1, FS_Interval
  <2> QED
    BY <1>1, <2>2
<1>5. Cardinality(Nodes) \in Nat
  BY NodesAssumption, FS_CardinalityType
<1> QED
  BY <1>1, <1>3, <1>4, <1>5

(* Along links that are those of a sequence of distinct nodes one meets    *)
(* this sequence: the walk is a recursive function, so its values are      *)
(* compared with the sequence's by their least difference.                 *)
Linked(s, start, link) ==
  /\ s \in Seq(Nodes)
  /\ Distinct(s)
  /\ start = IF Len(s) = 0 THEN NULL ELSE s[1]
  /\ \A i \in 1 .. Len(s) :
       heap[s[i]][link] = IF i = Len(s) THEN NULL ELSE s[i + 1]

Walked(f, N, start, link) ==
  f = [k \in 1 .. N |->
         IF k = 1 THEN start
         ELSE IF f[k - 1] = NULL THEN NULL ELSE heap[f[k - 1]][link]]

LEMMA WalkOf ==
  ASSUME NEW s, NEW start, NEW link, Linked(s, start, link),
         NEW N \in Nat, Len(s) <= N
  PROVE  LET at == CHOOSE f : Walked(f, N, start, link)
         IN  /\ {k \in 1 .. N : at[k] # NULL} = 1 .. Len(s)
             /\ \A k \in 1 .. Len(s) : at[k] = s[k]
<1>0. /\ s \in Seq(Nodes) /\ Distinct(s)
      /\ start = IF Len(s) = 0 THEN NULL ELSE s[1]
      /\ \A i \in 1 .. Len(s) :
           heap[s[i]][link] = IF i = Len(s) THEN NULL ELSE s[i + 1]
  BY DEF Linked
<1> DEFINE w == [k \in 1 .. N |-> IF k <= Len(s) THEN s[k] ELSE NULL]
           at == CHOOSE f : Walked(f, N, start, link)
<1>1. N \in Nat /\ Len(s) \in Nat /\ Len(s) <= N
  BY <1>0, LenProperties
<1>2. \A k \in 1 .. Len(s) : s[k] \in Nodes /\ s[k] # NULL
  BY <1>0, NodesAssumption, ElementOfSeq
<1>3. Walked(w, N, start, link)
  <2>1. ASSUME NEW k \in 1 .. N
        PROVE  w[k] = IF k = 1 THEN start
                      ELSE IF w[k - 1] = NULL THEN NULL ELSE heap[w[k - 1]][link]
    <3>1. CASE k = 1
      BY <1>0, <1>1, <2>1, <3>1
    <3>2. CASE k # 1 /\ k - 1 > Len(s)
      BY <1>1, <2>1, <3>2
    <3>3. CASE k # 1 /\ k - 1 <= Len(s)
      <4>1. k - 1 \in 1 .. Len(s) /\ k - 1 \in 1 .. N
        BY <1>1, <3>3
      <4>2. w[k - 1] = s[k - 1] /\ w[k - 1] # NULL
        BY <1>2, <4>1
      <4>3. heap[s[k - 1]][link] = IF k - 1 = Len(s) THEN NULL ELSE s[k]
        BY <1>0, <1>1, <4>1
      <4> QED
        BY <1>1, <3>3, <4>2, <4>3
    <3> QED
      BY <1>1, <3>1, <3>2, <3>3
  <2> QED
    BY <2>1, Zenon DEF Walked
<1>4. Walked(at, N, start, link)
  BY <1>3
<1> HIDE DEF at
<1>6. \A k \in 1 .. N : at[k] = w[k]
  <2> SUFFICES ASSUME {k \in 1 .. N : at[k] # w[k]} # {} PROVE FALSE
    OBVIOUS
  <2> DEFINE D == {k \in 1 .. N : at[k] # w[k]}
  <2>1. D \subseteq Nat
    BY <1>1
  <2>2. PICK m \in D : \A n \in D : m <= n
    <3> HIDE DEF D
    <3> QED
      BY <2>1, LeastElement DEF D
  <2>3. m \in 1 .. N /\ at[m] # w[m]
    OBVIOUS
  <2>4. CASE m = 1
    BY <1>3, <1>4, <2>3, <2>4 DEF Walked
  <2>5. CASE m # 1
    <3>1. m - 1 \in 1 .. N /\ ~ (m - 1 \in D)
      BY <1>1, <2>1, <2>2, <2>5
    <3>2. at[m - 1] = w[m - 1]
      BY <3>1
    <3> HIDE DEF w
    <3>3. at[m] = IF at[m - 1] = NULL THEN NULL ELSE heap[at[m - 1]][link]
      BY <1>4, <2>3, <2>5 DEF Walked
    <3>4. w[m] = IF w[m - 1] = NULL THEN NULL ELSE heap[w[m - 1]][link]
      BY <1>3, <2>3, <2>5 DEF Walked
    <3> QED
      BY <2>3, <3>2, <3>3, <3>4, Zenon
  <2> QED
    BY <2>4, <2>5
<1>7. {k \in 1 .. N : at[k] # NULL} = 1 .. Len(s)
  BY <1>1, <1>2, <1>6
<1>8. \A k \in 1 .. Len(s) : at[k] = s[k]
  BY <1>1, <1>6
<1> QED
  BY <1>7, <1>8 DEF at

LEMMA ChainOf ==
  ASSUME NEW s, NEW start, NEW link, Linked(s, start, link)
  PROVE  Chain(start, link) = s
<1> DEFINE N == Cardinality(Nodes)
           at == CHOOSE f : Walked(f, N, start, link)
<1>1. s \in Seq(Nodes) /\ N \in Nat /\ Len(s) <= N
  BY DistinctIsShort DEF Linked
<1>2. Chain(start, link) = [k \in {k \in 1 .. N : at[k] # NULL} |-> at[k]]
  BY Zenon DEF Chain, Walked
<1>3. {k \in 1 .. N : at[k] # NULL} = 1 .. Len(s) /\ \A k \in 1 .. Len(s) : at[k] = s[k]
  <2> HIDE DEF N
  <2> QED
    BY <1>1, WalkOf
<1> HIDE DEF at
<1>4. s = [k \in 1 .. Len(s) |-> s[k]]
  BY <1>1, LenProperties
<1> QED
  BY <1>2, <1>3, <1>4

(***************************************************************************)
(* The inductive invariant: some sequence of distinct nodes has the heap's *)
(* nodes for its elements, and front, back and both links of every node    *)
(* are those of that sequence.  That the list can be walked in both        *)
(* directions is not inductive as it stands: a call writes single links,   *)
(* and what it does to a walk depends on every link behind them.           *)
(***************************************************************************)
HeapTyped == DOMAIN heap \subseteq Nodes /\ heap \in [DOMAIN heap -> node_t]

Represents(s) ==
  /\ s \in Seq(Nodes)
  /\ Distinct(s)
  /\ DOMAIN heap = {s[i] : i \in 1 .. Len(s)}
  /\ front = IF Len(s) = 0 THEN NULL ELSE s[1]
  /\ back  = IF Len(s) = 0 THEN NULL ELSE s[Len(s)]
  /\ \A i \in 1 .. Len(s) :
       /\ heap[s[i]].next     = IF i = Len(s) THEN NULL ELSE s[i + 1]
       /\ heap[s[i]].previous = IF i = 1 THEN NULL ELSE s[i - 1]

ListInv == HeapTyped /\ \E s : Represents(s)

(* The walks of the two directions, and the elements of the sequence.      *)
LEMMA Walks ==
  ASSUME NEW s, Represents(s)
  PROVE  /\ Chain(front, "next") = s
         /\ Chain(back, "previous") = Reverse(s)
         /\ ToSet(s) = DOMAIN heap
         /\ Linked(s, front, "next") /\ Linked(Reverse(s), back, "previous")
         /\ Len(Reverse(s)) = Len(s)
         /\ \A k \in 1 .. Len(s) : Reverse(s)[k] = s[Len(s) - k + 1]
<1>1. /\ s \in Seq(Nodes) /\ Len(s) \in Nat /\ DOMAIN s = 1 .. Len(s)
      /\ Distinct(s)
      /\ \A k \in 1 .. Len(s) : s[k] \in Nodes
  BY LenProperties, ElementOfSeq DEF Represents
<1>2. Linked(s, front, "next") /\ Chain(front, "next") = s
  <2>1. Linked(s, front, "next")
    BY <1>1 DEF Represents, Linked
  <2> QED
    BY <2>1, ChainOf
<1> DEFINE n == Len(s)
           r == Reverse(s)
<1>3. /\ r \in Seq(Nodes) /\ Len(r) = n
      /\ \A k \in 1 .. n : n - k + 1 \in 1 .. n /\ r[k] = s[n - k + 1]
  <2>1. \A k \in 1 .. n : n - k + 1 \in 1 .. n /\ s[(n - k) + 1] \in Nodes
    BY <1>1
  <2>2. r \in [1 .. n -> Nodes] /\ \A k \in 1 .. n : r[k] = s[(n - k) + 1]
    BY <2>1 DEF Reverse
  <2>3. r \in Seq(Nodes)
    BY <1>1, <2>2, SeqDef
  <2>4. Len(r) = n
    BY <1>1, <2>2, <2>3, LenProperties
  <2> QED
    BY <2>1, <2>2, <2>3, <2>4
<1> HIDE DEF r, n
<1>4. Distinct(r)
  <2> SUFFICES ASSUME NEW i \in 1 .. n, NEW j \in 1 .. n, r[i] = r[j] PROVE i = j
    BY <1>3 DEF Distinct
  <2>1. n - i + 1 = n - j + 1
    BY <1>1, <1>3 DEF Distinct, n
  <2>2. n \in Nat
    BY <1>1 DEF n
  <2> QED
    BY <2>1, <2>2
<1>5. back = IF Len(r) = 0 THEN NULL ELSE r[1]
  <2>1. n \in Nat /\ back = IF n = 0 THEN NULL ELSE s[n]
    BY <1>1 DEF Represents, n
  <2>2. n # 0 => r[1] = s[n]
    BY <1>3, <2>1
  <2> QED
    BY <1>3, <2>1, <2>2
<1>6. \A k \in 1 .. Len(r) :
        heap[r[k]].previous = IF k = Len(r) THEN NULL ELSE r[k + 1]
  <2> SUFFICES ASSUME NEW k \in 1 .. Len(r)
               PROVE  heap[r[k]].previous = IF k = Len(r) THEN NULL ELSE r[k + 1]
    OBVIOUS
  <2>1. k \in 1 .. n /\ n \in Nat
    BY <1>1, <1>3 DEF n
  <2>2. PICK i \in 1 .. n : i = n - k + 1
    BY <1>3, <2>1
  <2>3. r[k] = s[i]
    BY <1>3, <2>1, <2>2
  <2>4. heap[s[i]].previous = IF i = 1 THEN NULL ELSE s[i - 1]
    BY DEF Represents, n
  <2>5. CASE k = n
    BY <1>3, <2>1, <2>2, <2>3, <2>4, <2>5
  <2>6. CASE k # n
    <3>1. k + 1 \in 1 .. n /\ n - (k + 1) + 1 = i - 1 /\ i # 1
      BY <2>1, <2>2, <2>6
    <3>2. r[k + 1] = s[i - 1]
      BY <1>3, <3>1
    <3> QED
      BY <1>3, <2>3, <2>4, <2>6, <3>1, <3>2
  <2> QED
    BY <2>5, <2>6
<1>7. Linked(r, back, "previous") /\ Chain(back, "previous") = r
  <2>1. Linked(r, back, "previous")
    BY <1>3, <1>4, <1>5, <1>6 DEF Linked
  <2> QED
    BY <2>1, ChainOf
<1>8. ToSet(s) = DOMAIN heap
  BY <1>1 DEF ToSet, Represents
<1> QED
  BY <1>2, <1>3, <1>7, <1>8 DEF r, n

LEMMA InitListInv == Init => ListInv
<1> SUFFICES ASSUME Init PROVE ListInv
  OBVIOUS
<1>1. DOMAIN heap = {} /\ heap = [n \in {} |-> heap[n]]
  BY DEF Init
<1>2. HeapTyped
  BY <1>1 DEF HeapTyped
<1>3. Represents(<< >>)
  BY <1>1 DEF Represents, Distinct, Init
<1> QED
  BY <1>2, <1>3 DEF ListInv

(***************************************************************************)
(* What each call does to the sequence.  KeepsValues: the nodes that stay  *)
(* keep their values.                                                      *)
(***************************************************************************)
KeepsValues ==
  \A m \in DOMAIN heap \cap DOMAIN heap' : heap'[m].value = heap[m].value

(* The facts about a sequence that the steps need.                         *)
LEMMA Represented ==
  ASSUME HeapTyped, NEW s, Represents(s)
  PROVE  /\ s \in Seq(Nodes) /\ Len(s) \in Nat
         /\ \A i \in 1 .. Len(s) : s[i] \in Nodes /\ s[i] # NULL /\ s[i] \in DOMAIN heap
         /\ \A i, j \in 1 .. Len(s) : s[i] = s[j] => i = j
         /\ is_empty_list <=> Len(s) = 0
         /\ \A m \in DOMAIN heap : heap[m] \in node_t
         /\ \A m \in DOMAIN heap : \E i \in 1 .. Len(s) : m = s[i]
<1>1. /\ s \in Seq(Nodes) /\ Len(s) \in Nat
      /\ \A i \in 1 .. Len(s) : s[i] \in Nodes /\ s[i] # NULL
  BY LenProperties, ElementOfSeq, NodesAssumption DEF Represents
<1>2. is_empty_list <=> Len(s) = 0
  BY <1>1 DEF Represents, is_empty_list
<1> QED
  BY <1>1, <1>2 DEF Represents, Distinct, HeapTyped

LEMMA PushBackStep ==
  ASSUME HeapTyped, NEW s, Represents(s), NEW value \in Values, push_back(value)
  PROVE  /\ HeapTyped' /\ KeepsValues
         /\ \E n \in Nodes \ DOMAIN heap :
              Represents(Append(s, n))' /\ heap'[n].value = value
<1>1. PICK n \in Nodes \ DOMAIN heap :
        /\ heap' = withNode(IF is_empty_list THEN heap
                            ELSE [heap EXCEPT ![back].next = n],
                            n, Node(value, back, NULL))
        /\ front' = IF is_empty_list THEN n ELSE front
        /\ back' = n
  BY DEF push_back
<1> DEFINE k == Len(s)
           t == Append(s, n)
           new == Node(value, back, NULL)
<1>2. /\ s \in Seq(Nodes) /\ k \in Nat
      /\ \A i \in 1 .. k : s[i] \in Nodes /\ s[i] # NULL /\ s[i] \in DOMAIN heap
      /\ \A i, j \in 1 .. k : s[i] = s[j] => i = j
      /\ is_empty_list <=> k = 0
      /\ \A m \in DOMAIN heap : heap[m] \in node_t
      /\ \A m \in DOMAIN heap : \E i \in 1 .. k : m = s[i]
  BY Represented
<1>3. /\ t \in Seq(Nodes) /\ Len(t) = k + 1 /\ t[k + 1] = n
      /\ \A i \in 1 .. k : t[i] = s[i]
  BY <1>2, AppendProperties
<1>4. /\ back = IF k = 0 THEN NULL ELSE s[k]
      /\ front = IF k = 0 THEN NULL ELSE s[1]
      /\ \A i \in 1 .. k : heap[s[i]].next = IF i = k THEN NULL ELSE s[i + 1]
      /\ \A i \in 1 .. k : heap[s[i]].previous = IF i = 1 THEN NULL ELSE s[i - 1]
  BY DEF Represents
<1>5. new \in node_t /\ new.value = value /\ new.previous = back /\ new.next = NULL
  BY <1>2, <1>4 DEF Node, node_t
<1> HIDE DEF new, t, k
<1> DEFINE old == IF is_empty_list THEN heap ELSE [heap EXCEPT ![back].next = n]
<1>6. /\ DOMAIN old = DOMAIN heap
       /\ \A m \in DOMAIN heap :
            old[m] = IF ~ is_empty_list /\ m = back THEN [heap[m] EXCEPT !.next = n]
                     ELSE heap[m]
  BY <1>2 DEF HeapTyped
<1> HIDE DEF old
<1>7. /\ heap' = [m \in DOMAIN heap \cup {n} |-> heap'[m]]
      /\ DOMAIN heap' = DOMAIN heap \cup {n}
      /\ heap'[n] = new
      /\ \A m \in DOMAIN heap : heap'[m] = old[m]
  BY <1>1, <1>6 DEF withNode, new, old
<1>8. \A m \in DOMAIN heap :
        /\ heap'[m] \in node_t
        /\ heap'[m].value = heap[m].value
        /\ heap'[m].previous = heap[m].previous
        /\ heap'[m].next = IF ~ is_empty_list /\ m = back THEN n ELSE heap[m].next
  BY <1>2, <1>7, <1>6 DEF node_t
<1>9. HeapTyped'
  BY <1>5, <1>7, <1>8 DEF HeapTyped
<1>10. KeepsValues
  BY <1>8 DEF KeepsValues
<1>11. Represents(t)'
  <2>1. Distinct(t)
    BY <1>2, <1>3 DEF Distinct
  <2>2. DOMAIN heap' = {t[i] : i \in 1 .. Len(t)}
    <3>1. \A i \in 1 .. Len(t) : t[i] \in DOMAIN heap'
      BY <1>2, <1>3, <1>7
    <3>2. \A m \in DOMAIN heap' : \E i \in 1 .. Len(t) : m = t[i]
      BY <1>2, <1>3, <1>7
    <3> QED
      BY <3>1, <3>2
  <2>3. front' = IF Len(t) = 0 THEN NULL ELSE t[1]
    BY <1>1, <1>2, <1>3, <1>4
  <2>4. back' = IF Len(t) = 0 THEN NULL ELSE t[Len(t)]
    BY <1>1, <1>2, <1>3
  <2>5. \A i \in 1 .. Len(t) :
          /\ heap'[t[i]].next     = IF i = Len(t) THEN NULL ELSE t[i + 1]
          /\ heap'[t[i]].previous = IF i = 1 THEN NULL ELSE t[i - 1]
    <3> SUFFICES ASSUME NEW i \in 1 .. Len(t)
                 PROVE  /\ heap'[t[i]].next     = IF i = Len(t) THEN NULL ELSE t[i + 1]
                        /\ heap'[t[i]].previous = IF i = 1 THEN NULL ELSE t[i - 1]
      OBVIOUS
    <3>1. CASE i = k + 1
      <4>1. heap'[t[i]].next = NULL /\ heap'[t[i]].previous = back
        BY <1>3, <1>5, <1>7, <3>1
      <4>2. back = IF i = 1 THEN NULL ELSE t[i - 1]
        BY <1>2, <1>3, <1>4, <3>1
      <4> QED
        BY <1>3, <3>1, <4>1, <4>2
    <3>2. CASE i # k + 1
      <4>1. i \in 1 .. k /\ t[i] = s[i] /\ ~ is_empty_list
        BY <1>2, <1>3, <3>2
      <4>2. /\ heap'[t[i]].previous = heap[s[i]].previous
            /\ heap'[t[i]].next = IF s[i] = back THEN n ELSE heap[s[i]].next
        BY <1>2, <1>8, <4>1
      <4>3. i # 1 => t[i - 1] = s[i - 1]
        <5>1. i # 1 => i - 1 \in 1 .. k
          BY <1>2, <4>1, Before
        <5> QED
          BY <1>3, <5>1
      <4>4. s[i] = back <=> i = k
        BY <1>2, <1>4, <4>1
      <4>5. t[i + 1] = IF i = k THEN n ELSE s[i + 1]
        BY <1>2, <1>3, <4>1
      <4>6. /\ heap[s[i]].next = IF i = k THEN NULL ELSE s[i + 1]
            /\ heap[s[i]].previous = IF i = 1 THEN NULL ELSE s[i - 1]
        BY <1>4, <4>1
      <4> QED
        BY <1>3, <3>2, <4>1, <4>2, <4>3, <4>4, <4>5, <4>6
    <3> QED
      BY <3>1, <3>2
  <2> QED
    BY <1>3, <2>1, <2>2, <2>3, <2>4, <2>5 DEF Represents, Distinct
<1> QED
  BY <1>5, <1>7, <1>9, <1>10, <1>11 DEF t

LEMMA PushFrontStep ==
  ASSUME HeapTyped, NEW s, Represents(s), NEW value \in Values, push_front(value)
  PROVE  /\ HeapTyped' /\ KeepsValues
         /\ \E n \in Nodes \ DOMAIN heap :
              Represents(<< n >> \o s)' /\ heap'[n].value = value
<1>1. PICK n \in Nodes \ DOMAIN heap :
        /\ heap' = withNode(IF is_empty_list THEN heap
                            ELSE [heap EXCEPT ![front].previous = n],
                            n, Node(value, NULL, front))
        /\ back' = IF is_empty_list THEN n ELSE back
        /\ front' = n
  BY DEF push_front
<1> DEFINE k == Len(s)
           t == << n >> \o s
           new == Node(value, NULL, front)
           old == IF is_empty_list THEN heap ELSE [heap EXCEPT ![front].previous = n]
<1>2. /\ s \in Seq(Nodes) /\ k \in Nat
      /\ \A i \in 1 .. k : s[i] \in Nodes /\ s[i] # NULL /\ s[i] \in DOMAIN heap
      /\ \A i, j \in 1 .. k : s[i] = s[j] => i = j
      /\ is_empty_list <=> k = 0
      /\ \A m \in DOMAIN heap : heap[m] \in node_t
      /\ \A m \in DOMAIN heap : \E i \in 1 .. k : m = s[i]
  BY Represented
<1>3. /\ t \in Seq(Nodes) /\ Len(t) = k + 1 /\ t[1] = n
      /\ \A i \in 1 .. k + 1 : i # 1 => i - 1 \in 1 .. k /\ t[i] = s[i - 1]
      /\ \A i \in 1 .. k : i + 1 \in 1 .. k + 1 /\ t[i + 1] = s[i]
  <2>1. << n >> \in Seq(Nodes) /\ Len(<< n >>) = 1 /\ << n >>[1] = n
    OBVIOUS
  <2> QED
    BY <1>2, <2>1, ConcatProperties, SMTT(30)
<1>4. /\ back = IF k = 0 THEN NULL ELSE s[k]
      /\ front = IF k = 0 THEN NULL ELSE s[1]
      /\ \A i \in 1 .. k : heap[s[i]].next = IF i = k THEN NULL ELSE s[i + 1]
      /\ \A i \in 1 .. k : heap[s[i]].previous = IF i = 1 THEN NULL ELSE s[i - 1]
  BY DEF Represents
<1>5. new \in node_t /\ new.value = value /\ new.previous = NULL /\ new.next = front
  BY <1>2, <1>4 DEF Node, node_t
<1> HIDE DEF new, t, k
<1>6. /\ DOMAIN old = DOMAIN heap
      /\ \A m \in DOMAIN heap :
           old[m] = IF ~ is_empty_list /\ m = front THEN [heap[m] EXCEPT !.previous = n]
                    ELSE heap[m]
  BY <1>2 DEF HeapTyped
<1> HIDE DEF old
<1>7. /\ heap' = [m \in DOMAIN heap \cup {n} |-> heap'[m]]
      /\ DOMAIN heap' = DOMAIN heap \cup {n}
      /\ heap'[n] = new
      /\ \A m \in DOMAIN heap : heap'[m] = old[m]
  BY <1>1, <1>6 DEF withNode, new, old
<1>8. \A m \in DOMAIN heap :
        /\ heap'[m] \in node_t
        /\ heap'[m].value = heap[m].value
        /\ heap'[m].next = heap[m].next
        /\ heap'[m].previous = IF ~ is_empty_list /\ m = front THEN n
                               ELSE heap[m].previous
  BY <1>2, <1>7, <1>6 DEF node_t
<1>9. HeapTyped'
  BY <1>5, <1>7, <1>8 DEF HeapTyped
<1>10. KeepsValues
  BY <1>8 DEF KeepsValues
<1>11. Represents(t)'
  <2>1. Distinct(t)
    <3> SUFFICES ASSUME NEW i \in 1 .. k + 1, NEW j \in 1 .. k + 1, t[i] = t[j]
                 PROVE  i = j
      BY <1>3 DEF Distinct
    <3>1. \A h \in 1 .. k + 1 : h # 1 => t[h] \in DOMAIN heap /\ t[h] # n
      <4> SUFFICES ASSUME NEW h \in 1 .. k + 1, h # 1 PROVE t[h] \in DOMAIN heap
        OBVIOUS
      <4>1. PICK g \in 1 .. k : t[h] = s[g]
        BY <1>3
      <4> QED
        BY <1>2, <4>1
    <3>2. CASE i = 1 \/ j = 1
      BY <1>2, <1>3, <3>1, <3>2
    <3>3. CASE i # 1 /\ j # 1
      <4>1. i - 1 = j - 1
        BY <1>2, <1>3, <3>3
      <4> QED
        BY <1>2, <4>1
    <3> QED
      BY <3>2, <3>3
  <2>2. DOMAIN heap' = {t[i] : i \in 1 .. Len(t)}
    <3>1. \A i \in 1 .. Len(t) : t[i] \in DOMAIN heap'
      <4>1. ASSUME NEW i \in 1 .. k + 1, i # 1 PROVE t[i] \in DOMAIN heap
        <5>1. PICK j \in 1 .. k : t[i] = s[j]
          BY <1>3, <4>1
        <5> QED
          BY <1>2, <5>1
      <4> QED
        BY <1>3, <1>7, <4>1
    <3>2. \A m \in DOMAIN heap' : \E i \in 1 .. Len(t) : m = t[i]
      BY <1>2, <1>3, <1>7
    <3> QED
      BY <3>1, <3>2
  <2>3. front' = IF Len(t) = 0 THEN NULL ELSE t[1]
    BY <1>1, <1>2, <1>3
  <2>4. back' = IF Len(t) = 0 THEN NULL ELSE t[Len(t)]
    BY <1>1, <1>2, <1>3, <1>4
  <2>5. \A i \in 1 .. Len(t) :
          /\ heap'[t[i]].next     = IF i = Len(t) THEN NULL ELSE t[i + 1]
          /\ heap'[t[i]].previous = IF i = 1 THEN NULL ELSE t[i - 1]
    <3> SUFFICES ASSUME NEW i \in 1 .. Len(t)
                 PROVE  /\ heap'[t[i]].next     = IF i = Len(t) THEN NULL ELSE t[i + 1]
                        /\ heap'[t[i]].previous = IF i = 1 THEN NULL ELSE t[i - 1]
      OBVIOUS
    <3>1. CASE i = 1
      <4>1. heap'[t[i]].previous = NULL /\ heap'[t[i]].next = front
        BY <1>3, <1>5, <1>7, <3>1
      <4>2. front = IF i = Len(t) THEN NULL ELSE t[i + 1]
        BY <1>2, <1>3, <1>4, <3>1
      <4> QED
        BY <3>1, <4>1, <4>2
    <3>2. CASE i # 1
      <4>1. PICK j \in 1 .. k : i = j + 1 /\ t[i] = s[j] /\ ~ is_empty_list
        BY <1>2, <1>3, <3>2
      <4>2. /\ heap'[t[i]].next = heap[s[j]].next
            /\ heap'[t[i]].previous = IF s[j] = front THEN n ELSE heap[s[j]].previous
        BY <1>2, <1>8, <4>1
      <4>3. i # Len(t) => t[i + 1] = s[j + 1]
        BY <1>2, <1>3, <4>1
      <4>4. s[j] = front <=> j = 1
        BY <1>2, <1>4, <4>1
      <4>5. t[i - 1] = IF j = 1 THEN n ELSE s[j - 1]
        <5>1. i - 1 = j /\ j \in 1 .. k + 1
          BY <1>2, <4>1
        <5> QED
          BY <1>3, <5>1
      <4>6. /\ heap[s[j]].next = IF i = Len(t) THEN NULL ELSE s[j + 1]
            /\ heap[s[j]].previous = IF j = 1 THEN NULL ELSE s[j - 1]
        <5>1. i = Len(t) <=> j = k
          BY <1>2, <1>3, <4>1
        <5> QED
          BY <1>4, <5>1
      <4> QED
        BY <3>2, <4>1, <4>2, <4>3, <4>4, <4>5, <4>6
    <3> QED
      BY <3>1, <3>2
  <2> QED
    BY <1>3, <2>1, <2>2, <2>3, <2>4, <2>5 DEF Represents, Distinct
<1> QED
  BY <1>5, <1>7, <1>9, <1>10, <1>11 DEF t

(* Clearing frees the nodes that the walk from the front meets: all.       *)
LEMMA ClearStep ==
  ASSUME HeapTyped, NEW s, Represents(s), clear_list
  PROVE  HeapTyped' /\ KeepsValues /\ Represents(<< >>)'
<1>1. ToSet(Chain(front, "next")) = DOMAIN heap
  BY Walks
<1>2. heap' = [n \in {} |-> heap[n]]
  BY <1>1 DEF clear_list, freeNodes
<1>3. DOMAIN heap' = {} /\ heap' = [n \in {} |-> heap'[n]]
  BY <1>2
<1>4. HeapTyped' /\ KeepsValues
  BY <1>3 DEF HeapTyped, KeepsValues
<1>5. Represents(<< >>)'
  <2>1. front' = NULL /\ back' = NULL
    BY DEF clear_list
  <2> QED
    BY <1>3, <2>1 DEF Represents, Distinct
<1> QED
  BY <1>4, <1>5

LEMMA FrontElements ==
  ASSUME NEW S, NEW s \in Seq(S), Len(s) # 0
  PROVE  LET k == Len(s)
         IN  /\ Front(s) \in Seq(S) /\ Len(Front(s)) = k - 1
             /\ \A i \in 1 .. k - 1 : Front(s)[i] = s[i]
<1> DEFINE k == Len(s)
           t == SubSeq(s, 1, k - 1)
<1>1. k \in Nat /\ \A i \in 1 .. k : s[i] \in S
  BY LenProperties, ElementOfSeq
<1>2. 1 \in Int /\ k - 1 \in Int /\ \A i \in 1 .. k - 1 : s[i] \in S
  BY <1>1
<1>3. /\ t \in Seq(S)
      /\ Len(t) = IF 1 <= k - 1 THEN (k - 1) - 1 + 1 ELSE 0
      /\ \A i \in 1 .. (k - 1) - 1 + 1 : t[i] = s[1 + i - 1]
  BY <1>2, SubSeqProperties
<1>4. (k - 1) - 1 + 1 = k - 1 /\ \A i \in 1 .. k - 1 : 1 + i - 1 = i
  BY <1>1
<1>5. Front(s) = t
  BY DEF Front
<1> HIDE DEF t
<1>6. t \in Seq(S) /\ Len(t) = k - 1 /\ \A i \in 1 .. k - 1 : t[i] = s[i]
  <2>1. k # 0
    OBVIOUS
  <2> HIDE DEF k
  <2> QED
    BY <1>1, <1>3, <1>4, <2>1
<1> QED
  BY <1>5, <1>6

LEMMA PopBackStep ==
  ASSUME HeapTyped, NEW s, Represents(s), pop_back
  PROVE  s # << >> /\ HeapTyped' /\ KeepsValues /\ Represents(Front(s))'
<1> DEFINE k == Len(s)
           t == Front(s)
<1>1. /\ s \in Seq(Nodes) /\ k \in Nat
      /\ \A i \in 1 .. k : s[i] \in Nodes /\ s[i] # NULL /\ s[i] \in DOMAIN heap
      /\ \A i, j \in 1 .. k : s[i] = s[j] => i = j
      /\ is_empty_list <=> k = 0
      /\ \A m \in DOMAIN heap : heap[m] \in node_t
      /\ \A m \in DOMAIN heap : \E i \in 1 .. k : m = s[i]
  BY Represented
<1>2. k \in Nat /\ k # 0 /\ s \in Seq(Nodes) /\ s # << >>
  BY <1>1 DEF pop_back
<1>3. t \in Seq(Nodes) /\ Len(t) = k - 1 /\ \A i \in 1 .. k - 1 : t[i] = s[i]
  BY <1>2, FrontElements
<1> HIDE DEF t, k
<1>4. /\ back = s[k] /\ front = s[1]
      /\ \A i \in 1 .. k : heap[s[i]].next = IF i = k THEN NULL ELSE s[i + 1]
      /\ \A i \in 1 .. k : heap[s[i]].previous = IF i = 1 THEN NULL ELSE s[i - 1]
  BY <1>2 DEF Represents, k
<1>5. CASE front = back
  <2>1. k = 1
    <3>1. 1 \in 1 .. k /\ k \in 1 .. k
      BY <1>2
    <3> QED
      BY <1>1, <1>4, <1>5, <3>1
  <2>2. t = << >>
    BY <1>3, <2>1
  <2>3. clear_list
    BY <1>5 DEF pop_back
  <2> QED
    BY <1>2, <2>2, <2>3, ClearStep DEF t, k
<1>6. CASE front # back
  <2> DEFINE last == s[k - 1]
             cut  == [heap EXCEPT ![last].next = NULL]
  <2>1. k > 1 /\ s[k - 1] \in DOMAIN heap /\ s[k - 1] # s[k]
    <3>1. k # 1
      BY <1>4, <1>6
    <3> QED
      BY <1>1, <1>2, <3>1
  <2>2. back' = last /\ front' = front
    <3>1. heap[s[k]].previous = s[k - 1]
      BY <1>2, <1>4, <2>1
    <3> QED
      BY <1>4, <1>6, <3>1 DEF pop_back
  <2>3. heap' = freeNodes(cut, {back})
    BY <1>6, <2>2 DEF pop_back
  <2>4. /\ DOMAIN cut = DOMAIN heap
        /\ \A m \in DOMAIN heap :
             cut[m] = IF m = last THEN [heap[m] EXCEPT !.next = NULL] ELSE heap[m]
    BY <2>1 DEF HeapTyped
  <2> HIDE DEF cut
  <2>5. /\ DOMAIN heap' = DOMAIN heap \ {back}
        /\ heap' = [m \in DOMAIN heap \ {back} |-> heap'[m]]
        /\ \A m \in DOMAIN heap \ {back} : heap'[m] = cut[m]
    BY <2>3, <2>4 DEF freeNodes
  <2>6. \A m \in DOMAIN heap \ {back} :
          /\ heap'[m] \in node_t
          /\ heap'[m].value = heap[m].value
          /\ heap'[m].previous = heap[m].previous
          /\ heap'[m].next = IF m = last THEN NULL ELSE heap[m].next
    BY <1>1, <2>4, <2>5 DEF node_t
  <2>7. HeapTyped' /\ KeepsValues
    BY <2>5, <2>6 DEF HeapTyped, KeepsValues
  <2>8. Represents(t)'
    <3>1. Distinct(t)
      BY <1>1, <1>2, <1>3 DEF Distinct
    <3>2. DOMAIN heap' = {t[i] : i \in 1 .. Len(t)}
      <4>1. ASSUME NEW i \in 1 .. k - 1 PROVE t[i] \in DOMAIN heap'
        <5>1. i \in 1 .. k /\ k \in 1 .. k /\ i # k /\ t[i] = s[i]
          BY <1>2, <1>3
        <5>2. s[i] \in DOMAIN heap /\ s[i] # s[k]
          BY <1>1, <5>1
        <5> QED
          BY <1>4, <2>5, <5>1, <5>2
      <4>2. ASSUME NEW m \in DOMAIN heap'
            PROVE  \E i \in 1 .. k - 1 : m = t[i]
        <5>1. PICK i \in 1 .. k : m = s[i]
          BY <1>1, <2>5
        <5>2. i # k
          BY <1>4, <2>5, <5>1
        <5> QED
          BY <1>2, <1>3, <5>1, <5>2
      <4> QED
        BY <1>3, <4>1, <4>2
    <3>3. front' = t[1] /\ back' = t[k - 1]
      BY <1>2, <1>3, <1>4, <2>1, <2>2
    <3>4. \A i \in 1 .. Len(t) :
            /\ heap'[t[i]].next     = IF i = Len(t) THEN NULL ELSE t[i + 1]
            /\ heap'[t[i]].previous = IF i = 1 THEN NULL ELSE t[i - 1]
      <4> SUFFICES ASSUME NEW i \in 1 .. k - 1
                   PROVE  /\ heap'[t[i]].next = IF i = k - 1 THEN NULL ELSE t[i + 1]
                          /\ heap'[t[i]].previous = IF i = 1 THEN NULL ELSE t[i - 1]
        BY <1>3
      <4>1. i \in 1 .. k /\ i # k /\ t[i] = s[i]
        BY <1>2, <1>3
      <4>2. i # k - 1 => t[i + 1] = s[i + 1]
        BY <1>2, <1>3
      <4>3. i # 1 => t[i - 1] = s[i - 1]
        BY <1>2, <1>3
      <4>4. s[i] \in DOMAIN heap \ {back} /\ (s[i] = last <=> i = k - 1)
        <5>1. k \in 1 .. k /\ k - 1 \in 1 .. k
          BY <1>2, <2>1
        <5>2. s[i] \in DOMAIN heap /\ s[i] # s[k] /\ (s[i] = s[k - 1] <=> i = k - 1)
          BY <1>1, <4>1, <5>1
        <5> QED
          BY <1>4, <5>2
      <4>5. /\ heap[s[i]].next = s[i + 1]
            /\ heap[s[i]].previous = IF i = 1 THEN NULL ELSE s[i - 1]
        BY <1>4, <4>1
      <4> QED
        BY <2>6, <4>1, <4>2, <4>3, <4>4, <4>5
    <3> QED
      BY <1>3, <2>1, <3>1, <3>2, <3>3, <3>4 DEF Represents
  <2> QED
    BY <1>2, <2>7, <2>8 DEF t
<1> QED
  BY <1>5, <1>6

LEMMA PopFrontStep ==
  ASSUME HeapTyped, NEW s, Represents(s), pop_front
  PROVE  s # << >> /\ HeapTyped' /\ KeepsValues /\ Represents(Tail(s))'
<1> DEFINE k == Len(s)
           t == Tail(s)
<1>1. /\ s \in Seq(Nodes) /\ k \in Nat
      /\ \A i \in 1 .. k : s[i] \in Nodes /\ s[i] # NULL /\ s[i] \in DOMAIN heap
      /\ \A i, j \in 1 .. k : s[i] = s[j] => i = j
      /\ is_empty_list <=> k = 0
      /\ \A m \in DOMAIN heap : heap[m] \in node_t
      /\ \A m \in DOMAIN heap : \E i \in 1 .. k : m = s[i]
  BY Represented
<1>2. k \in Nat /\ k # 0 /\ s \in Seq(Nodes) /\ s # << >>
  BY <1>1 DEF pop_front
<1>3. t \in Seq(Nodes) /\ Len(t) = k - 1 /\ \A i \in 1 .. k - 1 : t[i] = s[i + 1]
  <2>1. s # << >>
    BY <1>2
  <2> QED
    BY <1>2, <2>1, HeadTailProperties
<1> HIDE DEF t, k
<1>4. /\ back = s[k] /\ front = s[1]
      /\ \A i \in 1 .. k : heap[s[i]].next = IF i = k THEN NULL ELSE s[i + 1]
      /\ \A i \in 1 .. k : heap[s[i]].previous = IF i = 1 THEN NULL ELSE s[i - 1]
  BY <1>2 DEF Represents, k
<1>5. CASE front = back
  <2>1. k = 1
    <3>1. 1 \in 1 .. k /\ k \in 1 .. k
      BY <1>2
    <3> QED
      BY <1>1, <1>4, <1>5, <3>1
  <2>2. t = << >>
    BY <1>3, <2>1
  <2>3. clear_list
    BY <1>5 DEF pop_front
  <2> QED
    BY <1>2, <2>2, <2>3, ClearStep DEF t, k
<1>6. CASE front # back
  <2> DEFINE last == s[2]
             cut  == [heap EXCEPT ![last].previous = NULL]
  <2>1. k > 1 /\ s[2] \in DOMAIN heap /\ s[2] # s[1]
    <3>1. k # 1
      BY <1>4, <1>6
    <3> QED
      BY <1>1, <1>2, <3>1
  <2>2. front' = last /\ back' = back
    <3>1. heap[s[1]].next = s[2]
      BY <1>2, <1>4, <2>1
    <3> QED
      BY <1>4, <1>6, <3>1 DEF pop_front
  <2>3. heap' = freeNodes(cut, {front})
    BY <1>6, <2>2 DEF pop_front
  <2>4. /\ DOMAIN cut = DOMAIN heap
        /\ \A m \in DOMAIN heap :
             cut[m] = IF m = last THEN [heap[m] EXCEPT !.previous = NULL] ELSE heap[m]
    BY <2>1 DEF HeapTyped
  <2> HIDE DEF cut
  <2>5. /\ DOMAIN heap' = DOMAIN heap \ {front}
        /\ heap' = [m \in DOMAIN heap \ {front} |-> heap'[m]]
        /\ \A m \in DOMAIN heap \ {front} : heap'[m] = cut[m]
    BY <2>3, <2>4 DEF freeNodes
  <2>6. \A m \in DOMAIN heap \ {front} :
          /\ heap'[m] \in node_t
          /\ heap'[m].value = heap[m].value
          /\ heap'[m].next = heap[m].next
          /\ heap'[m].previous = IF m = last THEN NULL ELSE heap[m].previous
    BY <1>1, <2>4, <2>5 DEF node_t
  <2>7. HeapTyped' /\ KeepsValues
    BY <2>5, <2>6 DEF HeapTyped, KeepsValues
  <2>8. Represents(t)'
    <3>1. Distinct(t)
      BY <1>1, <1>2, <1>3 DEF Distinct
    <3>2. DOMAIN heap' = {t[i] : i \in 1 .. Len(t)}
      <4>1. ASSUME NEW i \in 1 .. k - 1 PROVE t[i] \in DOMAIN heap'
        <5>1. i + 1 \in 1 .. k /\ 1 \in 1 .. k /\ i + 1 # 1 /\ t[i] = s[i + 1]
          BY <1>2, <1>3
        <5>2. s[i + 1] \in DOMAIN heap /\ s[i + 1] # s[1]
          BY <1>1, <5>1
        <5> QED
          BY <1>4, <2>5, <5>1, <5>2
      <4>2. ASSUME NEW m \in DOMAIN heap'
            PROVE  \E i \in 1 .. k - 1 : m = t[i]
        <5>1. PICK j \in 1 .. k : m = s[j]
          BY <1>1, <2>5
        <5>2. j # 1
          BY <1>4, <2>5, <5>1
        <5>3. j - 1 \in 1 .. k - 1 /\ (j - 1) + 1 = j
          BY <1>2, <5>2
        <5>4. t[j - 1] = s[j]
          BY <1>3, <5>3
        <5> QED
          BY <5>1, <5>3, <5>4
      <4> QED
        BY <1>3, <4>1, <4>2
    <3>3. front' = t[1] /\ back' = t[k - 1]
      BY <1>2, <1>3, <1>4, <2>1, <2>2
    <3>4. \A i \in 1 .. Len(t) :
            /\ heap'[t[i]].next     = IF i = Len(t) THEN NULL ELSE t[i + 1]
            /\ heap'[t[i]].previous = IF i = 1 THEN NULL ELSE t[i - 1]
      <4> SUFFICES ASSUME NEW i \in 1 .. k - 1
                   PROVE  /\ heap'[t[i]].next = IF i = k - 1 THEN NULL ELSE t[i + 1]
                          /\ heap'[t[i]].previous = IF i = 1 THEN NULL ELSE t[i - 1]
        BY <1>3
      <4>1. PICK j \in 1 .. k : j = i + 1 /\ j # 1 /\ t[i] = s[j]
        BY <1>2, <1>3
      <4>2. i # k - 1 => t[i + 1] = s[j + 1]
        BY <1>2, <1>3, <4>1
      <4>3. i # 1 => t[i - 1] = s[j - 1]
        <5> SUFFICES ASSUME i # 1 PROVE t[i - 1] = s[j - 1]
          OBVIOUS
        <5>1. i - 1 \in 1 .. k - 1 /\ (i - 1) + 1 = j - 1
          BY <1>2, <4>1
        <5> QED
          BY <1>3, <5>1
      <4>4. s[j] \in DOMAIN heap \ {front} /\ (s[j] = last <=> j = 2)
        <5>1. 1 \in 1 .. k /\ 2 \in 1 .. k
          BY <1>2, <2>1
        <5>2. s[j] \in DOMAIN heap /\ s[j] # s[1] /\ (s[j] = s[2] <=> j = 2)
          BY <1>1, <4>1, <5>1
        <5> QED
          BY <1>4, <5>2
      <4>5. /\ heap[s[j]].next = IF j = k THEN NULL ELSE s[j + 1]
            /\ heap[s[j]].previous = s[j - 1]
        BY <1>4, <4>1
      <4>6. (j = k <=> i = k - 1) /\ (j = 2 <=> i = 1)
        BY <1>2, <4>1
      <4> QED
        BY <2>6, <4>1, <4>2, <4>3, <4>4, <4>5, <4>6
    <3> QED
      BY <1>3, <2>1, <3>1, <3>2, <3>3, <3>4 DEF Represents
  <2> QED
    BY <1>2, <2>7, <2>8 DEF t
<1> QED
  BY <1>5, <1>6

(* Taking an element to the end moves those behind it one place forward.   *)
LEMMA MovedToEnd ==
  ASSUME NEW S, NEW s \in Seq(S), NEW j \in 1 .. Len(s)
  PROVE  LET k == Len(s)
             t == Append(RemoveAt(s, j), s[j])
         IN  /\ t \in Seq(S) /\ Len(t) = k
             /\ t[k] = s[j]
             /\ \A i \in 1 .. k - 1 :
                  t[i] = IF i < j THEN s[i] ELSE s[i + 1]
<1> DEFINE k == Len(s)
           head == SubSeq(s, 1, j - 1)
           tail == SubSeq(s, j + 1, k)
           rest == RemoveAt(s, j)
           t == Append(rest, s[j])
<1>1. k \in Nat /\ j \in 1 .. k /\ \A i \in 1 .. k : s[i] \in S
  BY LenProperties, ElementOfSeq
<1>2. /\ head \in Seq(S)
      /\ Len(head) = j - 1
      /\ \A i \in 1 .. j - 1 : head[i] = s[i]
  <2>1. 1 \in Int /\ j - 1 \in Int /\ \A i \in 1 .. j - 1 : s[i] \in S
    BY <1>1
  <2>2. /\ head \in Seq(S)
        /\ Len(head) = IF 1 <= j - 1 THEN (j - 1) - 1 + 1 ELSE 0
        /\ \A i \in 1 .. (j - 1) - 1 + 1 : head[i] = s[1 + i - 1]
    BY <2>1, SubSeqProperties
  <2>3. (j - 1) - 1 + 1 = j - 1 /\ \A i \in 1 .. j - 1 : 1 + i - 1 = i
    BY <1>1
  <2> HIDE DEF head
  <2> QED
    BY <1>1, <2>2, <2>3
<1>3. /\ tail \in Seq(S)
      /\ Len(tail) = k - j
      /\ \A i \in 1 .. k - j : tail[i] = s[j + i]
  <2>1. j + 1 \in Int /\ k \in Int /\ \A i \in j + 1 .. k : s[i] \in S
    BY <1>1
  <2>2. /\ tail \in Seq(S)
        /\ Len(tail) = IF j + 1 <= k THEN k - (j + 1) + 1 ELSE 0
        /\ \A i \in 1 .. k - (j + 1) + 1 : tail[i] = s[(j + 1) + i - 1]
    <3> HIDE DEF k
    <3> QED
      BY <2>1, SubSeqProperties
  <2>3. k - (j + 1) + 1 = k - j /\ \A i \in 1 .. k - j : (j + 1) + i - 1 = j + i
    BY <1>1
  <2> HIDE DEF tail, k
  <2> QED
    BY <1>1, <2>2, <2>3
<1>4. rest = head \o tail
  BY DEF RemoveAt
<1> HIDE DEF head, tail, rest, k
<1>5. /\ rest \in Seq(S) /\ Len(rest) = k - 1
      /\ \A i \in 1 .. k - 1 :
           rest[i] = IF i < j THEN s[i] ELSE s[i + 1]
  <2>1. /\ head \o tail \in Seq(S)
        /\ Len(head \o tail) = (j - 1) + (k - j)
        /\ \A i \in 1 .. (j - 1) + (k - j) :
             (head \o tail)[i] = IF i <= j - 1 THEN head[i] ELSE tail[i - (j - 1)]
    <3>1. /\ head \o tail \in Seq(S)
          /\ Len(head \o tail) = Len(head) + Len(tail)
          /\ \A i \in 1 .. Len(head) + Len(tail) :
               (head \o tail)[i] =
                 IF i <= Len(head) THEN head[i] ELSE tail[i - Len(head)]
      BY <1>2, <1>3, ConcatProperties
    <3> QED
      BY <1>2, <1>3, <3>1
  <2>2. (j - 1) + (k - j) = k - 1
    BY <1>1
  <2>3. ASSUME NEW i \in 1 .. k - 1
        PROVE  rest[i] = IF i < j THEN s[i] ELSE s[i + 1]
    <3>1. CASE i < j
      BY <1>1, <1>2, <1>4, <2>1, <2>2, <3>1
    <3>2. CASE ~ (i < j)
      <4>1. i - (j - 1) \in 1 .. k - j /\ j + (i - (j - 1)) = i + 1
        BY <1>1, <3>2
      <4>2. rest[i] = tail[i - (j - 1)]
        BY <1>1, <1>4, <2>1, <2>2, <3>2
      <4> QED
        BY <1>3, <3>2, <4>1, <4>2
    <3> QED
      BY <3>1, <3>2
  <2> QED
    BY <1>4, <2>1, <2>2, <2>3
<1>6. /\ t \in Seq(S) /\ Len(t) = k - 1 + 1 /\ t[k - 1 + 1] = s[j]
      /\ \A i \in 1 .. k - 1 : t[i] = rest[i]
  BY <1>1, <1>5, AppendProperties
<1>7. k - 1 + 1 = k
  BY <1>1
<1> QED
  BY <1>5, <1>6, <1>7 DEF rest, k

LEMMA MoveBackStep ==
  ASSUME HeapTyped, NEW s, Represents(s), NEW n \in DOMAIN heap, move_back(n)
  PROVE  \/ UNCHANGED list_vars
         \/ /\ HeapTyped' /\ KeepsValues
            /\ \E j \in 1 .. Len(s) : Represents(Append(RemoveAt(s, j), s[j]))'
<1> DEFINE k == Len(s)
<1>1. /\ s \in Seq(Nodes) /\ k \in Nat
      /\ \A i \in 1 .. k : s[i] \in Nodes /\ s[i] # NULL /\ s[i] \in DOMAIN heap
      /\ \A i, j \in 1 .. k : s[i] = s[j] => i = j
      /\ \A m \in DOMAIN heap : heap[m] \in node_t
      /\ \A m \in DOMAIN heap : \E i \in 1 .. k : m = s[i]
  BY Represented
<1>2. PICK j \in 1 .. k : n = s[j]
  BY <1>1
<1> DEFINE t == Append(RemoveAt(s, j), s[j])
<1>3. /\ t \in Seq(Nodes) /\ Len(t) = k /\ t[k] = n
      /\ \A i \in 1 .. k - 1 : t[i] = IF i < j THEN s[i] ELSE s[i + 1]
  <2>1. s \in Seq(Nodes) /\ j \in 1 .. Len(s)
    BY <1>1
  <2>2. /\ t \in Seq(Nodes) /\ Len(t) = k /\ t[k] = s[j]
        /\ \A i \in 1 .. k - 1 : t[i] = IF i < j THEN s[i] ELSE s[i + 1]
    BY ONLY <2>1, MovedToEnd DEF t, k
  <2> QED
    BY <1>2, <2>2
<1> HIDE DEF t, k
<1>4. /\ back = s[k] /\ front = s[1]
      /\ \A i \in 1 .. k : heap[s[i]].next = IF i = k THEN NULL ELSE s[i + 1]
      /\ \A i \in 1 .. k : heap[s[i]].previous = IF i = 1 THEN NULL ELSE s[i - 1]
  <2>1. k # 0
    BY <1>1, <1>2
  <2> QED
    BY <2>1 DEF Represents, k
<1>5. CASE front = back \/ n = back \/ heap[n].next = NULL
  BY <1>5 DEF move_back
<1>6. CASE ~ (front = back \/ n = back \/ heap[n].next = NULL)
  <2> DEFINE before == heap[n].previous
             after  == heap[n].next
             next(m) == IF m = n THEN NULL ELSE IF m = back THEN n
                        ELSE IF m = before THEN after ELSE heap[m].next
             previous(m) == IF m = n THEN back
                            ELSE IF m = after THEN before ELSE heap[m].previous
  <2>1. j < k /\ j + 1 \in 1 .. k /\ 1 \in 1 .. k /\ k \in 1 .. k
    <3>1. j # k
      BY <1>2, <1>4, <1>6
    <3>2. k \in Nat /\ j \in 1 .. k
      BY <1>1
    <3> QED
      BY ONLY <3>1, <3>2, SMT
  <2>2. after = s[j + 1] /\ before = IF j = 1 THEN NULL ELSE s[j - 1]
    BY <1>2, <1>4, <2>1
  <2>3. /\ front' = IF before = NULL THEN after ELSE front
        /\ back' = n
        /\ heap' = [m \in DOMAIN heap |->
                      [heap[m] EXCEPT !.next = next(m), !.previous = previous(m)]]
    BY <1>6 DEF move_back
  <2> HIDE DEF before, after
  <2>4. \A m \in DOMAIN heap :
          next(m) \in Nodes \cup {NULL} /\ previous(m) \in Nodes \cup {NULL}
    <3>1. after \in Nodes /\ before \in Nodes \cup {NULL} /\ back \in Nodes /\ n \in Nodes
      <4>1. j # 1 => j - 1 \in 1 .. k
        BY <1>1, <2>1
      <4>2. before \in Nodes \cup {NULL}
        BY <1>1, <2>2, <4>1
      <4> QED
        BY <1>1, <1>2, <1>4, <2>1, <2>2, <4>2
    <3> QED
      BY <1>1, <3>1 DEF node_t
  <2> HIDE DEF next, previous
  <2>5. /\ DOMAIN heap' = DOMAIN heap
        /\ heap' = [m \in DOMAIN heap |-> heap'[m]]
        /\ \A m \in DOMAIN heap :
             heap'[m] = [heap[m] EXCEPT !.next = next(m), !.previous = previous(m)]
    BY <2>3
  <2>6. \A m \in DOMAIN heap :
          /\ heap'[m] \in node_t
          /\ heap'[m].value = heap[m].value
          /\ heap'[m].next = next(m)
          /\ heap'[m].previous = previous(m)
    <3> TAKE m \in DOMAIN heap
    <3>1. PICK a \in Nodes \cup {NULL}, b \in Nodes \cup {NULL} :
            a = next(m) /\ b = previous(m)
      BY <2>4
    <3>2. heap'[m] = [heap[m] EXCEPT !.next = a, !.previous = b]
      BY <2>5, <3>1
    <3>3. heap[m] \in node_t
      BY <1>1
    <3> QED
      BY <3>1, <3>2, <3>3 DEF node_t
  <2>7. HeapTyped' /\ KeepsValues
    BY <2>5, <2>6 DEF HeapTyped, KeepsValues
\* The links of the node at place g before the call.
  <2>8. ASSUME NEW g \in 1 .. k
        PROVE  /\ heap'[s[g]].next =
                    IF g = j THEN NULL ELSE IF g = k THEN n
                    ELSE IF g = j - 1 THEN s[j + 1] ELSE s[g + 1]
               /\ heap'[s[g]].previous =
                    IF g = j THEN s[k]
                    ELSE IF g = j + 1 THEN before
                    ELSE IF g = 1 THEN NULL ELSE s[g - 1]
    <3>1. s[g] \in DOMAIN heap /\ s[g] # NULL
      BY <1>1
    <3>2. /\ s[g] = n <=> g = j
          /\ s[g] = back <=> g = k
          /\ s[g] = after <=> g = j + 1
      BY <1>1, <1>2, <1>4, <2>1, <2>2
    <3>3. s[g] = before <=> g = j - 1
      <4>1. CASE j = 1
        BY <2>2, <3>1, <4>1
      <4>2. CASE j # 1
        <5>1. j - 1 \in 1 .. k /\ before = s[j - 1]
          BY <1>1, <2>1, <2>2, <4>2
        <5> QED
          BY <1>1, <5>1
      <4> QED
        BY <4>1, <4>2
    <3>4. /\ heap[s[g]].next = IF g = k THEN NULL ELSE s[g + 1]
          /\ heap[s[g]].previous = IF g = 1 THEN NULL ELSE s[g - 1]
      BY <1>4
    <3>5. next(s[g]) = IF g = j THEN NULL ELSE IF g = k THEN n
                       ELSE IF g = j - 1 THEN s[j + 1] ELSE s[g + 1]
      BY <2>2, <3>2, <3>3, <3>4 DEF next
    <3>6. previous(s[g]) = IF g = j THEN s[k]
                           ELSE IF g = j + 1 THEN before
                           ELSE IF g = 1 THEN NULL ELSE s[g - 1]
      BY <1>4, <3>2, <3>4 DEF previous
    <3> QED
      BY <2>6, <3>1, <3>5, <3>6
  <2>9. Represents(t)'
    <3>1. \A i \in 1 .. k : \E g \in 1 .. k :
            /\ i = k => g = j
            /\ i # k /\ i < j => g = i
            /\ i # k /\ ~ (i < j) => g = i + 1
            /\ t[i] = s[g]
      <4> TAKE i \in 1 .. k
      <4>1. CASE i = k
        BY <1>2, <1>3, <4>1
      <4>2. CASE i # k
        <5>1. i \in 1 .. k - 1 /\ i + 1 \in 1 .. k
          BY <1>1, <4>2
        <5> QED
          BY <1>3, <4>2, <5>1
      <4> QED
        BY <4>1, <4>2
    <3>2. Distinct(t)
      <4> SUFFICES ASSUME NEW a \in 1 .. k, NEW b \in 1 .. k, t[a] = t[b]
                   PROVE  a = b
        BY <1>3 DEF Distinct
      <4>1. PICK g \in 1 .. k :
              /\ a = k => g = j
              /\ a # k /\ a < j => g = a
              /\ a # k /\ ~ (a < j) => g = a + 1
              /\ t[a] = s[g]
        BY <3>1
      <4>2. PICK h \in 1 .. k :
              /\ b = k => h = j
              /\ b # k /\ b < j => h = b
              /\ b # k /\ ~ (b < j) => h = b + 1
              /\ t[b] = s[h]
        BY <3>1
      <4>3. g = h
        BY <1>1, <4>1, <4>2
      <4>4. /\ a = k => g = j
            /\ a # k /\ a < j => g = a
            /\ a # k /\ ~ (a < j) => g = a + 1
            /\ b = k => h = j
            /\ b # k /\ b < j => h = b
            /\ b # k /\ ~ (b < j) => h = b + 1
        BY <4>1, <4>2
      <4>5. k \in Nat /\ j < k
        BY <1>1, <2>1
      <4> QED
        BY <4>3, <4>4, <4>5
    <3>3. DOMAIN heap' = {t[i] : i \in 1 .. Len(t)}
      <4>1. \A i \in 1 .. k : t[i] \in DOMAIN heap'
        BY <1>1, <2>5, <3>1
      <4>2. ASSUME NEW m \in DOMAIN heap' PROVE \E i \in 1 .. k : m = t[i]
        <5>1. PICK g \in 1 .. k : m = s[g]
          BY <1>1, <2>5
        <5>2. CASE g = j
          BY <1>2, <1>3, <2>1, <5>1, <5>2
        <5>3. CASE g < j
          <6>1. g \in 1 .. k - 1
            BY <1>1, <2>1, <5>3
          <6> QED
            BY <1>1, <1>3, <5>1, <5>3, <6>1
        <5>4. CASE g > j
          <6>1. /\ g - 1 \in 1 .. k - 1 /\ g - 1 \in 1 .. k
                /\ ~ (g - 1 < j) /\ (g - 1) + 1 = g
            BY <1>1, <2>1, <5>4
          <6>2. t[g - 1] = s[g]
            BY <1>3, <6>1
          <6> QED
            BY <5>1, <6>1, <6>2
        <5> QED
          BY <1>1, <5>2, <5>3, <5>4
      <4> QED
        BY <1>3, <4>1, <4>2
    <3>4. front' = t[1] /\ back' = t[k]
      <4>1. t[1] = IF 1 < j THEN s[1] ELSE s[2]
        BY <1>1, <1>3, <2>1
      <4>2. before = NULL <=> j = 1
        <5>1. j # 1 => j - 1 \in 1 .. k
          BY <1>1, <2>1
        <5> QED
          BY <1>1, <2>2, <5>1
      <4>3. j = 1 => j + 1 = 2
        OBVIOUS
      <4>4. front' = IF j = 1 THEN s[j + 1] ELSE s[1]
        BY <1>4, <2>2, <2>3, <4>2
      <4>5. 1 < j <=> j # 1
        BY <1>1
      <4> QED
        BY <1>3, <2>3, <4>1, <4>3, <4>4, <4>5
    <3>5. \A i \in 1 .. k :
            /\ heap'[t[i]].next     = IF i = k THEN NULL ELSE t[i + 1]
            /\ heap'[t[i]].previous = IF i = 1 THEN NULL ELSE t[i - 1]
      <4> SUFFICES ASSUME NEW i \in 1 .. k
                   PROVE  /\ heap'[t[i]].next = IF i = k THEN NULL ELSE t[i + 1]
                          /\ heap'[t[i]].previous = IF i = 1 THEN NULL ELSE t[i - 1]
        OBVIOUS
      <4>1. PICK g \in 1 .. k :
              /\ i = k => g = j
              /\ i # k /\ i < j => g = i
              /\ i # k /\ ~ (i < j) => g = i + 1
              /\ t[i] = s[g]
        BY <3>1
      <4>2. /\ heap'[s[g]].next =
                 IF g = j THEN NULL ELSE IF g = k THEN n
                 ELSE IF g = j - 1 THEN s[j + 1] ELSE s[g + 1]
            /\ heap'[s[g]].previous =
                 IF g = j THEN s[k]
                 ELSE IF g = j + 1 THEN before
                 ELSE IF g = 1 THEN NULL ELSE s[g - 1]
        BY <2>8
      <4>3. i # k => t[i + 1] = IF i + 1 = k THEN n
                                ELSE IF i + 1 < j THEN s[i + 1] ELSE s[i + 2]
        <5> SUFFICES ASSUME i # k
                     PROVE  t[i + 1] = IF i + 1 = k THEN n
                                       ELSE IF i + 1 < j THEN s[i + 1] ELSE s[i + 2]
          OBVIOUS
        <5>1. CASE i + 1 = k
          BY <1>3, <5>1
        <5>2. CASE i + 1 # k
          <6>1. i \in Nat /\ k \in Nat /\ 1 <= i /\ i <= k /\ i # k
            BY <1>1
          <6>2. i + 1 \in 1 .. k - 1 /\ (i + 1) + 1 = i + 2
            BY ONLY <5>2, <6>1
          <6> QED
            BY <1>3, <5>2, <6>2
        <5> QED
          BY <5>1, <5>2
      <4>4. i # 1 => t[i - 1] = IF i - 1 < j THEN s[i - 1] ELSE s[i]
        <5> SUFFICES ASSUME i # 1
                     PROVE  t[i - 1] = IF i - 1 < j THEN s[i - 1] ELSE s[i]
          OBVIOUS
        <5>1. i - 1 \in 1 .. k - 1 /\ (i - 1) + 1 = i
          BY <1>1, Before
        <5> QED
          BY <1>3, <5>1
      <4>5. CASE i = k
        <5>1. g = j /\ i # 1 /\ ~ (i - 1 < j)
          BY <1>1, <2>1, <4>1, <4>5
        <5> QED
          BY <4>1, <4>2, <4>4, <4>5, <5>1
      <4>6. CASE i # k /\ i < j
        <5>1. /\ g = i /\ g # j /\ g # k /\ g # j + 1 /\ i - 1 < j /\ i + 1 # k
              /\ (g = j - 1 <=> ~ (i + 1 < j))
              /\ (g = j - 1 => i + 2 = j + 1)
          <6>1. g = i
            BY <4>1, <4>6
          <6>2. i \in Nat /\ j \in Nat /\ k \in Nat /\ j < k /\ i < j
            BY <1>1, <2>1, <4>6
          <6> QED
            BY ONLY <6>1, <6>2
        <5> QED
          BY <4>1, <4>2, <4>3, <4>4, <4>6, <5>1
      <4>7. CASE i # k /\ ~ (i < j)
        <5>1. /\ g = i + 1 /\ g # j /\ g # 1 /\ g # j - 1 /\ ~ (i + 1 < j)
              /\ g + 1 = i + 2 /\ g - 1 = i
              /\ g = k <=> i + 1 = k
              /\ g = j + 1 <=> i = j
              /\ i - 1 < j <=> i = j
          <6>1. g = i + 1
            BY <4>1, <4>7
          <6>2. /\ i \in Nat /\ j \in Nat /\ k \in Nat /\ 1 <= i /\ 1 <= j
                /\ i # k /\ ~ (i < j)
            BY <1>1, <4>7
          <6> QED
            BY ONLY <6>1, <6>2
        <5>2. before = IF j = 1 THEN NULL ELSE s[j - 1]
          BY <2>2
        <5> QED
          BY <4>1, <4>2, <4>3, <4>4, <4>7, <5>1, <5>2
      <4> QED
        BY <4>5, <4>6, <4>7
    <3> QED
      BY <1>3, <2>1, <3>2, <3>3, <3>4, <3>5 DEF Represents
  <2> QED
    BY <1>2, <2>7, <2>9 DEF t, k
<1> QED
  BY <1>5, <1>6

LEMMA NextListInv == ListInv /\ [Next]_list_vars => ListInv'
<1> SUFFICES ASSUME ListInv, [Next]_list_vars PROVE ListInv'
  OBVIOUS
<1>1. PICK s : HeapTyped /\ Represents(s)
  BY DEF ListInv
<1>2. ASSUME NEW value \in Values, push_back(value) PROVE ListInv'
  BY <1>1, <1>2, PushBackStep DEF ListInv
<1>3. ASSUME NEW value \in Values, push_front(value) PROVE ListInv'
  BY <1>1, <1>3, PushFrontStep DEF ListInv
<1>4. CASE pop_back
  BY <1>1, <1>4, PopBackStep DEF ListInv
<1>5. CASE pop_front
  BY <1>1, <1>5, PopFrontStep DEF ListInv
<1>6. CASE clear_list
  BY <1>1, <1>6, ClearStep DEF ListInv
<1>7. CASE UNCHANGED list_vars
  BY <1>7 DEF list_vars, ListInv, HeapTyped, Represents
<1>8. ASSUME NEW n \in DOMAIN heap, move_back(n) PROVE ListInv'
  BY <1>1, <1>7, <1>8, MoveBackStep DEF ListInv
<1> QED
  BY <1>2, <1>3, <1>4, <1>5, <1>6, <1>7, <1>8 DEF Next, push_fails

LEMMA ListInvHolds == Spec => []ListInv
  BY InitListInv, NextListInv, PTL DEF Spec

(* The types of list.h, for every set of addresses and of values.          *)
THEOREM TypeCorrect == Spec => []TypeOK
<1>1. ListInv => TypeOK
  <2> SUFFICES ASSUME ListInv PROVE TypeOK
    OBVIOUS
  <2>1. PICK s : HeapTyped /\ Represents(s)
    BY DEF ListInv
  <2>2. front \in Nodes \cup {NULL} /\ back \in Nodes \cup {NULL}
    <3>1. Len(s) # 0 => 1 \in 1 .. Len(s) /\ Len(s) \in 1 .. Len(s)
      BY <2>1, Represented
    <3> QED
      BY <2>1, <3>1, Represented DEF Represents
  <2> QED
    BY <2>1, <2>2 DEF TypeOK, HeapTyped, node_t
<1> QED
  BY <1>1, ListInvHolds, PTL

(* Whatever calls were made, the list reads the same in both directions:   *)
(* a call never leaves a node with only one of its two links rewired.      *)
THEOREM ReadsBothWays == Spec => []SameBothWays
<1>1. ListInv => SameBothWays
  BY Walks DEF ListInv, SameBothWays
<1> QED
  BY <1>1, ListInvHolds, PTL

(* The nodes that were allocated and not freed are those of the list: no   *)
(* call loses one, and none frees one that the list still leads to.        *)
THEOREM NothingIsLost == Spec => []NothingLeaks
<1>1. ListInv => NothingLeaks
  BY Walks DEF ListInv, NothingLeaks
<1> QED
  BY <1>1, ListInvHolds, PTL

(***************************************************************************)
(* The refinement.  A represented sequence gives the cells of the deque,   *)
(* and a step that keeps values takes cells with it as they are.           *)
(***************************************************************************)
Cell == Nodes \X Values

CellsAre(s) ==
  /\ Contents \in Seq(Cell)
  /\ Len(Contents) = Len(s)
  /\ \A i \in 1 .. Len(s) : Contents[i] = << s[i], heap[s[i]].value >>

RepresentedCells == \A s : HeapTyped /\ Represents(s) => CellsAre(s)

LEMMA ContentsOf == RepresentedCells
<1> SUFFICES ASSUME NEW s, HeapTyped, Represents(s) PROVE CellsAre(s)
  BY DEF RepresentedCells
<1>1. Chain(front, "next") = s
  BY Walks
<1>2. /\ s \in Seq(Nodes) /\ Len(s) \in Nat /\ DOMAIN s = 1 .. Len(s)
      /\ \A i \in 1 .. Len(s) : s[i] \in DOMAIN heap /\ s[i] \in Nodes
      /\ \A m \in DOMAIN heap : heap[m] \in node_t
  BY Represented, LenProperties
<1>3. Contents = [i \in 1 .. Len(s) |-> << s[i], heap[s[i]].value >>]
  BY <1>1, <1>2 DEF Contents
<1>4. \A i \in 1 .. Len(s) : << s[i], heap[s[i]].value >> \in Cell
  BY <1>2 DEF Cell, node_t
<1>5. /\ Contents \in [1 .. Len(s) -> Cell]
      /\ \A i \in 1 .. Len(s) : Contents[i] = << s[i], heap[s[i]].value >>
  BY <1>3, <1>4
<1>6. Contents \in Seq(Cell)
  BY <1>2, <1>5, SeqDef
<1>7. Len(Contents) = Len(s)
  BY <1>2, <1>5, <1>6, LenProperties
<1> QED
  BY <1>5, <1>6, <1>7 DEF CellsAre

LEMMA ContentsAfter == RepresentedCells'
  BY ContentsOf, PTL

LEMMA DequeInit == Init => Queue!Init
<1> SUFFICES ASSUME Init PROVE Contents = << >>
  BY DEF Queue!Init
<1>1. DOMAIN heap = {} /\ HeapTyped /\ Represents(<< >>)
  BY DEF Init, HeapTyped, Represents, Distinct
<1>2. CellsAre(<< >>)
  BY <1>1, ContentsOf DEF RepresentedCells
<1> QED
  BY <1>2, EmptySeq DEF CellsAre

LEMMA DequeStep == ListInv /\ [Next]_list_vars => [Queue!Next]_Contents
<1> SUFFICES ASSUME ListInv, [Next]_list_vars PROVE [Queue!Next]_Contents
  OBVIOUS
<1>1. PICK s : HeapTyped /\ Represents(s)
  BY DEF ListInv
<1> DEFINE k == Len(s)
           V(m) == heap[m].value
<1>2. /\ s \in Seq(Nodes) /\ k \in Nat
      /\ \A i \in 1 .. k : s[i] \in Nodes /\ s[i] \in DOMAIN heap
      /\ \A m \in DOMAIN heap : heap[m] \in node_t
  BY <1>1, Represented
<1>3. /\ Contents \in Seq(Cell) /\ Len(Contents) = k
      /\ \A i \in 1 .. k : Contents[i] = << s[i], heap[s[i]].value >>
  BY <1>1, ContentsOf DEF RepresentedCells, CellsAre
\* A sequence after the step whose elements are these nodes.
<1>4. ASSUME NEW t, HeapTyped', Represents(t)', KeepsValues
      PROVE  /\ Contents' \in Seq(Cell) /\ Len(Contents') = Len(t)
             /\ \A i \in 1 .. Len(t) : Contents'[i] = << t[i], heap'[t[i]].value >>
             /\ \A i \in 1 .. Len(t) : t[i] \in DOMAIN heap'
             /\ \A i \in 1 .. Len(t) :
                  t[i] \in DOMAIN heap => Contents'[i] = << t[i], heap[t[i]].value >>
  <2>1. /\ Contents' \in Seq(Cell) /\ Len(Contents') = Len(t)
        /\ \A i \in 1 .. Len(t) : Contents'[i] = << t[i], heap'[t[i]].value >>
    BY <1>4, ContentsAfter DEF RepresentedCells, CellsAre
  <2>2. \A i \in 1 .. Len(t) : t[i] \in DOMAIN heap'
    BY <1>4 DEF Represents
  <2> QED
    BY <1>4, <2>1, <2>2 DEF KeepsValues
<1>5. CASE UNCHANGED list_vars
  BY <1>5 DEF list_vars, Contents, Chain
<1>6. \A n \in Nodes \ DOMAIN heap : n \in Queue!Fresh
  <2>1. \A c \in Queue!ToSet(Contents) : c[1] \in DOMAIN heap
    <3>1. DOMAIN Contents = 1 .. k
      BY <1>3, LenProperties
    <3> QED
      BY <1>2, <1>3, <3>1 DEF Queue!ToSet
  <2> QED
    BY <2>1 DEF Queue!Fresh
<1>7. ASSUME NEW value \in Values, push_back(value) PROVE Queue!PushBack
  <2>1. PICK n \in Nodes \ DOMAIN heap :
          /\ Represents(Append(s, n))' /\ heap'[n].value = value
          /\ HeapTyped' /\ KeepsValues
    BY <1>1, <1>7, PushBackStep
  <2> DEFINE t == Append(s, n)
             cells == Contents \o << << n, value >> >>
  <2>2. /\ t \in Seq(Nodes) /\ Len(t) = k + 1 /\ t[k + 1] = n
        /\ \A i \in 1 .. k : t[i] = s[i]
    BY <1>2, AppendProperties
  <2> HIDE DEF t
  <2>3. /\ Contents' \in Seq(Cell) /\ Len(Contents') = k + 1
        /\ Contents'[k + 1] = << n, value >>
        /\ \A i \in 1 .. k : Contents'[i] = << s[i], heap[s[i]].value >>
    <3>1. Represents(t)'
      BY <2>1 DEF t
    <3>2. /\ Contents' \in Seq(Cell) /\ Len(Contents') = k + 1
          /\ \A i \in 1 .. k + 1 : Contents'[i] = << t[i], heap'[t[i]].value >>
          /\ \A i \in 1 .. k + 1 :
               t[i] \in DOMAIN heap => Contents'[i] = << t[i], heap[t[i]].value >>
      BY <1>4, <2>1, <2>2, <3>1
    <3>3. k + 1 \in 1 .. k + 1 /\ \A i \in 1 .. k : i \in 1 .. k + 1
      BY <1>2
    <3> QED
      BY <1>2, <2>1, <2>2, <3>2, <3>3
  <2>4. /\ cells \in Seq(Cell) /\ Len(cells) = k + 1 /\ cells[k + 1] = << n, value >>
        /\ \A i \in 1 .. k : cells[i] = Contents[i]
    <3>1. << << n, value >> >> \in Seq(Cell) /\ Len(<< << n, value >> >>) = 1
      BY DEF Cell
    <3> QED
      BY <1>2, <1>3, <3>1, ConcatProperties
  <2> HIDE DEF cells
  <2>5. Contents' = cells
    <3>1. ASSUME NEW i \in 1 .. k + 1 PROVE Contents'[i] = cells[i]
      <4>1. CASE i = k + 1
        BY <2>3, <2>4, <4>1
      <4>2. CASE i # k + 1
        <5>1. i \in 1 .. k
          BY <1>2, <4>2
        <5> QED
          BY <1>3, <2>3, <2>4, <5>1
      <4> QED
        BY <4>1, <4>2
    <3> QED
      BY <2>3, <2>4, <3>1, SeqEqual
  <2> QED
    BY <1>6, <2>5 DEF Queue!PushBack, cells
<1>8. ASSUME NEW value \in Values, push_front(value) PROVE Queue!PushFront
  <2>1. PICK n \in Nodes \ DOMAIN heap :
          /\ Represents(<< n >> \o s)' /\ heap'[n].value = value
          /\ HeapTyped' /\ KeepsValues
    BY <1>1, <1>8, PushFrontStep
  <2> DEFINE t == << n >> \o s
             cells == << << n, value >> >> \o Contents
  <2>2. /\ t \in Seq(Nodes) /\ Len(t) = k + 1 /\ t[1] = n
        /\ \A i \in 1 .. k + 1 : i # 1 => i - 1 \in 1 .. k /\ t[i] = s[i - 1]
    <3>1. << n >> \in Seq(Nodes) /\ Len(<< n >>) = 1 /\ << n >>[1] = n
      OBVIOUS
    <3> QED
      BY <1>2, <3>1, ConcatProperties, SMTT(30)
  <2> HIDE DEF t
  <2>3. /\ Contents' \in Seq(Cell) /\ Len(Contents') = k + 1
        /\ Contents'[1] = << n, value >>
        /\ \A i \in 1 .. k + 1 :
             i # 1 => Contents'[i] = << s[i - 1], heap[s[i - 1]].value >>
    <3>1. /\ Contents' \in Seq(Cell) /\ Len(Contents') = k + 1
          /\ Contents'[1] = << n, value >>
          /\ \A i \in 1 .. k + 1 :
               t[i] \in DOMAIN heap => Contents'[i] = << t[i], heap[t[i]].value >>
      <4>1. Represents(t)'
        BY <2>1 DEF t
      <4>2. /\ Contents' \in Seq(Cell) /\ Len(Contents') = k + 1
            /\ \A i \in 1 .. k + 1 : Contents'[i] = << t[i], heap'[t[i]].value >>
            /\ \A i \in 1 .. k + 1 :
                 t[i] \in DOMAIN heap => Contents'[i] = << t[i], heap[t[i]].value >>
        BY <1>4, <2>1, <2>2, <4>1
      <4>3. 1 \in 1 .. k + 1
        BY <1>2
      <4> QED
        BY <2>1, <2>2, <4>2, <4>3
    <3> QED
      BY <1>2, <2>2, <3>1
  <2>4. /\ cells \in Seq(Cell) /\ Len(cells) = k + 1 /\ cells[1] = << n, value >>
        /\ \A i \in 1 .. k + 1 :
             i # 1 => i - 1 \in 1 .. k /\ cells[i] = Contents[i - 1]
    <3>1. << << n, value >> >> \in Seq(Cell) /\ Len(<< << n, value >> >>) = 1
      BY DEF Cell
    <3> QED
      BY <1>2, <1>3, <3>1, ConcatProperties, SMTT(30)
  <2> HIDE DEF cells
  <2>5. Contents' = cells
    <3>1. \A i \in 1 .. k + 1 : Contents'[i] = cells[i]
      BY <1>2, <1>3, <2>3, <2>4
    <3> QED
      BY <2>3, <2>4, <3>1, SeqEqual
  <2> QED
    BY <1>6, <2>5 DEF Queue!PushFront, cells
<1>9. ASSUME pop_back PROVE Queue!PopBack
  <2> DEFINE t     == Front(s)
             cells == Front(Contents)
  <2>1. s # << >> /\ HeapTyped' /\ KeepsValues /\ Represents(t)'
    BY <1>1, <1>9, PopBackStep
  <2>2. k # 0 /\ Contents # << >>
    BY <1>2, <1>3, <2>1
  <2>3. t \in Seq(Nodes) /\ Len(t) = k - 1 /\ \A i \in 1 .. k - 1 : t[i] = s[i]
    BY <1>2, <2>2, FrontElements
  <2>4. /\ cells \in Seq(Cell) /\ Len(cells) = k - 1
        /\ \A i \in 1 .. k - 1 : cells[i] = Contents[i]
    BY <1>2, <1>3, <2>2, FrontElements
  <2> HIDE DEF t, cells
  <2>5. Contents' = cells
    <3>1. /\ Contents' \in Seq(Cell) /\ Len(Contents') = k - 1
          /\ \A i \in 1 .. k - 1 :
               t[i] \in DOMAIN heap => Contents'[i] = << t[i], heap[t[i]].value >>
      BY <1>4, <2>1, <2>3
    <3>2. \A i \in 1 .. k - 1 : i \in 1 .. k
      BY <1>2
    <3>3. \A i \in 1 .. k - 1 : Contents'[i] = cells[i]
      BY <1>2, <1>3, <2>3, <2>4, <3>1, <3>2
    <3> QED
      BY <2>4, <3>1, <3>3, SeqEqual
  <2> QED
    BY <2>2, <2>5 DEF Queue!PopBack, Queue!Front, Front, cells
<1>10. ASSUME pop_front PROVE Queue!PopFront
  <2> DEFINE t     == Tail(s)
             cells == Tail(Contents)
  <2>1. s # << >> /\ HeapTyped' /\ KeepsValues /\ Represents(t)'
    BY <1>1, <1>10, PopFrontStep
  <2>2. k # 0 /\ Contents # << >>
    BY <1>2, <1>3, <2>1
  <2>3. t \in Seq(Nodes) /\ Len(t) = k - 1 /\ \A i \in 1 .. k - 1 : t[i] = s[i + 1]
    BY <1>2, <2>1, HeadTailProperties
  <2>4. /\ cells \in Seq(Cell) /\ Len(cells) = k - 1
        /\ \A i \in 1 .. k - 1 : cells[i] = Contents[i + 1]
    BY <1>3, <2>2, HeadTailProperties
  <2> HIDE DEF t, cells
  <2>5. Contents' = cells
    <3>1. /\ Contents' \in Seq(Cell) /\ Len(Contents') = k - 1
          /\ \A i \in 1 .. k - 1 :
               t[i] \in DOMAIN heap => Contents'[i] = << t[i], heap[t[i]].value >>
      BY <1>4, <2>1, <2>3
    <3>2. \A i \in 1 .. k - 1 : i + 1 \in 1 .. k
      BY <1>2
    <3>3. \A i \in 1 .. k - 1 : Contents'[i] = cells[i]
      BY <1>2, <1>3, <2>3, <2>4, <3>1, <3>2
    <3> QED
      BY <2>4, <3>1, <3>3, SeqEqual
  <2> QED
    BY <2>2, <2>5 DEF Queue!PopFront, cells
<1>11. ASSUME clear_list PROVE Queue!Clear
  <2>1. HeapTyped' /\ KeepsValues /\ Represents(<< >>)'
    BY <1>1, <1>11, ClearStep
  <2>2. Contents' \in Seq(Cell) /\ Len(Contents') = 0
    BY <1>4, <2>1
  <2> QED
    BY <2>2, EmptySeq DEF Queue!Clear
<1>12. ASSUME NEW n \in DOMAIN heap, move_back(n), ~ UNCHANGED list_vars
       PROVE  Queue!MoveBack
  <2>1. PICK j \in 1 .. k :
          HeapTyped' /\ KeepsValues /\ Represents(Append(RemoveAt(s, j), s[j]))'
    BY <1>1, <1>12, MoveBackStep
  <2> DEFINE t     == Append(RemoveAt(s, j), s[j])
             cells == Append(RemoveAt(Contents, j), Contents[j])
  <2>2. /\ t \in Seq(Nodes) /\ Len(t) = k /\ t[k] = s[j]
        /\ \A i \in 1 .. k - 1 : t[i] = IF i < j THEN s[i] ELSE s[i + 1]
    <3>1. s \in Seq(Nodes) /\ j \in 1 .. Len(s)
      BY <1>2
    <3> QED
      BY ONLY <3>1, MovedToEnd DEF t, k
  <2>3. /\ cells \in Seq(Cell) /\ Len(cells) = k /\ cells[k] = Contents[j]
        /\ \A i \in 1 .. k - 1 :
             cells[i] = IF i < j THEN Contents[i] ELSE Contents[i + 1]
    <3>1. Contents \in Seq(Cell) /\ j \in 1 .. Len(Contents) /\ Len(Contents) = k
      BY <1>3
    <3> QED
      BY ONLY <3>1, MovedToEnd DEF cells
  <2> HIDE DEF t, cells
  <2>4. Contents' = cells
    <3>1. /\ Contents' \in Seq(Cell) /\ Len(Contents') = k
          /\ \A i \in 1 .. k :
               t[i] \in DOMAIN heap => Contents'[i] = << t[i], heap[t[i]].value >>
      BY <1>4, <2>1, <2>2 DEF t
    <3>2. ASSUME NEW i \in 1 .. k PROVE Contents'[i] = cells[i]
      <4>1. CASE i = k
        <5>1. t[i] = s[j] /\ cells[i] = Contents[j]
          BY <2>2, <2>3, <4>1
        <5> QED
          BY <1>2, <1>3, <3>1, <5>1
      <4>2. CASE i # k /\ i < j
        <5>1. i \in 1 .. k - 1
          BY <1>2, <4>2
        <5>2. t[i] = s[i] /\ cells[i] = Contents[i]
          BY <2>2, <2>3, <4>2, <5>1
        <5> QED
          BY <1>2, <1>3, <3>1, <5>2
      <4>3. CASE i # k /\ ~ (i < j)
        <5>1. i \in 1 .. k - 1 /\ i + 1 \in 1 .. k
          BY <1>2, <4>3
        <5>2. t[i] = s[i + 1] /\ cells[i] = Contents[i + 1]
          BY <2>2, <2>3, <4>3, <5>1
        <5> QED
          BY <1>2, <1>3, <3>1, <5>1, <5>2
      <4> QED
        BY <4>1, <4>2, <4>3
    <3> QED
      BY <2>3, <3>1, <3>2, SeqEqual
  <2>5. j \in DOMAIN Contents
    BY <1>3, LenProperties
  <2> QED
    BY <2>4, <2>5 DEF Queue!MoveBack, Queue!RemoveAt, RemoveAt, cells
<1> QED
  BY <1>5, <1>7, <1>8, <1>9, <1>10, <1>11, <1>12
     DEF Next, push_fails, Queue!Next

(* Whatever nodes malloc gives out, the pointers implement the deque that  *)
(* list.h promises: its cells keep their address and their value while     *)
(* they are moved, and only the call's own cell comes or goes.             *)
THEOREM ImplementsDeque == Spec => IsDeque
<1>1. Spec => Queue!Init /\ [][Queue!Next]_Contents
  BY DequeInit, DequeStep, ListInvHolds, PTL DEF Spec
<1> QED
  BY <1>1 DEF IsDeque, Queue!Spec


(***************************************************************************)
(* The lists of the earlier releases, which are records: a call takes the  *)
(* record of this release's pointers to that of the pointers it leaves.    *)
(***************************************************************************)
ListIs(f, b, h) == [front |-> f, back |-> b, heap |-> h]

Here == ListIs(front, back, heap)

Relinked(h, n, field, v) ==
  [m \in DOMAIN h |-> IF m = n THEN [h[m] EXCEPT ![field] = v] ELSE h[m]]

LEMMA FieldsOfList ==
  \A f, b, h :
    /\ ListIs(f, b, h).front = f
    /\ ListIs(f, b, h).back = b
    /\ ListIs(f, b, h).heap = h
    /\ \A x : [ListIs(f, b, h) EXCEPT !.front = x] = ListIs(x, b, h)
    /\ \A x : [ListIs(f, b, h) EXCEPT !.back = x] = ListIs(f, x, h)
    /\ \A x : [ListIs(f, b, h) EXCEPT !.heap = x] = ListIs(f, b, x)
  BY DEF ListIs

(* A store to a field of a node, and a node that is created.               *)
LEMMA StoreIs ==
  ASSUME NEW f, NEW b, NEW h, NEW n \in DOMAIN h, NEW field, NEW v
  PROVE  /\ P1!Store(ListIs(f, b, h), n, field, v) = ListIs(f, b, Relinked(h, n, field, v))
         /\ P2!Store(ListIs(f, b, h), n, field, v) = ListIs(f, b, Relinked(h, n, field, v))
<1> DEFINE s == ListIs(f, b, h)
           node == [h[n] EXCEPT ![field] = v]
<1>1. /\ P1!withNode(h, n, node) = Relinked(h, n, field, v)
      /\ P2!withNode(h, n, node) = Relinked(h, n, field, v)
  BY DEF P1!withNode, P2!withNode, Relinked
<1>2. s.heap = h
  BY FieldsOfList
<1>3. P1!Store(s, n, field, v) = [s EXCEPT !.heap = P1!withNode(h, n, node)]
  BY <1>2 DEF P1!Store
<1>4. P2!Store(s, n, field, v) = [s EXCEPT !.heap = P2!withNode(h, n, node)]
  BY <1>2 DEF P2!Store
<1> QED
  BY <1>1, <1>3, <1>4, FieldsOfList

LEMMA HereIsList ==
  ASSUME HeapTyped, NEW s, Represents(s)
  PROVE  /\ Here \in list_t /\ Here # NULL
         /\ front \in Nodes \cup {NULL} /\ back \in Nodes \cup {NULL}
<1>1. /\ Len(s) \in Nat /\ \A i \in 1 .. Len(s) : s[i] \in Nodes
  BY Represented
<1>2. front \in Nodes \cup {NULL} /\ back \in Nodes \cup {NULL}
  BY <1>1 DEF Represents
<1>3. heap \in UNION {[N -> node_t] : N \in SUBSET Nodes}
  BY DEF HeapTyped
<1>4. Here \in list_t
  BY <1>2, <1>3 DEF Here, ListIs, list_t
<1> QED
  BY <1>2, <1>4, NullAssumption

(* The node that a push of this release has allocated.                     *)
LEMMA NewNodeIs ==
  ASSUME NEW n, n \notin DOMAIN heap, DOMAIN heap' = DOMAIN heap \cup {n}
  PROVE  NewNode = n
<1>1. DOMAIN heap' # DOMAIN heap
  OBVIOUS
<1>2. \A m \in DOMAIN heap' : m \notin DOMAIN heap <=> m = n
  OBVIOUS
<1> QED
  BY <1>1, <1>2 DEF NewNode

SamePushBack(value) ==
  /\ P1!push_back(Here, value, NewNode) = Here'
  /\ P2!push_back(Here, value, NewNode) = Here'

SamePushFront(value) ==
  /\ P1!push_front(Here, value, NewNode) = Here'
  /\ P2!push_front(Here, value, NewNode) = Here'

LEMMA FailedPushes ==
  ASSUME NEW value, push_fails
  PROVE  SamePushBack(value) /\ SamePushFront(value)
<1>1. NewNode = NULL /\ Here' = Here
  BY DEF push_fails, list_vars, NewNode, Here
<1> QED
  BY <1>1 DEF SamePushBack, SamePushFront, P1!push_back, P2!push_back,
              P1!push_front, P2!push_front

(* A node is created in front of the list or behind it.                    *)
LEMMA CreatedIs ==
  ASSUME NEW f, NEW b, NEW h, NEW n, NEW value, NEW p, NEW q
  PROVE  /\ P1!createNode(ListIs(f, b, h), n, value, p, q)
              = ListIs(f, b, withNode(h, n, Node(value, p, q)))
         /\ P2!createNode(ListIs(f, b, h), n, value, p, q)
              = ListIs(f, b, withNode(h, n, Node(value, p, q)))
  BY FieldsOfList DEF P1!createNode, P2!createNode, P1!withNode, P2!withNode,
                      withNode, Node

LEMMA CreatedIsList ==
  ASSUME HeapTyped, NEW s, Represents(s), NEW n \in Nodes, NEW value \in Values,
         NEW p \in Nodes \cup {NULL}, NEW q \in Nodes \cup {NULL}
  PROVE  ListIs(front, back, withNode(heap, n, Node(value, p, q))) # NULL
<1> DEFINE h == withNode(heap, n, Node(value, p, q))
<1>1. Node(value, p, q) \in node_t
  BY DEF Node, node_t
<1>2. h \in [DOMAIN heap \cup {n} -> node_t]
  BY <1>1 DEF withNode, HeapTyped
<1>3. h \in UNION {[N -> node_t] : N \in SUBSET Nodes}
  BY <1>2 DEF HeapTyped
<1> HIDE DEF h
<1>4. ListIs(front, back, h) \in list_t
  BY <1>3, HereIsList DEF ListIs, list_t
<1> QED
  BY <1>4, NullAssumption DEF h

LEMMA PushBackSame ==
  ASSUME HeapTyped, NEW s, Represents(s), NEW value \in Values, push_back(value)
  PROVE  SamePushBack(value)
<1>1. PICK n \in Nodes \ DOMAIN heap :
        /\ heap' = withNode(IF is_empty_list THEN heap
                            ELSE [heap EXCEPT ![back].next = n],
                            n, Node(value, back, NULL))
        /\ front' = IF is_empty_list THEN n ELSE front
        /\ back' = n
  BY DEF push_back
<1> DEFINE h == withNode(heap, n, Node(value, back, NULL))
<1>2. NewNode = n /\ n # NULL
  <2>1. DOMAIN heap' = DOMAIN heap \cup {n}
    BY <1>1 DEF withNode
  <2> QED
    BY <2>1, NewNodeIs, NodesAssumption
<1>3. /\ P1!createNode(Here, n, value, back, NULL) = ListIs(front, back, h)
      /\ P2!createNode(Here, n, value, back, NULL) = ListIs(front, back, h)
  BY CreatedIs DEF Here
<1>4. ListIs(front, back, h) # NULL /\ Here # NULL
  BY CreatedIsList, HereIsList
<1>5. Here.front = front /\ Here.back = back /\ Here.heap = heap
  BY FieldsOfList DEF Here
<1>6. CASE is_empty_list
  <2>1. front' = n /\ back' = n /\ heap' = h
    BY <1>1, <1>6
  <2> HIDE DEF h
  <2>2. /\ P1!is_empty_list(ListIs(front, back, h))
        /\ P2!is_empty_list(ListIs(front, back, h))
        /\ P2!is_empty_list(Here)
    BY <1>5, <1>6, FieldsOfList DEF P1!is_empty_list, P2!is_empty_list, is_empty_list
  <2>3. P1!push_back(Here, value, n) = ListIs(n, n, h)
    BY <1>2, <1>3, <1>5, <2>2, FieldsOfList DEF P1!push_back
  <2>4. P2!push_back(Here, value, n) = ListIs(n, n, h)
    <3>1. P2!push_back(Here, value, n)
            = [front |-> n, back |-> n, heap |-> ListIs(front, back, h).heap]
      BY <1>2, <1>3, <1>4, <1>5, <2>2 DEF P2!push_back
    <3>2. ListIs(front, back, h).heap = h
      BY FieldsOfList
    <3> QED
      BY <3>1, <3>2 DEF ListIs
  <2> QED
    BY <1>2, <2>1, <2>3, <2>4 DEF SamePushBack, Here
<1>7. CASE ~ is_empty_list
  <2>1. back \in DOMAIN heap /\ back \in DOMAIN h /\ back # n
    <3>1. Len(s) # 0 => back \in DOMAIN heap
      BY Represented DEF Represents
    <3> QED
      BY <1>7, <3>1, Represented DEF withNode
  <2>2. front' = front /\ back' = n /\ heap' = Relinked(h, back, "next", n)
    <3>1. [heap EXCEPT ![back].next = n] = Relinked(heap, back, "next", n)
      BY <2>1 DEF Relinked, HeapTyped
    <3>2. withNode(Relinked(heap, back, "next", n), n, Node(value, back, NULL))
            = Relinked(h, back, "next", n)
      BY <2>1 DEF withNode, Relinked
    <3> QED
      BY <1>1, <1>7, <3>1, <3>2
  <2> HIDE DEF h
  <2>3. /\ ~ P1!is_empty_list(ListIs(front, back, h))
        /\ ~ P2!is_empty_list(ListIs(front, back, h))
        /\ ~ P2!is_empty_list(Here)
    BY <1>4, <1>5, <1>7, FieldsOfList DEF P1!is_empty_list, P2!is_empty_list, is_empty_list
  <2>4. /\ P1!Store(ListIs(front, back, h), back, "next", n) =
             ListIs(front, back, heap')
        /\ P2!Store(ListIs(front, back, h), back, "next", n) =
             ListIs(front, back, heap')
    BY <2>1, <2>2, StoreIs
  <2>5. P1!push_back(Here, value, n) = ListIs(front, n, heap')
    BY <1>2, <1>3, <1>5, <2>3, <2>4, FieldsOfList DEF P1!push_back
  <2>6. P2!push_back(Here, value, n) = ListIs(front, n, heap')
    BY <1>2, <1>3, <1>4, <1>5, <2>3, <2>4, FieldsOfList DEF P2!push_back
  <2> QED
    BY <1>2, <2>2, <2>5, <2>6 DEF SamePushBack, Here
<1> QED
  BY <1>6, <1>7

LEMMA PushFrontSame ==
  ASSUME HeapTyped, NEW s, Represents(s), NEW value \in Values, push_front(value)
  PROVE  SamePushFront(value)
<1>1. PICK n \in Nodes \ DOMAIN heap :
        /\ heap' = withNode(IF is_empty_list THEN heap
                            ELSE [heap EXCEPT ![front].previous = n],
                            n, Node(value, NULL, front))
        /\ back' = IF is_empty_list THEN n ELSE back
        /\ front' = n
  BY DEF push_front
<1> DEFINE h == withNode(heap, n, Node(value, NULL, front))
<1>2. NewNode = n /\ n # NULL
  <2>1. DOMAIN heap' = DOMAIN heap \cup {n}
    BY <1>1 DEF withNode
  <2> QED
    BY <2>1, NewNodeIs, NodesAssumption
<1>3. /\ P1!createNode(Here, n, value, NULL, front) = ListIs(front, back, h)
      /\ P2!createNode(Here, n, value, NULL, front) = ListIs(front, back, h)
  BY CreatedIs DEF Here
<1>4. ListIs(front, back, h) # NULL /\ Here # NULL
  BY CreatedIsList, HereIsList
<1>5. Here.front = front /\ Here.back = back /\ Here.heap = heap
  BY FieldsOfList DEF Here
<1>6. CASE is_empty_list
  <2>1. front' = n /\ back' = n /\ heap' = h
    BY <1>1, <1>6
  <2> HIDE DEF h
  <2>2. /\ P1!is_empty_list(ListIs(front, back, h))
        /\ P2!is_empty_list(ListIs(front, back, h))
        /\ P2!is_empty_list(Here)
    BY <1>5, <1>6, FieldsOfList DEF P1!is_empty_list, P2!is_empty_list, is_empty_list
  <2>3. P1!push_front(Here, value, n) = ListIs(n, n, h)
    BY <1>2, <1>3, <1>5, <2>2, FieldsOfList DEF P1!push_front
  <2>4. P2!push_front(Here, value, n) = ListIs(n, n, h)
    <3>1. P2!push_front(Here, value, n)
            = [front |-> n, back |-> n, heap |-> ListIs(front, back, h).heap]
      BY <1>2, <1>3, <1>4, <1>5, <2>2 DEF P2!push_front
    <3>2. ListIs(front, back, h).heap = h
      BY FieldsOfList
    <3> QED
      BY <3>1, <3>2 DEF ListIs
  <2> QED
    BY <1>2, <2>1, <2>3, <2>4 DEF SamePushFront, Here
<1>7. CASE ~ is_empty_list
  <2>1. front \in DOMAIN heap /\ front \in DOMAIN h /\ front # n
    <3>1. Len(s) # 0 => front \in DOMAIN heap
      BY Represented DEF Represents
    <3> QED
      BY <1>7, <3>1, Represented DEF withNode
  <2>2. back' = back /\ front' = n /\ heap' = Relinked(h, front, "previous", n)
    <3>1. [heap EXCEPT ![front].previous = n] = Relinked(heap, front, "previous", n)
      BY <2>1 DEF Relinked, HeapTyped
    <3>2. withNode(Relinked(heap, front, "previous", n), n, Node(value, NULL, front))
            = Relinked(h, front, "previous", n)
      BY <2>1 DEF withNode, Relinked
    <3> QED
      BY <1>1, <1>7, <3>1, <3>2
  <2> HIDE DEF h
  <2>3. /\ ~ P1!is_empty_list(ListIs(front, back, h))
        /\ ~ P2!is_empty_list(ListIs(front, back, h))
        /\ ~ P2!is_empty_list(Here)
    BY <1>4, <1>5, <1>7, FieldsOfList DEF P1!is_empty_list, P2!is_empty_list, is_empty_list
  <2>4. /\ P1!Store(ListIs(front, back, h), front, "previous", n) =
             ListIs(front, back, heap')
        /\ P2!Store(ListIs(front, back, h), front, "previous", n) =
             ListIs(front, back, heap')
    BY <2>1, <2>2, StoreIs
  <2>5. P1!push_front(Here, value, n) = ListIs(n, back, heap')
    BY <1>2, <1>3, <1>5, <2>3, <2>4, FieldsOfList DEF P1!push_front
  <2>6. P2!push_front(Here, value, n) = ListIs(n, back, heap')
    BY <1>2, <1>3, <1>4, <1>5, <2>3, <2>4, FieldsOfList DEF P2!push_front
  <2> QED
    BY <1>2, <2>2, <2>5, <2>6 DEF SamePushFront, Here
<1> QED
  BY <1>6, <1>7

(***************************************************************************)
(* The loop that frees the nodes from the front on.  Its rounds are a      *)
(* recursive function: what it is compared with is a list whose first k    *)
(* nodes are gone.                                                         *)
(***************************************************************************)
Without(s, k) == [m \in DOMAIN heap \ {s[i] : i \in 1 .. k} |-> heap[m]]

After(s, k) == IF k = Len(s) THEN NULL ELSE s[k + 1]

Round1(s, k) == [heap |-> Without(s, k), current |-> After(s, k)]

Round2(s, k) == [list    |-> ListIs(NULL, back, Without(s, k)),
                 current |-> After(s, k)]

LEMMA NodesCounted ==
  ASSUME HeapTyped, NEW s, Represents(s)
  PROVE  Cardinality(DOMAIN heap) = Len(s)
<1>1. /\ s \in Seq(Nodes) /\ Len(s) \in Nat
      /\ \A i \in 1 .. Len(s) : s[i] \in DOMAIN heap
      /\ \A i, j \in 1 .. Len(s) : s[i] = s[j] => i = j
      /\ \A m \in DOMAIN heap : \E i \in 1 .. Len(s) : m = s[i]
  BY Represented
<1>2. s \in [1 .. Len(s) -> DOMAIN heap]
  BY <1>1, LenProperties
<1>3. s \in Bijection(1 .. Len(s), DOMAIN heap)
  BY <1>1, <1>2 DEF Bijection, Injection, Surjection, IsInjective
<1>4. IsFiniteSet(1 .. Len(s)) /\ Cardinality(1 .. Len(s)) = Len(s)
  <2>1. 1 \in Int /\ Len(s) \in Int
    BY <1>1
  <2>2. /\ IsFiniteSet(1 .. Len(s))
        /\ Cardinality(1 .. Len(s)) = IF 1 > Len(s) THEN 0 ELSE Len(s) - 1 + 1
    BY <2>1, FS_Interval
  <2> QED
    BY <1>1, <2>2
<1> QED
  BY <1>3, <1>4, FS_Bijection DEF ExistsBijection

(* One round.                                                              *)
LEMMA RoundStep ==
  ASSUME HeapTyped, NEW s, Represents(s), NEW k \in 1 .. Len(s)
  PROVE  /\ P1!FreeCurrent(Round1(s, k - 1)) = Round1(s, k)
         /\ P2!FreeCurrent(Round2(s, k - 1)) = Round2(s, k)
<1>1. /\ Len(s) \in Nat
      /\ \A i \in 1 .. Len(s) : s[i] \in Nodes /\ s[i] # NULL /\ s[i] \in DOMAIN heap
      /\ \A i, j \in 1 .. Len(s) : s[i] = s[j] => i = j
      /\ \A i \in 1 .. Len(s) : heap[s[i]].next = IF i = Len(s) THEN NULL ELSE s[i + 1]
  BY Represented DEF Represents
<1> DEFINE n == s[k]
           h == Without(s, k - 1)
<1>2. After(s, k - 1) = n /\ After(s, k) = heap[n].next
  <2>1. k - 1 # Len(s) /\ (k - 1) + 1 = k
    BY <1>1
  <2> QED
    BY <1>1, <2>1 DEF After
<1>3. n \in DOMAIN h /\ h[n] = heap[n] /\ n # NULL
  <2>1. n \notin {s[i] : i \in 1 .. k - 1}
    <3>1. \A i \in 1 .. k - 1 : i \in 1 .. Len(s) /\ i # k
      BY <1>1
    <3> QED
      BY <1>1, <3>1
  <2> QED
    BY <1>1, <2>1 DEF Without
<1>4. Without(s, k) = [m \in DOMAIN h \ {n} |-> h[m]]
  <2>1. {s[i] : i \in 1 .. k} = {s[i] : i \in 1 .. k - 1} \cup {n}
    <3>1. \A i \in 1 .. k : i = k \/ i \in 1 .. k - 1
      BY <1>1
    <3>2. k \in 1 .. k /\ \A i \in 1 .. k - 1 : i \in 1 .. k
      BY <1>1
    <3> QED
      BY <3>1, <3>2
  <2>2. DOMAIN h = DOMAIN heap \ {s[i] : i \in 1 .. k - 1}
        /\ \A m \in DOMAIN h : h[m] = heap[m]
    BY DEF Without
  <2> HIDE DEF h
  <2>3. DOMAIN heap \ {s[i] : i \in 1 .. k} = DOMAIN h \ {n}
    BY <2>1, <2>2
  <2> QED
    BY <2>2, <2>3 DEF Without
<1> HIDE DEF h, n
<1>5. P1!FreeCurrent(Round1(s, k - 1)) = Round1(s, k)
  <2>1. Round1(s, k - 1).heap = h /\ Round1(s, k - 1).current = n
    BY <1>2 DEF Round1, h
  <2>2. P1!freeNode(h, n) = Without(s, k)
    BY <1>4 DEF P1!freeNode
  <2> QED
    BY <1>2, <1>3, <2>1, <2>2 DEF P1!FreeCurrent, Round1
<1>6. P2!FreeCurrent(Round2(s, k - 1)) = Round2(s, k)
  <2> DEFINE r  == Round2(s, k - 1)
             h1 == Relinked(h, n, "next", NULL)
             h2 == Relinked(h1, n, "previous", NULL)
  <2>1. r.list = ListIs(NULL, back, h) /\ r.current = n
    BY <1>2 DEF Round2, h
  <2>2. P2!Store(ListIs(NULL, back, h), n, "next", NULL) = ListIs(NULL, back, h1)
    BY <1>3, StoreIs
  <2>3. n \in DOMAIN h1 /\ DOMAIN h1 = DOMAIN h /\ DOMAIN h2 = DOMAIN h
        /\ \A m \in DOMAIN h \ {n} : h2[m] = h[m]
    BY <1>3 DEF Relinked
  <2>4. P2!Store(ListIs(NULL, back, h1), n, "previous", NULL) = ListIs(NULL, back, h2)
    BY <2>3, StoreIs
  <2>5. [m \in DOMAIN h2 \ {n} |-> h2[m]] = Without(s, k)
    BY <1>4, <2>3
  <2> HIDE DEF h1, h2, r
  <2>6. P2!freeNode(ListIs(NULL, back, h2), n) = ListIs(NULL, back, Without(s, k))
    <3>1. ListIs(NULL, back, h2).heap = h2
      BY FieldsOfList
    <3>2. P2!freeNode(ListIs(NULL, back, h2), n)
            = [ListIs(NULL, back, h2) EXCEPT !.heap = [m \in DOMAIN h2 \ {n} |-> h2[m]]]
      BY <3>1 DEF P2!freeNode
    <3> QED
      BY <2>5, <3>2, FieldsOfList
  <2>7. r.list.heap = h
    BY <2>1, FieldsOfList
  <2>8. P2!FreeCurrent(r) = [list |-> ListIs(NULL, back, Without(s, k)),
                             current |-> h[n].next]
    BY <1>3, <2>1, <2>2, <2>4, <2>6, <2>7 DEF P2!FreeCurrent
  <2> QED
    BY <1>2, <1>3, <2>8 DEF Round2, r
<1> QED
  BY <1>5, <1>6

(* Two recursions with the same start whose rounds agree do not differ.    *)
LEMMA SameRounds ==
  ASSUME NEW N \in Nat, NEW f, NEW g, f[0] = g[0],
         \A k \in 1 .. N : f[k - 1] = g[k - 1] => f[k] = g[k]
  PROVE  \A k \in 0 .. N : f[k] = g[k]
<1> SUFFICES ASSUME {k \in 0 .. N : f[k] # g[k]} # {} PROVE FALSE
  OBVIOUS
<1> DEFINE D == {k \in 0 .. N : f[k] # g[k]}
<1>1. D \subseteq Nat
  OBVIOUS
<1>2. PICK m \in D : \A n \in D : m <= n
  <2> HIDE DEF D
  <2> QED
    BY <1>1, LeastElement DEF D
<1>3. m \in 1 .. N
  OBVIOUS
<1>4. m - 1 \in 0 .. N /\ m - 1 \notin D
  BY <1>1, <1>2, <1>3
<1> QED
  BY <1>3, <1>4

(* The loop frees every node.                                              *)
LEMMA LoopsFree ==
  ASSUME HeapTyped, NEW s, Represents(s), Len(s) # 0
  PROVE  /\ P1!FreedFrom(heap, front) = Without(s, Len(s))
         /\ P2!FreedFrom(ListIs(NULL, back, heap), front)
              = ListIs(NULL, back, Without(s, Len(s)))
<1> DEFINE N == Len(s)
<1>1. N \in Nat /\ front = After(s, 0) /\ Cardinality(DOMAIN heap) = N
  <2>1. N \in Nat /\ Cardinality(DOMAIN heap) = N
    BY Represented, NodesCounted
  <2>2. front = s[1] /\ 0 # Len(s) /\ 0 + 1 = 1
    BY DEF Represents
  <2> QED
    BY <2>1, <2>2 DEF After
<1>2. Without(s, 0) = heap
  <2>1. {s[i] : i \in 1 .. 0} = {}
    OBVIOUS
  <2> QED
    BY <2>1 DEF Without, HeapTyped
<1>3. /\ Round1(s, 0) = [heap |-> heap, current |-> front]
      /\ Round2(s, 0) = [list |-> ListIs(NULL, back, heap), current |-> front]
  BY <1>1, <1>2 DEF Round1, Round2
<1>4. \A k \in 1 .. N : /\ P1!FreeCurrent(Round1(s, k - 1)) = Round1(s, k)
                        /\ P2!FreeCurrent(Round2(s, k - 1)) = Round2(s, k)
  BY RoundStep
<1>5. P1!FreedFrom(heap, front) = Without(s, N)
  <2> DEFINE Follows(f) ==
               f = [k \in 0 .. N |->
                      IF k = 0 THEN [heap |-> heap, current |-> front]
                      ELSE P1!FreeCurrent(f[k - 1])]
             w == [k \in 0 .. N |-> Round1(s, k)]
             at == CHOOSE f : Follows(f)
  <2>1. P1!FreedFrom(heap, front) = at[N].heap
    BY <1>1 DEF P1!FreedFrom, P1!Cardinality, Cardinality
  <2> HIDE DEF N
  <2>2. Follows(w)
    <3>1. ASSUME NEW k \in 0 .. N
          PROVE  w[k] = IF k = 0 THEN [heap |-> heap, current |-> front]
                        ELSE P1!FreeCurrent(w[k - 1])
      <4>1. k # 0 => k \in 1 .. N /\ k - 1 \in 0 .. N
        BY <1>1
      <4> QED
        BY <1>3, <1>4, <4>1
    <3> QED
      BY <3>1, Zenon
  <2>3. Follows(at)
    <3> HIDE DEF Follows
    <3> QED
      BY <2>2
  <2> HIDE DEF at, w
  <2>4. at[0] = w[0]
    BY <1>1, <2>2, <2>3
  <2>5. \A k \in 1 .. N : at[k - 1] = w[k - 1] => at[k] = w[k]
    <3> SUFFICES ASSUME NEW k \in 1 .. N PROVE at[k - 1] = w[k - 1] => at[k] = w[k]
      OBVIOUS
    <3>1. k \in 0 .. N /\ k # 0
      BY <1>1
    <3>2. at[k] = P1!FreeCurrent(at[k - 1]) /\ w[k] = P1!FreeCurrent(w[k - 1])
      BY <2>2, <2>3, <3>1
    <3> QED
      BY <3>2
  <2>6. at[N] = w[N] /\ w[N] = Round1(s, N)
    <3>1. PICK f, g : f = at /\ g = w
      OBVIOUS
    <3>2. /\ N \in Nat /\ f[0] = g[0]
          /\ \A k \in 1 .. N : f[k - 1] = g[k - 1] => f[k] = g[k]
      BY <1>1, <2>4, <2>5, <3>1
    <3>3. \A k \in 0 .. N : f[k] = g[k]
      BY ONLY <3>2, SameRounds
    <3> QED
      BY <1>1, <3>1, <3>3 DEF w
  <2> QED
    BY <2>1, <2>6 DEF Round1, N
<1>6. P2!FreedFrom(ListIs(NULL, back, heap), front)
        = ListIs(NULL, back, Without(s, N))
  <2> DEFINE first == ListIs(NULL, back, heap)
             Follows(f) ==
               f = [k \in 0 .. N |->
                      IF k = 0 THEN [list |-> first, current |-> front]
                      ELSE P2!FreeCurrent(f[k - 1])]
             w == [k \in 0 .. N |-> Round2(s, k)]
             at == CHOOSE f : Follows(f)
  <2>0. first.heap = heap
    BY FieldsOfList
  <2>1. P2!FreedFrom(first, front) = at[N].list
    BY <1>1, <2>0 DEF P2!FreedFrom, P2!Cardinality, Cardinality
  <2> HIDE DEF N, first
  <2>2. Follows(w)
    <3>1. ASSUME NEW k \in 0 .. N
          PROVE  w[k] = IF k = 0 THEN [list |-> first, current |-> front]
                        ELSE P2!FreeCurrent(w[k - 1])
      <4>1. k # 0 => k \in 1 .. N /\ k - 1 \in 0 .. N
        BY <1>1
      <4> QED
        BY <1>3, <1>4, <4>1 DEF first
    <3> QED
      BY <3>1, Zenon
  <2>3. Follows(at)
    <3> HIDE DEF Follows
    <3> QED
      BY <2>2
  <2> HIDE DEF at, w
  <2>4. at[0] = w[0]
    BY <1>1, <2>2, <2>3
  <2>5. \A k \in 1 .. N : at[k - 1] = w[k - 1] => at[k] = w[k]
    <3> SUFFICES ASSUME NEW k \in 1 .. N PROVE at[k - 1] = w[k - 1] => at[k] = w[k]
      OBVIOUS
    <3>1. k \in 0 .. N /\ k # 0
      BY <1>1
    <3>2. at[k] = P2!FreeCurrent(at[k - 1]) /\ w[k] = P2!FreeCurrent(w[k - 1])
      BY <2>2, <2>3, <3>1
    <3> QED
      BY <3>2
  <2>6. at[N] = w[N] /\ w[N] = Round2(s, N)
    <3>1. PICK f, g : f = at /\ g = w
      OBVIOUS
    <3>2. /\ N \in Nat /\ f[0] = g[0]
          /\ \A k \in 1 .. N : f[k - 1] = g[k - 1] => f[k] = g[k]
      BY <1>1, <2>4, <2>5, <3>1
    <3>3. \A k \in 0 .. N : f[k] = g[k]
      BY ONLY <3>2, SameRounds
    <3> QED
      BY <1>1, <3>1, <3>3 DEF w
  <2> QED
    BY <2>1, <2>6 DEF Round2, N, first
<1> QED
  BY <1>5, <1>6

SameClear == P1!clear_list(Here) = Here' /\ P2!clear_list(Here) = Here'

LEMMA ClearSame ==
  ASSUME HeapTyped, NEW s, Represents(s), clear_list
  PROVE  SameClear
<1>1. /\ Here.front = front /\ Here.back = back /\ Here.heap = heap /\ Here # NULL
      /\ is_empty_list <=> Len(s) = 0
      /\ DOMAIN heap = {s[i] : i \in 1 .. Len(s)}
  BY FieldsOfList, HereIsList, Represented DEF Here, Represents
<1>2. /\ P1!is_empty_list(Here) <=> is_empty_list
      /\ P2!is_empty_list(Here) <=> is_empty_list
  BY <1>1 DEF P1!is_empty_list, P2!is_empty_list, is_empty_list
<1>3. front' = NULL /\ back' = NULL /\ heap' = [n \in {} |-> heap[n]]
  <2>1. ToSet(Chain(front, "next")) = DOMAIN heap
    BY Walks
  <2> QED
    BY <2>1 DEF clear_list, freeNodes
<1>4. CASE Len(s) = 0
  <2>1. heap' = heap
    <3>1. heap = [n \in {} |-> heap[n]]
      BY <1>1, <1>4 DEF HeapTyped
    <3> QED
      BY <1>3, <3>1
  <2>2. Here' = Here
    BY <1>1, <1>3, <1>4, <2>1 DEF Here, is_empty_list
  <2> QED
    BY <1>1, <1>2, <1>4, <2>2 DEF SameClear, P1!clear_list, P2!clear_list
<1>5. CASE Len(s) # 0
  <2>1. Without(s, Len(s)) = heap'
    BY <1>1, <1>3 DEF Without
  <2>2. Here' = ListIs(NULL, NULL, heap')
    BY <1>3 DEF Here
  <2>3. P1!clear_list(Here) = ListIs(NULL, NULL, heap')
    BY <1>1, <1>2, <1>5, <2>1, LoopsFree DEF P1!clear_list, ListIs
  <2>4. P2!clear_list(Here) = ListIs(NULL, NULL, heap')
    <3>1. [Here EXCEPT !.front = NULL] = ListIs(NULL, back, heap)
      BY FieldsOfList DEF Here
    <3>2. P2!FreedFrom(ListIs(NULL, back, heap), front) = ListIs(NULL, back, heap')
      BY <1>5, <2>1, LoopsFree
    <3>3. P2!clear_list(Here) = [ListIs(NULL, back, heap') EXCEPT !.back = NULL]
      BY <1>1, <1>2, <1>5, <3>1, <3>2 DEF P2!clear_list
    <3> QED
      BY <3>3, FieldsOfList
  <2> QED
    BY <2>2, <2>3, <2>4 DEF SameClear
<1> QED
  BY <1>4, <1>5

SamePopBack == P1!pop_back(Here) = Here' /\ P2!pop_back(Here) = Here'

LEMMA PopBackSame ==
  ASSUME HeapTyped, NEW s, Represents(s), pop_back
  PROVE  SamePopBack
<1>1. /\ Here.front = front /\ Here.back = back /\ Here.heap = heap /\ Here # NULL
      /\ ~ is_empty_list
  BY FieldsOfList, HereIsList DEF Here, pop_back
<1>2. ~ P1!is_empty_list(Here) /\ ~ P2!is_empty_list(Here)
  BY <1>1 DEF P1!is_empty_list, P2!is_empty_list, is_empty_list
<1>3. CASE front = back
  <2>1. SameClear
    BY <1>3, ClearSame DEF pop_back
  <2> QED
    BY <1>1, <1>2, <1>3, <2>1 DEF SameClear, SamePopBack, P1!pop_back, P2!pop_back
<1>4. CASE front # back
  <2> DEFINE last == heap[back].previous
             h    == Relinked(heap, last, "next", NULL)
  <2>1. last \in DOMAIN heap /\ back \in DOMAIN heap
    <3> DEFINE k == Len(s)
    <3>1. /\ k \in Nat /\ \A i \in 1 .. k : s[i] \in DOMAIN heap
          /\ is_empty_list <=> k = 0
      BY Represented
    <3>2. k # 0 /\ k # 1
      BY <1>1, <1>4, <3>1 DEF Represents
    <3>3. k \in 1 .. k /\ k - 1 \in 1 .. k
      <4>1. k \in Nat
        BY <3>1
      <4> HIDE DEF k
      <4> QED
        BY ONLY <3>2, <4>1
    <3>4. back = s[k] /\ last = s[k - 1]
      BY <3>2, <3>3 DEF Represents
    <3> QED
      BY <3>1, <3>3, <3>4
  <2>2. back' = last /\ front' = front /\ heap' = [m \in DOMAIN h \ {back} |-> h[m]]
    <3>1. [heap EXCEPT ![last].next = NULL] = h
      BY <2>1 DEF Relinked, HeapTyped
    <3>2. back' = last /\ front' = front
          /\ heap' = freeNodes([heap EXCEPT ![last].next = NULL], {back})
      BY <1>4 DEF pop_back
    <3> QED
      BY <3>1, <3>2 DEF freeNodes
  <2>3. /\ P1!Store(Here, last, "next", NULL) = ListIs(front, back, h)
        /\ P2!Store(Here, last, "next", NULL) = ListIs(front, back, h)
    BY <2>1, StoreIs DEF Here
  <2>4. ListIs(front, back, h).heap = h
    BY FieldsOfList
  <2>5. P1!freeNode(h, back) = heap'
    BY <2>2 DEF P1!freeNode
  <2>6. P2!freeNode(ListIs(front, back, h), back) = ListIs(front, back, heap')
    <3>1. P2!freeNode(ListIs(front, back, h), back)
            = [ListIs(front, back, h) EXCEPT !.heap = heap']
      BY <2>2, <2>4 DEF P2!freeNode
    <3> QED
      BY <3>1, FieldsOfList
  <2> HIDE DEF h
  <2>7. P1!pop_back(Here) = ListIs(front, last, heap')
    <3>1. P1!pop_back(Here)
            = [front |-> front, back |-> last,
               heap |-> P1!freeNode(ListIs(front, back, h).heap, back)]
      BY <1>1, <1>2, <1>4, <2>3 DEF P1!pop_back
    <3> QED
      BY <2>4, <2>5, <3>1 DEF ListIs
  <2>8. P2!pop_back(Here) = ListIs(front, last, heap')
    <3>1. P2!pop_back(Here) = [ListIs(front, back, heap') EXCEPT !.back = last]
      BY <1>1, <1>2, <1>4, <2>3, <2>6 DEF P2!pop_back
    <3> QED
      BY <3>1, FieldsOfList
  <2> QED
    BY <2>2, <2>7, <2>8 DEF SamePopBack, Here
<1> QED
  BY <1>3, <1>4

SamePopFront == P1!pop_front(Here) = Here' /\ P2!pop_front(Here) = Here'

LEMMA PopFrontSame ==
  ASSUME HeapTyped, NEW s, Represents(s), pop_front
  PROVE  SamePopFront
<1>1. /\ Here.front = front /\ Here.back = back /\ Here.heap = heap /\ Here # NULL
      /\ ~ is_empty_list
  BY FieldsOfList, HereIsList DEF Here, pop_front
<1>2. ~ P1!is_empty_list(Here) /\ ~ P2!is_empty_list(Here)
  BY <1>1 DEF P1!is_empty_list, P2!is_empty_list, is_empty_list
<1>3. CASE front = back
  <2>1. SameClear
    BY <1>3, ClearSame DEF pop_front
  <2> QED
    BY <1>1, <1>2, <1>3, <2>1 DEF SameClear, SamePopFront, P1!pop_front, P2!pop_front
<1>4. CASE front # back
  <2> DEFINE second == heap[front].next
             h      == Relinked(heap, second, "previous", NULL)
  <2>1. second \in DOMAIN heap /\ front \in DOMAIN heap
    <3> DEFINE k == Len(s)
    <3>1. /\ k \in Nat /\ \A i \in 1 .. k : s[i] \in DOMAIN heap
          /\ is_empty_list <=> k = 0
      BY Represented
    <3>2. k # 0 /\ k # 1
      BY <1>1, <1>4, <3>1 DEF Represents
    <3>3. 1 \in 1 .. k /\ 2 \in 1 .. k
      <4>1. k \in Nat
        BY <3>1
      <4> HIDE DEF k
      <4> QED
        BY ONLY <3>2, <4>1
    <3>4. front = s[1] /\ second = s[2]
      BY <3>2, <3>3 DEF Represents
    <3> QED
      BY <3>1, <3>3, <3>4
  <2>2. front' = second /\ back' = back
        /\ heap' = [m \in DOMAIN h \ {front} |-> h[m]]
    <3>1. [heap EXCEPT ![second].previous = NULL] = h
      BY <2>1 DEF Relinked, HeapTyped
    <3>2. front' = second /\ back' = back
          /\ heap' = freeNodes([heap EXCEPT ![second].previous = NULL], {front})
      BY <1>4 DEF pop_front
    <3> QED
      BY <3>1, <3>2 DEF freeNodes
  <2>3. /\ P1!Store(Here, second, "previous", NULL) = ListIs(front, back, h)
        /\ P2!Store(Here, second, "previous", NULL) = ListIs(front, back, h)
    BY <2>1, StoreIs DEF Here
  <2>4. ListIs(front, back, h).heap = h
    BY FieldsOfList
  <2>5. P1!freeNode(h, front) = heap'
    BY <2>2 DEF P1!freeNode
  <2>6. P2!freeNode(ListIs(front, back, h), front) = ListIs(front, back, heap')
    <3>1. P2!freeNode(ListIs(front, back, h), front)
            = [ListIs(front, back, h) EXCEPT !.heap = heap']
      BY <2>2, <2>4 DEF P2!freeNode
    <3> QED
      BY <3>1, FieldsOfList
  <2> HIDE DEF h
  <2>7. P1!pop_front(Here) = ListIs(second, back, heap')
    <3>1. P1!pop_front(Here)
            = [front |-> second, back |-> back,
               heap |-> P1!freeNode(ListIs(front, back, h).heap, front)]
      BY <1>1, <1>2, <1>4, <2>3 DEF P1!pop_front
    <3> QED
      BY <2>4, <2>5, <3>1 DEF ListIs
  <2>8. P2!pop_front(Here) = ListIs(second, back, heap')
    <3>1. P2!pop_front(Here) = [ListIs(front, back, heap') EXCEPT !.front = second]
      BY <1>1, <1>2, <1>4, <2>3, <2>6 DEF P2!pop_front
    <3> QED
      BY <3>1, FieldsOfList
  <2> QED
    BY <2>2, <2>7, <2>8 DEF SamePopFront, Here
<1> QED
  BY <1>3, <1>4

LEMMA RelinkedFields ==
  ASSUME NEW h, \A m \in DOMAIN h : h[m] \in node_t,
         NEW n \in DOMAIN h, NEW v \in Nodes \cup {NULL}
  PROVE  /\ DOMAIN Relinked(h, n, "next", v) = DOMAIN h
         /\ DOMAIN Relinked(h, n, "previous", v) = DOMAIN h
         /\ \A m \in DOMAIN h :
              /\ Relinked(h, n, "next", v)[m] \in node_t
              /\ Relinked(h, n, "next", v)[m].value = h[m].value
              /\ Relinked(h, n, "next", v)[m].previous = h[m].previous
              /\ Relinked(h, n, "next", v)[m].next = IF m = n THEN v ELSE h[m].next
         /\ \A m \in DOMAIN h :
              /\ Relinked(h, n, "previous", v)[m] \in node_t
              /\ Relinked(h, n, "previous", v)[m].value = h[m].value
              /\ Relinked(h, n, "previous", v)[m].next = h[m].next
              /\ Relinked(h, n, "previous", v)[m].previous
                   = IF m = n THEN v ELSE h[m].previous
  BY DEF Relinked, node_t

SameMoveBack(n) == P1!move_back(Here, n) = Here' /\ P2!move_back(Here, n) = Here'

LEMMA MoveBackSame ==
  ASSUME HeapTyped, NEW s, Represents(s), NEW n \in DOMAIN heap, move_back(n)
  PROVE  SameMoveBack(n)
<1>1. /\ Here.front = front /\ Here.back = back /\ Here.heap = heap /\ Here # NULL
      /\ ~ is_empty_list
  <2>1. ~ is_empty_list
    BY Represented
  <2> QED
    BY <2>1, FieldsOfList, HereIsList DEF Here
<1>2. ~ P1!is_empty_list(Here) /\ ~ P2!is_empty_list(Here)
  BY <1>1 DEF P1!is_empty_list, P2!is_empty_list, is_empty_list
<1>3. CASE front = back \/ n = back \/ heap[n].next = NULL
  <2>1. Here' = Here
    BY <1>3 DEF move_back, list_vars, Here
  <2> QED
    BY <1>1, <1>3, <2>1 DEF SameMoveBack, P1!move_back, P2!move_back
<1>4. CASE ~ (front = back \/ n = back \/ heap[n].next = NULL)
  <2> DEFINE before == heap[n].previous
             after  == heap[n].next
             ahead  == IF before = NULL THEN after ELSE front
             h1 == IF before = NULL THEN heap ELSE Relinked(heap, before, "next", after)
             h2 == Relinked(h1, after, "previous", before)
             h3 == Relinked(h2, back, "next", n)
             h4 == Relinked(h3, n, "previous", back)
             h5 == Relinked(h4, n, "next", NULL)
  <2>1. /\ back \in DOMAIN heap /\ after \in DOMAIN heap
        /\ before # NULL => before \in DOMAIN heap
    <3> DEFINE k == Len(s)
    <3>1. /\ k \in Nat /\ \A i \in 1 .. k : s[i] \in DOMAIN heap
          /\ \A m \in DOMAIN heap : \E i \in 1 .. k : m = s[i]
      BY Represented
    <3>2. PICK j \in 1 .. k : n = s[j]
      BY <3>1
    <3>3. back = s[k]
      BY <3>1, <3>2 DEF Represents
    <3>4. /\ after = IF j = k THEN NULL ELSE s[j + 1]
          /\ before = IF j = 1 THEN NULL ELSE s[j - 1]
      BY <3>2 DEF Represents
    <3>5. j # k
      BY <1>4, <3>4
    <3>6. k \in Nat
      BY <3>1
    <3> HIDE DEF k, after, before
    <3>7. k \in 1 .. k /\ j + 1 \in 1 .. k /\ (j # 1 => j - 1 \in 1 .. k)
      BY ONLY <3>5, <3>6, j \in 1 .. k
    <3> QED
      BY <3>1, <3>3, <3>4, <3>5, <3>7
  <2>2. /\ \A m \in DOMAIN heap : heap[m] \in node_t
        /\ DOMAIN heap \subseteq Nodes
    BY DEF HeapTyped
  <2>3. /\ before \in Nodes \cup {NULL} /\ after \in Nodes \cup {NULL}
        /\ back \in Nodes \cup {NULL} /\ n \in Nodes \cup {NULL}
    BY <2>1, <2>2
  <2>4. /\ front' = ahead /\ back' = n
        /\ heap' = [m \in DOMAIN heap |->
             [heap[m] EXCEPT
                !.next     = IF m = n THEN NULL ELSE IF m = back THEN n
                             ELSE IF m = before THEN after ELSE @,
                !.previous = IF m = n THEN back
                             ELSE IF m = after THEN before ELSE @]]
    BY <1>4 DEF move_back
  <2> HIDE DEF before, after, ahead
  <2>5. /\ DOMAIN h1 = DOMAIN heap
        /\ \A m \in DOMAIN heap :
             /\ h1[m] \in node_t /\ h1[m].value = heap[m].value
             /\ h1[m].previous = heap[m].previous
             /\ h1[m].next = IF before # NULL /\ m = before THEN after ELSE heap[m].next
    BY <2>1, <2>2, <2>3, RelinkedFields
  <2> HIDE DEF h1
  <2>6. /\ DOMAIN h2 = DOMAIN heap
        /\ \A m \in DOMAIN heap :
             /\ h2[m] \in node_t /\ h2[m].value = h1[m].value
             /\ h2[m].next = h1[m].next
             /\ h2[m].previous = IF m = after THEN before ELSE h1[m].previous
    BY <2>1, <2>3, <2>5, RelinkedFields
  <2> HIDE DEF h2
  <2>7. /\ DOMAIN h3 = DOMAIN heap
        /\ \A m \in DOMAIN heap :
             /\ h3[m] \in node_t /\ h3[m].value = h2[m].value
             /\ h3[m].previous = h2[m].previous
             /\ h3[m].next = IF m = back THEN n ELSE h2[m].next
    BY <2>1, <2>3, <2>6, RelinkedFields
  <2> HIDE DEF h3
  <2>8. /\ DOMAIN h4 = DOMAIN heap
        /\ \A m \in DOMAIN heap :
             /\ h4[m] \in node_t /\ h4[m].value = h3[m].value
             /\ h4[m].next = h3[m].next
             /\ h4[m].previous = IF m = n THEN back ELSE h3[m].previous
    BY <2>1, <2>3, <2>7, RelinkedFields
  <2> HIDE DEF h4
  <2>9. /\ DOMAIN h5 = DOMAIN heap
        /\ \A m \in DOMAIN heap :
             /\ h5[m] \in node_t /\ h5[m].value = h4[m].value
             /\ h5[m].previous = h4[m].previous
             /\ h5[m].next = IF m = n THEN NULL ELSE h4[m].next
    BY <2>1, <2>3, <2>8, RelinkedFields
  <2>10. h5 = [m \in DOMAIN heap |-> h5[m]]
    BY <2>9 DEF Relinked, h5
  <2> HIDE DEF h5
  <2>11. heap' = h5
    <3>1. ASSUME NEW m \in DOMAIN heap PROVE heap'[m] = h5[m]
      <4> DEFINE x == IF m = n THEN NULL ELSE IF m = back THEN n
                      ELSE IF m = before THEN after ELSE heap[m].next
                 y == IF m = n THEN back
                      ELSE IF m = after THEN before ELSE heap[m].previous
      <4>1. PICK a \in Nodes \cup {NULL}, b \in Nodes \cup {NULL} : a = x /\ b = y
        BY <2>2, <2>3 DEF node_t
      <4>2. heap'[m] = [heap[m] EXCEPT !.next = a, !.previous = b]
        BY <2>4, <4>1
      <4>3. m # NULL
        BY <2>2, NodesAssumption
      <4>4. h5[m].value = heap[m].value /\ h5[m].next = a /\ h5[m].previous = b
        BY <2>5, <2>6, <2>7, <2>8, <2>9, <4>1, <4>3
      <4>5. heap[m] \in node_t /\ h5[m] \in node_t
        BY <2>2, <2>9
      <4> QED
        BY <4>2, <4>4, <4>5 DEF node_t
    <3> QED
      BY <2>4, <2>10, <3>1
  <2>12. Here' = ListIs(ahead, n, h5)
    BY <2>4, <2>11 DEF Here
  <2>13. P1!move_back(Here, n) = ListIs(ahead, n, h5)
    <3> DEFINE t == IF before = NULL THEN [Here EXCEPT !.front = after]
                    ELSE P1!Store(Here, before, "next", after)
    <3>1. t = ListIs(ahead, back, h1)
      BY <2>1, StoreIs, FieldsOfList DEF Here, ahead, h1
    <3> HIDE DEF t
    <3>2. P1!Store(t, after, "previous", before) = ListIs(ahead, back, h2)
      BY <2>1, <2>5, <3>1, StoreIs DEF h2
    <3>3. P1!Store(ListIs(ahead, back, h2), back, "next", n) = ListIs(ahead, back, h3)
      BY <2>1, <2>6, StoreIs DEF h3
    <3>4. P1!Store(ListIs(ahead, back, h3), n, "previous", back) = ListIs(ahead, back, h4)
      BY <2>7, StoreIs DEF h4
    <3>5. P1!Store(ListIs(ahead, back, h4), n, "next", NULL) = ListIs(ahead, back, h5)
      BY <2>8, StoreIs DEF h5
    <3>6. P1!move_back(Here, n) = [ListIs(ahead, back, h5) EXCEPT !.back = n]
      BY <1>1, <1>2, <1>4, <3>2, <3>3, <3>4, <3>5 DEF P1!move_back, t, before, after
    <3> QED
      BY <3>6, FieldsOfList
  <2>14. P2!move_back(Here, n) = ListIs(ahead, n, h5)
    <3> DEFINE t == IF before = NULL THEN [Here EXCEPT !.front = after]
                    ELSE P2!Store(Here, before, "next", after)
    <3>1. t = ListIs(ahead, back, h1)
      BY <2>1, StoreIs, FieldsOfList DEF Here, ahead, h1
    <3> HIDE DEF t
    <3>2. P2!Store(t, after, "previous", before) = ListIs(ahead, back, h2)
      BY <2>1, <2>5, <3>1, StoreIs DEF h2
    <3>3. P2!Store(ListIs(ahead, back, h2), back, "next", n) = ListIs(ahead, back, h3)
      BY <2>1, <2>6, StoreIs DEF h3
    <3>4. P2!Store(ListIs(ahead, back, h3), n, "previous", back) = ListIs(ahead, back, h4)
      BY <2>7, StoreIs DEF h4
    <3>5. P2!Store(ListIs(ahead, back, h4), n, "next", NULL) = ListIs(ahead, back, h5)
      BY <2>8, StoreIs DEF h5
    <3>6. P2!move_back(Here, n) = [ListIs(ahead, back, h5) EXCEPT !.back = n]
      BY <1>1, <1>2, <1>4, <3>2, <3>3, <3>4, <3>5 DEF P2!move_back, t, before, after
    <3> QED
      BY <3>6, FieldsOfList
  <2> QED
    BY <2>12, <2>13, <2>14 DEF SameMoveBack
<1> QED
  BY <1>3, <1>4

(***************************************************************************)
(* What the earlier releases print.                                        *)
(***************************************************************************)
ValuesOf(s) == [i \in 1 .. Len(s) |-> heap[s[i]].value]

LEMMA PrintedIs ==
  ASSUME NEW s, NEW start, NEW link, Linked(s, start, link),
         Cardinality(DOMAIN heap) = Len(s)
  PROVE  /\ P1!Printed(heap, start, link) = ValuesOf(s)
         /\ P2!Printed(heap, start, link) = ValuesOf(s)
<1> DEFINE N == Cardinality(DOMAIN heap)
           at == CHOOSE f : Walked(f, N, start, link)
<1>1. N \in Nat /\ Len(s) <= N
  BY LenProperties DEF Linked
<1>2. /\ P1!Printed(heap, start, link)
           = [k \in {k \in 1 .. N : at[k] # NULL} |-> heap[at[k]].value]
      /\ P2!Printed(heap, start, link)
           = [k \in {k \in 1 .. N : at[k] # NULL} |-> heap[at[k]].value]
  BY Zenon DEF P1!Printed, P2!Printed, Walked, P1!Cardinality, P2!Cardinality, Cardinality
<1>3. {k \in 1 .. N : at[k] # NULL} = 1 .. Len(s) /\ \A k \in 1 .. Len(s) : at[k] = s[k]
  <2> HIDE DEF N
  <2> QED
    BY <1>1, WalkOf
<1> HIDE DEF at
<1> QED
  BY <1>2, <1>3 DEF ValuesOf

PrintsAlike ==
  /\ P1!print_list(Here) = P2!print_list(Here)
  /\ P2!print_reverse_list(Here) = Reverse(P2!print_list(Here))
  /\ P1!print_reverse_list(Here) = Reverse(P1!print_list(Here))

LEMMA PrintSame ==
  ASSUME ListInv PROVE PrintsAlike
<1>1. PICK s : HeapTyped /\ Represents(s)
  BY DEF ListInv
<1>2. s \in Seq(Nodes) /\ Len(s) \in Nat /\ Cardinality(DOMAIN heap) = Len(s)
  BY <1>1, Represented, NodesCounted
<1> DEFINE r == Reverse(s)
<1>3. Linked(s, front, "next") /\ Linked(r, back, "previous")
  BY <1>1, Walks
<1>4. Len(r) = Len(s) /\ \A k \in 1 .. Len(s) : r[k] = s[(Len(s) - k) + 1]
  BY <1>1, Walks
<1>5. /\ Here.front = front /\ Here.back = back /\ Here.heap = heap /\ Here # NULL
  BY <1>1, FieldsOfList, HereIsList DEF Here
<1> HIDE DEF r
<1>6. /\ P1!print_list(Here) = ValuesOf(s) /\ P2!print_list(Here) = ValuesOf(s)
      /\ P1!print_reverse_list(Here) = ValuesOf(r)
      /\ P2!print_reverse_list(Here) = ValuesOf(r)
  BY <1>2, <1>3, <1>4, <1>5, PrintedIs DEF P1!print_list, P2!print_list,
     P1!print_reverse_list, P2!print_reverse_list
<1>7. ValuesOf(r) = Reverse(ValuesOf(s))
  <2> DEFINE v == ValuesOf(s)
  <2>1. v \in [1 .. Len(s) -> {heap[s[i]].value : i \in 1 .. Len(s)}]
        /\ \A k \in 1 .. Len(s) : v[k] = heap[s[k]].value
    BY DEF ValuesOf
  <2>2. Len(v) = Len(s)
    <3> HIDE DEF v
    <3>1. v \in Seq({heap[s[i]].value : i \in 1 .. Len(s)})
      BY <1>2, <2>1, SeqDef
    <3> QED
      BY <1>2, <2>1, <3>1, LenProperties
  <2> HIDE DEF v
  <2>3. \A k \in 1 .. Len(s) : (Len(s) - k) + 1 \in 1 .. Len(s)
    BY <1>2
  <2>4. Reverse(v) = [k \in 1 .. Len(s) |-> v[(Len(s) - k) + 1]]
    BY <2>2 DEF Reverse
  <2>5. ValuesOf(r) = [k \in 1 .. Len(s) |-> heap[r[k]].value]
    BY <1>4 DEF ValuesOf
  <2>6. ASSUME NEW k \in 1 .. Len(s) PROVE heap[r[k]].value = v[(Len(s) - k) + 1]
    BY <1>4, <2>1, <2>3
  <2> QED
    BY <2>4, <2>5, <2>6 DEF v
<1> QED
  BY <1>6, <1>7 DEF PrintsAlike

(***************************************************************************)
(* The three releases side by side.                                        *)
(***************************************************************************)
ReleasesInv == ListInv /\ projet01 = Here /\ projet02 = Here

LEMMA InitReleasesInv == ReleasesInit => ReleasesInv
<1> SUFFICES ASSUME ReleasesInit PROVE ReleasesInv
  OBVIOUS
<1>1. ListInv
  BY InitListInv DEF ReleasesInit
<1>2. projet01 = Here /\ projet02 = Here
  BY DEF ReleasesInit, Init, P1!init_list, Here, ListIs
<1> QED
  BY <1>1, <1>2 DEF ReleasesInv

LEMMA ReleasesStep == ReleasesNext => [Next]_list_vars
  BY DEF ReleasesNext, PushBack, PushFront, PopBack, PopFront, MoveBack, Clear, Next

LEMMA NextReleasesInv ==
  ReleasesInv /\ [ReleasesNext]_releases_vars => ReleasesInv'
<1> SUFFICES ASSUME ReleasesInv, [ReleasesNext]_releases_vars PROVE ReleasesInv'
  OBVIOUS
<1>1. ListInv'
  BY ReleasesStep, NextListInv DEF ReleasesInv, releases_vars, list_vars
<1>2. PICK s : HeapTyped /\ Represents(s)
  BY DEF ReleasesInv, ListInv
<1>3. projet01 = Here /\ projet02 = Here
  BY DEF ReleasesInv
<1>4. ASSUME NEW value \in Values, PushBack(value)
      PROVE  projet01' = Here' /\ projet02' = Here'
  <2>1. SamePushBack(value)
    BY <1>2, <1>4, PushBackSame, FailedPushes DEF PushBack
  <2> QED
    BY <1>3, <1>4, <2>1 DEF PushBack, SamePushBack
<1>5. ASSUME NEW value \in Values, PushFront(value)
      PROVE  projet01' = Here' /\ projet02' = Here'
  <2>1. SamePushFront(value)
    BY <1>2, <1>5, PushFrontSame, FailedPushes DEF PushFront
  <2> QED
    BY <1>3, <1>5, <2>1 DEF PushFront, SamePushFront
<1>6. CASE PopBack
  <2>1. SamePopBack
    BY <1>2, <1>6, PopBackSame DEF PopBack
  <2> QED
    BY <1>1, <1>3, <1>6, <2>1 DEF PopBack, SamePopBack, ReleasesInv
<1>7. CASE PopFront
  <2>1. SamePopFront
    BY <1>2, <1>7, PopFrontSame DEF PopFront
  <2> QED
    BY <1>1, <1>3, <1>7, <2>1 DEF PopFront, SamePopFront, ReleasesInv
<1>8. CASE Clear
  <2>1. SameClear
    BY <1>2, <1>8, ClearSame DEF Clear
  <2> QED
    BY <1>1, <1>3, <1>8, <2>1 DEF Clear, SameClear, ReleasesInv
<1>9. ASSUME NEW n \in DOMAIN heap, MoveBack(n)
      PROVE  projet01' = Here' /\ projet02' = Here'
  <2>1. SameMoveBack(n)
    BY <1>2, <1>9, MoveBackSame DEF MoveBack
  <2> QED
    BY <1>3, <1>9, <2>1 DEF MoveBack, SameMoveBack
<1>10. CASE UNCHANGED releases_vars
  BY <1>1, <1>3, <1>10 DEF releases_vars, list_vars, ReleasesInv, Here
<1> QED
  BY <1>1, <1>4, <1>5, <1>6, <1>7, <1>8, <1>9, <1>10 DEF ReleasesNext, ReleasesInv

(* The lists of the three releases are the same pointers after every       *)
(* sequence of calls and of answers of malloc, and print alike.            *)
THEOREM ReleasesKeepOneList == ReleasesSpec => []SameList
<1>1. ReleasesInv => SameList
  <2> SUFFICES ASSUME ReleasesInv PROVE SameList
    OBVIOUS
  <2>1. PrintsAlike
    BY PrintSame DEF ReleasesInv
  <2> QED
    BY <2>1 DEF ReleasesInv, SameList, PrintsAlike, Here, ListIs
<1> QED
  BY <1>1, InitReleasesInv, NextReleasesInv, PTL DEF ReleasesSpec

(* To give them the same calls constrains none of them.                    *)
THEOREM ReleasesAreLists == ReleasesSpec => Spec
<1>1. ReleasesInit => Init
  BY DEF ReleasesInit
<1>2. [ReleasesNext]_releases_vars => [Next]_list_vars
  BY ReleasesStep DEF releases_vars
<1> QED
  BY <1>1, <1>2, PTL DEF ReleasesSpec, Spec
=============================================================================
