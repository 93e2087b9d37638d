-------------------------- MODULE TlbSimple_proofs --------------------------
(***************************************************************************)
(* Proofs about the fully associative TLB, for every number of lines, set  *)
(* of pages and page table, and however often malloc fails while its list  *)
(* is filled.  What the calls do to the list comes from NodeList_proofs.   *)
(***************************************************************************)
EXTENDS TlbSimpleReleases, SequenceTheorems, TLAPS

LP == INSTANCE NodeList_proofs
        WITH Values <- Lines, projet01 <- projet01.list, projet02 <- projet02.list

LEMMA ListAssumption == LP!NodesAssumption /\ LP!NullAssumption
<1>1. LP!NodesAssumption
  BY TlbAssumption DEF LP!NodesAssumption, LP!IsFiniteSet, IsFiniteSet
<1>2. LP!NullAssumption
  BY NullAssumption
     DEF LP!NullAssumption, LP!list_t, LP!node_t, ll!list_t, ll!node_t
<1> QED
  BY <1>1, <1>2

ListOf(s) == LP!HeapTyped /\ LP!Represents(s)

ListKept == \E s : ListOf(s)

LineOf(n) == heap[n].value

(***************************************************************************)
(* What tlb_hit sees of the list.                                          *)
(***************************************************************************)
Reads(s) ==
  /\ s \in Seq(Nodes) /\ Len(s) \in Nat
  /\ ll!Chain(front, "next") = s
  /\ Backwards \in Seq(Nodes) /\ Len(Backwards) = Len(s)
  /\ DOMAIN Backwards = 1 .. Len(s)
  /\ \A k \in 1 .. Len(s) :
       Len(s) - k + 1 \in 1 .. Len(s) /\ Backwards[k] = s[Len(s) - k + 1]

AlwaysReads == \A s : ListOf(s) => Reads(s)

LEMMA ReadBackwards == AlwaysReads
<1> SUFFICES ASSUME NEW s, ListOf(s) PROVE Reads(s)
  BY DEF AlwaysReads
<1>1. /\ LP!Chain(front, "next") = s
      /\ LP!Chain(back, "previous") = LP!Reverse(s)
  BY ListAssumption, LP!Walks DEF LP!NodesAssumption, ListOf
<1>2. ll!Cardinality(Nodes) = LP!Cardinality(Nodes)
  BY DEF LP!Cardinality, ll!Cardinality
<1>3. ll!Chain(front, "next") = s /\ Backwards = LP!Reverse(s)
  <2>1. ASSUME NEW start, NEW link PROVE ll!Chain(start, link) = LP!Chain(start, link)
    BY <1>2 DEF LP!Chain, ll!Chain
  <2> QED
    BY <1>1, <2>1 DEF Backwards
<1>4. s \in Seq(Nodes)
  BY DEF LP!Represents, ListOf
<1> DEFINE n == Len(s)
<1>5. n \in Nat /\ \A i \in 1 .. n : s[i] \in Nodes
  BY <1>4, LenProperties, ElementOfSeq
<1>6. \A k \in 1 .. n : n - k + 1 \in 1 .. n /\ s[(n - k) + 1] \in Nodes
  BY <1>5
<1>7. Backwards \in [1 .. n -> Nodes] /\ \A k \in 1 .. n : Backwards[k] = s[(n - k) + 1]
  BY <1>3, <1>6 DEF LP!Reverse
<1> HIDE DEF n
<1>8. Backwards \in Seq(Nodes)
  BY <1>5, <1>7, SeqDef
<1>9. Len(Backwards) = n /\ DOMAIN Backwards = 1 .. n
  BY <1>5, <1>7, <1>8, LenProperties
<1> QED
  BY <1>3, <1>4, <1>5, <1>6, <1>7, <1>8, <1>9 DEF Reads, n

LEMMA ReadAfter == AlwaysReads'
  BY ReadBackwards, PTL

(* The nodes from the one used last.                                       *)
Nth ==
  /\ Backwards \in Seq(Nodes) /\ Len(Backwards) \in Nat
  /\ DOMAIN Backwards = 1 .. Len(Backwards)
  /\ Len(ll!Chain(front, "next")) = Len(Backwards)
  /\ \A k \in 1 .. Len(Backwards) :
       Backwards[k] \in DOMAIN heap /\ LineOf(Backwards[k]) \in Lines
  /\ \A j, k \in 1 .. Len(Backwards) : Backwards[j] = Backwards[k] => j = k
  /\ front = IF Len(Backwards) = 0 THEN NULL ELSE Backwards[Len(Backwards)]
  /\ back  = IF Len(Backwards) = 0 THEN NULL ELSE Backwards[1]
  /\ NULL \notin Nodes

LEMMA NthIs == ASSUME ListKept PROVE Nth
<1>1. PICK s : ListOf(s)
  BY DEF ListKept
<1> DEFINE n == Len(s)
<1>2. Reads(s)
  BY <1>1, ReadBackwards DEF AlwaysReads
<1>3. /\ n \in Nat /\ Len(Backwards) = n /\ DOMAIN Backwards = 1 .. n
      /\ \A k \in 1 .. n : n - k + 1 \in 1 .. n /\ Backwards[k] = s[n - k + 1]
  BY <1>2 DEF Reads
<1>4. /\ LP!Distinct(s)
      /\ DOMAIN heap = {s[i] : i \in 1 .. n}
      /\ front = IF n = 0 THEN NULL ELSE s[1]
      /\ back  = IF n = 0 THEN NULL ELSE s[n]
      /\ heap \in [DOMAIN heap -> LP!node_t]
  BY <1>1 DEF ListOf, LP!Represents, LP!HeapTyped
<1>5. \A m \in DOMAIN heap : LineOf(m) \in Lines
  BY <1>4 DEF LP!node_t, LineOf
<1> HIDE DEF n
<1>6. \A k \in 1 .. n : Backwards[k] \in DOMAIN heap /\ LineOf(Backwards[k]) \in Lines
  BY <1>3, <1>4, <1>5
<1>7. ASSUME NEW j \in 1 .. n, NEW k \in 1 .. n, Backwards[j] = Backwards[k]
      PROVE  j = k
  <2>1. n - j + 1 = n - k + 1
    BY <1>3, <1>4, <1>7 DEF LP!Distinct, n
  <2> QED
    BY <1>3, <2>1
<1>8. n # 0 => Backwards[n] = s[1] /\ Backwards[1] = s[n]
  BY <1>3
<1> QED
  BY <1>2, <1>3, <1>4, <1>6, <1>7, <1>8, TlbAssumption DEF Reads, Nth, n

LEMMA NthAfter == ListKept' => Nth'
<1>1. ListKept => Nth
  BY NthIs
<1> QED
  BY <1>1, PTL

(***************************************************************************)
(* move_back of the k-th node brings it to the end, and with it what it    *)
(* has been keeping; the nodes that were behind it are one place further.  *)
(***************************************************************************)
MovedUp(k) ==
  /\ Len(Backwards') = Len(Backwards)
  /\ Backwards'[1] = Backwards[k]
  /\ \A m \in 1 .. Len(Backwards) :
       m # 1 => Backwards'[m] = IF m <= k THEN Backwards[m - 1] ELSE Backwards[m]
  /\ \A m \in 1 .. Len(Backwards) : heap'[Backwards[m]].value = LineOf(Backwards[m])

LEMMA MoveBackMoves ==
  ASSUME ListKept, NEW k \in 1 .. Len(Backwards), ll!move_back(Backwards[k])
  PROVE  ListKept' /\ MovedUp(k)
<1> DEFINE b == Backwards
           n == Len(b)
           node == b[k]
<1>1. Nth
  BY NthIs
<1>2. PICK s : ListOf(s)
  BY DEF ListKept
<1>3. Reads(s)
  BY <1>2, ReadBackwards DEF AlwaysReads
<1>4. /\ n \in Nat /\ Len(s) = n /\ k \in 1 .. n /\ node \in DOMAIN heap
      /\ \A i \in 1 .. n : n - i + 1 \in 1 .. n /\ b[i] = s[n - i + 1]
      /\ \A i, j \in 1 .. n : b[i] = b[j] => i = j
      /\ front = b[n] /\ back = b[1]
      /\ s \in Seq(Nodes)
  BY <1>1, <1>3 DEF Nth, Reads
<1>5. \A i \in 1 .. n : heap[s[i]].next = IF i = n THEN NULL ELSE s[i + 1]
  BY <1>2, <1>4 DEF ListOf, LP!Represents
<1>6. LP!move_back(node)
  BY DEF LP!move_back, ll!move_back, LP!list_vars, ll!list_vars
<1>7. \/ UNCHANGED << front, back, heap >>
      \/ /\ LP!HeapTyped' /\ LP!KeepsValues
         /\ \E j \in 1 .. n : LP!Represents(Append(LP!RemoveAt(s, j), s[j]))'
  <2>1. \/ UNCHANGED LP!list_vars
        \/ /\ LP!HeapTyped' /\ LP!KeepsValues
           /\ \E j \in 1 .. Len(s) : LP!Represents(Append(LP!RemoveAt(s, j), s[j]))'
    BY <1>2, <1>4, <1>6, ListAssumption, LP!MoveBackStep DEF ListOf, LP!NodesAssumption
  <2> QED
    BY <1>4, <2>1 DEF LP!list_vars
<1>8. CASE front = back \/ node = back \/ heap[node].next = NULL
  <2>1. UNCHANGED << front, back, heap >>
    BY <1>8 DEF ll!move_back, ll!list_vars
  <2>2. ListKept' /\ Backwards' = Backwards
    <3>1. ListOf(s)'
      BY <1>2, <2>1 DEF ListOf, LP!HeapTyped, LP!node_t, LP!Represents
    <3>2. Backwards' = Backwards
      BY <2>1 DEF Backwards, ll!Chain
    <3> QED
      BY <3>1, <3>2 DEF ListKept
  <2>3. k = 1
    <3>1. CASE front = back \/ node = back
      BY <1>4, <3>1
    <3>2. CASE heap[node].next = NULL
      <4>1. n - k + 1 \in 1 .. n /\ node = s[n - k + 1]
        BY <1>4
      <4>2. n - k + 1 # n => s[(n - k + 1) + 1] \in Nodes
        BY <1>4, ElementOfSeq
      <4>3. n - k + 1 = n
        BY <1>1, <1>5, <3>2, <4>1, <4>2 DEF Nth
      <4> QED
        BY <1>4, <4>3
    <3> QED
      BY <1>8, <3>1, <3>2
  <2>4. \A m \in 1 .. n : heap'[b[m]].value = LineOf(b[m])
    BY <2>1 DEF LineOf
  <2> HIDE DEF b, n, node
  <2> QED
    BY <1>4, <2>2, <2>3, <2>4 DEF MovedUp, b, n
<1>9. CASE ~ (front = back \/ node = back \/ heap[node].next = NULL)
  <2>1. back' = node
    BY <1>9 DEF ll!move_back
  <2>2. ~ UNCHANGED << front, back, heap >>
    BY <1>9, <2>1
  <2>3. PICK j \in 1 .. n :
          /\ LP!HeapTyped' /\ LP!KeepsValues
          /\ LP!Represents(Append(LP!RemoveAt(s, j), s[j]))'
    BY <1>7, <2>2
  <2> DEFINE t == Append(LP!RemoveAt(s, j), s[j])
  <2>4. /\ t \in Seq(Nodes) /\ Len(t) = n /\ t[n] = s[j]
        /\ \A i \in 1 .. n - 1 : t[i] = IF i < j THEN s[i] ELSE s[i + 1]
    <3>1. s \in Seq(Nodes) /\ j \in 1 .. Len(s)
      BY <1>4
    <3>2. /\ t \in Seq(Nodes) /\ Len(t) = Len(s) /\ t[Len(s)] = s[j]
          /\ \A i \in 1 .. Len(s) - 1 : t[i] = IF i < j THEN s[i] ELSE s[i + 1]
      BY ONLY <3>1, LP!MovedToEnd, ListAssumption DEF LP!NodesAssumption, t
    <3> QED
      BY <1>4, <3>2
  <2>5. LP!HeapTyped' /\ LP!Represents(t)'
    BY <2>3
  <2> HIDE DEF t
  <2>6. ListOf(t)'
    BY <2>5 DEF ListOf
  <2>7. ListKept'
    BY <2>6 DEF ListKept
  <2>8. /\ Len(Backwards') = n
        /\ \A i \in 1 .. n : Backwards'[i] = t[n - i + 1]
        /\ DOMAIN heap' = {t[i] : i \in 1 .. n}
        /\ back' = t[n]
    <3>1. Reads(t)'
      BY <2>6, ReadAfter DEF AlwaysReads
    <3>2. Len(t)' = n
      BY <2>4
    <3> QED
      BY <1>4, <2>4, <2>5, <3>1, <3>2 DEF Reads, LP!Represents
  <2>9. n - j + 1 = k
    <3>1. s[j] = b[k]
      BY <2>1, <2>4, <2>8
    <3>2. n - j + 1 \in 1 .. n /\ n - (n - j + 1) + 1 = j
      BY <1>4
    <3>3. b[n - j + 1] = s[j]
      BY <1>4, <3>2
    <3> QED
      BY <1>4, <3>1, <3>2, <3>3
  <2>10. Backwards'[1] = b[k]
    BY <1>4, <2>1, <2>8
  <2>11. ASSUME NEW m \in 1 .. n, m # 1
         PROVE  Backwards'[m] = IF m <= k THEN b[m - 1] ELSE b[m]
    <3>1. n - m + 1 \in 1 .. n - 1 /\ (n - m + 1 < j <=> m > k)
      BY <1>4, <2>9, <2>11
    <3>2. Backwards'[m] = IF m > k THEN s[n - m + 1] ELSE s[(n - m + 1) + 1]
      BY <2>4, <2>8, <3>1
    <3>3. b[m] = s[n - m + 1] /\ b[m - 1] = s[n - (m - 1) + 1]
      <4>1. m - 1 \in 1 .. n
        BY <1>4, <2>11
      <4> QED
        BY <1>4, <4>1
    <3>4. n - (m - 1) + 1 = (n - m + 1) + 1 /\ (m <= k <=> ~ (m > k))
      BY <1>4
    <3> QED
      BY <3>2, <3>3, <3>4
  <2>12. ASSUME NEW m \in 1 .. n PROVE heap'[b[m]].value = LineOf(b[m])
    <3>1. b[m] \in DOMAIN heap
      BY <1>1 DEF Nth
    <3>2. b[m] \in DOMAIN heap'
      <4>1. PICK i \in 1 .. n : b[m] = s[i]
        BY <1>4
      <4>2. CASE i = j
        BY <1>4, <2>4, <2>8, <4>1, <4>2
      <4>3. CASE i < j
        <5>1. i \in 1 .. n - 1 /\ i \in 1 .. n
          BY <1>4, <4>3
        <5>2. t[i] = s[i]
          BY <2>4, <4>3, <5>1
        <5> QED
          BY <2>8, <4>1, <5>1, <5>2
      <4>4. CASE i > j
        <5>1. i - 1 \in 1 .. n - 1 /\ i - 1 \in 1 .. n /\ ~ (i - 1 < j) /\ (i - 1) + 1 = i
          BY <1>4, <4>4
        <5>2. t[i - 1] = s[i]
          BY <2>4, <5>1
        <5> QED
          BY <2>8, <4>1, <5>1, <5>2
      <4> QED
        BY <1>4, <4>2, <4>3, <4>4
    <3> QED
      BY <2>3, <3>1, <3>2 DEF LP!KeepsValues, LineOf
  <2> HIDE DEF b, n, node
  <2> QED
    BY <2>7, <2>8, <2>10, <2>11, <2>12 DEF MovedUp, b, n
<1> QED
  BY <1>8, <1>9

(* push_back puts its value behind what is in the list.                    *)
LEMMA PushBackPushes ==
  ASSUME ListKept, NEW value \in Lines, ll!push_back(value)
  PROVE  /\ ListKept' /\ Len(Backwards') = Len(Backwards) + 1
         /\ heap'[Backwards'[1]].value = value
         /\ \A m \in 1 .. Len(Backwards) :
              /\ Backwards'[m + 1] = Backwards[m]
              /\ heap'[Backwards[m]].value = LineOf(Backwards[m])
<1> DEFINE b == Backwards
           n == Len(b)
<1>1. PICK s : ListOf(s)
  BY DEF ListKept
<1>2. LP!push_back(value)
  BY DEF LP!push_back, ll!push_back, LP!withNode, ll!withNode, LP!Node, ll!Node,
         LP!is_empty_list, ll!is_empty_list
<1>3. PICK node \in Nodes \ DOMAIN heap :
        /\ LP!HeapTyped' /\ LP!KeepsValues
        /\ LP!Represents(Append(s, node))' /\ heap'[node].value = value
  <2>1. LP!HeapTyped /\ LP!Represents(s)
    BY <1>1 DEF ListOf
  <2> QED
    BY <1>2, <2>1, ListAssumption, LP!PushBackStep DEF LP!NodesAssumption
<1> DEFINE t == Append(s, node)
<1>4. Reads(s) /\ s \in Seq(Nodes)
  BY <1>1, ReadBackwards DEF AlwaysReads, Reads
<1>5. /\ n \in Nat /\ Len(s) = n
      /\ \A i \in 1 .. n : n - i + 1 \in 1 .. n /\ b[i] = s[n - i + 1]
  BY <1>4 DEF Reads
<1>6. /\ Len(t) = n + 1 /\ t[n + 1] = node
      /\ \A i \in 1 .. n : t[i] = s[i]
  BY <1>4, <1>5, AppendProperties
<1> HIDE DEF t
<1>7. LP!Represents(t)'
  BY <1>3 DEF t
<1>8. ListOf(t)'
  BY <1>3, <1>7 DEF ListOf
<1>9. ListKept'
  BY <1>8 DEF ListKept
<1>10. /\ Len(Backwards') = n + 1
       /\ \A i \in 1 .. n + 1 : Backwards'[i] = t[(n + 1) - i + 1]
       /\ DOMAIN heap' = {t[i] : i \in 1 .. n + 1}
  <2>1. Reads(t)'
    BY <1>8, ReadAfter DEF AlwaysReads
  <2> QED
    BY <1>6, <1>7, <2>1 DEF Reads, LP!Represents
<1>11. heap'[Backwards'[1]].value = value
  <2>1. 1 \in 1 .. n + 1 /\ (n + 1) - 1 + 1 = n + 1
    BY <1>5
  <2> QED
    BY <1>3, <1>6, <1>10, <2>1
<1>12. ASSUME NEW m \in 1 .. n PROVE Backwards'[m + 1] = b[m]
  <2>1. m + 1 \in 1 .. n + 1 /\ (n + 1) - (m + 1) + 1 = n - m + 1
    BY <1>5
  <2> QED
    BY <1>5, <1>6, <1>10, <2>1
<1>13. ASSUME NEW m \in 1 .. n PROVE heap'[b[m]].value = LineOf(b[m])
  <2>1. b[m] \in DOMAIN heap
    BY NthIs DEF Nth
  <2>2. n - m + 1 \in 1 .. n /\ n - m + 1 \in 1 .. n + 1 /\ b[m] = s[n - m + 1]
    BY <1>5
  <2>3. t[n - m + 1] = b[m]
    BY <1>6, <2>2
  <2>4. b[m] \in DOMAIN heap'
    BY <1>10, <2>2, <2>3
  <2> QED
    BY <1>3, <2>1, <2>4 DEF LP!KeepsValues, LineOf
<1> QED
  BY <1>9, <1>10, <1>11, <1>12, <1>13

(***************************************************************************)
(* The invariant.  LineAt(m) is the line of the m-th node from the end.    *)
(***************************************************************************)
LineAt(m) == LineOf(Backwards[m])

(* The place where a line was before the k-th was moved to the end.        *)
Was(k, m) == IF m = 1 THEN k ELSE IF m <= k THEN m - 1 ELSE m

Places == 1 .. Len(Backwards)

LEMMA WasMoved ==
  ASSUME NEW n \in Nat, NEW k \in 1 .. n
  PROVE  /\ \A m \in 1 .. n : Was(k, m) \in 1 .. n
         /\ \A j, m \in 1 .. n : Was(k, j) = Was(k, m) => j = m
         /\ \A j, m \in 1 .. n : 1 < j /\ j < m => Was(k, j) < Was(k, m)
  BY DEF Was

LEMMA LinesMove ==
  ASSUME ListKept, NEW k \in Places, ll!move_back(Backwards[k])
  PROVE  /\ ListKept' /\ Len(Backwards') = Len(Backwards)
         /\ \A m \in Places : LineAt(m)' = LineAt(Was(k, m))
<1>1. Nth
  BY NthIs
<1>2. ListKept' /\ MovedUp(k)
  BY MoveBackMoves DEF Places
<1>3. ASSUME NEW m \in Places PROVE LineAt(m)' = LineAt(Was(k, m))
  <2>1. Backwards'[m] = Backwards[Was(k, m)] /\ Was(k, m) \in Places
    BY <1>1, <1>2, WasMoved DEF MovedUp, Was, Places, Nth
  <2> QED
    BY <1>2, <2>1 DEF MovedUp, LineAt, LineOf, Places
<1> QED
  BY <1>2, <1>3 DEF MovedUp

LEMMA LineAdded ==
  ASSUME ListKept, NEW value \in Lines, ll!push_back(value)
  PROVE  /\ ListKept' /\ Len(Backwards') = Len(Backwards) + 1
         /\ LineAt(1)' = value
         /\ \A m \in Places : LineAt(m + 1)' = LineAt(m)
  BY PushBackPushes DEF LineAt, LineOf, Places

EntryAt(m) == tlb[LineAt(m)]

(* No line is in the list twice.                                           *)
EachLineOnce == \A j, m \in Places : LineAt(j) = LineAt(m) => j = m

(* The lines that were used are behind those that were not.                *)
UnusedInFront == \A j, m \in Places : j < m /\ EntryAt(m).v => EntryAt(j).v

(* No page is in two lines.                                                *)
EachPageOnce ==
  \A j, m \in Places :
    EntryAt(j).v /\ EntryAt(m).v /\ EntryAt(j).tag = EntryAt(m).tag => j = m

(* A line that holds a page holds its frame.                               *)
FramesAgree ==
  \A l \in Lines :
    tlb[l].v => tlb[l].tag \in Pages /\ tlb[l].phy_page_num = PageTable[tlb[l].tag]

(* The list is filled before the first search, in increasing order.        *)
UnusedWhileFilling ==
  line_index < TLB_LINES =>
    /\ \A l \in Lines : ~ tlb[l].v
    /\ \A m \in Places : LineAt(m) < line_index

LinesTyped ==
  /\ line_index \in 0 .. TLB_LINES
  /\ tlb \in [Lines -> [v : BOOLEAN, tag : Nat, phy_page_num : Frames]]
  /\ answer \in [err : {"ERR_NONE", "ERR_BAD_PARAMETER"},
                 hit_or_miss : {HIT, MISS}, phy_page_num : Frames]

TlbInv ==
  /\ ListKept /\ LinesTyped
  /\ EachLineOnce /\ UnusedInFront /\ EachPageOnce /\ FramesAgree
  /\ UnusedWhileFilling

LEMMA PlacesAre ==
  ASSUME ListKept
  PROVE  /\ Len(Backwards) \in Nat /\ DOMAIN Backwards = Places
         /\ \A m \in Places : LineAt(m) \in Lines
         /\ front # NULL =>
              /\ Len(Backwards) \in Places
              /\ front = Backwards[Len(Backwards)]
              /\ heap[front].value = LineAt(Len(Backwards))
<1>1. Nth
  BY NthIs
<1> QED
  BY <1>1 DEF Nth, Places, LineAt, LineOf

LEMMA InitTlb == Init => TlbInv
<1> SUFFICES ASSUME Init PROVE TlbInv
  OBVIOUS
<1>1. ListKept /\ Len(Backwards) = 0
  <2>1. LP!Init
    BY DEF Init, ll!Init, LP!Init
  <2>2. LP!ListInv
    BY <2>1, ListAssumption, LP!InitListInv DEF LP!NodesAssumption
  <2>3. ListKept
    BY <2>2 DEF LP!ListInv, ListKept, ListOf
  <2>4. Nth /\ front = NULL
    BY <2>3, NthIs DEF Init, ll!Init
  <2>5. Len(Backwards) = 0
    <3>1. Len(Backwards) # 0 => Backwards[Len(Backwards)] \in Nodes
      BY <2>4, ElementOfSeq DEF Nth
    <3> QED
      BY <2>4, <3>1 DEF Nth
  <2> QED
    BY <2>3, <2>5
<1>2. LinesTyped
  BY TlbAssumption DEF Init, LinesTyped, EmptyEntry, HIT, MISS
<1>3. Places = {}
  BY <1>1 DEF Places
<1>4. \A l \in Lines : ~ tlb[l].v
  BY DEF Init, EmptyEntry
<1> QED
  BY <1>1, <1>2, <1>3, <1>4
     DEF TlbInv, EachLineOnce, UnusedInFront, EachPageOnce, FramesAgree,
         UnusedWhileFilling

(* A new line is behind those with smaller numbers, and none is valid.     *)
LEMMA FillKept == TlbInv /\ Fill => TlbInv'
<1> SUFFICES ASSUME TlbInv, Fill PROVE TlbInv'
  OBVIOUS
<1> DEFINE n == Len(Backwards)
<1>1. /\ n \in Nat /\ ListKept /\ \A m \in Places : LineAt(m) \in Lines
      /\ line_index \in Lines /\ line_index' = line_index + 1
      /\ tlb' = tlb /\ answer' = answer
      /\ TLB_LINES \in Nat
  BY PlacesAre, TlbAssumption DEF TlbInv, Fill, LinesTyped, Lines
<1>2. LinesTyped'
  BY <1>1 DEF TlbInv, LinesTyped, Lines
<1>3. \A l \in Lines : ~ tlb'[l].v
  BY <1>1 DEF TlbInv, UnusedWhileFilling, Fill
<1>4. FramesAgree'
  BY <1>3 DEF FramesAgree
<1>5. \A m \in Places : LineAt(m) < line_index
  BY DEF TlbInv, UnusedWhileFilling, Fill
<1>6. CASE ll!push_back(line_index)
  <2>1. /\ ListKept' /\ Len(Backwards') = n + 1
        /\ LineAt(1)' = line_index
        /\ \A m \in Places : LineAt(m + 1)' = LineAt(m)
    BY <1>1, <1>6, LineAdded
  <2>2. Places' = 1 .. n + 1 /\ Places = 1 .. n
    BY <2>1 DEF Places
  <2>3. \A m \in 1 .. n + 1 :
          m # 1 => m - 1 \in 1 .. n /\ LineAt(m)' = LineAt(m - 1)
    <3> TAKE m \in 1 .. n + 1
    <3> HAVE m # 1
    <3>1. m - 1 \in 1 .. n /\ (m - 1) + 1 = m
      BY <1>1
    <3>2. LineAt((m - 1) + 1)' = LineAt(m - 1)
      BY <2>1, <2>2, <3>1
    <3> QED
      BY <3>1, <3>2
  <2>4. \A m \in Places' : LineAt(m)' \in Lines
    BY <1>1, <2>1, <2>2, <2>3
  <2>5. \A m \in Places' : ~ EntryAt(m)'.v
    BY <1>3, <2>4 DEF EntryAt
  <2>6. EachLineOnce'
    <3>1. \A m \in 1 .. n : LineAt(m) \in Nat /\ LineAt(m) # line_index
      BY <1>1, <1>5, <2>2 DEF Lines
    <3>2. \A j, m \in 1 .. n : LineAt(j) = LineAt(m) => j = m
      BY <2>2 DEF TlbInv, EachLineOnce
    <3> SUFFICES ASSUME NEW j \in 1 .. n + 1, NEW m \in 1 .. n + 1, LineAt(j)' = LineAt(m)'
                 PROVE  j = m
      BY <2>2 DEF EachLineOnce
    <3>3. CASE j = 1 \/ m = 1
      BY <2>1, <2>3, <3>1, <3>3
    <3>4. CASE j # 1 /\ m # 1
      <4>1. j - 1 = m - 1
        BY <2>3, <3>2, <3>4
      <4> QED
        BY <1>1, <4>1
    <3> QED
      BY <3>3, <3>4
  <2>7. UnusedWhileFilling'
    <3>1. \A m \in Places' : LineAt(m)' < line_index + 1
      BY <1>1, <1>5, <2>1, <2>2, <2>3 DEF Lines
    <3> QED
      BY <1>1, <1>3, <3>1 DEF UnusedWhileFilling
  <2> QED
    BY <1>2, <1>4, <2>1, <2>5, <2>6, <2>7
       DEF TlbInv, UnusedInFront, EachPageOnce
<1>7. CASE ll!push_fails
  <2>1. heap' = heap /\ front' = front /\ back' = back
    BY <1>7 DEF ll!push_fails, ll!list_vars
  <2>2. Backwards' = Backwards
    BY <2>1 DEF Backwards, ll!Chain
  <2>3. ListKept'
    BY <2>1 DEF TlbInv, ListKept, ListOf, LP!HeapTyped, LP!node_t, LP!Represents
  <2>4. Places' = Places /\ \A m \in Places : LineAt(m)' = LineAt(m)
    BY <2>1, <2>2 DEF Places, LineAt, LineOf
  <2>5. \A m \in Places' : ~ EntryAt(m)'.v
    BY <1>1, <1>3, <2>4 DEF EntryAt
  <2>6. EachLineOnce'
    BY <2>4 DEF TlbInv, EachLineOnce
  <2>7. UnusedWhileFilling'
    <3>1. \A m \in Places' : LineAt(m)' < line_index + 1
      BY <1>1, <1>5, <2>4 DEF Lines
    <3> QED
      BY <1>1, <1>3, <3>1 DEF UnusedWhileFilling
  <2> QED
    BY <1>2, <1>4, <2>3, <2>5, <2>6, <2>7
       DEF TlbInv, UnusedInFront, EachPageOnce
<1> QED
  BY <1>6, <1>7 DEF Fill

LEMMA SameKept ==
  ASSUME TlbInv, UNCHANGED << tlb, policy, line_index >>, LinesTyped'
  PROVE  TlbInv' /\ Backwards' = Backwards /\ ByLastUse' = ByLastUse
<1>1. heap' = heap /\ front' = front /\ back' = back /\ tlb' = tlb
      /\ line_index' = line_index
  BY DEF policy
<1>2. Backwards' = Backwards
  BY <1>1 DEF Backwards, ll!Chain
<1>3. ListKept'
  BY <1>1 DEF TlbInv, ListKept, ListOf, LP!HeapTyped, LP!node_t, LP!Represents
<1>4. Places' = Places /\ \A m \in Places : LineAt(m)' = LineAt(m) /\ EntryAt(m)' = EntryAt(m)
  BY <1>1, <1>2 DEF Places, EntryAt, LineAt, LineOf
<1>5. EachLineOnce' /\ UnusedInFront' /\ EachPageOnce' /\ FramesAgree'
      /\ UnusedWhileFilling'
  BY <1>1, <1>4 DEF TlbInv, EachLineOnce, UnusedInFront, EachPageOnce,
     FramesAgree, UnusedWhileFilling
<1>6. ByLastUse' = ByLastUse
  BY <1>1, <1>2 DEF ByLastUse, Entry
<1> QED
  BY <1>2, <1>3, <1>5, <1>6 DEF TlbInv

(* The k-th line is used and moved to the end: whatever page it then holds *)
(* must be in no line that stays where it is.                              *)
LEMMA UseKept ==
  ASSUME TlbInv, NEW k \in Places, NEW p \in Pages,
         ll!move_back(Backwards[k]),
         line_index = TLB_LINES, line_index' = line_index,
         LinesTyped',
         \A l \in Lines : l # LineAt(k) => tlb'[l] = tlb[l],
         tlb'[LineAt(k)] = EntryFor(p, PageTable[p]),
         \A m \in Places : EntryAt(m).v /\ EntryAt(m).tag = p => m = k,
         EntryAt(k).v \/ k = Len(Backwards)
  PROVE  /\ TlbInv' /\ Len(Backwards') = Len(Backwards)
         /\ EntryAt(1)' = EntryFor(p, PageTable[p])
         /\ \A m \in Places : m # 1 => EntryAt(m)' = EntryAt(Was(k, m))
<1> DEFINE n == Len(Backwards)
<1>1. /\ n \in Nat /\ Places = 1 .. n /\ k \in 1 .. n
      /\ \A m \in 1 .. n : LineAt(m) \in Lines
      /\ \A j, m \in 1 .. n : LineAt(j) = LineAt(m) => j = m
      /\ \A j, m \in 1 .. n : j < m /\ EntryAt(m).v => EntryAt(j).v
      /\ \A j, m \in 1 .. n :
           EntryAt(j).v /\ EntryAt(m).v /\ EntryAt(j).tag = EntryAt(m).tag => j = m
  BY PlacesAre DEF TlbInv, EachLineOnce, UnusedInFront, EachPageOnce, Places
<1>2. /\ ListKept' /\ Len(Backwards') = n
      /\ \A m \in 1 .. n : LineAt(m)' = LineAt(Was(k, m))
  BY <1>1, LinesMove DEF TlbInv
<1>3. Places' = 1 .. n
  BY <1>2 DEF Places
<1> HIDE DEF n
<1>4. /\ \A m \in 1 .. n : Was(k, m) \in 1 .. n
      /\ \A j, m \in 1 .. n : Was(k, j) = Was(k, m) => j = m
      /\ \A j, m \in 1 .. n : 1 < j /\ j < m => Was(k, j) < Was(k, m)
      /\ Was(k, 1) = k
  BY <1>1, WasMoved, Zenon DEF Was
<1>5. 1 \in 1 .. n
  BY <1>1
<1>6. EntryAt(1)' = EntryFor(p, PageTable[p])
  BY <1>2, <1>4, <1>5 DEF EntryAt
<1>7. ASSUME NEW m \in 1 .. n, m # 1 PROVE EntryAt(m)' = EntryAt(Was(k, m))
  <2>1. Was(k, m) # k /\ Was(k, m) \in 1 .. n
    BY <1>4, <1>5, <1>7
  <2>2. LineAt(Was(k, m)) # LineAt(k) /\ LineAt(Was(k, m)) \in Lines
    BY <1>1, <2>1
  <2> QED
    BY <1>2, <2>2 DEF EntryAt
<1>8. EachLineOnce'
  BY <1>1, <1>2, <1>3, <1>4 DEF EachLineOnce
<1>9. EntryFor(p, PageTable[p]).v /\ EntryFor(p, PageTable[p]).tag = p
      /\ EntryFor(p, PageTable[p]).phy_page_num = PageTable[p]
  BY DEF EntryFor
<1>10. EachPageOnce'
  <2> SUFFICES ASSUME NEW j \in 1 .. n, NEW m \in 1 .. n,
                      EntryAt(j)'.v, EntryAt(m)'.v, EntryAt(j)'.tag = EntryAt(m)'.tag
               PROVE  j = m
    BY <1>3 DEF EachPageOnce
  <2>1. CASE j = 1 /\ m = 1
    BY <2>1
  <2>2. CASE j = 1 /\ m # 1
    <3>1. EntryAt(Was(k, m)).v /\ EntryAt(Was(k, m)).tag = p
      BY <1>6, <1>7, <1>9, <2>2
    <3>2. Was(k, m) = k
      BY <1>1, <1>4, <3>1
    <3> QED
      BY <1>4, <1>5, <2>2, <3>2
  <2>3. CASE j # 1 /\ m = 1
    <3>1. EntryAt(Was(k, j)).v /\ EntryAt(Was(k, j)).tag = p
      BY <1>6, <1>7, <1>9, <2>3
    <3>2. Was(k, j) = k
      BY <1>1, <1>4, <3>1
    <3> QED
      BY <1>4, <1>5, <2>3, <3>2
  <2>4. CASE j # 1 /\ m # 1
    <3>1. EntryAt(j)' = EntryAt(Was(k, j)) /\ EntryAt(m)' = EntryAt(Was(k, m))
      BY <1>7, <2>4
    <3>2. PICK a \in 1 .. n, c \in 1 .. n : a = Was(k, j) /\ c = Was(k, m)
      BY <1>4
    <3>3. EntryAt(a).v /\ EntryAt(c).v /\ EntryAt(a).tag = EntryAt(c).tag
      BY <3>1, <3>2
    <3>4. a = c
      BY <1>1, <3>3
    <3> QED
      BY <1>4, <3>2, <3>4
  <2> QED
    BY <2>1, <2>2, <2>3, <2>4
<1>11. UnusedInFront'
  <2> SUFFICES ASSUME NEW j \in 1 .. n, NEW m \in 1 .. n, j < m, EntryAt(m)'.v
               PROVE  EntryAt(j)'.v
    BY <1>3 DEF UnusedInFront
  <2>1. CASE j = 1
    BY <1>6, <1>9, <2>1
  <2>2. CASE j # 1
    <3>1. 1 < j /\ m # 1
      BY <2>2, <1>1
    <3>2. Was(k, j) < Was(k, m) /\ EntryAt(Was(k, m)).v
      BY <1>4, <1>7, <3>1
    <3> QED
      BY <1>1, <1>4, <1>7, <2>2, <3>2
  <2> QED
    BY <2>1, <2>2
<1>12. FramesAgree'
  BY <1>1, <1>9 DEF TlbInv, FramesAgree
<1>13. UnusedWhileFilling'
  BY TlbAssumption DEF UnusedWhileFilling
<1> QED
  BY <1>1, <1>2, <1>6, <1>7, <1>8, <1>10, <1>11, <1>12, <1>13 DEF TlbInv, n

(***************************************************************************)
(* The steps of a search.                                                  *)
(***************************************************************************)
UsedAt(k, p) ==
  /\ TlbInv' /\ Len(Backwards') = Len(Backwards)
  /\ EntryAt(1)' = EntryFor(p, PageTable[p])
  /\ \A m \in Places : m # 1 => EntryAt(m)' = EntryAt(Was(k, m))

LEMMA HitStep ==
  ASSUME TlbInv, NEW p \in Pages, SearchHit(p)
  PROVE  \E k \in Places :
           /\ EntryAt(k).v /\ EntryAt(k).tag = p /\ UsedAt(k, p)
           /\ answer'.phy_page_num = PageTable[p]
<1>1. DOMAIN Backwards = Places /\ \A m \in Places : LineAt(m) \in Lines
  BY PlacesAre DEF TlbInv
<1>2. PICK k \in Places :
        /\ Entry(Backwards[k]).v /\ Entry(Backwards[k]).tag = p
        /\ answer' = [err          |-> "ERR_NONE",
                      hit_or_miss  |-> HIT,
                      phy_page_num |-> Entry(Backwards[k]).phy_page_num]
        /\ ll!move_back(Backwards[k])
  BY <1>1 DEF SearchHit, StopsAt, Holds
<1>3. EntryAt(k) = Entry(Backwards[k]) /\ LineAt(k) \in Lines
  BY <1>1 DEF EntryAt, Entry, LineAt, LineOf
<1>4. /\ EntryAt(k).v /\ EntryAt(k).tag = p
      /\ EntryAt(k).phy_page_num = PageTable[p]
      /\ EntryAt(k) \in [v : BOOLEAN, tag : Nat, phy_page_num : Frames]
  BY <1>2, <1>3 DEF TlbInv, FramesAgree, LinesTyped, EntryAt
<1>5. EntryAt(k) = EntryFor(p, PageTable[p])
  <2>1. EntryAt(k).v = TRUE
    BY <1>4
  <2> QED
    BY <1>4, <2>1 DEF EntryFor
<1>6. tlb' = tlb /\ line_index' = line_index /\ line_index = TLB_LINES
  BY DEF SearchHit, Filled
<1>7. answer'.phy_page_num = PageTable[p] /\ LinesTyped'
  BY <1>2, <1>3, <1>4, <1>6, TlbAssumption DEF TlbInv, LinesTyped, HIT, MISS
<1>8. UsedAt(k, p)
  <2>1. tlb'[LineAt(k)] = EntryFor(p, PageTable[p])
    BY <1>5, <1>6 DEF EntryAt
  <2>2. \A m \in Places : EntryAt(m).v /\ EntryAt(m).tag = p => m = k
    BY <1>4 DEF TlbInv, EachPageOnce
  <2> QED
    BY <1>2, <1>4, <1>6, <1>7, <2>1, <2>2, UseKept DEF UsedAt
<1> QED
  BY <1>4, <1>7, <1>8

LEMMA WalkStep ==
  ASSUME TlbInv, NEW p \in Pages, SearchWalk(p)
  PROVE  /\ Len(Backwards) \in Places
         /\ \A m \in Places : ~ (EntryAt(m).v /\ EntryAt(m).tag = p)
         /\ UsedAt(Len(Backwards), p)
         /\ answer'.phy_page_num = PageTable[p]
<1> DEFINE k == Len(Backwards)
<1>1. /\ k \in Places /\ front = Backwards[k] /\ heap[front].value = LineAt(k)
      /\ DOMAIN Backwards = Places /\ \A m \in Places : LineAt(m) \in Lines
  BY PlacesAre DEF TlbInv, SearchWalk, Filled
<1>2. \A m \in Places : ~ (EntryAt(m).v /\ EntryAt(m).tag = p)
  BY <1>1 DEF SearchWalk, Missed, Holds, Entry, EntryAt, LineAt, LineOf
<1>3. /\ tlb' = [tlb EXCEPT ![LineAt(k)] = EntryFor(p, PageTable[p])]
      /\ ll!move_back(Backwards[k])
      /\ line_index' = line_index /\ line_index = TLB_LINES
      /\ answer' = [err |-> "ERR_NONE", hit_or_miss |-> MISS,
                    phy_page_num |-> PageTable[p]]
  BY <1>1 DEF SearchWalk, Filled
<1>4. PageTable[p] \in Frames /\ p \in Nat
  BY TlbAssumption
<1>5. EntryFor(p, PageTable[p]) \in [v : BOOLEAN, tag : Nat, phy_page_num : Frames]
  BY <1>4 DEF EntryFor
<1> HIDE DEF k
<1>6. LinesTyped'
  BY <1>1, <1>3, <1>4, <1>5 DEF TlbInv, LinesTyped, HIT, MISS
<1>7. UsedAt(k, p)
  <2>1. /\ tlb'[LineAt(k)] = EntryFor(p, PageTable[p])
        /\ \A l \in Lines : l # LineAt(k) => tlb'[l] = tlb[l]
    BY <1>1, <1>3 DEF TlbInv, LinesTyped
  <2> QED
    BY <1>1, <1>2, <1>3, <1>6, <2>1, UseKept DEF UsedAt, k
<1> QED
  BY <1>1, <1>2, <1>3, <1>7 DEF k

LEMMA NextTlb == TlbInv /\ [Next]_vars => TlbInv'
<1> SUFFICES ASSUME TlbInv, [Next]_vars PROVE TlbInv'
  OBVIOUS
<1>1. CASE Fill
  BY <1>1, FillKept
<1>2. ASSUME NEW p \in Pages, Refused(p) PROVE TlbInv'
  <2>1. LinesTyped'
    BY <1>2 DEF Refused, TlbInv, LinesTyped
  <2> QED
    BY <1>2, <2>1, SameKept DEF Refused
<1>3. ASSUME NEW p \in Pages, SearchHit(p) PROVE TlbInv'
  BY <1>3, HitStep DEF UsedAt
<1>4. ASSUME NEW p \in Pages, SearchWalk(p) PROVE TlbInv'
  BY <1>4, WalkStep DEF UsedAt
<1>5. CASE UNCHANGED vars
  <2>1. LinesTyped' /\ UNCHANGED << tlb, policy, line_index >>
    BY <1>5 DEF vars, TlbInv, LinesTyped
  <2> QED
    BY <2>1, SameKept
<1> QED
  BY <1>1, <1>2, <1>3, <1>4, <1>5 DEF Next

LEMMA TlbInvHolds == Spec => []TlbInv
  BY InitTlb, NextTlb, PTL DEF Spec

(* The lines, the list and the answer have their types in every state: the *)
(* lines that the list names are lines of the TLB, whichever nodes malloc  *)
(* refused.                                                                *)
THEOREM TypeCorrect == Spec => []TypeOK
<1>1. TlbInv => TypeOK
  <2> SUFFICES ASSUME TlbInv PROVE TypeOK
    OBVIOUS
  <2>1. PICK s : LP!HeapTyped /\ LP!Represents(s)
    BY DEF TlbInv, ListKept, ListOf
  <2>2. Nth
    BY NthIs DEF TlbInv
  <2>3. Len(Backwards) # 0 => front \in Nodes /\ back \in Nodes
    <3>1. Len(Backwards) # 0 =>
            Backwards[1] \in Nodes /\ Backwards[Len(Backwards)] \in Nodes
      BY <2>2, ElementOfSeq DEF Nth
    <3> QED
      BY <2>2, <3>1 DEF Nth
  <2>4. front \in Nodes \cup {NULL} /\ back \in Nodes \cup {NULL}
    BY <2>2, <2>3 DEF Nth
  <2>5. ll!TypeOK
    BY <2>1, <2>4 DEF ll!TypeOK, LP!HeapTyped, LP!node_t, ll!node_t
  <2> QED
    BY <2>5 DEF TypeOK, TlbInv, LinesTyped
<1> QED
  BY <1>1, TlbInvHolds, PTL

(* Every search that is answered gets the frame of its page from the page  *)
(* table, whether it hits or walks, and whatever the line held before.     *)
THEOREM SearchesAreRight == Spec => SearchIsCorrect
<1>1. TlbInv /\ [Next]_vars =>
        [\A p \in Pages :
           SearchHit(p) \/ SearchWalk(p) => answer'.phy_page_num = PageTable[p]]_vars
  BY HitStep, WalkStep
<1> QED
  BY <1>1, TlbInvHolds, PTL DEF Spec, SearchIsCorrect

(***************************************************************************)
(* Replacement.  The valid lines are the places 1 .. u for some u.         *)
(***************************************************************************)
InUse(u) ==
  /\ u \in 0 .. Len(Backwards)
  /\ \A m \in Places : EntryAt(m).v <=> m <= u

LEMMA SomeInUse ==
  ASSUME TlbInv
  PROVE  \E u : InUse(u)
<1> DEFINE n == Len(Backwards)
           T == {m \in 1 .. n + 1 : m = n + 1 \/ ~ EntryAt(m).v}
<1>1. n \in Nat
  BY PlacesAre DEF TlbInv
<1>2. T \subseteq Nat /\ T # {}
  <2>1. n + 1 \in T
    BY <1>1
  <2> QED
    BY <2>1
<1>3. PICK f \in T : \A m \in T : f <= m
  <2> HIDE DEF T
  <2> QED
    BY <1>2, ListAssumption, LP!LeastElement DEF LP!NodesAssumption
<1>4. f - 1 \in 0 .. n
  BY <1>1
<1>5. ASSUME NEW m \in 1 .. n PROVE EntryAt(m).v <=> m <= f - 1
  <2>1. CASE m < f
    <3>1. m \notin T
      BY <1>1, <1>3, <2>1
    <3> QED
      BY <1>1, <2>1, <3>1
  <2>2. CASE m = f
    BY <1>1, <2>2
  <2>3. CASE m > f
    <3>1. f \in 1 .. n /\ ~ EntryAt(f).v
      BY <1>1, <2>3
    <3> QED
      BY <1>1, <2>3, <3>1 DEF TlbInv, UnusedInFront, Places
  <2> QED
    BY <1>1, <2>1, <2>2, <2>3
<1> QED
  BY <1>4, <1>5 DEF InUse, Places

LEMMA ByLastUseIs ==
  ASSUME TlbInv, NEW u, InUse(u)
  PROVE  ByLastUse = [m \in 1 .. u |-> EntryAt(m).tag]
<1>1. DOMAIN Backwards = Places /\ Len(Backwards) \in Nat
  BY PlacesAre DEF TlbInv
<1>2. \A m : Entry(Backwards[m]) = EntryAt(m)
  BY DEF Entry, EntryAt, LineAt, LineOf
<1>3. {m \in DOMAIN Backwards : Entry(Backwards[m]).v} = 1 .. u
  BY <1>1, <1>2 DEF InUse, Places
<1> QED
  BY <1>2, <1>3 DEF ByLastUse

LEMMA UsedAgain ==
  ASSUME NEW s \in Seq(Pages), NEW p, NEW k \in 1 .. Len(s), s[k] = p,
         \A j \in 1 .. Len(s) : s[j] = p => j = k
  PROVE  Lists!Used(s, p) =
           [m \in 1 .. Len(s) |->
              IF m = 1 THEN p ELSE IF m <= k THEN s[m - 1] ELSE s[m]]
<1>1. DOMAIN s = 1 .. Len(s) /\ Len(s) \in Nat
  BY LenProperties
<1>2. (CHOOSE j \in DOMAIN s : s[j] = p) = k
  BY <1>1
<1>3. \E j \in DOMAIN s : s[j] = p
  BY <1>1
<1>4. k <= Len(s)
  BY <1>1
<1> QED
  BY <1>2, <1>3, <1>4 DEF Lists!Used

LEMMA UsedFirst ==
  ASSUME NEW s \in Seq(Pages), NEW p, \A j \in 1 .. Len(s) : s[j] # p
  PROVE  Lists!Used(s, p) =
           [m \in 1 .. (IF Len(s) = Len(ll!Chain(front, "next")) THEN Len(s)
                        ELSE Len(s) + 1) |-> IF m = 1 THEN p ELSE s[m - 1]]
<1>1. DOMAIN s = 1 .. Len(s) /\ Len(s) \in Nat
  BY LenProperties
<1>2. ~ \E j \in DOMAIN s : s[j] = p
  BY <1>1
<1> DEFINE n == IF Len(s) = Len(ll!Chain(front, "next")) THEN Len(s) ELSE Len(s) + 1
<1>3. \A m \in 1 .. n : m <= Len(s) + 1
  BY <1>1
<1>4. ~ (Len(s) + 1 <= Len(s))
  BY <1>1
<1>5. Lists!Used(s, p) = [m \in 1 .. n |-> IF m = 1 THEN p
                                         ELSE IF m <= Len(s) + 1 THEN s[m - 1] ELSE s[m]]
  BY <1>2, <1>4 DEF Lists!Used
<1> HIDE DEF n
<1>6. Lists!Used(s, p) = [m \in 1 .. n |-> IF m = 1 THEN p ELSE s[m - 1]]
  BY <1>3, <1>5
<1> QED
  BY <1>6 DEF n

ListedByUse == TlbInv => \A u : InUse(u) => ByLastUse = [m \in 1 .. u |-> EntryAt(m).tag]

LEMMA ListedAfter == ListedByUse'
<1>1. ListedByUse
  BY ByLastUseIs DEF ListedByUse
<1> QED
  BY <1>1, PTL

(* A search is a use of its page in the list of pages by last use, with as *)
(* many lines as there are nodes.                                          *)
LEMMA SearchIsUse ==
  ASSUME TlbInv, NEW p \in Pages, SearchHit(p) \/ SearchWalk(p)
  PROVE  /\ ByLastUse' = Lists!Used(ByLastUse, p)
         /\ Len(ll!Chain(front, "next")') = Len(ll!Chain(front, "next"))
<1> DEFINE n == Len(Backwards)
           s == ByLastUse
<1>1. PICK k \in Places :
        /\ UsedAt(k, p)
        /\ \/ EntryAt(k).v /\ EntryAt(k).tag = p
           \/ /\ k = n
              /\ \A m \in Places : ~ (EntryAt(m).v /\ EntryAt(m).tag = p)
  BY HitStep, WalkStep
<1>2. PICK u : InUse(u)
  BY SomeInUse
<1>3. /\ n \in Nat /\ Places = 1 .. n /\ k \in 1 .. n
      /\ Len(ll!Chain(front, "next")) = n
      /\ u \in 0 .. n /\ \A m \in 1 .. n : EntryAt(m).v <=> m <= u
  BY <1>2, NthIs DEF TlbInv, Nth, Places, InUse
<1>4. /\ TlbInv' /\ Len(Backwards') = n
      /\ EntryAt(1)'.v /\ EntryAt(1)'.tag = p
      /\ \A m \in 1 .. n : m # 1 => EntryAt(m)' = EntryAt(Was(k, m))
  BY <1>1, <1>3 DEF UsedAt, EntryFor
<1>5. Len(ll!Chain(front, "next")') = n
  <2>1. Nth'
    BY <1>4, NthAfter DEF TlbInv
  <2> QED
    BY <1>4, <2>1 DEF Nth
<1>6. s = [m \in 1 .. u |-> EntryAt(m).tag]
  BY <1>2, ByLastUseIs
<1>7. \A m \in 1 .. u : m \in 1 .. n /\ EntryAt(m).tag \in Pages
  <2> TAKE m \in 1 .. u
  <2>1. m \in 1 .. n /\ EntryAt(m).v
    BY <1>3
  <2>2. LineAt(m) \in Lines
    BY <1>3, <2>1, PlacesAre DEF TlbInv
  <2> QED
    BY <2>1, <2>2 DEF TlbInv, FramesAgree, EntryAt
<1>8. s \in Seq(Pages) /\ Len(s) = u /\ \A m \in 1 .. u : s[m] = EntryAt(m).tag
  <2>1. s \in [1 .. u -> Pages]
    BY <1>6, <1>7
  <2>2. s \in Seq(Pages)
    BY <1>3, <2>1, SeqDef
  <2> QED
    BY <1>3, <1>6, <2>1, <2>2, LenProperties
<1>9. \A v : InUse(v)' => ByLastUse' = [m \in 1 .. v |-> EntryAt(m)'.tag]
  BY <1>4, ListedAfter DEF ListedByUse
<1>10. 1 \in 1 .. n
  BY <1>3
<1> HIDE DEF n, s
<1>11. CASE EntryAt(k).v /\ EntryAt(k).tag = p
  <2>1. k \in 1 .. u
    BY <1>3, <1>11
  <2>2. \A j \in 1 .. u : s[j] = p => j = k
    <3>1. \A j \in 1 .. u : EntryAt(j).v
      BY <1>3, <1>7
    <3> QED
      BY <1>3, <1>7, <1>8, <1>11, <3>1 DEF TlbInv, EachPageOnce
  <2>3. Lists!Used(s, p) =
          [m \in 1 .. u |-> IF m = 1 THEN p ELSE IF m <= k THEN s[m - 1] ELSE s[m]]
    <3>1. k \in 1 .. Len(s) /\ s[k] = p /\ \A j \in 1 .. Len(s) : s[j] = p => j = k
      BY <1>8, <1>11, <2>1, <2>2
    <3>2. s \in Seq(Pages) /\ Len(s) = u
      BY <1>8
    <3> QED
      BY <3>1, <3>2, UsedAgain
  <2>4. InUse(u)'
    <3>1. ASSUME NEW m \in 1 .. n PROVE EntryAt(m)'.v <=> m <= u
      <4>1. CASE m = 1
        BY <1>4, <2>1, <4>1, <1>3
      <4>2. CASE m # 1
        <5>1. Was(k, m) \in 1 .. n /\ (Was(k, m) <= u <=> m <= u)
          BY <1>3, <2>1, <4>2 DEF Was
        <5> QED
          BY <1>3, <1>4, <4>2, <5>1
      <4> QED
        BY <4>1, <4>2
    <3> QED
      BY <1>3, <1>4, <3>1 DEF InUse, Places, n
  <2>5. \A m \in 1 .. u :
          EntryAt(m)'.tag = IF m = 1 THEN p ELSE IF m <= k THEN s[m - 1] ELSE s[m]
    <3> TAKE m \in 1 .. u
    <3>1. CASE m = 1
      BY <1>4, <3>1
    <3>2. CASE m # 1
      <4>1. Was(k, m) = (IF m <= k THEN m - 1 ELSE m) /\ m \in 1 .. n
            /\ Was(k, m) \in 1 .. u
        BY <1>3, <2>1, <3>2 DEF Was
      <4>2. EntryAt(m)'.tag = s[Was(k, m)]
        BY <1>4, <1>8, <3>2, <4>1
      <4> QED
        BY <3>2, <4>1, <4>2
    <3> QED
      BY <3>1, <3>2
  <2>6. ByLastUse' = [m \in 1 .. u |-> EntryAt(m)'.tag]
    BY <1>9, <2>4
  <2> QED
    BY <1>3, <1>5, <2>3, <2>5, <2>6 DEF s
<1>12. CASE k = n /\ \A m \in Places : ~ (EntryAt(m).v /\ EntryAt(m).tag = p)
  <2>0. PICK v : v = IF u = n THEN u ELSE u + 1
    OBVIOUS
  <2>1. v \in 0 .. n /\ \A m \in 1 .. v : m \in 1 .. n
    BY <1>3, <2>0
  <2>2. Lists!Used(s, p) = [m \in 1 .. v |-> IF m = 1 THEN p ELSE s[m - 1]]
    <3>1. \A j \in 1 .. u : s[j] # p
      BY <1>3, <1>7, <1>8, <1>12
    <3> QED
      BY <1>3, <1>8, <2>0, <3>1, UsedFirst
  <2>3. \A m \in 1 .. n : m # 1 => EntryAt(m)' = EntryAt(m - 1) /\ m - 1 \in 1 .. n
    <3> TAKE m \in 1 .. n
    <3> HAVE m # 1
    <3>1. Was(k, m) = m - 1 /\ m - 1 \in 1 .. n
      BY <1>3, <1>12 DEF Was
    <3> QED
      BY <1>4, <3>1
  <2>4. InUse(v)'
    <3>1. ASSUME NEW m \in 1 .. n PROVE EntryAt(m)'.v <=> m <= v
      <4>1. CASE m = 1
        BY <1>3, <1>4, <2>0, <4>1
      <4>2. CASE m # 1
        <5>1. m - 1 <= u <=> m <= v
          BY <1>3, <2>0
        <5> QED
          BY <1>3, <2>3, <4>2, <5>1
      <4> QED
        BY <4>1, <4>2
    <3> QED
      BY <1>3, <1>4, <2>1, <3>1 DEF InUse, Places, n
  <2>5. \A m \in 1 .. v : EntryAt(m)'.tag = IF m = 1 THEN p ELSE s[m - 1]
    <3> TAKE m \in 1 .. v
    <3>1. CASE m = 1
      BY <1>4, <3>1
    <3>2. CASE m # 1
      <4>1. m - 1 \in 1 .. u /\ m \in 1 .. n
        BY <1>3, <2>0, <3>2
      <4> QED
        BY <1>8, <2>3, <3>2, <4>1
    <3> QED
      BY <3>1, <3>2
  <2>6. ByLastUse' = [m \in 1 .. v |-> EntryAt(m)'.tag]
    BY <1>9, <2>4
  <2> QED
    BY <1>3, <1>5, <2>2, <2>5, <2>6 DEF s
<1> QED
  BY <1>1, <1>11, <1>12

NoneUsed == \A l \in Lines : ~ tlb[l].v

EmptyWithoutUse == TlbInv /\ NoneUsed => ByLastUse = << >>

LEMMA NothingListed == EmptyWithoutUse
<1> SUFFICES ASSUME TlbInv, NoneUsed PROVE ByLastUse = << >>
  BY DEF EmptyWithoutUse
<1>1. InUse(0)
  <2>1. \A m \in Places : ~ EntryAt(m).v /\ ~ (m <= 0)
    BY PlacesAre DEF TlbInv, NoneUsed, EntryAt, Places
  <2> QED
    BY <2>1, PlacesAre DEF TlbInv, InUse
<1>2. ByLastUse = [m \in 1 .. 0 |-> EntryAt(m).tag]
  BY <1>1, ByLastUseIs
<1> QED
  BY <1>2

LEMMA FillSettles ==
  ASSUME TlbInv, Fill
  PROVE  ByLastUse = << >> /\ ByLastUse' = << >>
<1>1. EmptyWithoutUse /\ EmptyWithoutUse'
  BY NothingListed, PTL
<1>2. NoneUsed /\ TlbInv' /\ tlb' = tlb
  BY FillKept DEF TlbInv, UnusedWhileFilling, Fill, NoneUsed
<1>3. NoneUsed'
  BY <1>2 DEF NoneUsed
<1> QED
  BY <1>1, <1>2, <1>3 DEF EmptyWithoutUse

(* The list of the one cache.                                              *)
Order == [c \in {"tlb"} |-> [i \in {0} |-> ByLastUse]]

LEMMA OneUse ==
  ASSUME TlbInv, NEW p \in Pages, SearchHit(p) \/ SearchWalk(p)
  PROVE  Lists!Use("tlb", p)
<1>1. /\ ByLastUse' = Lists!Used(ByLastUse, p)
      /\ Len(ll!Chain(front, "next")') = Len(ll!Chain(front, "next"))
  BY SearchIsUse
<1>2. Order' = [Order EXCEPT !["tlb"][0] = Lists!Used(@, p)]
  BY <1>1 DEF Order
<1> QED
  BY <1>1, <1>2 DEF Lists!Use, OnlyIndex, Order

(* Whatever the searches, the lines that came into the list are replaced   *)
(* in the order of their last use, and a search is exactly one use of its  *)
(* page: list, indices and lines together keep the promise of tlb_insert.  *)
THEOREM LruReplacement == Spec => TlbIsLru
<1>1. Init => Lists!Init
  <2> SUFFICES ASSUME Init PROVE ByLastUse = << >>
    BY DEF Lists!Init
  <2>1. NoneUsed /\ TlbInv
    BY InitTlb DEF Init, NoneUsed, EmptyEntry
  <2> QED
    BY <2>1, NothingListed DEF EmptyWithoutUse
<1>2. TlbInv /\ [Next]_vars =>
        [Lists!Next]_<< Order, Len(ll!Chain(front, "next")) >>
  <2> SUFFICES ASSUME TlbInv, [Next]_vars
               PROVE  [Lists!Next]_<< Order, Len(ll!Chain(front, "next")) >>
    OBVIOUS
  <2>1. CASE Fill
    <3>1. ByLastUse = << >> /\ ByLastUse' = << >>
      BY <2>1, FillSettles
    <3> QED
      BY <3>1 DEF Lists!Next, Lists!Settle, Order
  <2>2. ASSUME NEW p \in Pages, SearchHit(p) \/ SearchWalk(p)
        PROVE  Lists!Next
    BY <2>2, OneUse DEF Lists!Next
  <2>3. CASE UNCHANGED << tlb, policy, line_index >>
    <3>1. ByLastUse' = ByLastUse /\ ll!Chain(front, "next")' = ll!Chain(front, "next")
      BY <2>3 DEF policy, ByLastUse, Backwards, Entry, ll!Chain
    <3> QED
      BY <3>1 DEF Order
  <2> QED
    BY <2>1, <2>2, <2>3 DEF Next, Refused, vars
<1>3. TlbInv /\ [Next]_vars =>
        [\A p \in Pages :
           SearchHit(p) \/ SearchWalk(p) => Lists!Use("tlb", p)]_vars
  BY OneUse
<1> QED
  BY <1>1, <1>2, <1>3, TlbInvHolds, PTL DEF Spec, TlbIsLru, Lists!Spec, Order


(***************************************************************************)
(* The releases.  A sequence of nodes that begins at the back and goes on  *)
(* as a loop of tlb_hit does ends where the loop ends.                     *)
(***************************************************************************)
Rounds1(w, N, s, p) ==
  w = [k \in 0 .. N |->
         IF k = 0 THEN s.list.back
         ELSE IF P1!Stops(s, p, w[k - 1]) THEN w[k - 1]
         ELSE s.list.heap[w[k - 1]].previous]

Rounds2(w, N, s, p) ==
  w = [k \in 0 .. N |->
         IF k = 0 THEN s.list.back
         ELSE IF w[k - 1] = NULL \/ P2!BadIndex(s, w[k - 1]) THEN NULL
         ELSE IF P2!Matches(s, p, w[k - 1]) THEN w[k - 1]
         ELSE s.list.heap[w[k - 1]].previous]

LEMMA Loop1 ==
  ASSUME NEW s, NEW p, NEW N \in Nat, LP!Cardinality(DOMAIN s.list.heap) = N,
         NEW w, Rounds1(w, N, s, p)
  PROVE  P1!Found(s, p, s.list.back) = w[N]
<1> DEFINE at == CHOOSE f : Rounds1(f, N, s, p)
<1>1. P1!Found(s, p, s.list.back) = at[N]
  BY DEF P1!Found, P1!Cardinality, LP!Cardinality, Rounds1
<1>2. Rounds1(at, N, s, p)
  OBVIOUS
<1> HIDE DEF at
<1>3. at[0] = w[0]
  BY <1>2 DEF Rounds1
<1>4. \A k \in 1 .. N : at[k - 1] = w[k - 1] => at[k] = w[k]
  <2> SUFFICES ASSUME NEW k \in 1 .. N, at[k - 1] = w[k - 1] PROVE at[k] = w[k]
    OBVIOUS
  <2>1. k \in 0 .. N /\ k # 0
    OBVIOUS
  <2>2. at[k] = IF P1!Stops(s, p, at[k - 1]) THEN at[k - 1]
                ELSE s.list.heap[at[k - 1]].previous
    BY <1>2, <2>1 DEF Rounds1
  <2>3. w[k] = IF P1!Stops(s, p, w[k - 1]) THEN w[k - 1]
               ELSE s.list.heap[w[k - 1]].previous
    BY <2>1 DEF Rounds1
  <2> QED
    BY <2>2, <2>3
<1>5. at[N] = w[N]
  <2>1. PICK f, g : f = at /\ g = w
    OBVIOUS
  <2>2. /\ N \in Nat /\ f[0] = g[0]
        /\ \A k \in 1 .. N : f[k - 1] = g[k - 1] => f[k] = g[k]
    BY <1>3, <1>4, <2>1
  <2>3. \A k \in 0 .. N : f[k] = g[k]
    BY ONLY <2>2, LP!SameRounds, ListAssumption
  <2> QED
    BY <2>1, <2>3
<1> QED
  BY <1>1, <1>5

LEMMA Loop2 ==
  ASSUME NEW s, NEW p, NEW N \in Nat, LP!Cardinality(DOMAIN s.list.heap) = N,
         NEW w, Rounds2(w, N, s, p)
  PROVE  P2!Found(s, p, s.list.back) = w[N]
<1> DEFINE at == CHOOSE f : Rounds2(f, N, s, p)
<1>1. P2!Found(s, p, s.list.back) = at[N]
  BY DEF P2!Found, P2!Cardinality, LP!Cardinality, Rounds2
<1>2. Rounds2(at, N, s, p)
  OBVIOUS
<1> HIDE DEF at
<1>3. at[0] = w[0]
  BY <1>2 DEF Rounds2
<1>4. \A k \in 1 .. N : at[k - 1] = w[k - 1] => at[k] = w[k]
  <2> SUFFICES ASSUME NEW k \in 1 .. N, at[k - 1] = w[k - 1] PROVE at[k] = w[k]
    OBVIOUS
  <2>1. k \in 0 .. N /\ k # 0
    OBVIOUS
  <2>2. at[k] = IF at[k - 1] = NULL \/ P2!BadIndex(s, at[k - 1]) THEN NULL
                ELSE IF P2!Matches(s, p, at[k - 1]) THEN at[k - 1]
                ELSE s.list.heap[at[k - 1]].previous
    BY <1>2, <2>1 DEF Rounds2
  <2>3. w[k] = IF w[k - 1] = NULL \/ P2!BadIndex(s, w[k - 1]) THEN NULL
               ELSE IF P2!Matches(s, p, w[k - 1]) THEN w[k - 1]
               ELSE s.list.heap[w[k - 1]].previous
    BY <2>1 DEF Rounds2
  <2> QED
    BY <2>2, <2>3
<1>5. at[N] = w[N]
  <2>1. PICK f, g : f = at /\ g = w
    OBVIOUS
  <2>2. /\ N \in Nat /\ f[0] = g[0]
        /\ \A k \in 1 .. N : f[k - 1] = g[k - 1] => f[k] = g[k]
    BY <1>3, <1>4, <2>1
  <2>3. \A k \in 0 .. N : f[k] = g[k]
    BY ONLY <2>2, LP!SameRounds, ListAssumption
  <2> QED
    BY <2>1, <2>3
<1> QED
  BY <1>1, <1>5

(* From a node the loops go to the one behind it in the walk.              *)
Behind(k) ==
  heap[Backwards[k]].previous
    = IF k = Len(Backwards) THEN NULL ELSE Backwards[k + 1]

LEMMA LinksBack ==
  ASSUME ListKept
  PROVE  /\ LP!Cardinality(DOMAIN heap) = Len(Backwards)
         /\ \A k \in Places : Behind(k)
<1>1. PICK s : ListOf(s)
  BY DEF ListKept
<1> DEFINE n == Len(s)
<1>2. Reads(s)
  BY <1>1, ReadBackwards DEF AlwaysReads
<1>3. /\ n \in Nat /\ Len(Backwards) = n
      /\ \A k \in 1 .. n : n - k + 1 \in 1 .. n /\ Backwards[k] = s[n - k + 1]
  BY <1>2 DEF Reads
<1>4. LP!Cardinality(DOMAIN heap) = n
  BY <1>1, ListAssumption, LP!NodesCounted DEF ListOf
<1>5. \A i \in 1 .. n : heap[s[i]].previous = IF i = 1 THEN NULL ELSE s[i - 1]
  BY <1>1 DEF ListOf, LP!Represents
<1> HIDE DEF n
<1>6. ASSUME NEW k \in 1 .. n PROVE Behind(k)
  <2>1. heap[Backwards[k]].previous
          = IF n - k + 1 = 1 THEN NULL ELSE s[n - k + 1 - 1]
    BY <1>3, <1>5
  <2>2. n - k + 1 = 1 <=> k = n
    BY <1>3
  <2>3. k # n => Backwards[k + 1] = s[n - k + 1 - 1]
    <3>1. k # n => k + 1 \in 1 .. n /\ n - (k + 1) + 1 = n - k + 1 - 1
      BY <1>3
    <3> QED
      BY <1>3, <3>1
  <2> QED
    BY <1>3, <2>1, <2>2, <2>3 DEF Behind
<1> QED
  BY <1>3, <1>4, <1>6 DEF Places

(***************************************************************************)
(* The record of a TLB, as long as the releases agree.                     *)
(***************************************************************************)
TlbIs(t, a, l) == [tlb |-> t, answer |-> a, list |-> l]

AnswerIs(e, h, f) == [err |-> e, hit_or_miss |-> h, phy_page_num |-> f]

LEMMA FieldsOfTlb ==
  \A t, a, l : /\ TlbIs(t, a, l).tlb = t
               /\ TlbIs(t, a, l).answer = a
               /\ TlbIs(t, a, l).list = l
  BY DEF TlbIs

LEMMA FieldsOfAnswer ==
  \A e, h, f : /\ AnswerIs(e, h, f).err = e
               /\ AnswerIs(e, h, f).hit_or_miss = h
               /\ AnswerIs(e, h, f).phy_page_num = f
               /\ \A x : /\ [AnswerIs(e, h, f) EXCEPT !.err = x] = AnswerIs(x, h, f)
                         /\ [AnswerIs(e, h, f) EXCEPT !.hit_or_miss = x] = AnswerIs(e, x, f)
                         /\ [AnswerIs(e, h, f) EXCEPT !.phy_page_num = x] = AnswerIs(e, h, x)
  BY DEF AnswerIs

LEMMA AnswerStored ==
  ASSUME NEW t, NEW e, NEW h, NEW f, NEW l, NEW x
  PROVE  /\ [TlbIs(t, AnswerIs(e, h, f), l) EXCEPT !.answer.err = x]
              = TlbIs(t, AnswerIs(x, h, f), l)
         /\ [TlbIs(t, AnswerIs(e, h, f), l) EXCEPT !.answer.hit_or_miss = x]
              = TlbIs(t, AnswerIs(e, x, f), l)
         /\ [TlbIs(t, AnswerIs(e, h, f), l) EXCEPT !.answer.phy_page_num = x]
              = TlbIs(t, AnswerIs(e, h, x), l)
<1> DEFINE s == TlbIs(t, AnswerIs(e, h, f), l)
<1>1. \A a : [s EXCEPT !.answer = a] = TlbIs(t, a, l)
  BY DEF TlbIs
<1>2. /\ [s.answer EXCEPT !.err = x] = AnswerIs(x, h, f)
      /\ [s.answer EXCEPT !.hit_or_miss = x] = AnswerIs(e, x, f)
      /\ [s.answer EXCEPT !.phy_page_num = x] = AnswerIs(e, h, x)
  BY FieldsOfTlb, FieldsOfAnswer
<1> HIDE DEF s
<1>3. /\ [s EXCEPT !.answer.err = x] = [s EXCEPT !.answer = [s.answer EXCEPT !.err = x]]
      /\ [s EXCEPT !.answer.hit_or_miss = x]
           = [s EXCEPT !.answer = [s.answer EXCEPT !.hit_or_miss = x]]
      /\ [s EXCEPT !.answer.phy_page_num = x]
           = [s EXCEPT !.answer = [s.answer EXCEPT !.phy_page_num = x]]
  OBVIOUS
<1> QED
  BY <1>1, <1>2, <1>3 DEF s


LEMMA ThirdIs ==
  ASSUME LinesTyped
  PROVE  /\ Third = TlbIs(tlb, AnswerIs(answer.err, answer.hit_or_miss,
                                        answer.phy_page_num), LP!Here)
         /\ Third.tlb = tlb /\ Third.answer = answer /\ Third.list = LP!Here
         /\ Third.list.front = front /\ Third.list.back = back
         /\ Third.list.heap = heap
<1>1. answer = AnswerIs(answer.err, answer.hit_or_miss, answer.phy_page_num)
  BY DEF LinesTyped, AnswerIs
<1>2. Third = TlbIs(tlb, answer, LP!Here)
  BY DEF Third, TlbIs, LP!Here, LP!ListIs
<1>3. /\ LP!Here.front = front /\ LP!Here.back = back /\ LP!Here.heap = heap
  BY DEF LP!Here, LP!ListIs
<1> QED
  BY <1>1, <1>2, <1>3, FieldsOfTlb

(* No node of the list has a bad index: a loop stops only where it should. *)
LEMMA NoBadIndex ==
  ASSUME TlbInv, NEW p, NEW k \in Places
  PROVE  /\ Backwards[k] # NULL
         /\ ~ (heap[Backwards[k]].value >= TLB_LINES)
         /\ P1!Stops(Third, p, Backwards[k]) <=> Holds(Backwards[k], p)
         /\ ~ P2!BadIndex(Third, Backwards[k])
         /\ P2!Matches(Third, p, Backwards[k]) <=> Holds(Backwards[k], p)
<1>1. Nth
  BY NthIs DEF TlbInv
<1>2. Backwards[k] \in Nodes
  BY <1>1, ElementOfSeq DEF Nth, Places
<1>3. LineAt(k) \in Lines /\ LineAt(k) = heap[Backwards[k]].value
  BY PlacesAre DEF TlbInv, LineAt, LineOf
<1>4. ~ (heap[Backwards[k]].value >= TLB_LINES)
  BY <1>3, TlbAssumption DEF Lines
<1>5. Third.tlb = tlb /\ Third.list.heap = heap
  BY ThirdIs DEF TlbInv
<1>6. Backwards[k] # NULL
  BY <1>1, <1>2 DEF Nth
<1>7. P1!Stops(Third, p, Backwards[k]) <=> Holds(Backwards[k], p)
  BY <1>4, <1>5, <1>6 DEF P1!Stops, Holds, Entry
<1>8. ~ P2!BadIndex(Third, Backwards[k])
  BY <1>4, <1>5 DEF P2!BadIndex
<1>9. P2!Matches(Third, p, Backwards[k]) <=> Holds(Backwards[k], p)
  BY <1>5 DEF P2!Matches, Holds, Entry
<1> QED
  BY <1>4, <1>6, <1>7, <1>8, <1>9

LEMMA WalkBegins ==
  ASSUME TlbInv, Places # {}
  PROVE  /\ Len(Backwards) \in Nat /\ Len(Backwards) > 0
         /\ Third.list.back = Backwards[1] /\ Third.list.heap = heap
         /\ LP!Cardinality(DOMAIN Third.list.heap) = Len(Backwards)
         /\ \A k \in Places : Behind(k)
<1>1. Nth
  BY NthIs DEF TlbInv
<1>2. Len(Backwards) \in Nat /\ Len(Backwards) > 0
  BY <1>1 DEF Nth, Places
<1>3. back = Backwards[1]
  BY <1>1, <1>2 DEF Nth
<1> QED
  BY <1>2, <1>3, ThirdIs, LinksBack DEF TlbInv

(* A walk w of N rounds on which both loops agree.                         *)
TakenBy(w, N, p) ==
  /\ w = [k \in 0 .. N |-> w[k]]
  /\ w[0] = Third.list.back
  /\ \A k \in 1 .. N :
       /\ w[k] = IF P1!Stops(Third, p, w[k - 1]) THEN w[k - 1]
                 ELSE Third.list.heap[w[k - 1]].previous
       /\ w[k] = IF w[k - 1] = NULL \/ P2!BadIndex(Third, w[k - 1]) THEN NULL
                 ELSE IF P2!Matches(Third, p, w[k - 1]) THEN w[k - 1]
                 ELSE Third.list.heap[w[k - 1]].previous

LEMMA LoopsTake ==
  ASSUME NEW p, NEW N \in Nat, LP!Cardinality(DOMAIN Third.list.heap) = N,
         NEW w, TakenBy(w, N, p)
  PROVE  /\ P1!Found(Third, p, Third.list.back) = w[N]
         /\ P2!Found(Third, p, Third.list.back) = w[N]
<1>0. w = [k \in 0 .. N |-> w[k]]
  BY DEF TakenBy
<1>1. Rounds1(w, N, Third, p)
  <2>1. ASSUME NEW k \in 0 .. N
        PROVE  w[k] = IF k = 0 THEN Third.list.back
                      ELSE IF P1!Stops(Third, p, w[k - 1]) THEN w[k - 1]
                      ELSE Third.list.heap[w[k - 1]].previous
    <3>1. k # 0 => k \in 1 .. N
      OBVIOUS
    <3> QED
      BY <3>1, Zenon DEF TakenBy
  <2> QED
    BY <1>0, <2>1, Zenon DEF Rounds1
<1>2. Rounds2(w, N, Third, p)
  <2>1. ASSUME NEW k \in 0 .. N
        PROVE  w[k] = IF k = 0 THEN Third.list.back
                      ELSE IF w[k - 1] = NULL \/ P2!BadIndex(Third, w[k - 1]) THEN NULL
                      ELSE IF P2!Matches(Third, p, w[k - 1]) THEN w[k - 1]
                      ELSE Third.list.heap[w[k - 1]].previous
    BY DEF TakenBy
  <2> QED
    BY <1>0, <2>1, Zenon DEF Rounds2
<1>3. P1!Found(Third, p, Third.list.back) = w[N]
  BY <1>1, Loop1
<1>4. P2!Found(Third, p, Third.list.back) = w[N]
  BY <1>2, Loop2
<1> QED
  BY <1>3, <1>4

LEMMA FoundWhereItStops ==
  ASSUME TlbInv, NEW p, NEW place \in Places, StopsAt(place, p)
  PROVE  /\ P1!Found(Third, p, Third.list.back) = Backwards[place]
         /\ P2!Found(Third, p, Third.list.back) = Backwards[place]
<1> DEFINE N == Len(Backwards)
           w == [k \in 0 .. N |-> Backwards[IF k < place THEN k + 1 ELSE place]]
<1>1. /\ N \in Nat /\ N > 0 /\ place \in 1 .. N
      /\ Third.list.back = Backwards[1] /\ Third.list.heap = heap
      /\ LP!Cardinality(DOMAIN Third.list.heap) = N
      /\ \A k \in 1 .. N : Behind(k)
  BY WalkBegins DEF Places
<1>2. Holds(Backwards[place], p) /\ \A j \in 1 .. place - 1 : ~ Holds(Backwards[j], p)
  BY DEF StopsAt
<1>3. ASSUME NEW k \in 1 .. N
      PROVE  /\ Backwards[k] # NULL
             /\ P1!Stops(Third, p, Backwards[k]) <=> Holds(Backwards[k], p)
             /\ ~ P2!BadIndex(Third, Backwards[k])
             /\ P2!Matches(Third, p, Backwards[k]) <=> Holds(Backwards[k], p)
  BY NoBadIndex DEF Places
<1> HIDE DEF N
<1>4. w[0] = Third.list.back
  <2>1. 0 \in 0 .. N /\ 0 < place /\ 0 + 1 = 1
    BY <1>1
  <2> QED
    BY <1>1, <2>1
<1>5. ASSUME NEW k \in 1 .. N
      PROVE  /\ w[k] = IF P1!Stops(Third, p, w[k - 1]) THEN w[k - 1]
                       ELSE Third.list.heap[w[k - 1]].previous
             /\ w[k] = IF w[k - 1] = NULL \/ P2!BadIndex(Third, w[k - 1]) THEN NULL
                       ELSE IF P2!Matches(Third, p, w[k - 1]) THEN w[k - 1]
                       ELSE Third.list.heap[w[k - 1]].previous
  <2>1. CASE k < place
    <3>1. w[k - 1] = Backwards[k] /\ w[k] = Backwards[k + 1]
      <4>1. k - 1 \in 0 .. N /\ k \in 0 .. N /\ k - 1 < place /\ (k - 1) + 1 = k
        BY <1>1, <2>1
      <4> QED
        BY <2>1, <4>1
    <3>2. ~ Holds(Backwards[k], p)
      BY <1>1, <1>2, <2>1
    <3>3. heap[Backwards[k]].previous = Backwards[k + 1]
      <4>1. k # N
        BY <1>1, <2>1
      <4> QED
        BY <1>1, <4>1 DEF Behind, N
    <3> HIDE DEF w
    <3> QED
      BY <1>1, <1>3, <3>1, <3>2, <3>3
  <2>2. CASE ~ (k < place)
    <3>1. w[k - 1] = Backwards[place] /\ w[k] = Backwards[place]
      <4>1. k - 1 \in 0 .. N /\ k \in 0 .. N
        BY <1>1
      <4>2. (IF k - 1 < place THEN (k - 1) + 1 ELSE place) = place
        BY <1>1, <2>2
      <4> QED
        BY <2>2, <4>1, <4>2
    <3> HIDE DEF w
    <3> QED
      BY <1>1, <1>2, <1>3, <3>1
  <2> QED
    BY <2>1, <2>2
<1>6. w[N] = Backwards[place]
  BY <1>1
<1>7. w = [k \in 0 .. N |-> w[k]]
  OBVIOUS
<1> HIDE DEF w
<1>8. TakenBy(w, N, p)
  BY <1>4, <1>5, <1>7 DEF TakenBy
<1> QED
  BY <1>1, <1>6, <1>8, LoopsTake

LEMMA FoundNowhere ==
  ASSUME TlbInv, NEW p, Missed(p), Places # {}
  PROVE  /\ P1!Found(Third, p, Third.list.back) = NULL
         /\ P2!Found(Third, p, Third.list.back) = NULL
<1> DEFINE N == Len(Backwards)
           w == [k \in 0 .. N |-> IF k = N THEN NULL ELSE Backwards[k + 1]]
<1>1. /\ N \in Nat /\ N > 0
      /\ Third.list.back = Backwards[1] /\ Third.list.heap = heap
      /\ LP!Cardinality(DOMAIN Third.list.heap) = N
      /\ \A k \in 1 .. N : Behind(k)
  BY WalkBegins DEF Places
<1>2. \A k \in 1 .. N : ~ Holds(Backwards[k], p)
  BY PlacesAre DEF Missed, TlbInv, Places
<1>3. ASSUME NEW k \in 1 .. N
      PROVE  /\ Backwards[k] # NULL
             /\ P1!Stops(Third, p, Backwards[k]) <=> Holds(Backwards[k], p)
             /\ ~ P2!BadIndex(Third, Backwards[k])
             /\ P2!Matches(Third, p, Backwards[k]) <=> Holds(Backwards[k], p)
  BY NoBadIndex DEF Places
<1> HIDE DEF N
<1>4. w[0] = Third.list.back
  <2>1. 0 \in 0 .. N /\ 0 # N /\ 0 + 1 = 1
    BY <1>1
  <2> QED
    BY <1>1, <2>1
<1>5. ASSUME NEW k \in 1 .. N
      PROVE  /\ w[k] = IF P1!Stops(Third, p, w[k - 1]) THEN w[k - 1]
                       ELSE Third.list.heap[w[k - 1]].previous
             /\ w[k] = IF w[k - 1] = NULL \/ P2!BadIndex(Third, w[k - 1]) THEN NULL
                       ELSE IF P2!Matches(Third, p, w[k - 1]) THEN w[k - 1]
                       ELSE Third.list.heap[w[k - 1]].previous
  <2>1. w[k - 1] = Backwards[k] /\ w[k] = IF k = N THEN NULL ELSE Backwards[k + 1]
    <3>1. k - 1 \in 0 .. N /\ k \in 0 .. N /\ k - 1 # N /\ (k - 1) + 1 = k
      BY <1>1
    <3> QED
      BY <3>1
  <2>2. heap[Backwards[k]].previous = IF k = N THEN NULL ELSE Backwards[k + 1]
    BY <1>1 DEF Behind, N
  <2> HIDE DEF w
  <2> QED
    BY <1>1, <1>2, <1>3, <2>1, <2>2
<1>6. w[N] = NULL
  BY <1>1
<1>7. w = [k \in 0 .. N |-> w[k]]
  OBVIOUS
<1> HIDE DEF w
<1>8. TakenBy(w, N, p)
  BY <1>4, <1>5, <1>7 DEF TakenBy
<1> QED
  BY <1>1, <1>6, <1>8, LoopsTake

(* What the lists of the releases become, from NodeList_proofs.            *)
LEMMA MovesAlike ==
  ASSUME ListKept, NEW k \in Places, ll!move_back(Backwards[k])
  PROVE  /\ P1!List!move_back(LP!Here, Backwards[k]) = LP!Here'
         /\ P2!List!move_back(LP!Here, Backwards[k]) = LP!Here'
<1>1. PICK s : LP!HeapTyped /\ LP!Represents(s)
  BY DEF ListKept, ListOf
<1>2. Backwards[k] \in DOMAIN heap
  BY NthIs DEF Nth, Places
<1>3. LP!move_back(Backwards[k])
  BY DEF LP!move_back, ll!move_back, LP!list_vars, ll!list_vars
<1>4. LP!SameMoveBack(Backwards[k])
  BY <1>1, <1>2, <1>3, ListAssumption, LP!MoveBackSame
<1>5. /\ P1!List!move_back(LP!Here, Backwards[k]) = LP!P1!move_back(LP!Here, Backwards[k])
      /\ P2!List!move_back(LP!Here, Backwards[k]) = LP!P2!move_back(LP!Here, Backwards[k])
  BY DEF P1!List!move_back, P1!List!Store, P1!List!withNode, P1!List!is_empty_list,
         LP!P1!move_back, LP!P1!Store, LP!P1!withNode, LP!P1!is_empty_list,
         P2!List!move_back, P2!List!Store, P2!List!withNode, P2!List!is_empty_list,
         LP!P2!move_back, LP!P2!Store, LP!P2!withNode, LP!P2!is_empty_list
<1> QED
  BY <1>4, <1>5 DEF LP!SameMoveBack

LEMMA PushesAlike ==
  ASSUME ListKept, NEW value \in Lines, ll!push_back(value) \/ ll!push_fails
  PROVE  /\ P1!List!push_back(LP!Here, value, NewNode) = LP!Here'
         /\ P2!List!push_back(LP!Here, value, NewNode) = LP!Here'
<1>1. PICK s : LP!HeapTyped /\ LP!Represents(s)
  BY DEF ListKept, ListOf
<1>2. LP!SamePushBack(value)
  <2>1. CASE ll!push_back(value)
    <3>1. LP!push_back(value)
      BY <2>1 DEF LP!push_back, ll!push_back, LP!withNode, ll!withNode,
         LP!Node, ll!Node, LP!is_empty_list, ll!is_empty_list
    <3> QED
      BY <1>1, <3>1, ListAssumption, LP!PushBackSame
  <2>2. CASE ll!push_fails
    <3>1. LP!push_fails
      BY <2>2 DEF LP!push_fails, ll!push_fails, LP!list_vars, ll!list_vars
    <3> QED
      BY <3>1, ListAssumption, LP!FailedPushes
  <2> QED
    BY <2>1, <2>2
<1>3. NewNode = LP!NewNode
  BY DEF NewNode, LP!NewNode
<1>4. /\ P1!List!push_back(LP!Here, value, NewNode) = LP!P1!push_back(LP!Here, value, NewNode)
      /\ P2!List!push_back(LP!Here, value, NewNode) = LP!P2!push_back(LP!Here, value, NewNode)
  BY DEF P1!List!push_back, P1!List!createNode, P1!List!Store, P1!List!withNode,
         P1!List!is_empty_list, LP!P1!push_back, LP!P1!createNode, LP!P1!Store,
         LP!P1!withNode, LP!P1!is_empty_list,
         P2!List!push_back, P2!List!createNode, P2!List!Store, P2!List!withNode,
         P2!List!is_empty_list, LP!P2!push_back, LP!P2!createNode, LP!P2!Store,
         LP!P2!withNode, LP!P2!is_empty_list
<1> QED
  BY <1>2, <1>3, <1>4 DEF LP!SamePushBack

(***************************************************************************)
(* A search in the releases, by what it meets.                             *)
(***************************************************************************)
LEMMA ThirdStored ==
  ASSUME LinesTyped, NEW x
  PROVE  /\ [Third EXCEPT !.answer.err = x]
              = TlbIs(tlb, AnswerIs(x, answer.hit_or_miss, answer.phy_page_num), LP!Here)
         /\ [Third EXCEPT !.answer.hit_or_miss = x]
              = TlbIs(tlb, AnswerIs(answer.err, x, answer.phy_page_num), LP!Here)
<1>1. \A a : [Third EXCEPT !.answer = a] = TlbIs(tlb, a, LP!Here)
  BY DEF Third, TlbIs, LP!Here, LP!ListIs
<1>2. /\ [answer EXCEPT !.err = x] = AnswerIs(x, answer.hit_or_miss, answer.phy_page_num)
      /\ [answer EXCEPT !.hit_or_miss = x] = AnswerIs(answer.err, x, answer.phy_page_num)
  BY DEF LinesTyped, AnswerIs
<1>3. /\ [Third EXCEPT !.answer.err = x]
           = [Third EXCEPT !.answer = [Third.answer EXCEPT !.err = x]]
      /\ [Third EXCEPT !.answer.hit_or_miss = x]
           = [Third EXCEPT !.answer = [Third.answer EXCEPT !.hit_or_miss = x]]
  OBVIOUS
<1>4. Third.answer = answer
  BY ThirdIs
<1> QED
  BY <1>1, <1>2, <1>3, <1>4

AnswersAlike(p) == P1!tlb_search(Third, p) = Third' /\ P2!tlb_search(Third, p) = Third'

LEMMA RefusedAlike ==
  ASSUME TlbInv, TlbInv', NEW p \in Pages, Refused(p)
  PROVE  AnswersAlike(p)
<1>1. Third.list.front = NULL
  BY ThirdIs DEF TlbInv, Refused
<1>2. /\ P1!tlb_search(Third, p) = [Third EXCEPT !.answer.err = "ERR_BAD_PARAMETER"]
      /\ P2!tlb_search(Third, p) = [Third EXCEPT !.answer.err = "ERR_BAD_PARAMETER"]
  BY <1>1 DEF P1!tlb_search, P2!tlb_search
<1> DEFINE a == AnswerIs("ERR_BAD_PARAMETER", answer.hit_or_miss, answer.phy_page_num)
<1>3. [Third EXCEPT !.answer.err = "ERR_BAD_PARAMETER"] = TlbIs(tlb, a, LP!Here)
  BY ThirdStored DEF TlbInv
<1>4. answer' = a
  BY DEF TlbInv, LinesTyped, Refused, AnswerIs
<1>5. Third' = TlbIs(tlb, a, LP!Here)
  BY <1>4 DEF Refused, policy, Third, TlbIs, LP!Here, LP!ListIs
<1> QED
  BY <1>2, <1>3, <1>5 DEF AnswersAlike

LEMMA HitsAlike ==
  ASSUME TlbInv, TlbInv', NEW p \in Pages, SearchHit(p)
  PROVE  AnswersAlike(p)
<1>1. DOMAIN Backwards = Places
  BY PlacesAre DEF TlbInv
<1>2. PICK k \in Places :
        /\ StopsAt(k, p)
        /\ answer' = [err          |-> "ERR_NONE",
                      hit_or_miss  |-> HIT,
                      phy_page_num |-> Entry(Backwards[k]).phy_page_num]
        /\ ll!move_back(Backwards[k])
  BY <1>1 DEF SearchHit
<1> DEFINE node == Backwards[k]
           f == Entry(node).phy_page_num
           found == TlbIs(tlb, AnswerIs(answer.err, 1, f), LP!Here')
<1>3. /\ P1!Found(Third, p, Third.list.back) = node
      /\ P2!Found(Third, p, Third.list.back) = node
  BY <1>2, FoundWhereItStops
<1>4. node # NULL /\ ~ (heap[node].value >= TLB_LINES)
  BY NoBadIndex
<1>5. /\ P1!List!move_back(LP!Here, node) = LP!Here'
      /\ P2!List!move_back(LP!Here, node) = LP!Here'
  BY <1>2, MovesAlike DEF TlbInv
<1>6. /\ Third.list.front # NULL /\ Third.list.heap = heap /\ Third.list = LP!Here
      /\ Third.tlb = tlb /\ Third.answer = answer
  BY ThirdIs DEF TlbInv, SearchHit, Filled
<1> HIDE DEF node
<1>7. P1!tlb_hit(Third, p) = found /\ P2!tlb_hit(Third, p) = found
  BY <1>3, <1>4, <1>5, <1>6 DEF P1!tlb_hit, P2!tlb_hit, TlbIs, AnswerIs, Entry
<1> HIDE DEF found
<1>8. /\ found.answer.hit_or_miss # 0
      /\ [found EXCEPT !.answer.err = "ERR_NONE"]
           = TlbIs(tlb, AnswerIs("ERR_NONE", 1, f), LP!Here')
  <2> HIDE DEF f
  <2>1. found.answer.hit_or_miss = 1
    BY FieldsOfTlb, FieldsOfAnswer DEF found
  <2> QED
    BY <2>1, AnswerStored DEF found
<1>9. /\ P1!tlb_search(Third, p) = [found EXCEPT !.answer.err = "ERR_NONE"]
      /\ P2!tlb_search(Third, p) = [found EXCEPT !.answer.err = "ERR_NONE"]
  BY <1>6, <1>7, <1>8 DEF P1!tlb_search, P2!tlb_search
<1>10. Third' = TlbIs(tlb, AnswerIs("ERR_NONE", 1, f), LP!Here')
  BY <1>2 DEF SearchHit, Third, TlbIs, AnswerIs, LP!Here, LP!ListIs, HIT, node
<1> QED
  BY <1>8, <1>9, <1>10 DEF AnswersAlike

LEMMA WalksAlike ==
  ASSUME TlbInv, TlbInv', NEW p \in Pages, SearchWalk(p)
  PROVE  AnswersAlike(p)
<1> DEFINE k == Len(Backwards)
           node == Backwards[k]
           missed == TlbIs(tlb, AnswerIs(answer.err, 0, answer.phy_page_num), LP!Here)
<1>1. k \in Places /\ front = node
  BY PlacesAre DEF TlbInv, SearchWalk, Filled
<1>2. /\ P1!Found(Third, p, Third.list.back) = NULL
      /\ P2!Found(Third, p, Third.list.back) = NULL
  BY <1>1, FoundNowhere DEF SearchWalk
<1>3. node # NULL /\ ~ (heap[node].value >= TLB_LINES)
  BY <1>1, NoBadIndex
<1>4. /\ P1!List!move_back(LP!Here, node) = LP!Here'
      /\ P2!List!move_back(LP!Here, node) = LP!Here'
  BY <1>1, MovesAlike DEF TlbInv, SearchWalk
<1> HIDE DEF node, k
<1>5. P1!tlb_hit(Third, p) = missed /\ P2!tlb_hit(Third, p) = missed
  <2>1. [Third EXCEPT !.answer.hit_or_miss = 0] = missed
    BY ThirdStored DEF TlbInv
  <2> QED
    BY <1>2, <2>1 DEF P1!tlb_hit, P2!tlb_hit
<1>6. /\ Third.list.front = node /\ Third.list.front # NULL
      /\ Third.list = LP!Here /\ Third.list.heap = heap
  BY <1>1, <1>3, ThirdIs DEF TlbInv
<1>7. /\ missed.tlb = tlb /\ missed.list = Third.list
      /\ missed.answer.hit_or_miss = 0
      /\ [missed EXCEPT !.answer.phy_page_num = PageTable[p]].answer
           = AnswerIs(answer.err, 0, PageTable[p])
  BY <1>6, FieldsOfTlb, FieldsOfAnswer, AnswerStored
<1> HIDE DEF missed
<1> DEFINE done == TlbIs([tlb EXCEPT ![heap[node].value] = EntryFor(p, PageTable[p])],
                         AnswerIs("ERR_NONE", 0, PageTable[p]), LP!Here')
<1>8. P1!tlb_search(Third, p) = done /\ P2!tlb_search(Third, p) = done
  <2>1. [AnswerIs(answer.err, 0, PageTable[p]) EXCEPT !.err = "ERR_NONE"]
          = AnswerIs("ERR_NONE", 0, PageTable[p])
    BY FieldsOfAnswer
  <2>2. P1!tlb_search(Third, p) = done
    BY <1>3, <1>4, <1>5, <1>6, <1>7, <2>1
       DEF P1!tlb_search, P1!tlb_entry_init, EntryFor, TlbIs
  <2>3. P2!tlb_search(Third, p) = done
    BY <1>3, <1>4, <1>5, <1>6, <1>7, <2>1
       DEF P2!tlb_search, P2!tlb_entry_init, EntryFor, TlbIs
  <2> QED
    BY <2>2, <2>3
<1>9. Third' = done
  BY <1>1 DEF SearchWalk, Third, TlbIs, AnswerIs, LP!Here, LP!ListIs, MISS
<1> QED
  BY <1>8, <1>9 DEF AnswersAlike

LEMMA FillsAlike ==
  ASSUME TlbInv, FillAll, SameTlb
  PROVE  SameTlb'
<1>1. /\ P1!List!push_back(LP!Here, line_index, NewNode) = LP!Here'
      /\ P2!List!push_back(LP!Here, line_index, NewNode) = LP!Here'
  <2>1. line_index \in Lines
    BY TlbAssumption DEF TlbInv, LinesTyped, FillAll, Fill, Lines
  <2> QED
    BY <2>1, PushesAlike DEF TlbInv, FillAll, Fill
<1>2. Third.list = LP!Here
  BY ThirdIs DEF TlbInv
<1>3. [Third EXCEPT !.list = LP!Here'] = Third'
  BY DEF Third, LP!Here, LP!ListIs, FillAll, Fill
<1> QED
  BY <1>1, <1>2, <1>3 DEF SameTlb, FillAll

ReleasesInv == TlbInv /\ SameTlb

LEMMA InitReleasesInv == ReleasesInit => ReleasesInv
<1> SUFFICES ASSUME ReleasesInit PROVE ReleasesInv
  OBVIOUS
<1>1. P1!List!init_list = [front |-> front, back |-> back, heap |-> heap]
  BY DEF P1!List!init_list, ReleasesInit, Init, ll!Init
<1>2. [Third EXCEPT !.list = P1!List!init_list] = Third
  BY <1>1 DEF Third
<1>3. P1!tlb_flush(Third) = Third /\ P2!tlb_flush(Third) = Third
  <2>1. tlb = [i \in 0 .. TLB_LINES - 1 |->
                 [v |-> FALSE, tag |-> 0, phy_page_num |-> 0]]
    BY DEF ReleasesInit, Init, EmptyEntry, Lines
  <2>2. [Third EXCEPT !.tlb = tlb] = Third
    BY DEF Third
  <2> QED
    BY <2>1, <2>2, Zenon DEF P1!tlb_flush, P2!tlb_flush
<1> QED
  BY <1>2, <1>3, InitTlb DEF ReleasesInv, ReleasesInit, SameTlb

LEMMA ReleasesStep == ReleasesNext => Next
  BY DEF ReleasesNext, FillAll, SearchAll, Next

LEMMA NextReleasesInv ==
  ReleasesInv /\ [ReleasesNext]_<< vars, projet01, projet02 >> => ReleasesInv'
<1> SUFFICES ASSUME ReleasesInv, [ReleasesNext]_<< vars, projet01, projet02 >>
             PROVE  ReleasesInv'
  OBVIOUS
<1>1. TlbInv'
  BY NextTlb, ReleasesStep DEF ReleasesInv
<1>2. CASE FillAll
  BY <1>1, <1>2, FillsAlike DEF ReleasesInv
<1>3. ASSUME NEW p \in Pages, SearchAll(p) PROVE SameTlb'
  <2>1. AnswersAlike(p)
    BY <1>1, <1>3, RefusedAlike, HitsAlike, WalksAlike DEF ReleasesInv, SearchAll
  <2> QED
    BY <1>3, <2>1 DEF ReleasesInv, SearchAll, SameTlb, AnswersAlike
<1>4. CASE UNCHANGED << vars, projet01, projet02 >>
  BY <1>1, <1>4 DEF ReleasesInv, SameTlb, Third, vars, policy
<1> QED
  BY <1>1, <1>2, <1>3, <1>4 DEF ReleasesInv, ReleasesNext

(* The graded releases answer every search as src/done does, with the same *)
(* lines and the same pointers, on however many lines, whatever page table *)
(* and wherever malloc fails while the list is filled: tlb_hit of the      *)
(* first release never returns its error code for a hit.                   *)
THEOREM ReleasesKeepOneTlb == ReleasesSpec => []SameTlb
<1>1. ReleasesSpec => []ReleasesInv
  BY InitReleasesInv, NextReleasesInv, PTL DEF ReleasesSpec
<1>2. ReleasesInv => SameTlb
  BY DEF ReleasesInv
<1> QED
  BY <1>1, <1>2, PTL

(* Beside the releases the TLB of src/done runs as it does alone: what is  *)
(* proved of it above holds of the graded ones too.                        *)
THEOREM ReleasesAreTlbs == ReleasesSpec => Spec
<1>1. ReleasesInit => Init
  BY DEF ReleasesInit
<1>2. [ReleasesNext]_<< vars, projet01, projet02 >> => [Next]_vars
  BY ReleasesStep
<1> QED
  BY <1>1, <1>2, PTL DEF ReleasesSpec, Spec

=============================================================================
