------------------------ MODULE ValuePayload_proofs ------------------------
(* Proofs about the payload: the buffer and the arrays hold what is put    *)
(* into them, and the finished text is the one the reference describes.    *)
EXTENDS ValuePayload, FiniteSetTheorems, TLAPS

BufferInv == used \in Nat /\ size \in Nat /\ BufferHolds

(* One piece leaves the text and its terminating zero inside the buffer.   *)
LEMMA PacketizeHolds ==
    ASSUME BufferInv, NEW tokens, Packetize(tokens)
    PROVE  BufferInv'
<1>1. PICK length \in 1 .. Chunk - 1 :
         /\ size' = IF length + 1 > size - used THEN size + Chunk ELSE size
         /\ used' = used + length
  BY DEF Packetize
<1>2. Chunk \in Nat /\ length \in Nat /\ length < Chunk /\ length > 0
  BY <1>1, SizesAssumption
<1>3. CASE length + 1 > size - used
  BY <1>1, <1>2, <1>3 DEF BufferInv, BufferHolds
<1>4. CASE ~(length + 1 > size - used)
  BY <1>1, <1>2, <1>4 DEF BufferInv, BufferHolds
<1>5. QED
  BY <1>3, <1>4

LEMMA BufferStep == BufferInv /\ [Next]_vars => BufferInv'
<1>1. SUFFICES ASSUME BufferInv, [Next]_vars
               PROVE  BufferInv'
  OBVIOUS
<1>2. CASE OpenGroup
  BY <1>1, <1>2, PacketizeHolds DEF OpenGroup
<1>3. CASE Close
  BY <1>1, <1>3, PacketizeHolds DEF Close
<1>4. CASE Value
  <2>1. CASE UNCHANGED buffer
    BY <1>1, <2>1 DEF BufferInv, BufferHolds, buffer
  <2>2. CASE ~Skipped(j)
    BY <1>1, <1>4, <2>2, PacketizeHolds DEF Value
  <2>3. QED
    BY <1>4, <2>1, <2>2 DEF Value
<1>5. CASE CloseGroup
  BY <1>1, <1>5, PacketizeHolds DEF CloseGroup
<1>6. CASE Classify \/ GroupValue \/ Grouped \/ Listing \/ Publish
  BY <1>1, <1>6 DEF Classify, GroupValue, Grouped, Listing, Publish,
                    BufferInv, BufferHolds, buffer
<1>7. CASE UNCHANGED vars
  BY <1>1, <1>7 DEF vars, BufferInv, BufferHolds, buffer
<1>8. QED
  BY <1>1, <1>2, <1>3, <1>4, <1>5, <1>6, <1>7 DEF Next

(* packetize_payload never writes past the end of the buffer it grew, for  *)
(* every chunk size, number of values and length of their texts            *)
(* (packetize.c:22-33).                                                    *)
THEOREM BufferNeverOverflows == Spec => []BufferHolds
<1>1. Init => BufferInv
  BY DEF Init, BufferInv, BufferHolds
<1>2. BufferInv => BufferHolds
  BY DEF BufferInv
<1>3. QED
  BY <1>1, <1>2, BufferStep, PTL DEF Spec

-----------------------------------------------------------------------------
(* The groups.  That the place a text is given is the right one is not     *)
(* needed: a value is pushed into a group there is, or makes a new one.    *)
Items == {ToString(n) : n \in Nat}

Group == [id : Texts, items : Seq(Items), allocated : Nat]

Roomy(g) == Len(g.items) <= g.allocated

LEMMA Grows ==
    ASSUME NEW g \in Group, Roomy(g), NEW value \in Items,
           NEW h, h = [g EXCEPT !.items = Append(@, value),
                                !.allocated =
                                    IF @ = Len(g.items) THEN @ + Batch
                                                        ELSE @]
    PROVE  h \in Group /\ Roomy(h) /\ Len(h.items) = Len(g.items) + 1
<1>1. /\ h.id = g.id /\ h.items = Append(g.items, value)
      /\ h.allocated = IF g.allocated = Len(g.items)
                       THEN g.allocated + Batch ELSE g.allocated
      /\ h = [id |-> h.id, items |-> h.items, allocated |-> h.allocated]
  BY DEF Group
<1>2. /\ g.id \in Texts /\ g.items \in Seq(Items) /\ g.allocated \in Nat
      /\ Batch \in Nat /\ Batch > 0
  BY SizesAssumption DEF Group
<1>3. h.items \in Seq(Items) /\ Len(h.items) = Len(g.items) + 1
  BY <1>1, <1>2
<1>4. h.allocated \in Nat /\ Len(g.items) + 1 <= h.allocated
  BY <1>1, <1>2 DEF Roomy
<1> QED
  BY <1>1, <1>2, <1>3, <1>4 DEF Group, Roomy

(* What the groups are while n values were looked at.                      *)
GroupsHold(n) ==
    /\ groups \in Seq(Group) /\ Len(groups) <= n
    /\ \A k \in DOMAIN groups :
          Roomy(groups[k]) /\ Len(groups[k].items) <= n

LEMMA ItemsLength == \A g \in Group : Len(g.items) \in Nat
BY DEF Group

LEMMA Pushes ==
    ASSUME NEW n \in Nat, GroupsHold(n), NEW text \in Texts,
           NEW value \in Items, groups' = Pushed(text, value)
    PROVE  /\ groups' \in Seq(Group) /\ Len(groups') <= n + 1
           /\ \A k \in DOMAIN groups' :
                 Roomy(groups'[k]) /\ Len(groups'[k].items) <= n + 1
<1> DEFINE k == GroupOf(text)
           g == IF k \in DOMAIN groups THEN groups[k]
                ELSE [id |-> text, items |-> <<>>, allocated |-> 0]
           h == [g EXCEPT !.items = Append(@, value),
                          !.allocated =
                              IF @ = Len(g.items) THEN @ + Batch ELSE @]
<1>1. groups' = IF k \in DOMAIN groups THEN [groups EXCEPT ![k] = h]
                                       ELSE Append(groups, h)
  BY DEF Pushed
<1>2. g \in Group /\ Roomy(g) /\ Len(g.items) <= n
  <2>1. CASE k \in DOMAIN groups
    BY <2>1 DEF GroupsHold
  <2>2. CASE k \notin DOMAIN groups
    BY <2>2 DEF Group, Roomy
  <2> QED
    BY <2>1, <2>2
<1> HIDE DEF k, g
<1>3. h \in Group /\ Roomy(h) /\ Len(h.items) <= n + 1
  <2>1. h = [g EXCEPT !.items = Append(@, value),
                      !.allocated =
                          IF @ = Len(g.items) THEN @ + Batch ELSE @]
    OBVIOUS
  <2> HIDE DEF h
  <2>2. h \in Group /\ Roomy(h) /\ Len(h.items) = Len(g.items) + 1
    BY <1>2, <2>1, Grows
  <2> QED
    BY <1>2, <2>2, ItemsLength
<1> HIDE DEF h
<1>4. CASE k \in DOMAIN groups
  <2>1. groups' = [groups EXCEPT ![k] = h]
    BY <1>1, <1>4
  <2>2. /\ groups' \in Seq(Group) /\ Len(groups') = Len(groups)
        /\ \A m \in DOMAIN groups' :
              groups'[m] = IF m = k THEN h ELSE groups[m]
    BY <1>3, <1>4, <2>1 DEF GroupsHold
  <2> QED
    BY <1>3, <2>2, ItemsLength DEF GroupsHold
<1>5. CASE k \notin DOMAIN groups
  <2>1. groups' = Append(groups, h)
    BY <1>1, <1>5
  <2>2. /\ groups' \in Seq(Group) /\ Len(groups') = Len(groups) + 1
        /\ \A m \in DOMAIN groups' :
              groups'[m] = IF m = Len(groups) + 1 THEN h ELSE groups[m]
    BY <1>3, <2>1 DEF GroupsHold
  <2> QED
    BY <1>3, <2>2, ItemsLength DEF GroupsHold
<1> QED
  BY <1>4, <1>5

(* The loops stay inside the arrays they run over.                         *)
LoopInv ==
    /\ values \in Seq(Ids \cup {NoId}) /\ Len(values) \in 1 .. MaxValues
    /\ i \in 1 .. MaxValues + 1 /\ j \in 1 .. MaxValues + 1
    /\ GroupsHold(IF pc \in {"classify", "group"} THEN i - 1
                                                  ELSE Len(values))
    /\ pc = "classify" => i = 1
    /\ pc = "group" => i <= Len(values) + 1
    /\ pc = "open" => i <= Len(groups) + 1
    /\ pc = "list" => j <= Len(Listed) + 1
    /\ pc = "list" /\ groups # <<>> => i <= Len(groups)
    /\ pc \in {"classify", "group"} => j = 1
    /\ pc \in {"classify", "group", "open", "list", "publish", "done",
                "undefined"}
    /\ topic \in Ids \cup {NoId}

LEMMA LenOfFunction ==
    ASSUME NEW n \in Nat, NEW S, NEW f \in [1 .. n -> S]
    PROVE  Len(f) = n /\ DOMAIN f = 1 .. n
OBVIOUS

LEMMA ItemsSequence ==
    ASSUME NEW s \in Seq(Items)
    PROVE  Len(s) \in Nat /\ DOMAIN s = 1 .. Len(s)
OBVIOUS

LEMMA ValuesTyped ==
    LoopInv => /\ Len(values) \in Nat /\ Len(values) >= 1
               /\ Len(values) <= MaxValues /\ MaxValues \in Nat
               /\ i \in Nat /\ i >= 1 /\ j \in Nat /\ j >= 1
               /\ DOMAIN values = 1 .. Len(values)
               /\ groups \in Seq(Group) /\ Len(groups) \in Nat
               /\ DOMAIN groups = 1 .. Len(groups)
BY SizesAssumption DEF LoopInv, GroupsHold

(* All values. *)
All == [k \in DOMAIN values |-> ToString(k)]

LEMMA NumberItem == \A k \in Nat : ToString(k) \in Items
BY Zenon DEF Items

LEMMA AllLength ==
    ASSUME LoopInv
    PROVE  Len(All) = Len(values) /\ DOMAIN All = 1 .. Len(values)
<1>1. DOMAIN values = 1 .. Len(values) /\ Len(values) \in Nat
  BY ValuesTyped
<1>2. \A k \in 1 .. Len(values) : k \in Nat
  BY <1>1
<1>3. All \in [1 .. Len(values) -> Items]
  BY <1>1, <1>2, NumberItem, Zenon DEF All
<1> QED
  BY <1>1, <1>3, LenOfFunction

LEMMA ListedLength ==
    ASSUME LoopInv, pc \notin {"classify", "group"},
           groups # <<>> => i <= Len(groups)
    PROVE  Len(Listed) \in 0 .. Len(values) /\ DOMAIN Listed = 1 .. Len(Listed)
<1>1. CASE groups = <<>>
  <2>1. Listed = All
    BY <1>1, Zenon DEF Listed, All
  <2>2. Len(Listed) = Len(values) /\ DOMAIN Listed = 1 .. Len(values)
    BY <2>1, AllLength
  <2> QED
    BY <2>2, ValuesTyped
<1>2. CASE groups # <<>>
  <2>0. groups \in Seq(Group) /\ i \in Nat /\ i >= 1 /\ i <= Len(groups)
    BY <1>2, ValuesTyped
  <2>1. i \in DOMAIN groups /\ groups[i] \in Group
    BY <2>0
  <2>2. Listed = groups[i].items /\ groups[i].items \in Seq(Items)
    BY <1>2, <2>1 DEF Listed, Group
  <2>3. Len(groups[i].items) <= Len(values)
    BY <1>2, <2>1 DEF LoopInv, GroupsHold
  <2> QED
    BY <2>2, <2>3, ItemsSequence, ValuesTyped
<1> QED
  BY <1>1, <1>2

(* The steps that leave values, groups and topic alone. *)
LEMMA LaterStep ==
    ASSUME LoopInv, pc \notin {"classify", "group"},
           UNCHANGED <<values, groups, topic>>,
           pc' \in {"open", "list", "publish", "done", "undefined"},
           i' \in 1 .. MaxValues + 1, j' \in 1 .. MaxValues + 1,
           pc' = "open" => i' <= Len(groups) + 1,
           pc' = "list" => j' <= Len(Listed') + 1,
           pc' = "list" /\ groups # <<>> => i' <= Len(groups)
    PROVE  LoopInv'
<1>1. GroupsHold(Len(values))
  BY DEF LoopInv
<1>2. GroupsHold(Len(values))'
  BY <1>1 DEF GroupsHold
<1> QED
  BY <1>2 DEF LoopInv

LEMMA LoopStep == LoopInv /\ [Next]_vars => LoopInv'
<1> SUFFICES ASSUME LoopInv, [Next]_vars PROVE LoopInv'
  OBVIOUS
<1>v. /\ Len(values) \in Nat /\ Len(values) >= 1
      /\ Len(values) <= MaxValues /\ MaxValues \in Nat
      /\ i \in Nat /\ i >= 1 /\ j \in Nat /\ j >= 1
      /\ DOMAIN values = 1 .. Len(values)
      /\ groups \in Seq(Group) /\ Len(groups) \in Nat
      /\ DOMAIN groups = 1 .. Len(groups)
  BY ValuesTyped
<1>1. CASE Classify
  <2>1. values[1] \in Ids \cup {NoId}
    BY <1>v DEF LoopInv
  <2>2. i = 1 /\ j = 1 /\ groups = <<>>
    BY <1>1, <1>v DEF Classify, LoopInv, GroupsHold
  <2>3. Listed' = All
    BY <1>1, <2>2, Zenon DEF Classify, Listed, All
  <2>4. Len(Listed') = Len(values)
    BY <2>3, AllLength, Zenon
  <2> QED
    BY <1>1, <1>v, <2>1, <2>2, <2>4 DEF Classify, LoopInv, GroupsHold
<1>2. CASE GroupValue
  <2>0. pc = "group" /\ pc' = "group" /\ i' = i + 1 /\ i <= Len(values)
        /\ UNCHANGED <<values, j, topic>> /\ GroupsHold(i - 1)
    BY <1>2, <1>v DEF GroupValue, LoopInv
  <2>1. CASE values[i] = NoId
    <3>1. groups' = groups
      BY <1>2, <2>1 DEF GroupValue
    <3>2. \A k \in DOMAIN groups : Len(groups[k].items) <= i
      BY <1>v, <2>0, ItemsLength DEF GroupsHold
    <3> QED
      BY <1>v, <2>0, <3>1, <3>2 DEF LoopInv, GroupsHold
  <2>2. CASE values[i] # NoId
    <3>1. values[i] \in Ids
      BY <1>v, <2>0, <2>2 DEF LoopInv
    <3>2. values[i][1] \in Texts /\ ToString(i) \in Items
      BY <1>v, <3>1 DEF Ids, Items
    <3>3. groups' = Pushed(values[i][1], ToString(i))
      BY <1>2, <2>2 DEF GroupValue
    <3>4. /\ groups' \in Seq(Group) /\ Len(groups') <= i
          /\ \A k \in DOMAIN groups' :
                Roomy(groups'[k]) /\ Len(groups'[k].items) <= i
      <4>1. i - 1 \in Nat /\ (i - 1) + 1 = i
        BY <1>v
      <4> QED
        BY <2>0, <3>2, <3>3, <4>1, Pushes
    <3> QED
      BY <1>v, <2>0, <3>4 DEF LoopInv, GroupsHold
  <2> QED
    BY <2>1, <2>2
<1>3. CASE Grouped
  <2>1. i = Len(values) + 1 /\ GroupsHold(Len(values))
    BY <1>3, <1>v DEF Grouped, LoopInv
  <2> QED
    BY <1>3, <1>v, <2>1 DEF Grouped, LoopInv, GroupsHold
<1>4. CASE OpenGroup
  <2>0. /\ pc = "open" /\ pc' = "list" /\ i \in DOMAIN groups /\ j' = 1
        /\ UNCHANGED <<values, i, groups, topic>>
    BY <1>4 DEF OpenGroup
  <2>1. i <= Len(groups) /\ groups # <<>>
    BY <1>v, <2>0
  <2>2. i <= MaxValues + 1
    BY <1>v DEF LoopInv
  <2>3. Listed' = groups[i].items
    BY <2>0, <2>1 DEF Listed
  <2>4. Len(groups[i].items) \in Nat
    BY <1>v, <2>0, ItemsLength
  <2>5. j' <= Len(Listed') + 1
    BY <2>0, <2>3, <2>4
  <2> QED
    BY <1>v, <2>0, <2>1, <2>2, <2>5, LaterStep
<1>5. CASE Close
  <2>1. i <= MaxValues + 1 /\ j <= MaxValues + 1
    BY <1>v DEF LoopInv
  <2>2. /\ pc = "open" /\ pc' = "publish"
        /\ UNCHANGED <<values, i, j, groups, topic>>
    BY <1>5 DEF Close
  <2> QED
    BY <1>v, <2>1, <2>2, LaterStep
<1>6. CASE Value
  <2>0. groups # <<>> => i <= Len(groups)
    BY <1>6 DEF Value, LoopInv
  <2>1. /\ Len(Listed) \in 0 .. Len(values)
        /\ DOMAIN Listed = 1 .. Len(Listed)
    BY <1>6, <2>0, ListedLength DEF Value
  <2>2. Listed' = Listed
    BY <1>6 DEF Value, Listed
  <2>3. j \in DOMAIN Listed
    BY <1>6 DEF Value
  <2>4. j <= Len(Listed) /\ j <= MaxValues /\ i <= MaxValues + 1
    BY <1>v, <2>1, <2>3 DEF LoopInv
  <2>5. /\ pc = "list" /\ pc' = pc /\ i' = i /\ j' = j + 1
        /\ UNCHANGED <<values, groups, topic>>
    BY <1>6 DEF Value
  <2>6. j' <= Len(Listed') + 1
    BY <1>v, <2>1, <2>2, <2>4, <2>5
  <2> QED
    BY <1>v, <2>0, <2>4, <2>5, <2>6, LaterStep
<1>7. CASE CloseGroup
  <2>1. i <= Len(groups) /\ Len(groups) <= Len(values)
    BY <1>7, <1>v DEF CloseGroup, LoopInv, GroupsHold
  <2>2. j <= MaxValues + 1
    BY <1>v DEF LoopInv
  <2> QED
    BY <1>7, <1>v, <2>1, <2>2, LaterStep DEF CloseGroup
<1>8. CASE Listing \/ Publish
  <2>1. i <= MaxValues + 1 /\ j <= MaxValues + 1
    BY <1>v DEF LoopInv
  <2> QED
    BY <1>8, <1>v, <2>1, LaterStep DEF Listing, Publish
<1>9. CASE UNCHANGED vars
  <2>1. Listed' = Listed
    BY <1>9 DEF vars, Listed
  <2> QED
    BY <1>9, <2>1 DEF vars, LoopInv, GroupsHold
<1> QED
  BY <1>1, <1>2, <1>3, <1>4, <1>5, <1>6, <1>7, <1>8, <1>9 DEF Next

LEMMA LoopInit == Init => LoopInv
<1> SUFFICES ASSUME Init PROVE LoopInv
  OBVIOUS
<1>1. PICK n \in 1 .. MaxValues : values \in [1 .. n -> Ids \cup {NoId}]
  BY DEF Init
<1>2. values \in Seq(Ids \cup {NoId}) /\ Len(values) = n
  BY <1>1, SizesAssumption
<1> QED
  BY <1>1, <1>2, SizesAssumption DEF Init, LoopInv, GroupsHold

LEMMA Invariance == Spec => [](BufferInv /\ LoopInv)
<1>1. Init => BufferInv
  BY DEF Init, BufferInv, BufferHolds
<1> QED
  BY <1>1, BufferStep, LoopInit, LoopStep, PTL DEF Spec

(* No group has more values than its array has room for, for any batch the *)
(* array grows by, any number of values and any order (values.c:34-42).    *)
THEOREM ArraysNeverOverflow == Spec => []ArraysHold
<1>1. LoopInv => ArraysHold
  BY DEF LoopInv, GroupsHold, Roomy, ArraysHold
<1> QED
  BY Invariance, <1>1, PTL

(* Every variable keeps its type; no loop leaves its array.                *)
THEOREM TypeCorrect == Spec => []TypeOK
<1>1. LoopInv => \A k \in DOMAIN groups : groups[k].id \in Texts
  <2> SUFFICES ASSUME LoopInv, NEW k \in DOMAIN groups
               PROVE  groups[k].id \in Texts
    OBVIOUS
  <2>1. groups \in Seq(Group)
    BY ValuesTyped
  <2>2. groups[k] \in Group
    BY <2>1
  <2> QED
    BY <2>2 DEF Group
<1>2. BufferInv /\ LoopInv => TypeOK
  BY <1>1 DEF BufferInv, LoopInv, TypeOK
<1> QED
  BY Invariance, <1>2, PTL

-----------------------------------------------------------------------------
(* Counting the values up to a number. *)
LEMMA Counted ==
    ASSUME LoopInv, NEW S, S \subseteq Named
    PROVE  IsFiniteSet(S) /\ Cardinality(S) \in Nat
<1>1. Named \subseteq 1 .. Len(values) /\ Len(values) \in Nat
  BY ValuesTyped DEF Named
<1>2. IsFiniteSet(1 .. Len(values))
  BY <1>1, FS_Interval
<1>3. IsFiniteSet(S)
  BY <1>1, <1>2, FS_Subset
<1> QED
  BY <1>3, FS_CardinalityType

LEMMA RankGrows ==
    ASSUME LoopInv, NEW S, S \subseteq Named, NEW m \in Nat, NEW n \in Nat,
           m <= n
    PROVE  /\ Rank(m, S) \in Nat /\ Rank(n, S) \in Nat
           /\ Rank(m, S) <= Rank(n, S) /\ Rank(n, S) <= Cardinality(S)
<1> DEFINE A == {k \in S : k <= m}
           B == {k \in S : k <= n}
<1>1. \A k \in S : k \in Nat
  BY ValuesTyped DEF Named
<1>2. A \subseteq B /\ B \subseteq S
  BY <1>1
<1>3. IsFiniteSet(A) /\ IsFiniteSet(B) /\ IsFiniteSet(S)
  BY <1>2, Counted
<1>4. Cardinality(A) <= Cardinality(B) /\ Cardinality(B) <= Cardinality(S)
  BY <1>2, <1>3, FS_Subset
<1>5. Cardinality(A) \in Nat /\ Cardinality(B) \in Nat
  BY <1>3, FS_CardinalityType
<1> QED
  BY <1>4, <1>5 DEF Rank

LEMMA RankNext ==
    ASSUME LoopInv, NEW S, S \subseteq Named, NEW n \in Nat
    PROVE  Rank(n + 1, S) = IF n + 1 \in S THEN Rank(n, S) + 1
                                           ELSE Rank(n, S)
<1> DEFINE A == {k \in S : k <= n}
           B == {k \in S : k <= n + 1}
<1>1. \A k \in S : k \in Nat
  BY ValuesTyped DEF Named
<1>2. IsFiniteSet(A)
  BY Counted
<1>3. CASE n + 1 \in S
  <2>1. B = A \cup {n + 1}
    BY <1>1, <1>3
  <2>2. n + 1 \notin A
    OBVIOUS
  <2>3. Cardinality(B) = Cardinality(A) + 1
    BY <1>2, <2>1, <2>2, FS_AddElement
  <2> QED
    BY <1>3, <2>3 DEF Rank
<1>4. CASE n + 1 \notin S
  <2>1. B = A
    BY <1>1, <1>4
  <2> QED
    BY <1>4, <2>1 DEF Rank
<1> QED
  BY <1>3, <1>4

LEMMA RankFirst ==
    ASSUME LoopInv, NEW S, S \subseteq Named PROVE Rank(0, S) = 0
<1>1. \A k \in S : k \in Nat /\ k >= 1
  BY ValuesTyped DEF Named
<1>2. {k \in S : k <= 0} = {}
  BY <1>1
<1> QED
  BY <1>2, FS_EmptySet DEF Rank

LEMMA RankLast ==
    ASSUME LoopInv, NEW S, S \subseteq Named
    PROVE  Rank(Len(values), S) = Cardinality(S)
<1>1. \A k \in S : k <= Len(values)
  BY ValuesTyped DEF Named
<1>2. {k \in S : k <= Len(values)} = S
  BY <1>1
<1> QED
  BY <1>2 DEF Rank

(* A member has a place of its own, before those of the later ones. *)
LEMMA RankOfMember ==
    ASSUME LoopInv, NEW S, S \subseteq Named, NEW n \in S
    PROVE  /\ n \in Nat /\ n >= 1 /\ n <= Len(values)
           /\ Rank(n, S) = Rank(n - 1, S) + 1 /\ Rank(n - 1, S) \in Nat
           /\ Rank(n, S) \in 1 .. Cardinality(S)
<1>1. n \in Nat /\ n >= 1 /\ n <= Len(values)
  BY ValuesTyped DEF Named
<1>2. n - 1 \in Nat /\ (n - 1) + 1 = n /\ n - 1 <= n /\ n <= n
  BY <1>1
<1>3. Rank(n, S) = Rank(n - 1, S) + 1
  BY <1>2, RankNext
<1>4. /\ Rank(n - 1, S) \in Nat /\ Rank(n, S) \in Nat
      /\ Rank(n, S) <= Cardinality(S)
  BY <1>1, <1>2, RankGrows
<1>5. Cardinality(S) \in Nat
  BY Counted
<1> QED
  BY <1>1, <1>3, <1>4, <1>5

-----------------------------------------------------------------------------
(* Grouping: while n values were looked at there is one group for each     *)
(* text seen, in the order in which they were seen, and it holds the       *)
(* values of its text, each at its place.                                  *)
Sorted(gs, n) ==
    /\ \A k \in DOMAIN gs : /\ Len(gs[k].items) = Rank(n, Of(gs[k].id))
                            /\ Len(gs[k].items) > 0
    /\ \A k, l \in DOMAIN gs : gs[k].id = gs[l].id => k = l
    /\ \A m \in Named : m <= n => \E k \in DOMAIN gs : gs[k].id = Text(m)
    /\ \A k \in DOMAIN gs : \A m \in Of(gs[k].id) :
          m <= n => gs[k].items[Rank(m, Of(gs[k].id))] = ToString(m)
    /\ \A k, l \in DOMAIN gs :
          k < l => \E m \in Of(gs[k].id) :
                      m <= n /\ \A p \in Of(gs[l].id) : m < p

(* Where the values are grouped there is one with an id; where they are    *)
(* not they are one sensor's.                                              *)
SortedInv ==
    /\ pc = "group" => Sorted(groups, i - 1) /\ Named # {}
    /\ pc \in {"open", "list", "publish", "done", "undefined"}
          /\ groups # <<>> => Sorted(groups, Len(values))
    /\ pc = "open" => groups # <<>>
    /\ pc = "group" \/ groups # <<>> => topic = NoId
    /\ pc \in {"list", "publish", "done", "undefined"} /\ groups = <<>>
          => \A n \in Named : values[n] = topic

LEMMA OfNamed == \A text : Of(text) \subseteq Named
BY DEF Of

(* The place of a text: its group if there is one, else behind the last. *)
LEMMA GroupPlace ==
    ASSUME LoopInv, NEW text,
           \A k, l \in DOMAIN groups : groups[k].id = groups[l].id => k = l
    PROVE  /\ \A k \in DOMAIN groups :
                 groups[k].id = text => GroupOf(text) = k
           /\ (\A k \in DOMAIN groups : groups[k].id # text)
                 => GroupOf(text) = Len(groups) + 1
<1> DEFINE S == {k \in DOMAIN groups : groups[k].id = text}
                  \cup {Len(groups) + 1}
<1>1. DOMAIN groups = 1 .. Len(groups) /\ Len(groups) \in Nat
  BY ValuesTyped
<1>2. GroupOf(text) = CHOOSE x \in S : \A y \in S : x <= y
  BY DEF GroupOf, Min
<1>3. ASSUME NEW k \in DOMAIN groups, groups[k].id = text
      PROVE  GroupOf(text) = k
  <2>1. S = {k, Len(groups) + 1} /\ k < Len(groups) + 1 /\ k \in Nat
    BY <1>1, <1>3
  <2> HIDE DEF S
  <2>2. k \in S /\ \A y \in S : k <= y
    BY <1>1, <2>1
  <2>3. \A x \in S : (\A y \in S : x <= y) => x = k
    BY <1>1, <2>1
  <2> QED
    BY <1>2, <2>2, <2>3
<1>4. ASSUME \A k \in DOMAIN groups : groups[k].id # text
      PROVE  GroupOf(text) = Len(groups) + 1
  <2>1. S = {Len(groups) + 1}
    BY <1>1, <1>4
  <2> HIDE DEF S
  <2> QED
    BY <1>1, <1>2, <2>1
<1> QED
  BY <1>3, <1>4

(* What a push makes of the groups: of one of them, or a new one. *)
LEMMA PushedInto ==
    ASSUME LoopInv, NEW text, NEW value, NEW k \in DOMAIN groups,
           GroupOf(text) = k
    PROVE  LET gs == Pushed(text, value)
           IN  /\ DOMAIN gs = DOMAIN groups
               /\ \A l \in DOMAIN groups :
                     /\ gs[l].id = groups[l].id
                     /\ gs[l].items = IF l = k
                                      THEN Append(groups[l].items, value)
                                      ELSE groups[l].items
<1> DEFINE g == groups[k]
           h == [g EXCEPT !.items = Append(@, value),
                          !.allocated = IF @ = Len(g.items)
                                        THEN @ + Batch ELSE @]
<1>1. groups \in Seq(Group) /\ g \in Group
  BY ValuesTyped
<1>2. Pushed(text, value) = [groups EXCEPT ![k] = h]
  BY DEF Pushed
<1>3. h.id = g.id /\ h.items = Append(g.items, value)
  BY <1>1 DEF Group
<1> HIDE DEF h
<1> QED
  BY <1>1, <1>2, <1>3

LEMMA PushedBehind ==
    ASSUME LoopInv, NEW text, NEW value, GroupOf(text) = Len(groups) + 1
    PROVE  LET gs == Pushed(text, value)
           IN  /\ DOMAIN gs = DOMAIN groups \cup {Len(groups) + 1}
               /\ \A l \in DOMAIN groups : gs[l] = groups[l]
               /\ gs[Len(groups) + 1].id = text
               /\ gs[Len(groups) + 1].items = <<value>>
<1> DEFINE g == [id |-> text, items |-> <<>>, allocated |-> 0]
           h == [g EXCEPT !.items = Append(@, value),
                          !.allocated = IF @ = Len(g.items)
                                        THEN @ + Batch ELSE @]
<1>1. /\ groups \in Seq(Group) /\ DOMAIN groups = 1 .. Len(groups)
      /\ Len(groups) \in Nat /\ Len(groups) + 1 \notin DOMAIN groups
  BY ValuesTyped
<1>2. Pushed(text, value) = Append(groups, h)
  BY <1>1 DEF Pushed
<1>3. h.id = text /\ h.items = <<value>>
  OBVIOUS
<1> HIDE DEF h
<1>4. /\ DOMAIN Append(groups, h) = DOMAIN groups \cup {Len(groups) + 1}
      /\ \A l \in DOMAIN groups : Append(groups, h)[l] = groups[l]
      /\ Append(groups, h)[Len(groups) + 1] = h
  BY <1>1
<1> QED
  BY <1>2, <1>3, <1>4

(* A value is put at its place, whether its text has a group or not. *)
LEMMA PushSorts ==
    ASSUME LoopInv, NEW n \in Nat, Sorted(groups, n), n + 1 \in Named
    PROVE  Sorted(Pushed(Text(n + 1), ToString(n + 1)), n + 1)
<1> DEFINE t == Text(n + 1)
           v == ToString(n + 1)
           gs == Pushed(t, v)
<1>1. /\ groups \in Seq(Group) /\ DOMAIN groups = 1 .. Len(groups)
      /\ Len(groups) \in Nat
      /\ \A m \in Named : m \in Nat
  BY ValuesTyped DEF Named
<1>2. n + 1 \in Of(t) /\ \A text : text # t => n + 1 \notin Of(text)
  BY DEF Of
<1>3. /\ Rank(n + 1, Of(t)) = Rank(n, Of(t)) + 1
      /\ \A text : text # t => Rank(n + 1, Of(text)) = Rank(n, Of(text))
  BY <1>2, RankNext, OfNamed
<1>4. \A k \in DOMAIN groups : /\ groups[k].items \in Seq(Items)
                               /\ Len(groups[k].items) \in Nat
  <2>1. \A k \in DOMAIN groups : groups[k] \in Group
    BY <1>1
  <2> QED
    BY <2>1 DEF Group
<1>a. \A k \in DOMAIN groups :
         LET new == Append(groups[k].items, v)
         IN  /\ Len(new) = Len(groups[k].items) + 1
             /\ \A p \in 1 .. Len(groups[k].items) :
                   new[p] = groups[k].items[p]
             /\ new[Len(groups[k].items) + 1] = v
  <2>1. v \in Items
    BY <1>1, NumberItem
  <2> HIDE DEF v
  <2> QED
    BY <1>4, <2>1
<1>5. \A text : \A m \in Of(text) :
         /\ m \in Nat
         /\ m <= n => /\ Rank(m, Of(text)) >= 1
                      /\ Rank(m, Of(text)) <= Rank(n, Of(text))
                      /\ Rank(m, Of(text)) \in Nat
  <2> SUFFICES ASSUME NEW text, NEW m \in Of(text)
               PROVE  /\ m \in Nat
                      /\ m <= n => /\ Rank(m, Of(text)) >= 1
                                   /\ Rank(m, Of(text)) <= Rank(n, Of(text))
                                   /\ Rank(m, Of(text)) \in Nat
    OBVIOUS
  <2>1. Of(text) \subseteq Named
    BY OfNamed
  <2>2. m \in Nat /\ Rank(m, Of(text)) \in 1 .. Cardinality(Of(text))
    BY <2>1, RankOfMember
  <2>3. m <= n => Rank(m, Of(text)) <= Rank(n, Of(text))
    BY <2>1, <2>2, RankGrows
  <2>4. Cardinality(Of(text)) \in Nat
    BY <2>1, Counted
  <2> QED
    BY <2>2, <2>3, <2>4
<1>6. ASSUME NEW k \in DOMAIN groups, groups[k].id = t PROVE Sorted(gs, n + 1)
  <2>1. \A l \in DOMAIN groups : groups[l].id = t => l = k
    BY <1>6 DEF Sorted
  <2>2. GroupOf(t) = k
    BY <1>6, GroupPlace DEF Sorted
  <2>3. /\ DOMAIN gs = DOMAIN groups
        /\ \A l \in DOMAIN groups :
              /\ gs[l].id = groups[l].id
              /\ gs[l].items = IF l = k THEN Append(groups[l].items, v)
                               ELSE groups[l].items
    BY <2>2, PushedInto
  <2> HIDE DEF gs, t, v
  <2>4. \A l \in DOMAIN gs :
           /\ Len(gs[l].items) = Rank(n + 1, Of(gs[l].id))
           /\ Len(gs[l].items) > 0
    <3> SUFFICES ASSUME NEW l \in DOMAIN groups
                 PROVE  /\ Len(gs[l].items) = Rank(n + 1, Of(groups[l].id))
                        /\ Len(gs[l].items) > 0
      BY <2>3
    <3>1. CASE l = k
      <4>1. /\ gs[l].items = Append(groups[l].items, v) /\ groups[l].id = t
            /\ Len(groups[l].items) = Rank(n, Of(t))
        BY <1>6, <2>3, <3>1 DEF Sorted
      <4>2. Len(gs[l].items) = Len(groups[l].items) + 1
        BY <1>a, <4>1
      <4> QED
        BY <1>3, <1>4, <4>1, <4>2
    <3>2. CASE l # k
      BY <1>3, <2>1, <2>3, <3>2 DEF Sorted
    <3> QED
      BY <3>1, <3>2
  <2>5. \A l, m \in DOMAIN gs : gs[l].id = gs[m].id => l = m
    BY <2>3 DEF Sorted
  <2>6. \A m \in Named :
           m <= n + 1 => \E l \in DOMAIN gs : gs[l].id = Text(m)
    BY <1>1, <1>6, <2>3, SMTT(20) DEF Sorted, t
  <2>7. ASSUME NEW l \in DOMAIN gs, NEW m \in Of(gs[l].id), m <= n + 1
        PROVE  gs[l].items[Rank(m, Of(gs[l].id))] = ToString(m)
    <3>0. l \in DOMAIN groups /\ gs[l].id = groups[l].id /\ m \in Nat
      BY <1>5, <2>3
    <3>1. CASE m <= n
      <4>1. groups[l].items[Rank(m, Of(gs[l].id))] = ToString(m)
        BY <2>7, <3>0, <3>1 DEF Sorted
      <4>2. Rank(m, Of(gs[l].id)) \in 1 .. Len(groups[l].items)
        BY <1>4, <1>5, <2>7, <3>0, <3>1 DEF Sorted
      <4> QED
        BY <1>a, <2>3, <3>0, <4>1, <4>2
    <3>2. CASE m = n + 1
      <4>1. groups[l].id = t /\ l = k
        BY <1>2, <2>1, <2>7, <3>0, <3>2
      <4>2. Rank(m, Of(gs[l].id)) = Len(groups[l].items) + 1
        BY <1>3, <3>0, <3>2, <4>1 DEF Sorted
      <4> QED
        BY <1>a, <2>3, <3>0, <3>2, <4>1, <4>2 DEF v
    <3> QED
      BY <2>7, <3>0, <3>1, <3>2
  <2>8. \A l, m \in DOMAIN gs :
           l < m => \E x \in Of(gs[l].id) :
                       x <= n + 1 /\ \A p \in Of(gs[m].id) : x < p
    <3> SUFFICES ASSUME NEW l \in DOMAIN gs, NEW m \in DOMAIN gs, l < m
                 PROVE  \E x \in Of(gs[l].id) :
                           x <= n + 1 /\ \A p \in Of(gs[m].id) : x < p
      OBVIOUS
    <3>1. PICK x \in Of(groups[l].id) :
             x <= n /\ \A p \in Of(groups[m].id) : x < p
      BY <2>3 DEF Sorted
    <3>2. x <= n + 1
      BY <1>5, <3>1
    <3> QED
      BY <2>3, <3>1, <3>2
  <2> QED
    BY <2>4, <2>5, <2>6, <2>7, <2>8 DEF Sorted
<1>7. ASSUME \A k \in DOMAIN groups : groups[k].id # t
      PROVE  Sorted(gs, n + 1)
  <2> DEFINE K == Len(groups) + 1
  <2>1. GroupOf(t) = K
    BY <1>7, GroupPlace DEF Sorted
  <2>2. /\ DOMAIN gs = DOMAIN groups \cup {K}
        /\ \A l \in DOMAIN groups : gs[l] = groups[l]
        /\ gs[K].id = t /\ gs[K].items = <<v>>
    BY <2>1, PushedBehind
  <2>3. \A l \in DOMAIN groups : l < K /\ l # K
    BY <1>1
  <2>3a. K \in Nat
    BY <1>1
  <2> HIDE DEF gs, t, v, K
  <2>4. Rank(n, Of(t)) = 0
    <3>1. \A m \in Of(t) : ~(m <= n)
      BY <1>7 DEF Sorted, Of
    <3>2. {m \in Of(t) : m <= n} = {}
      BY <3>1
    <3> QED
      BY <3>2, FS_EmptySet DEF Rank
  <2>5. \A l \in DOMAIN gs :
           /\ Len(gs[l].items) = Rank(n + 1, Of(gs[l].id))
           /\ Len(gs[l].items) > 0
    <3>1. ASSUME NEW l \in DOMAIN groups
          PROVE  /\ Len(gs[l].items) = Rank(n + 1, Of(gs[l].id))
                 /\ Len(gs[l].items) > 0
      BY <1>3, <1>7, <2>2 DEF Sorted
    <3>2. /\ Len(gs[K].items) = Rank(n + 1, Of(gs[K].id))
          /\ Len(gs[K].items) > 0
      <4>1. Len(<<v>>) = 1
        OBVIOUS
      <4>2. Rank(n + 1, Of(t)) = 1
        BY <1>3, <2>4, <1>1
      <4> QED
        BY <2>2, <4>1, <4>2
    <3>3. \A l \in DOMAIN gs : l \in DOMAIN groups \/ l = K
      BY <2>2
    <3> QED
      BY <3>1, <3>2, <3>3, Zenon
  <2>6. \A l, m \in DOMAIN gs : gs[l].id = gs[m].id => l = m
    BY <1>7, <2>2 DEF Sorted
  <2>7. \A m \in Named :
           m <= n + 1 => \E l \in DOMAIN gs : gs[l].id = Text(m)
    <3> SUFFICES ASSUME NEW m \in Named, m <= n + 1
                 PROVE  \E l \in DOMAIN gs : gs[l].id = Text(m)
      OBVIOUS
    <3>1. CASE m <= n
      BY <2>2, <3>1 DEF Sorted
    <3>2. CASE m = n + 1
      BY <2>2, <3>2 DEF t
    <3> QED
      BY <1>1, <3>1, <3>2
  <2>8. ASSUME NEW l \in DOMAIN gs, NEW m \in Of(gs[l].id), m <= n + 1
        PROVE  gs[l].items[Rank(m, Of(gs[l].id))] = ToString(m)
    <3>1. CASE l \in DOMAIN groups
      <4>1. gs[l] = groups[l] /\ m # n + 1 /\ m \in Nat
        BY <1>2, <1>5, <1>7, <2>2, <3>1
      <4>2. m <= n
        BY <2>8, <4>1
      <4> QED
        BY <3>1, <4>1, <4>2 DEF Sorted
    <3>2. CASE l = K
      <4>1. m \in Of(t) /\ m \in Nat
        BY <1>5, <2>2, <3>2
      <4>2. ~(m <= n)
        BY <1>7, <4>1 DEF Sorted, Of
      <4>3. m = n + 1
        BY <2>8, <4>1, <4>2
      <4> QED
        BY <1>3, <2>2, <2>4, <3>2, <4>3 DEF v
    <3> QED
      BY <2>2, <3>1, <3>2
  <2>9. \A l, m \in DOMAIN gs :
           l < m => \E x \in Of(gs[l].id) :
                       x <= n + 1 /\ \A p \in Of(gs[m].id) : x < p
    <3> SUFFICES ASSUME NEW l \in DOMAIN gs, NEW m \in DOMAIN gs, l < m
                 PROVE  \E x \in Of(gs[l].id) :
                           x <= n + 1 /\ \A p \in Of(gs[m].id) : x < p
      OBVIOUS
    <3>1. CASE m \in DOMAIN groups
      <4>1. l \in DOMAIN groups
        BY <1>1, <2>2, <2>3, <2>3a, <3>1
      <4>2. PICK x \in Of(groups[l].id) :
               x <= n /\ \A p \in Of(groups[m].id) : x < p
        BY <3>1, <4>1 DEF Sorted
      <4>3. x <= n + 1
        BY <1>5, <4>2
      <4> QED
        BY <2>2, <3>1, <4>1, <4>2, <4>3
    <3>2. CASE m = K
      <4>1. l \in DOMAIN groups /\ gs[l] = groups[l] /\ gs[m].id = t
        BY <2>2, <2>3a, <3>2
      <4>2. PICK x \in Of(groups[l].id) : x <= n
        <5>1. Rank(n, Of(groups[l].id)) # 0
          BY <1>4, <4>1 DEF Sorted
        <5>2. {x \in Of(groups[l].id) : x <= n} # {}
          BY <5>1, FS_EmptySet DEF Rank
        <5> QED
          BY <5>2
      <4>3. \A p \in Of(t) : p \in Nat /\ ~(p <= n)
        BY <1>5, <1>7 DEF Sorted, Of
      <4>4. x \in Nat /\ x <= n + 1 /\ \A p \in Of(t) : x < p
        BY <1>5, <4>2, <4>3
      <4> QED
        BY <4>1, <4>2, <4>4
    <3> QED
      BY <2>2, <3>1, <3>2
  <2> QED
    BY <2>5, <2>6, <2>7, <2>8, <2>9 DEF Sorted
<1> QED
  BY <1>6, <1>7

LEMMA SortedStep == LoopInv /\ SortedInv /\ [Next]_vars => SortedInv'
<1> SUFFICES ASSUME LoopInv, SortedInv, [Next]_vars PROVE SortedInv'
  OBVIOUS
<1>0. values' = values
  BY DEF Next, Classify, GroupValue, Grouped, OpenGroup, Close, Value,
         CloseGroup, Listing, Publish, vars
<1>1. ASSUME NEW n \in Nat, Sorted(groups', n) PROVE Sorted(groups, n)'
  <2>1. Sorted(groups', n)
    BY <1>1
  <2>2. /\ Named' = Named /\ \A text : Of(text)' = Of(text)
        /\ \A m : Text(m)' = Text(m)
    BY <1>0 DEF Named, Of, Text
  <2> QED
    BY <2>1, <2>2 DEF Sorted, Rank
<1>v. /\ Len(values) \in Nat /\ i \in Nat /\ i >= 1
      /\ DOMAIN values = 1 .. Len(values)
      /\ pc \in {"classify", "group"} => i - 1 \in Nat
  BY ValuesTyped
<1>2. CASE Classify
  <2>1. pc = "classify" /\ groups = <<>> /\ groups' = groups /\ i = 1 /\ i' = 1
    BY <1>2, <1>v DEF Classify, LoopInv, GroupsHold
  <2>2. CASE SingleSensor
    <3>1. pc' = "list" /\ topic' = values[1]
      BY <1>2, <2>2 DEF Classify
    <3>2. \A n \in Named : values[n] = values[1]
      BY <2>2 DEF SingleSensor, Named
    <3>3. \A n \in Named' : values'[n] = topic'
      BY <1>0, <3>1, <3>2 DEF Named
    <3> QED
      BY <2>1, <3>1, <3>3 DEF SortedInv
  <2>3. CASE ~SingleSensor
    <3>1. pc' = "group" /\ topic' = NoId
      BY <1>2, <2>3 DEF Classify
    <3>2. Named' # {}
      BY <1>0, <2>3 DEF SingleSensor, Named
    <3>3. \A m \in Named : ~(m <= 0)
      BY <1>v DEF Named
    <3>4. Sorted(groups', 0)
      BY <2>1, <3>3 DEF Sorted
    <3>5. Sorted(groups, i - 1)'
      BY <1>1, <2>1, <3>4
    <3> QED
      BY <2>1, <3>1, <3>2, <3>5 DEF SortedInv
  <2> QED
    BY <2>2, <2>3
<1>3. CASE GroupValue
  <2>1. /\ pc = "group" /\ pc' = "group" /\ i' = i + 1 /\ i \in DOMAIN values
        /\ topic' = topic /\ i - 1 \in Nat /\ (i - 1) + 1 = i /\ i' - 1 = i
        /\ Sorted(groups, i - 1)
    BY <1>3, <1>v DEF GroupValue, SortedInv
  <2>2. Sorted(groups', i)
    <3>1. CASE values[i] = NoId
      <4>1. i \notin Named /\ groups' = groups /\ Named \subseteq Nat
        BY <1>3, <1>v, <3>1 DEF GroupValue, Named
      <4>2. \A text : /\ Rank(i, Of(text)) = Rank(i - 1, Of(text))
                      /\ i \notin Of(text) /\ Of(text) \subseteq Named
        BY <2>1, <4>1, RankNext DEF Of
      <4>3. \A m \in Named : m <= i <=> m <= i - 1
        BY <1>v, <4>1
      <4>4. \A text : \A m \in Of(text) : m <= i <=> m <= i - 1
        BY <4>2, <4>3
      <4> QED
        <5>1. Sorted(groups, i - 1)
          BY <2>1
        <5>2. \A k \in DOMAIN groups :
                 /\ Len(groups[k].items) = Rank(i, Of(groups[k].id))
                 /\ Len(groups[k].items) > 0
          BY <4>2, <5>1 DEF Sorted
        <5>3. \A m \in Named :
                 m <= i => \E k \in DOMAIN groups : groups[k].id = Text(m)
          BY <4>3, <5>1 DEF Sorted
        <5>4. \A k \in DOMAIN groups : \A m \in Of(groups[k].id) :
                 m <= i
                    => groups[k].items[Rank(m, Of(groups[k].id))] = ToString(m)
          BY <4>4, <5>1 DEF Sorted
        <5>5. \A k, l \in DOMAIN groups :
                 k < l => \E m \in Of(groups[k].id) :
                             m <= i /\ \A p \in Of(groups[l].id) : m < p
          BY <4>4, <5>1 DEF Sorted
        <5>6. \A k, l \in DOMAIN groups : groups[k].id = groups[l].id => k = l
          BY <5>1 DEF Sorted
        <5>7. Sorted(groups, i)
          BY <5>2, <5>3, <5>4, <5>5, <5>6 DEF Sorted
        <5> QED
          BY <4>1, <5>7
    <3>2. CASE values[i] # NoId
      <4>1. /\ groups' = Pushed(Text(i), ToString(i)) /\ i \in Named
        BY <1>3, <2>1, <3>2 DEF GroupValue, Text, Named
      <4> QED
        BY <2>1, <4>1, PushSorts
    <3> QED
      BY <3>1, <3>2
  <2>3. Sorted(groups, i - 1)'
    BY <1>1, <1>v, <2>1, <2>2
  <2>4. Named' = Named
    BY <1>0 DEF Named
  <2> QED
    BY <2>1, <2>3, <2>4 DEF SortedInv
<1>4. CASE Grouped
  <2>1. /\ pc = "group" /\ pc' = "open" /\ groups' = groups /\ topic' = topic
        /\ i \notin DOMAIN values
    BY <1>4 DEF Grouped
  <2>2. i - 1 = Len(values)
    BY <1>v, <2>1 DEF LoopInv
  <2>3. Sorted(groups', Len(values)) /\ Named # {}
    BY <2>1, <2>2 DEF SortedInv
  <2>4. groups # <<>>
    <3>1. PICK m \in Named : TRUE
      BY <2>3
    <3>2. m <= Len(values)
      BY <1>v DEF Named
    <3>3. DOMAIN groups # {}
      BY <2>1, <2>3, <3>2 DEF Sorted
    <3> QED
      BY <3>3
  <2>5. Sorted(groups, Len(values))'
    BY <1>0, <1>1, <1>v, <2>3
  <2> QED
    BY <2>1, <2>4, <2>5 DEF SortedInv
<1>5. ASSUME UNCHANGED <<values, groups, topic>>,
             pc \notin {"classify", "group"},
             pc' \in {"open", "list", "publish", "done", "undefined"},
             pc' = "open" => groups # <<>>,
             groups = <<>> => pc # "open"
      PROVE  SortedInv'
  <2>1. groups # <<>> => Sorted(groups', Len(values))
    BY <1>5 DEF SortedInv, LoopInv
  <2>2. groups # <<>> => Sorted(groups, Len(values))'
    BY <1>0, <1>1, <1>v, <2>1
  <2>3. Named' = Named
    BY <1>0 DEF Named
  <2>4. pc \in {"open", "list", "publish", "done", "undefined"}
    BY <1>5 DEF LoopInv
  <2> QED
    BY <1>5, <2>2, <2>3, <2>4 DEF SortedInv
<1>6. CASE OpenGroup \/ Close
  BY <1>5, <1>6 DEF OpenGroup, Close, SortedInv
<1>7. CASE Value \/ CloseGroup \/ Listing \/ Publish
  BY <1>5, <1>7 DEF Value, CloseGroup, Listing, Publish
<1>8. CASE UNCHANGED vars
  BY <1>8 DEF vars, SortedInv, Sorted, Named, Of, Text, Rank
<1> QED
  BY <1>2, <1>3, <1>4, <1>6, <1>7, <1>8 DEF Next

-----------------------------------------------------------------------------
(* Layout: which pieces have been written, and where. *)
Marks == {"{", ",", ":[", "]", "}"}

Pieces == Texts \cup Items \cup Marks

(* The values in the groups before the k-th, and the place behind them *)
Prev(k) ==
    {n \in Named : \E l \in DOMAIN groups : l < k /\ groups[l].id = Text(n)}

Start(k) == 3 * (k - 1) + 2 * Cardinality(Prev(k))

Opened(k) ==
    /\ payload[Start(k) + 1] = IF k = 1 THEN "{" ELSE ","
    /\ payload[Start(k) + 2] = groups[k].id
    /\ payload[Start(k) + 3] = ":["

ItemsAt(k, n) ==
    \A m \in 1 .. n :
        /\ payload[Start(k) + 2 + 2 * m] = groups[k].items[m]
        /\ m > 1 => payload[Start(k) + 1 + 2 * m] = ","

Written(k) ==
    /\ Opened(k) /\ ItemsAt(k, Len(groups[k].items))
    /\ payload[Start(k) + 3 + 2 * Len(groups[k].items)] = "]"

WrittenBefore(k) == \A l \in DOMAIN groups : l < k => Written(l)

(* The list on a sensor's own topic, when n values were looked at *)
ListedUpTo(n) ==
    /\ Len(payload) = IF Rank(n, Named) = 0 THEN 0 ELSE 2 * Rank(n, Named) - 1
    /\ \A m \in Named : m <= n =>
          /\ payload[2 * Rank(m, Named) - 1] = ToString(m)
          /\ Rank(m, Named) > 1 => payload[2 * Rank(m, Named) - 2] = ","

LayoutInv ==
    /\ payload \in Seq(Pieces)
    /\ size = 0 <=> payload = <<>>
    /\ pc \in {"classify", "group"} => payload = <<>>
    /\ pc = "open" => Len(payload) = Start(i) /\ WrittenBefore(i)
    /\ pc = "list" /\ groups # <<>> =>
          /\ Len(payload) = Start(i) + (IF j = 1 THEN 3 ELSE 2 * j)
          /\ Opened(i) /\ ItemsAt(i, j - 1) /\ WrittenBefore(i)
    /\ pc = "list" /\ groups = <<>> => ListedUpTo(j - 1)
    /\ pc \in {"publish", "done", "undefined"} =>
          IF groups = <<>> THEN ListedUpTo(Len(values))
          ELSE /\ Len(payload) = Start(Len(groups) + 1) + 1
               /\ WrittenBefore(Len(groups) + 1)
               /\ payload[Len(payload)] = "}"
    /\ pc = "done" => size # 0
    /\ pc = "undefined" => size = 0

(* A piece is written behind what there is, and leaves that alone. *)
LEMMA Writes ==
    ASSUME BufferInv, payload \in Seq(Pieces),
           NEW tokens \in Seq(Pieces), Len(tokens) > 0, Packetize(tokens)
    PROVE  /\ payload' \in Seq(Pieces) /\ payload' # <<>> /\ size' # 0
           /\ Len(payload) \in Nat
           /\ Len(payload') = Len(payload) + Len(tokens)
           /\ \A p \in 1 .. Len(payload) : payload'[p] = payload[p]
           /\ \A p \in 1 .. Len(tokens) :
                 payload'[Len(payload) + p] = tokens[p]
<1>1. payload' = payload \o tokens
  BY DEF Packetize
<1>2. /\ payload' \in Seq(Pieces) /\ Len(payload) \in Nat
      /\ Len(payload') = Len(payload) + Len(tokens)
      /\ \A p \in 1 .. Len(payload) : payload'[p] = payload[p]
      /\ \A p \in 1 .. Len(tokens) : payload'[Len(payload) + p] = tokens[p]
  BY <1>1
<1>3. payload' # <<>>
  BY <1>2
<1>4. size' # 0
  <2>1. PICK length \in 1 .. Chunk - 1 :
           size' = IF length + 1 > size - used THEN size + Chunk ELSE size
    BY DEF Packetize
  <2> QED
    BY <2>1, SizesAssumption DEF BufferInv, BufferHolds
<1> QED
  BY <1>2, <1>3, <1>4

(* Where the groups start. *)
LEMMA StartTyped ==
    ASSUME LoopInv, NEW k \in 1 .. Len(groups) + 1
    PROVE  Start(k) \in Nat /\ Cardinality(Prev(k)) \in Nat /\ k \in Nat
<1>1. Prev(k) \subseteq Named
  BY DEF Prev
<1>2. Cardinality(Prev(k)) \in Nat
  BY <1>1, Counted
<1>3. Len(groups) \in Nat
  BY ValuesTyped
<1> QED
  BY <1>2, <1>3 DEF Start

LEMMA StartFirst == LoopInv => Prev(1) = {} /\ Start(1) = 0
<1> SUFFICES ASSUME LoopInv PROVE Prev(1) = {} /\ Start(1) = 0
  OBVIOUS
<1>1. \A l \in DOMAIN groups : ~(l < 1)
  BY ValuesTyped
<1>2. Prev(1) = {}
  BY <1>1 DEF Prev
<1> QED
  BY <1>2, FS_EmptySet DEF Start

LEMMA StartNext ==
    ASSUME LoopInv, Sorted(groups, Len(values)), NEW k \in DOMAIN groups
    PROVE  /\ k + 1 \in 1 .. Len(groups) + 1
           /\ Len(groups[k].items) \in Nat /\ Len(groups[k].items) > 0
           /\ Start(k) \in Nat
           /\ Start(k + 1) = Start(k) + 3 + 2 * Len(groups[k].items)
<1> DEFINE t == groups[k].id
<1>1. k \in 1 .. Len(groups) /\ Len(groups) \in Nat
  BY ValuesTyped
<1>2. /\ Of(t) \subseteq Named /\ Prev(k) \subseteq Named
      /\ Prev(k + 1) \subseteq Named
  BY DEF Of, Prev
<1>3. \A l \in DOMAIN groups : l < k + 1 <=> l < k \/ l = k
  BY <1>1, ValuesTyped
<1>4. Prev(k + 1) = Prev(k) \cup Of(t)
  BY <1>3 DEF Prev, Of
<1>5. Prev(k) \cap Of(t) = {}
  <2>1. \A l \in DOMAIN groups : l < k => groups[l].id # t
    BY <1>1, ValuesTyped DEF Sorted
  <2> QED
    BY <2>1 DEF Prev, Of
<1>6. /\ Cardinality(Of(t)) = Len(groups[k].items)
      /\ Len(groups[k].items) > 0
  BY <1>2, RankLast DEF Sorted
<1>7. /\ IsFiniteSet(Of(t)) /\ Cardinality(Of(t)) \in Nat
      /\ IsFiniteSet(Prev(k)) /\ Cardinality(Prev(k)) \in Nat
  BY <1>2, Counted
<1>8. Cardinality(Prev(k + 1)) = Cardinality(Prev(k)) + Cardinality(Of(t))
  <2>1. Cardinality(Prev(k) \cup Of(t))
           = Cardinality(Prev(k)) + Cardinality(Of(t)) - Cardinality({})
    BY <1>5, <1>7, FS_Union
  <2>2. Cardinality({}) = 0
    BY FS_EmptySet
  <2>3. Cardinality(Prev(k + 1))
           = Cardinality(Prev(k)) + Cardinality(Of(t)) - 0
    BY <1>4, <2>1, <2>2
  <2> QED
    BY <1>7, <2>3
<1>9. /\ Start(k) = 3 * (k - 1) + 2 * Cardinality(Prev(k))
      /\ Start(k + 1) = 3 * ((k + 1) - 1) + 2 * Cardinality(Prev(k + 1))
  BY DEF Start
<1> HIDE DEF t
<1> DEFINE c == Cardinality(Prev(k))
           d == Cardinality(Of(t))
<1>10. c \in Nat /\ d \in Nat /\ k \in Nat
       /\ Start(k) = 3 * (k - 1) + 2 * c
       /\ Start(k + 1) = 3 * ((k + 1) - 1) + 2 * (c + d)
  BY <1>1, <1>7, <1>8, <1>9
<1>11. Start(k + 1) = Start(k) + 3 + 2 * d
  <2> HIDE DEF c, d
  <2> QED
    BY <1>10
<1>12. Start(k) \in Nat /\ k + 1 \in 1 .. Len(groups) + 1
  BY <1>1, StartTyped
<1> QED
  BY <1>6, <1>7, <1>11, <1>12

LEMMA StartOrder ==
    ASSUME LoopInv, NEW k \in 1 .. Len(groups) + 1,
           NEW l \in 1 .. Len(groups) + 1, k <= l
    PROVE  Start(k) <= Start(l)
<1>1. /\ \A m \in DOMAIN groups : m < k => m < l
      /\ k \in Nat /\ l \in Nat
  BY ValuesTyped
<1>2. Prev(k) \subseteq Prev(l) /\ Prev(l) \subseteq Named
  BY <1>1 DEF Prev
<1>3. IsFiniteSet(Prev(l))
  BY <1>2, Counted
<1>4. Cardinality(Prev(k)) <= Cardinality(Prev(l))
  BY <1>2, <1>3, FS_Subset
<1>5. Cardinality(Prev(k)) \in Nat /\ Cardinality(Prev(l)) \in Nat
  BY StartTyped
<1> QED
  BY <1>1, <1>4, <1>5 DEF Start

LEMMA PlacesKept ==
    ASSUME UNCHANGED <<values, groups>>
    PROVE  Named' = Named /\ \A k : Start(k)' = Start(k)
<1>1. Named' = Named /\ \A n : Text(n)' = Text(n)
  BY DEF Named, Text
<1>2. \A k : Prev(k)' = Prev(k)
  BY <1>1 DEF Prev
<1> QED
  BY <1>1, <1>2 DEF Start

(* What was written stays while more is written. *)
LEMMA Inside ==
    \A p, n \in Nat :
        /\ {p + 1, p + 2, p + 3, p + 3 + 2 * n} \subseteq 1 .. p + 3 + 2 * n
        /\ \A m \in 1 .. n :
              {p + 2 + 2 * m, p + 1 + 2 * m} \subseteq 1 .. p + 3 + 2 * n
OBVIOUS

LEMMA WrittenStays ==
    ASSUME LoopInv, Sorted(groups, Len(values)),
           UNCHANGED <<values, groups>>, Len(payload) \in Nat,
           \A p \in 1 .. Len(payload) : payload'[p] = payload[p],
           NEW k \in 1 .. Len(groups) + 1, Start(k) <= Len(payload),
           WrittenBefore(k)
    PROVE  WrittenBefore(k)'
<1> SUFFICES ASSUME NEW l \in DOMAIN groups, l < k PROVE Written(l)'
  BY DEF WrittenBefore
<1>1. /\ Len(groups[l].items) \in Nat /\ Start(l) \in Nat
      /\ l + 1 \in 1 .. Len(groups) + 1
      /\ Start(l + 1) = Start(l) + 3 + 2 * Len(groups[l].items)
  BY StartNext
<1>2. Start(l + 1) <= Start(k) /\ Start(k) \in Nat
  <2>1. l + 1 <= k
    BY ValuesTyped
  <2> QED
    BY <1>1, <2>1, StartOrder, StartTyped
<1>3. \A p \in 1 .. Start(l) + 3 + 2 * Len(groups[l].items) :
         payload'[p] = payload[p]
  BY <1>1, <1>2, SMTT(20)
<1>4. Start(l)' = Start(l) /\ groups' = groups
  BY PlacesKept
<1>5. Written(l)
  BY DEF WrittenBefore
<1>6. Opened(l)'
  <2>1. {Start(l) + 1, Start(l) + 2, Start(l) + 3}
           \subseteq 1 .. Start(l) + 3 + 2 * Len(groups[l].items)
    BY <1>1, Inside
  <2> QED
    BY <1>3, <1>4, <1>5, <2>1 DEF Written, Opened
<1>7. ItemsAt(l, Len(groups[l].items))'
  <2> SUFFICES ASSUME NEW m \in 1 .. Len(groups[l].items)
               PROVE  /\ payload'[Start(l) + 2 + 2 * m] = groups[l].items[m]
                      /\ m > 1 => payload'[Start(l) + 1 + 2 * m] = ","
    BY <1>4 DEF ItemsAt
  <2>1. /\ Start(l) + 2 + 2 * m
              \in 1 .. Start(l) + 3 + 2 * Len(groups[l].items)
        /\ Start(l) + 1 + 2 * m
              \in 1 .. Start(l) + 3 + 2 * Len(groups[l].items)
    BY <1>1, Inside
  <2> QED
    BY <1>3, <1>5, <2>1 DEF Written, ItemsAt
<1>8. payload'[Start(l) + 3 + 2 * Len(groups[l].items)] = "]"
  BY <1>1, <1>3, <1>5, SMTT(20) DEF Written
<1> QED
  BY <1>4, <1>6, <1>7, <1>8 DEF Written

(* The head and the first items of a group stay while more is written. *)
LEMMA OpenStays ==
    ASSUME LoopInv, UNCHANGED <<values, groups>>, Len(payload) \in Nat,
           \A p \in 1 .. Len(payload) : payload'[p] = payload[p],
           NEW k \in 1 .. Len(groups) + 1, NEW n \in Nat,
           Start(k) + 3 <= Len(payload),
           n > 0 => Start(k) + 2 + 2 * n <= Len(payload),
           Opened(k), ItemsAt(k, n)
    PROVE  Opened(k)' /\ ItemsAt(k, n)'
<1>1. Start(k) \in Nat /\ Start(k)' = Start(k) /\ groups' = groups
  BY PlacesKept, StartTyped
<1>2. Opened(k)'
  <2>1. {Start(k) + 1, Start(k) + 2, Start(k) + 3} \subseteq 1 .. Len(payload)
    BY <1>1
  <2> QED
    BY <1>1, <2>1 DEF Opened
<1>3. ItemsAt(k, n)'
  <2> SUFFICES ASSUME NEW m \in 1 .. n
               PROVE  /\ payload'[Start(k) + 2 + 2 * m] = groups[k].items[m]
                      /\ m > 1 => payload'[Start(k) + 1 + 2 * m] = ","
    BY <1>1 DEF ItemsAt
  <2>1. /\ Start(k) + 2 + 2 * m \in 1 .. Len(payload)
        /\ Start(k) + 1 + 2 * m \in 1 .. Len(payload)
    BY <1>1, SMTT(20)
  <2> QED
    BY <2>1 DEF ItemsAt
<1> QED
  BY <1>2, <1>3

LEMMA GroupTyped ==
    ASSUME LoopInv, NEW k \in DOMAIN groups
    PROVE  /\ groups[k].id \in Texts /\ groups[k].items \in Seq(Items)
           /\ Len(groups[k].items) \in Nat
           /\ DOMAIN groups[k].items = 1 .. Len(groups[k].items)
           /\ k \in 1 .. Len(groups) + 1 /\ k >= 1 /\ k <= Len(groups)
<1>1. groups \in Seq(Group) /\ Len(groups) \in Nat
  BY ValuesTyped
<1>2. groups[k] \in Group /\ k \in 1 .. Len(groups)
  BY <1>1
<1>3. groups[k].id \in Texts /\ groups[k].items \in Seq(Items)
  BY <1>2 DEF Group
<1> QED
  BY <1>1, <1>2, <1>3

LEMMA WritesOne ==
    ASSUME BufferInv, payload \in Seq(Pieces),
           NEW piece \in Pieces, Packetize(<<piece>>)
    PROVE  /\ payload' \in Seq(Pieces) /\ payload' # <<>> /\ size' # 0
           /\ Len(payload) \in Nat
           /\ Len(payload') = Len(payload) + 1
           /\ \A p \in 1 .. Len(payload) : payload'[p] = payload[p]
           /\ payload'[Len(payload) + 1] = piece
<1> DEFINE tokens == <<piece>>
<1>1. tokens \in Seq(Pieces) /\ Len(tokens) > 0
  OBVIOUS
<1>2. Len(tokens) = 1 /\ tokens[1] = piece /\ 1 \in 1 .. 1
  OBVIOUS
<1> HIDE DEF tokens
<1>3. Packetize(tokens)
  BY DEF tokens
<1> QED
  BY <1>1, <1>2, <1>3, Writes

LEMMA LayoutOpen ==
    ASSUME BufferInv, LoopInv, SortedInv, LayoutInv, OpenGroup
    PROVE  LayoutInv'
<1> DEFINE tokens == <<IF i = 1 THEN "{" ELSE ",", groups[i].id, ":[">>
<1>1. /\ pc = "open" /\ pc' = "list" /\ i \in DOMAIN groups /\ j' = 1
      /\ UNCHANGED <<values, i, groups, topic>> /\ Packetize(tokens)
  BY DEF OpenGroup
<1>2. /\ Sorted(groups, Len(values)) /\ groups # <<>>
      /\ Len(payload) = Start(i) /\ WrittenBefore(i)
      /\ payload \in Seq(Pieces)
  BY <1>1 DEF SortedInv, LayoutInv
<1>3. groups[i].id \in Texts /\ i \in 1 .. Len(groups) + 1 /\ i >= 1
  BY <1>1, GroupTyped
<1>4. /\ tokens \in Seq(Pieces) /\ Len(tokens) > 0 /\ Len(tokens) = 3
      /\ {1, 2, 3} \subseteq 1 .. 3
  <2> DEFINE mark == IF i = 1 THEN "{" ELSE ","
  <2>1. mark \in Pieces /\ groups[i].id \in Pieces /\ ":[" \in Pieces
    BY <1>3 DEF Pieces, Marks
  <2>2. tokens = <<mark, groups[i].id, ":[">>
    OBVIOUS
  <2> HIDE DEF mark, tokens
  <2> QED
    BY <2>1, <2>2
<1>5. /\ tokens[1] = IF i = 1 THEN "{" ELSE ","
      /\ tokens[2] = groups[i].id /\ tokens[3] = ":["
  OBVIOUS
<1> HIDE DEF tokens
<1>6. /\ payload' \in Seq(Pieces) /\ payload' # <<>> /\ size' # 0
      /\ Len(payload) \in Nat
      /\ Len(payload') = Len(payload) + 3
      /\ \A p \in 1 .. Len(payload) : payload'[p] = payload[p]
      /\ \A p \in 1 .. 3 : payload'[Len(payload) + p] = tokens[p]
  BY <1>1, <1>2, <1>4, Writes
<1>7. Start(i)' = Start(i) /\ Start(i) \in Nat
  BY <1>1, <1>3, PlacesKept, StartTyped
<1>8. Opened(i)'
  <2>1. /\ payload'[Start(i) + 1] = tokens[1]
        /\ payload'[Start(i) + 2] = tokens[2]
        /\ payload'[Start(i) + 3] = tokens[3]
    BY <1>2, <1>4, <1>6
  <2> QED
    BY <1>1, <1>5, <1>7, <2>1 DEF Opened
<1>9. ItemsAt(i, j - 1)'
  <2>1. j' - 1 = 0 /\ \A m \in 1 .. 0 : FALSE
    BY <1>1
  <2> QED
    BY <2>1 DEF ItemsAt
<1>10. WrittenBefore(i)'
  <2>1. Start(i) <= Len(payload)
    BY <1>2, <1>7
  <2>2. \A k : k = i => WrittenBefore(k)'
    BY <1>1, <1>2, <1>3, <1>6, <2>1, WrittenStays
  <2> QED
    BY <1>1, <2>2 DEF WrittenBefore
<1> QED
  BY <1>1, <1>2, <1>6, <1>7, <1>8, <1>9, <1>10 DEF LayoutInv

LEMMA LayoutCloseGroup ==
    ASSUME BufferInv, LoopInv, SortedInv, LayoutInv, CloseGroup
    PROVE  LayoutInv'
<1>1. /\ pc = "list" /\ pc' = "open" /\ groups # <<>> /\ i' = i + 1
      /\ j \notin DOMAIN Listed
      /\ UNCHANGED <<values, j, groups, topic>> /\ Packetize(<<"]">>)
  BY DEF CloseGroup
<1>2. /\ Sorted(groups, Len(values)) /\ i \in DOMAIN groups
      /\ payload \in Seq(Pieces)
      /\ Len(payload) = Start(i) + (IF j = 1 THEN 3 ELSE 2 * j)
      /\ Opened(i) /\ ItemsAt(i, j - 1) /\ WrittenBefore(i)
  BY <1>1, ValuesTyped DEF SortedInv, LayoutInv, LoopInv
<1> DEFINE n == Len(groups[i].items)
<1>3. /\ n \in Nat /\ n > 0 /\ i \in 1 .. Len(groups) + 1
      /\ i + 1 \in 1 .. Len(groups) + 1 /\ Start(i) \in Nat
      /\ Start(i + 1) = Start(i) + 3 + 2 * n
  BY <1>2, StartNext, GroupTyped
<1>4. j = n + 1
  <2>1. Listed = groups[i].items /\ DOMAIN groups[i].items = 1 .. n
    BY <1>1, <1>2, GroupTyped DEF Listed
  <2> QED
    BY <1>1, <1>3, <2>1, ValuesTyped, SMTT(20) DEF LoopInv
<1> HIDE DEF n
<1>5. Len(payload) = Start(i) + 2 + 2 * n
  BY <1>2, <1>3, <1>4
<1>6. /\ payload' \in Seq(Pieces) /\ payload' # <<>> /\ size' # 0
      /\ Len(payload) \in Nat
      /\ Len(payload') = Len(payload) + 1
      /\ \A p \in 1 .. Len(payload) : payload'[p] = payload[p]
      /\ payload'[Len(payload) + 1] = "]"
  <2>1. "]" \in Pieces
    BY DEF Pieces, Marks
  <2> QED
    BY <1>1, <1>2, <2>1, WritesOne
<1>7. \A k : k = i => WrittenBefore(k)' /\ Written(k)'
  <2> SUFFICES ASSUME NEW k, k = i PROVE WrittenBefore(k)' /\ Written(k)'
    OBVIOUS
  <2>1. Start(k) <= Len(payload) /\ WrittenBefore(k)
    BY <1>2, <1>3, <1>5
  <2>2. WrittenBefore(k)'
    BY <1>1, <1>2, <1>3, <1>6, <2>1, WrittenStays
  <2>3. /\ Start(k) + 3 <= Len(payload)
        /\ Start(k) + 2 + 2 * n <= Len(payload)
        /\ Opened(k) /\ ItemsAt(k, n)
    <3>1. j - 1 = n
      BY <1>3, <1>4
    <3>2. Opened(k) /\ ItemsAt(k, n)
      BY <1>2, <3>1
    <3> QED
      BY <1>3, <1>5, <3>2
  <2>4. Opened(k)' /\ \A m : m = n => ItemsAt(k, m)'
    BY <1>1, <1>2, <1>3, <1>6, <2>3, OpenStays
  <2>5. Start(k)' = Start(k) /\ groups' = groups
    BY <1>1, PlacesKept
  <2>6. ItemsAt(k, Len(groups[k].items))'
    BY <2>4, <2>5 DEF ItemsAt, n
  <2>7. payload'[Start(k) + 3 + 2 * n] = "]"
    BY <1>3, <1>5, <1>6
  <2> QED
    BY <2>2, <2>4, <2>5, <2>6, <2>7 DEF Written, n
<1>8. WrittenBefore(i)'
  <2>1. \A l \in DOMAIN groups : l < i + 1 => l < i \/ l = i
    BY <1>3, ValuesTyped
  <2> QED
    BY <1>1, <1>7, <2>1 DEF WrittenBefore
<1>9. Len(payload') = Start(i)'
  BY <1>1, <1>3, <1>5, <1>6, PlacesKept
<1> QED
  BY <1>1, <1>6, <1>8, <1>9 DEF LayoutInv

LEMMA LayoutClose ==
    ASSUME BufferInv, LoopInv, SortedInv, LayoutInv, Close
    PROVE  LayoutInv'
<1>1. /\ pc = "open" /\ pc' = "publish" /\ i \notin DOMAIN groups
      /\ UNCHANGED <<values, i, j, groups, topic>> /\ Packetize(<<"}">>)
  BY DEF Close
<1>2. /\ Sorted(groups, Len(values)) /\ groups # <<>>
      /\ payload \in Seq(Pieces)
      /\ Len(payload) = Start(i) /\ WrittenBefore(i)
  BY <1>1 DEF SortedInv, LayoutInv
<1>3. i = Len(groups) + 1 /\ i \in 1 .. Len(groups) + 1
  <2>1. /\ i \in Nat /\ i >= 1 /\ i <= Len(groups) + 1 /\ Len(groups) \in Nat
        /\ DOMAIN groups = 1 .. Len(groups) /\ i \notin DOMAIN groups
    BY <1>1, ValuesTyped DEF LoopInv
  <2> QED
    BY <2>1
<1>4. /\ payload' \in Seq(Pieces) /\ payload' # <<>> /\ size' # 0
      /\ Len(payload) \in Nat
      /\ Len(payload') = Len(payload) + 1
      /\ \A p \in 1 .. Len(payload) : payload'[p] = payload[p]
      /\ payload'[Len(payload) + 1] = "}"
  <2>1. "}" \in Pieces
    BY DEF Pieces, Marks
  <2> QED
    BY <1>1, <1>2, <2>1, WritesOne
<1>5. \A k : k = i => WrittenBefore(k)'
  <2>1. Start(i) <= Len(payload) /\ WrittenBefore(i)
    BY <1>2, <1>3, StartTyped
  <2> QED
    BY <1>1, <1>2, <1>3, <1>4, <2>1, WrittenStays
<1>6. WrittenBefore(Len(groups) + 1)'
  BY <1>1, <1>3, <1>5 DEF WrittenBefore
<1>7. Start(Len(groups) + 1)' = Start(i)
  BY <1>1, <1>3, PlacesKept
<1> QED
  BY <1>1, <1>2, <1>4, <1>6, <1>7 DEF LayoutInv

LEMMA WritesTwo ==
    ASSUME BufferInv, payload \in Seq(Pieces),
           NEW mark \in Pieces, NEW piece \in Pieces,
           Packetize(<<mark, piece>>)
    PROVE  /\ payload' \in Seq(Pieces) /\ payload' # <<>> /\ size' # 0
           /\ Len(payload) \in Nat
           /\ Len(payload') = Len(payload) + 2
           /\ \A p \in 1 .. Len(payload) : payload'[p] = payload[p]
           /\ payload'[Len(payload) + 1] = mark
           /\ payload'[Len(payload) + 2] = piece
<1> DEFINE tokens == <<mark, piece>>
<1>1. tokens \in Seq(Pieces) /\ Len(tokens) > 0
  OBVIOUS
<1>2. /\ Len(tokens) = 2 /\ tokens[1] = mark /\ tokens[2] = piece
      /\ 1 \in 1 .. 2 /\ 2 \in 1 .. 2
  OBVIOUS
<1> HIDE DEF tokens
<1>3. Packetize(tokens)
  BY DEF tokens
<1> QED
  BY <1>1, <1>2, <1>3, Writes

(* The values of a group all have an id: none of them is skipped. *)
LEMMA LayoutItem ==
    ASSUME BufferInv, LoopInv, SortedInv, LayoutInv, Value, groups # <<>>
    PROVE  LayoutInv'
<1>1. /\ pc = "list" /\ pc' = "list" /\ j \in DOMAIN Listed /\ j' = j + 1
      /\ UNCHANGED <<values, i, groups, topic>>
  BY DEF Value
<1>n. j' = j + 1 /\ j' - 1 = j /\ j' # 1
  <2>1. j \in Nat /\ j >= 1 /\ (j + 1) - 1 = j /\ j + 1 # 1
    BY ValuesTyped
  <2> QED
    BY <1>1, <2>1
<1>p. Packetize(IF First THEN <<Listed[j]>> ELSE <<",", Listed[j]>>)
  BY DEF Value, Skipped
<1>2. /\ Sorted(groups, Len(values)) /\ i \in DOMAIN groups
      /\ payload \in Seq(Pieces)
      /\ Len(payload) = Start(i) + (IF j = 1 THEN 3 ELSE 2 * j)
      /\ Opened(i) /\ ItemsAt(i, j - 1) /\ WrittenBefore(i)
  <2>1. i \in Nat /\ i >= 1 /\ i <= Len(groups)
    BY <1>1, ValuesTyped DEF LoopInv
  <2>2. i \in DOMAIN groups
    BY <2>1, ValuesTyped
  <2> QED
    BY <1>1, <2>2 DEF SortedInv, LayoutInv
<1>3. /\ i \in 1 .. Len(groups) + 1 /\ Start(i) \in Nat
      /\ DOMAIN groups[i].items = 1 .. Len(groups[i].items)
      /\ groups[i].items \in Seq(Items)
  BY <1>2, StartTyped, GroupTyped
<1>4. Listed[j] = groups[i].items[j] /\ j \in DOMAIN groups[i].items
  BY <1>1 DEF Listed
<1> DEFINE v == groups[i].items[j]
<1>5. v \in Items /\ j \in Nat /\ j >= 1
  BY <1>3, <1>4
<1>6. v \in Pieces /\ "," \in Pieces
  BY <1>5 DEF Pieces, Marks
<1>7. First <=> j = 1
  <2>1. First <=> \A k \in 1 .. j - 1 : FALSE
    BY DEF First, Skipped
  <2> QED
    BY <1>5, <2>1
<1> HIDE DEF v
<1>8. /\ payload' \in Seq(Pieces) /\ payload' # <<>> /\ size' # 0
      /\ Len(payload) \in Nat
      /\ Len(payload') = Start(i) + 2 * (j + 1)
      /\ \A p \in 1 .. Len(payload) : payload'[p] = payload[p]
      /\ payload'[Start(i) + 2 + 2 * j] = v
      /\ j > 1 => payload'[Start(i) + 1 + 2 * j] = ","
  <2>1. CASE j = 1
    <3>1. Packetize(<<v>>)
      BY <1>p, <1>4, <1>7, <2>1 DEF v
    <3>2. /\ payload' \in Seq(Pieces) /\ payload' # <<>> /\ size' # 0
          /\ Len(payload) \in Nat
          /\ Len(payload') = Len(payload) + 1
          /\ \A p \in 1 .. Len(payload) : payload'[p] = payload[p]
          /\ payload'[Len(payload) + 1] = v
      BY <1>2, <1>6, <3>1, WritesOne
    <3>3. Len(payload) = Start(i) + 3
      BY <1>2, <2>1
    <3> QED
      BY <1>3, <2>1, <3>2, <3>3
  <2>2. CASE j # 1
    <3>2. Packetize(<<",", v>>)
      BY <1>p, <1>4, <1>7, <2>2 DEF v
    <3>3. /\ payload' \in Seq(Pieces) /\ payload' # <<>> /\ size' # 0
          /\ Len(payload) \in Nat
          /\ Len(payload') = Len(payload) + 2
          /\ \A p \in 1 .. Len(payload) : payload'[p] = payload[p]
          /\ payload'[Len(payload) + 1] = ","
          /\ payload'[Len(payload) + 2] = v
      BY <1>2, <1>6, <3>2, WritesTwo
    <3>4. Len(payload) = Start(i) + 2 * j
      BY <1>2, <2>2
    <3>5. /\ Len(payload) + 1 = Start(i) + 1 + 2 * j
          /\ Len(payload) + 2 = Start(i) + 2 + 2 * j
          /\ Len(payload) + 2 = Start(i) + 2 * (j + 1)
      BY <1>3, <1>5, <3>4
    <3> QED
      BY <3>3, <3>5
  <2> QED
    BY <2>1, <2>2
<1>9. \A k : k = i => WrittenBefore(k)' /\ Opened(k)'
                      /\ \A m : m = j - 1 => ItemsAt(k, m)'
  <2> SUFFICES ASSUME NEW k, k = i, NEW m, m = j - 1
               PROVE  WrittenBefore(k)' /\ Opened(k)' /\ ItemsAt(k, m)'
    OBVIOUS
  <2>1. /\ Start(k) <= Len(payload) /\ Start(k) + 3 <= Len(payload)
        /\ m \in Nat /\ (m > 0 => Start(k) + 2 + 2 * m <= Len(payload))
    BY <1>2, <1>3, <1>5
  <2>2. k \in 1 .. Len(groups) + 1 /\ WrittenBefore(k) /\ Opened(k)
        /\ ItemsAt(k, m)
    BY <1>2, <1>3
  <2>3. WrittenBefore(k)'
    BY <1>1, <1>2, <1>8, <2>1, <2>2, WrittenStays
  <2> QED
    BY <1>1, <1>8, <2>1, <2>2, <2>3, OpenStays
<1>10. Start(i)' = Start(i)
  BY <1>1, PlacesKept
<1>11. WrittenBefore(i)' /\ Opened(i)'
  BY <1>1, <1>9 DEF WrittenBefore, Opened
<1>12. ItemsAt(i, j - 1)'
  <2> SUFFICES ASSUME NEW m \in 1 .. j
               PROVE  /\ payload'[Start(i) + 2 + 2 * m] = groups[i].items[m]
                      /\ m > 1 => payload'[Start(i) + 1 + 2 * m] = ","
    <3>1. j' - 1 = j
      BY <1>n
    <3> QED
      BY <1>1, <1>10, <3>1 DEF ItemsAt
  <2>1. CASE m = j
    BY <1>8, <2>1 DEF v
  <2>2. CASE m # j
    <3>1. m \in 1 .. j - 1
      BY <1>5, <2>2
    <3>2. \A n : n = j - 1 => ItemsAt(i, n)'
      BY <1>1, <1>9 DEF ItemsAt
    <3>3. \A n : n = j - 1 => \A l \in 1 .. n :
              /\ payload'[Start(i) + 2 + 2 * l] = groups[i].items[l]
              /\ l > 1 => payload'[Start(i) + 1 + 2 * l] = ","
      BY <1>1, <1>10, <3>2 DEF ItemsAt
    <3> QED
      BY <3>1, <3>3
  <2> QED
    BY <2>1, <2>2
<1>13. Len(payload') = Start(i)' + (IF j' = 1 THEN 3 ELSE 2 * j')
  <2>1. Len(payload') = Start(i) + 2 * (j + 1)
    BY <1>8
  <2> QED
    BY <1>n, <1>10, <2>1
<1> QED
  BY <1>1, <1>8, <1>11, <1>12, <1>13 DEF LayoutInv

LEMMA RanksKept ==
    ASSUME values' = values
    PROVE  Named' = Named /\ \A n : Rank(n, Named)' = Rank(n, Named)
BY DEF Named, Rank

(* The values of the list are looked at one after the other. *)
LEMMA LayoutListed ==
    ASSUME BufferInv, LoopInv, SortedInv, LayoutInv, Value, groups = <<>>
    PROVE  LayoutInv'
<1>1. /\ pc = "list" /\ pc' = "list" /\ j \in DOMAIN Listed /\ j' = j + 1
      /\ UNCHANGED <<values, i, groups, topic>>
  BY DEF Value
<1>2. /\ j \in Nat /\ j >= 1 /\ j - 1 \in Nat /\ (j - 1) + 1 = j
      /\ (j + 1) - 1 = j /\ j - 1 <= j
  BY ValuesTyped
<1>3. Listed = All /\ j \in 1 .. Len(values)
  <2>1. Listed = All
    BY Zenon DEF Listed, All
  <2> QED
    BY <1>1, <2>1, AllLength
<1>4. j \in DOMAIN values /\ Listed[j] = ToString(j)
  <2>1. j \in DOMAIN values
    BY <1>3, ValuesTyped
  <2> QED
    BY <1>3, <2>1, Zenon DEF All
<1>5. /\ payload \in Seq(Pieces) /\ ListedUpTo(j - 1)
      /\ (size = 0 <=> payload = <<>>)
  BY <1>1 DEF LayoutInv
<1> DEFINE r == Rank(j - 1, Named)
           v == ToString(j)
<1>6. /\ r \in Nat
      /\ \A m \in Named : m <= j - 1
            => m \in Nat /\ Rank(m, Named) \in Nat /\ Rank(m, Named) >= 1
                         /\ Rank(m, Named) <= r
  <2>1. ASSUME NEW m \in Named, m <= j - 1
        PROVE  m \in Nat /\ Rank(m, Named) \in Nat /\ Rank(m, Named) >= 1
                         /\ Rank(m, Named) <= r
    <3>1. m \in Nat /\ Rank(m, Named) \in Nat /\ Rank(m, Named) >= 1
      BY RankOfMember, Counted
    <3> QED
      BY <1>2, <2>1, <3>1, RankGrows
  <2>2. j - 1 <= j - 1
    BY <1>2
  <2>3. r \in Nat
    BY <1>2, <2>2, RankGrows
  <2> QED
    BY <2>1, <2>3
<1>7. Rank(j, Named) = IF j \in Named THEN r + 1 ELSE r
  BY <1>2, RankNext
<1>8. \A m \in Named : m <= j => m <= j - 1 \/ m = j
  BY <1>2, ValuesTyped DEF Named
<1>9. ASSUME ListedUpTo(j), payload' = payload PROVE ListedUpTo(j - 1)'
  <2>1. j' - 1 = j
    BY <1>1, <1>2
  <2> QED
    BY <1>1, <1>9, <2>1, RanksKept DEF ListedUpTo
<1>10. CASE Skipped(j)
  <2>1. UNCHANGED buffer /\ j \notin Named
    BY <1>10 DEF Value, Skipped, Named
  <2>2. Rank(j, Named) = r /\ \A m \in Named : m <= j => m <= j - 1
    BY <1>7, <1>8, <2>1
  <2>3. ListedUpTo(j)
    BY <1>5, <2>2 DEF ListedUpTo
  <2>4. ListedUpTo(j - 1)'
    BY <1>9, <2>1, <2>3 DEF buffer
  <2> QED
    BY <1>1, <1>5, <2>1, <2>4 DEF LayoutInv, buffer
<1>11. CASE ~Skipped(j)
  <2>1. Packetize(IF First THEN <<v>> ELSE <<",", v>>)
    BY <1>4, <1>11 DEF Value
  <2>2. j \in Named /\ Rank(j, Named) = r + 1
    BY <1>4, <1>7, <1>11 DEF Skipped, Named
  <2>3. First <=> r = 0
    <3>1. First <=> \A k \in 1 .. j - 1 : values[k] = NoId
      BY DEF First, Skipped
    <3>2. First <=> {m \in Named : m <= j - 1} = {}
      BY <1>2, <1>3, <3>1, ValuesTyped DEF Named
    <3>3. IsFiniteSet({m \in Named : m <= j - 1})
      BY Counted
    <3> QED
      BY <3>2, <3>3, FS_EmptySet DEF Rank
  <2>4. v \in Pieces /\ "," \in Pieces
    BY <1>2, NumberItem DEF Pieces, Marks
  <2>5. Len(payload) = IF r = 0 THEN 0 ELSE 2 * r - 1
    BY <1>5 DEF ListedUpTo
  <2> HIDE DEF v, r
  <2>6. /\ payload' \in Seq(Pieces) /\ payload' # <<>> /\ size' # 0
        /\ Len(payload) \in Nat
        /\ \A p \in 1 .. Len(payload) : payload'[p] = payload[p]
        /\ Len(payload') = 2 * r + 1 /\ payload'[2 * r + 1] = v
        /\ r > 0 => payload'[2 * r] = ","
    <3>1. CASE r = 0
      <4>1. Packetize(<<v>>)
        BY <2>1, <2>3, <3>1
      <4>2. /\ payload' \in Seq(Pieces) /\ payload' # <<>> /\ size' # 0
            /\ Len(payload) \in Nat
            /\ Len(payload') = Len(payload) + 1
            /\ \A p \in 1 .. Len(payload) : payload'[p] = payload[p]
            /\ payload'[Len(payload) + 1] = v
        BY <1>5, <2>4, <4>1, WritesOne
      <4> QED
        BY <2>5, <3>1, <4>2
    <3>2. CASE r # 0
      <4>1. Packetize(<<",", v>>)
        BY <2>1, <2>3, <3>2
      <4>2. /\ payload' \in Seq(Pieces) /\ payload' # <<>> /\ size' # 0
            /\ Len(payload) \in Nat
            /\ Len(payload') = Len(payload) + 2
            /\ \A p \in 1 .. Len(payload) : payload'[p] = payload[p]
            /\ payload'[Len(payload) + 1] = ","
            /\ payload'[Len(payload) + 2] = v
        BY <1>5, <2>4, <4>1, WritesTwo
      <4>3. Len(payload) + 1 = 2 * r /\ Len(payload) + 2 = 2 * r + 1
        BY <1>6, <2>5, <3>2
      <4> QED
        BY <4>2, <4>3
    <3> QED
      BY <3>1, <3>2
  <2>7. Rank(j, Named) = r + 1 /\ r \in Nat /\ 2 * (r + 1) - 1 = 2 * r + 1
        /\ 2 * (r + 1) - 2 = 2 * r /\ r + 1 # 0 /\ (r + 1 > 1 => r > 0)
    BY <1>6, <2>2
  <2>8. ASSUME NEW m \in Named, m <= j
        PROVE  /\ payload'[2 * Rank(m, Named) - 1] = ToString(m)
               /\ Rank(m, Named) > 1
                     => payload'[2 * Rank(m, Named) - 2] = ","
    <3>1. CASE m = j
      BY <2>6, <2>7, <3>1 DEF v
    <3>2. CASE m <= j - 1
      <4> DEFINE q == Rank(m, Named)
      <4>1. q \in Nat /\ q >= 1 /\ q <= r
        BY <1>6, <3>2
      <4>2. /\ payload[2 * q - 1] = ToString(m)
            /\ q > 1 => payload[2 * q - 2] = ","
        BY <1>5, <3>2 DEF ListedUpTo
      <4> HIDE DEF q
      <4>3. /\ 2 * q - 1 \in 1 .. Len(payload)
            /\ q > 1 => 2 * q - 2 \in 1 .. Len(payload)
        BY <2>5, <2>7, <4>1
      <4>4. /\ payload'[2 * q - 1] = ToString(m)
            /\ q > 1 => payload'[2 * q - 2] = ","
        BY <2>6, <4>2, <4>3
      <4> QED
        BY <4>4 DEF q
    <3> QED
      BY <1>8, <2>8, <3>1, <3>2
  <2>9. Len(payload')
           = IF Rank(j, Named) = 0 THEN 0 ELSE 2 * Rank(j, Named) - 1
    BY <2>6, <2>7
  <2>10. ListedUpTo(j - 1)'
    <3>1. j' - 1 = j
      BY <1>1, <1>2
    <3> QED
      BY <1>1, <2>8, <2>9, <3>1, RanksKept DEF ListedUpTo
  <2> QED
    BY <1>1, <2>6, <2>10 DEF LayoutInv
<1> QED
  BY <1>10, <1>11

(* The list of n values is the same one while payload and values stay. *)
LEMMA ListStays ==
    ASSUME UNCHANGED <<values, payload>>, NEW n, ListedUpTo(n)
    PROVE  ListedUpTo(n)'
BY RanksKept DEF ListedUpTo

LEMMA NothingListed ==
    ASSUME LoopInv, payload = <<>> PROVE ListedUpTo(0)
<1>1. Rank(0, Named) = 0 /\ Len(payload) = 0
  BY RankFirst
<1>2. \A m \in Named : ~(m <= 0)
  BY ValuesTyped DEF Named
<1> QED
  BY <1>1, <1>2 DEF ListedUpTo

LEMMA LayoutQuiet ==
    ASSUME BufferInv, LoopInv, SortedInv, LayoutInv, UNCHANGED vars
    PROVE  LayoutInv'
<1>1. UNCHANGED <<values, pc, i, j, groups, topic, payload, size>>
  BY DEF vars, buffer
<1>2. \A k : Start(k)' = Start(k)
  BY <1>1, PlacesKept
<1>3. \A k : Opened(k)' <=> Opened(k)
  BY <1>1, <1>2 DEF Opened
<1>4. \A k, n : ItemsAt(k, n)' <=> ItemsAt(k, n)
  BY <1>1, <1>2 DEF ItemsAt
<1>5. \A k : Written(k)' <=> Written(k)
  <2>1. \A k : ItemsAt(k, Len(groups[k].items))'
                  <=> ItemsAt(k, Len(groups[k].items))
    BY <1>1, <1>2 DEF ItemsAt
  <2> QED
    BY <1>1, <1>2, <1>3, <2>1 DEF Written
<1>6. \A k : WrittenBefore(k)' <=> WrittenBefore(k)
  BY <1>1, <1>5 DEF WrittenBefore
<1>7. \A n : ListedUpTo(n) => ListedUpTo(n)'
  BY <1>1, ListStays
<1>8. /\ Start(i)' = Start(i) /\ Opened(i)' = Opened(i)
      /\ ItemsAt(i, j - 1)' = ItemsAt(i, j - 1)
      /\ WrittenBefore(i)' = WrittenBefore(i)
      /\ Start(Len(groups) + 1)' = Start(Len(groups) + 1)
      /\ WrittenBefore(Len(groups) + 1)' = WrittenBefore(Len(groups) + 1)
      /\ ListedUpTo(j - 1) => ListedUpTo(j - 1)'
      /\ ListedUpTo(Len(values)) => ListedUpTo(Len(values))'
  BY <1>1, <1>2, <1>3, <1>4, <1>6, <1>7
<1> QED
  BY <1>1, <1>8 DEF LayoutInv

LEMMA LayoutStep ==
    BufferInv /\ LoopInv /\ SortedInv /\ LayoutInv /\ [Next]_vars
        => LayoutInv'
<1> SUFFICES ASSUME BufferInv, LoopInv, SortedInv, LayoutInv, [Next]_vars
             PROVE  LayoutInv'
  OBVIOUS
<1>1. CASE Classify
  <2>1. /\ pc = "classify" /\ pc' \in {"list", "group"} /\ j = 1
        /\ groups = <<>> /\ payload = <<>> /\ size = 0
        /\ UNCHANGED <<values, i, j, groups, payload, used, size>>
    BY <1>1, ValuesTyped
       DEF Classify, LayoutInv, LoopInv, GroupsHold, buffer
  <2>2. ListedUpTo(0) /\ j - 1 = 0
    BY <2>1, NothingListed
  <2>3. ListedUpTo(0)'
    BY <2>1, <2>2, ListStays
  <2>4. ListedUpTo(j - 1)'
    BY <2>1, <2>2, <2>3
  <2>5. payload' \in Seq(Pieces)
    BY <2>1
  <2> QED
    BY <2>1, <2>4, <2>5 DEF LayoutInv
<1>2. CASE GroupValue
  <2>1. /\ pc = "group" /\ pc' = "group" /\ UNCHANGED <<payload, size>>
    BY <1>2 DEF GroupValue, buffer
  <2> QED
    BY <2>1 DEF LayoutInv
<1>3. CASE Grouped
  <2>1. /\ pc = "group" /\ pc' = "open" /\ i' = 1 /\ payload = <<>>
        /\ UNCHANGED <<values, groups, payload, size>>
    BY <1>3 DEF Grouped, LayoutInv, buffer
  <2>2. Start(i)' = 0
    BY <2>1, StartFirst, PlacesKept
  <2>3. \A l \in DOMAIN groups : ~(l < 1)
    BY ValuesTyped
  <2>4. WrittenBefore(i)'
    BY <2>1, <2>3 DEF WrittenBefore
  <2>5. Len(payload') = 0
    BY <2>1
  <2> QED
    BY <2>1, <2>2, <2>4, <2>5 DEF LayoutInv
<1>4. CASE Value
  BY <1>4, LayoutItem, LayoutListed
<1>5. CASE Listing
  <2>1. /\ pc = "list" /\ pc' = "publish" /\ groups = <<>>
        /\ j \notin DOMAIN Listed
        /\ UNCHANGED <<values, i, j, groups, payload, size>>
    BY <1>5 DEF Listing, buffer
  <2>2. Listed = All
    BY <2>1, Zenon DEF Listed, All
  <2>3. j - 1 = Len(values)
    <3>1. /\ j \in Nat /\ j >= 1 /\ j <= Len(values) + 1
          /\ Len(values) \in Nat /\ j \notin 1 .. Len(values)
      BY <2>1, <2>2, AllLength, ValuesTyped DEF LoopInv
    <3> QED
      BY <3>1
  <2>4. ListedUpTo(Len(values))
    BY <2>1, <2>3 DEF LayoutInv
  <2>5. \A n : n = Len(values) => ListedUpTo(n)'
    BY <2>1, <2>4, ListStays
  <2>6. ListedUpTo(Len(values))'
    BY <2>1, <2>5 DEF ListedUpTo
  <2> QED
    BY <2>1, <2>6 DEF LayoutInv
<1>6. CASE Publish
  <2>1. /\ pc = "publish" /\ UNCHANGED <<values, i, j, groups, payload, size>>
        /\ pc' = IF size = 0 THEN "undefined" ELSE "done"
    BY <1>6 DEF Publish, buffer
  <2>2. \A k : Start(k)' = Start(k)
    BY <2>1, PlacesKept
  <2>3. \A k : Opened(k) => Opened(k)'
    BY <2>1, <2>2 DEF Opened
  <2>4. \A k : Written(k) => Written(k)'
    BY <2>1, <2>2, <2>3 DEF Written, ItemsAt
  <2>5. WrittenBefore(Len(groups) + 1) => WrittenBefore(Len(groups) + 1)'
    BY <2>1, <2>4 DEF WrittenBefore
  <2>6. ListedUpTo(Len(values)) => ListedUpTo(Len(values))'
    <3>1. \A n : ListedUpTo(n) => ListedUpTo(n)'
      BY <2>1, ListStays
    <3> QED
      BY <2>1, <3>1 DEF ListedUpTo
  <2>7. Start(Len(groups) + 1)' = Start(Len(groups) + 1)
    BY <2>1, <2>2
  <2> QED
    BY <2>1, <2>5, <2>6, <2>7 DEF LayoutInv
<1>7. CASE UNCHANGED vars
  BY <1>7, LayoutQuiet
<1> QED
  BY <1>1, <1>2, <1>3, <1>4, <1>5, <1>6, <1>7, LayoutOpen, LayoutClose,
     LayoutCloseGroup DEF Next

LEMMA PayloadInit == Init => SortedInv /\ LayoutInv
BY DEF Init, SortedInv, LayoutInv

-----------------------------------------------------------------------------
(* The places of the reference are those of the layout. *)

(* The values whose text was seen before a group's are those of the groups *)
(* before it.                                                              *)
LEMMA BeforeIsPrev ==
    ASSUME LoopInv, Sorted(groups, Len(values)), NEW k \in DOMAIN groups
    PROVE  Before(groups[k].id) = Prev(k)
<1> DEFINE t == groups[k].id
<1>1. /\ DOMAIN groups = 1 .. Len(groups) /\ Len(groups) \in Nat
      /\ \A n \in Named : n \in Nat /\ n <= Len(values)
  BY ValuesTyped DEF Named
<1>2. \E p \in Of(t) : TRUE
  <2>1. Rank(Len(values), Of(t)) # 0
    BY DEF Sorted
  <2>2. {p \in Of(t) : p <= Len(values)} # {}
    BY <2>1, FS_EmptySet DEF Rank
  <2> QED
    BY <2>2
<1>3. ASSUME NEW n \in Prev(k) PROVE n \in Before(t)
  <2>1. n \in Named /\ \E l \in DOMAIN groups : l < k /\ groups[l].id = Text(n)
    BY DEF Prev
  <2>2. PICK l \in DOMAIN groups : l < k /\ groups[l].id = Text(n)
    BY <2>1
  <2>3. \E m \in Of(Text(n)) : \A p \in Of(t) : m < p
    BY <2>2 DEF Sorted
  <2> QED
    BY <2>1, <2>3 DEF Before
<1>4. ASSUME NEW n \in Before(t) PROVE n \in Prev(k)
  <2>1. n \in Named
    BY DEF Before
  <2>2. PICK m \in Of(Text(n)) : \A p \in Of(t) : m < p
    BY DEF Before
  <2>3. PICK l \in DOMAIN groups : groups[l].id = Text(n)
    BY <1>1, <2>1 DEF Sorted
  <2>4. CASE l < k
    BY <2>1, <2>3, <2>4 DEF Prev
  <2>5. CASE l = k
    <3>1. m \in Of(t) /\ m < m /\ m \in Nat
      BY <1>1, <2>2, <2>3, <2>5 DEF Of
    <3> QED
      BY <3>1
  <2>6. CASE k < l
    <3>1. PICK q \in Of(t) : \A p \in Of(groups[l].id) : q < p
      BY <2>6 DEF Sorted
    <3>2. q < m /\ m < q /\ m \in Nat /\ q \in Nat
      BY <1>1, <2>2, <2>3, <3>1 DEF Of
    <3> QED
      BY <3>2
  <2> QED
    BY <1>1, <2>4, <2>5, <2>6
<1> QED
  BY <1>3, <1>4

(* The texts of the groups before a place are as many as these groups. *)
LEMMA TextsCounted ==
    ASSUME LoopInv, Sorted(groups, Len(values)),
           NEW k \in 1 .. Len(groups) + 1
    PROVE  Cardinality(TextsOf(Prev(k))) = k - 1
<1> DEFINE T == TextsOf(Prev(k))
           f == [l \in 1 .. k - 1 |-> groups[l].id]
<1>1. /\ DOMAIN groups = 1 .. Len(groups) /\ Len(groups) \in Nat
      /\ k - 1 \in Nat /\ 1 .. k - 1 \subseteq DOMAIN groups
      /\ \A l \in DOMAIN groups : l \in 1 .. k - 1 <=> l < k
  BY ValuesTyped
<1>2. \A l \in 1 .. k - 1 : groups[l].id \in T
  <2> SUFFICES ASSUME NEW l \in 1 .. k - 1 PROVE groups[l].id \in T
    OBVIOUS
  <2>1. l \in DOMAIN groups /\ l < k
    BY <1>1
  <2>2. Rank(Len(values), Of(groups[l].id)) # 0
    BY <2>1 DEF Sorted
  <2>3. PICK p \in Of(groups[l].id) : TRUE
    <3>1. {p \in Of(groups[l].id) : p <= Len(values)} # {}
      BY <2>2, FS_EmptySet DEF Rank
    <3> QED
      BY <3>1
  <2>4. p \in Prev(k) /\ Text(p) = groups[l].id
    BY <2>1, <2>3 DEF Of, Prev
  <2> QED
    BY <2>4 DEF TextsOf
<1>3. \A t \in T : \E l \in 1 .. k - 1 : groups[l].id = t
  BY <1>1 DEF TextsOf, Prev
<1>4. \A l, m \in 1 .. k - 1 : groups[l].id = groups[m].id => l = m
  BY <1>1 DEF Sorted
<1> HIDE DEF T
<1>5. f \in Bijection(1 .. k - 1, T)
  BY <1>2, <1>3, <1>4
     DEF Bijection, Injection, IsInjective, Surjection
<1>6. ExistsBijection(1 .. k - 1, T)
  BY <1>5 DEF ExistsBijection
<1> QED
  BY <1>1, <1>6, FS_CountingElements DEF T

LEMMA AllPrev ==
    ASSUME LoopInv, Sorted(groups, Len(values))
    PROVE  Prev(Len(groups) + 1) = Named
<1>1. /\ \A l \in DOMAIN groups : l < Len(groups) + 1
      /\ \A n \in Named : n <= Len(values)
  BY ValuesTyped DEF Named
<1> QED
  BY <1>1 DEF Prev, Sorted

(* What was written of a group is what the reference wants of its text. *)
LEMMA ObjectWritten ==
    ASSUME LoopInv, Sorted(groups, Len(values)), NEW k \in DOMAIN groups,
           Written(k)
    PROVE  ObjectOf(groups[k].id)
<1> DEFINE t == groups[k].id
           s == Start(k)
<1>1. /\ k \in 1 .. Len(groups) + 1 /\ k \in Nat /\ k - 1 \in Nat
      /\ s \in Nat /\ s = 3 * (k - 1) + 2 * Cardinality(Prev(k))
  <2>1. k \in 1 .. Len(groups) + 1
    BY GroupTyped
  <2> QED
    BY <2>1, StartTyped DEF Start
<1>2. Offset(t) = s
  BY <1>1, BeforeIsPrev, TextsCounted DEF Offset
<1>3. Before(t) = {} <=> k = 1
  <2>1. k = 1 => Prev(k) = {}
    BY StartFirst
  <2>2. ASSUME Prev(k) = {} PROVE k = 1
    <3>1. TextsOf(Prev(k)) = {}
      BY <2>2 DEF TextsOf
    <3>2. k - 1 = 0
      BY <1>1, <3>1, TextsCounted, FS_EmptySet
    <3> QED
      BY <1>1, <3>2
  <2> QED
    BY <2>1, <2>2, BeforeIsPrev
<1>4. /\ Cardinality(Of(t)) = Len(groups[k].items)
      /\ Len(groups[k].items) \in Nat
  BY OfNamed, RankLast, GroupTyped DEF Sorted
<1>5. ListedAt(s + 4, Of(t))
  <2> SUFFICES ASSUME NEW n \in Of(t)
               PROVE  LET p == s + 4 + 2 * (Rank(n, Of(t)) - 1)
                      IN  /\ payload[p] = ToString(n)
                          /\ Rank(n, Of(t)) > 1 => payload[p - 1] = ","
    BY DEF ListedAt
  <2> DEFINE q == Rank(n, Of(t))
  <2>1. /\ n \in Nat /\ n <= Len(values)
        /\ q \in 1 .. Len(groups[k].items)
    BY <1>4, OfNamed, RankOfMember
  <2>2. /\ payload[s + 2 + 2 * q] = groups[k].items[q]
        /\ q > 1 => payload[s + 1 + 2 * q] = ","
    BY <2>1 DEF Written, ItemsAt
  <2>3. groups[k].items[q] = ToString(n)
    BY <2>1 DEF Sorted
  <2> HIDE DEF q, s
  <2>4. /\ s + 4 + 2 * (q - 1) = s + 2 + 2 * q
        /\ (s + 4 + 2 * (q - 1)) - 1 = s + 1 + 2 * q
    BY <1>1, <1>4, <2>1, SMTT(20)
  <2>5. /\ payload[s + 4 + 2 * (q - 1)] = ToString(n)
        /\ q > 1 => payload[(s + 4 + 2 * (q - 1)) - 1] = ","
    BY <2>2, <2>3, <2>4
  <2> QED
    BY <2>5 DEF q
<1>6. /\ payload[s + 1] = IF k = 1 THEN "{" ELSE ","
      /\ payload[s + 2] = t /\ payload[s + 3] = ":["
      /\ payload[s + 3 + 2 * Len(groups[k].items)] = "]"
  BY DEF Written, Opened
<1> HIDE DEF s
<1> QED
  BY <1>2, <1>3, <1>4, <1>5, <1>6 DEF ObjectOf

LEMMA ObjectPublished ==
    ASSUME BufferInv, LoopInv, SortedInv, LayoutInv,
           pc = "done", topic = NoId
    PROVE  /\ Len(payload) =
                 3 * Cardinality(TextsOf(Named)) + 2 * Cardinality(Named) + 1
           /\ \A text \in TextsOf(Named) : ObjectOf(text)
           /\ payload[Len(payload)] = "}"
<1>1. size # 0 /\ payload # <<>> /\ payload \in Seq(Pieces)
  BY DEF LayoutInv
<1>2. groups # <<>>
  <2> SUFFICES ASSUME groups = <<>> PROVE FALSE
    OBVIOUS
  <2>1. \A n \in Named : values[n] = NoId
    BY DEF SortedInv
  <2>2. Named = {}
    BY <2>1 DEF Named
  <2>3. Rank(Len(values), Named) = 0
    BY <2>2, FS_EmptySet DEF Rank
  <2>4. Len(payload) = 0
    BY <2>3 DEF LayoutInv, ListedUpTo
  <2> QED
    BY <1>1, <2>4
<1>3. /\ Sorted(groups, Len(values))
      /\ Len(payload) = Start(Len(groups) + 1) + 1
      /\ WrittenBefore(Len(groups) + 1)
      /\ payload[Len(payload)] = "}"
  BY <1>2 DEF SortedInv, LayoutInv
<1> DEFINE k == Len(groups) + 1
<1>4. k \in 1 .. Len(groups) + 1 /\ Len(groups) \in Nat
      /\ \A l \in DOMAIN groups : l < k
  BY ValuesTyped
<1>5. Cardinality(TextsOf(Prev(k))) = k - 1
  BY <1>3, <1>4, TextsCounted
<1>6. Prev(k) = Named
  BY <1>3, AllPrev
<1>7. Start(k) = 3 * Cardinality(TextsOf(Named)) + 2 * Cardinality(Named)
  BY <1>5, <1>6 DEF Start
<1>8. ASSUME NEW text \in TextsOf(Named) PROVE ObjectOf(text)
  <2>1. PICK n \in Named : text = Text(n)
    BY DEF TextsOf
  <2>2. n <= Len(values)
    BY ValuesTyped DEF Named
  <2>3. PICK l \in DOMAIN groups : groups[l].id = text
    BY <1>3, <2>1, <2>2 DEF Sorted
  <2>4. Written(l)
    BY <1>3, <1>4 DEF WrittenBefore
  <2> QED
    BY <1>3, <2>3, <2>4, ObjectWritten
<1> QED
  BY <1>3, <1>7, <1>8

LEMMA ListPublished ==
    ASSUME BufferInv, LoopInv, SortedInv, LayoutInv,
           pc = "done", topic # NoId
    PROVE  /\ Len(payload) = 2 * Cardinality(Named) - 1
           /\ ListedAt(1, Named)
           /\ \A n \in Named : values[n] = topic
<1>1. /\ groups = <<>> /\ ListedUpTo(Len(values)) /\ payload # <<>>
      /\ \A n \in Named : values[n] = topic
  BY DEF SortedInv, LayoutInv
<1>2. Rank(Len(values), Named) = Cardinality(Named)
  BY RankLast
<1>3. payload \in Seq(Pieces) /\ Len(payload) # 0
  BY <1>1 DEF LayoutInv
<1>4. Len(payload) = 2 * Cardinality(Named) - 1
  BY <1>1, <1>2, <1>3 DEF ListedUpTo
<1>5. ListedAt(1, Named)
  <2> SUFFICES ASSUME NEW n \in Named
               PROVE  LET p == 1 + 2 * (Rank(n, Named) - 1)
                      IN  /\ payload[p] = ToString(n)
                          /\ Rank(n, Named) > 1 => payload[p - 1] = ","
    BY DEF ListedAt
  <2> DEFINE q == Rank(n, Named)
  <2>1. q \in Nat /\ n <= Len(values)
    BY Counted, RankOfMember
  <2>2. /\ payload[2 * q - 1] = ToString(n)
        /\ q > 1 => payload[2 * q - 2] = ","
    BY <1>1, <2>1 DEF ListedUpTo
  <2> HIDE DEF q
  <2>3. 1 + 2 * (q - 1) = 2 * q - 1 /\ (1 + 2 * (q - 1)) - 1 = 2 * q - 2
    BY <2>1
  <2>4. /\ payload[1 + 2 * (q - 1)] = ToString(n)
        /\ q > 1 => payload[(1 + 2 * (q - 1)) - 1] = ","
    BY <2>2, <2>3
  <2> QED
    BY <2>4 DEF q
<1> QED
  BY <1>1, <1>4, <1>5

LEMMA NothingPublished ==
    ASSUME BufferInv, LoopInv, SortedInv, LayoutInv, pc = "undefined"
    PROVE  Named = {}
<1>1. size = 0 /\ payload = <<>>
  BY DEF LayoutInv
<1>2. Len(payload) = 0
  BY <1>1
<1>3. groups = <<>>
  <2> SUFFICES ASSUME groups # <<>> PROVE FALSE
    OBVIOUS
  <2>1. Len(payload) = Start(Len(groups) + 1) + 1
    BY DEF LayoutInv
  <2>2. Len(groups) + 1 \in 1 .. Len(groups) + 1
    BY ValuesTyped
  <2> QED
    BY <1>2, <2>1, <2>2, StartTyped
<1>4. Len(payload)
         = IF Rank(Len(values), Named) = 0
           THEN 0 ELSE 2 * Rank(Len(values), Named) - 1
  BY <1>3 DEF LayoutInv, ListedUpTo
<1>5. Rank(Len(values), Named) = Cardinality(Named)
  BY RankLast
<1>6. IsFiniteSet(Named) /\ Cardinality(Named) \in Nat
  BY Counted
<1>7. Cardinality(Named) = 0
  BY <1>2, <1>4, <1>5, <1>6
<1> QED
  BY <1>6, <1>7, FS_EmptySet

(* Every value with an id is published once, under the text of its id and  *)
(* in the order given, for any number of values, sensors and addresses     *)
(* (mqtt.c:103-162 and 290-297, values.c:12-75).                           *)
THEOREM Publishes == Spec => []PublishedUnderItsId
<1>1. BufferInv /\ LoopInv /\ SortedInv /\ LayoutInv => PublishedUnderItsId
  BY ObjectPublished, ListPublished, NothingPublished
     DEF PublishedUnderItsId
<1>2. Init => BufferInv
  BY DEF Init, BufferInv, BufferHolds
<1> QED
  BY <1>1, <1>2, BufferStep, LoopInit, LoopStep, PayloadInit, SortedStep,
     LayoutStep, PTL DEF Spec
=============================================================================
