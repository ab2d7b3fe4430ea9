--------------------------- MODULE IssueListProofs ---------------------------
(***************************************************************************)
(* Proofs about IssueList, for any number of requests, queries and pages   *)
(* and any size of the cache: the state keeps its type, a cached page is   *)
(* the one its ETag names, the cache stays bounded, and the handler        *)
(* implements FreshList: nobody is told of a page the query did not have   *)
(* while the request was in progress.                                      *)
(***************************************************************************)
EXTENDS IssueList, SequenceTheorems, TLAPS

-----------------------------------------------------------------------------
(* The operators of the cache.                                             *)

Distinct(s) ==
  \A i, j \in 1 .. Len(s) : s[i].key = s[j].key => i = j

(* Every element of s is one of t. *)
Within(s, t) ==
  \A i \in 1 .. Len(s) : \E j \in 1 .. Len(t) : s[i] = t[j]

(* Two elements of s are elements of t in the same order. *)
Ordered(s, t) ==
  \A i, j \in 1 .. Len(s) : i < j =>
    \E a, b \in 1 .. Len(t) : a < b /\ s[i] = t[a] /\ s[j] = t[b]

LEMMA PositionType ==
  ASSUME NEW s \in Seq(EntrySet), NEW key, Has(s, key)
  PROVE  /\ Position(s, key) \in 1 .. Len(s)
         /\ s[Position(s, key)].key = key
         /\ Entry(s, key) \in EntrySet
<1>1. /\ Position(s, key) \in 1 .. Len(s)
      /\ s[Position(s, key)].key = key
  BY DEF Has, Position
<1>2. QED
  BY <1>1, ElementOfSeq DEF Entry

(* Removing a key takes its entry out and closes the gap. *)
LEMMA RemoveShape ==
  ASSUME NEW s \in Seq(EntrySet), NEW key, Has(s, key)
  PROVE  /\ Remove(s, key) \in Seq(EntrySet)
         /\ Len(Remove(s, key)) = Len(s) - 1
         /\ \A i \in 1 .. Len(s) - 1 :
              Remove(s, key)[i] = IF i < Position(s, key) THEN s[i] ELSE s[i + 1]
<1> DEFINE p == Position(s, key)
           left == SubSeq(s, 1, p - 1)
           right == SubSeq(s, p + 1, Len(s))
<1>1. p \in 1 .. Len(s) /\ Len(s) \in Nat
  BY PositionType, LenProperties
<1>2. \A i \in 1 .. Len(s) : s[i] \in EntrySet
  BY ElementOfSeq
<1>3. /\ left \in Seq(EntrySet) /\ Len(left) = p - 1
      /\ \A i \in 1 .. p - 1 : left[i] = s[i]
  <2>1. \A i \in 1 .. p - 1 : s[i] \in EntrySet
    BY <1>1, <1>2
  <2>2. QED
    BY <1>1, <2>1, SubSeqProperties
<1>4. /\ right \in Seq(EntrySet) /\ Len(right) = Len(s) - p
      /\ \A i \in 1 .. Len(s) - p : right[i] = s[p + i]
  <2>1. \A i \in p + 1 .. Len(s) : s[i] \in EntrySet
    BY <1>1, <1>2
  <2>2. /\ right \in Seq(EntrySet)
        /\ Len(right) = IF p + 1 <= Len(s) THEN Len(s) - (p + 1) + 1 ELSE 0
        /\ \A i \in 1 .. Len(s) - (p + 1) + 1 : right[i] = s[p + 1 + i - 1]
    BY <1>1, <2>1, SubSeqProperties
  <2>3. QED
    BY <1>1, <2>2
<1>5. Remove(s, key) = left \o right
  BY DEF Remove
<1>6. /\ left \o right \in Seq(EntrySet)
      /\ Len(left \o right) = Len(left) + Len(right)
      /\ \A i \in 1 .. Len(left) + Len(right) :
           (left \o right)[i] = IF i <= Len(left) THEN left[i]
                                ELSE right[i - Len(left)]
  BY <1>3, <1>4, ConcatProperties
<1> HIDE DEF p, left, right
<1>7. Len(left) = p - 1 /\ Len(left) + Len(right) = Len(s) - 1
  BY <1>1, <1>3, <1>4
<1>8. ASSUME NEW i \in 1 .. Len(s) - 1
      PROVE  (left \o right)[i] = IF i < p THEN s[i] ELSE s[i + 1]
  <2>1. (left \o right)[i] = IF i <= p - 1 THEN left[i] ELSE right[i - (p - 1)]
    BY <1>6, <1>7
  <2>2. CASE i < p
    BY <1>1, <1>3, <2>1, <2>2
  <2>3. CASE ~ i < p
    <3>1. i - (p - 1) \in 1 .. Len(s) - p /\ p + (i - (p - 1)) = i + 1
      BY <1>1, <2>3
    <3>2. right[i - (p - 1)] = s[i + 1]
      BY <1>4, <3>1
    <3>3. QED
      BY <1>1, <2>1, <2>3, <3>2
  <2>4. QED
    BY <2>2, <2>3
<1>9. QED
  BY <1>5, <1>6, <1>7, <1>8 DEF p

(* What is left has distinct keys, none of them the one removed. *)
LEMMA RemoveProperties ==
  ASSUME NEW s \in Seq(EntrySet), NEW key, Distinct(s)
  PROVE  /\ Remove(s, key) \in Seq(EntrySet)
         /\ Distinct(Remove(s, key))
         /\ Within(Remove(s, key), s)
         /\ Ordered(Remove(s, key), s)
         /\ \A i \in 1 .. Len(Remove(s, key)) : Remove(s, key)[i].key # key
<1>1. Len(s) \in Nat
  BY LenProperties
<1>2. CASE Has(s, key)
  <2> DEFINE p == Position(s, key)
             rest == Remove(s, key)
             old(i) == IF i < p THEN i ELSE i + 1
  <2>1. p \in 1 .. Len(s) /\ s[p].key = key
    BY <1>2, PositionType
  <2>2. /\ rest \in Seq(EntrySet) /\ Len(rest) = Len(s) - 1
        /\ \A i \in 1 .. Len(rest) : old(i) \in 1 .. Len(s) /\ old(i) # p
                                     /\ rest[i] = s[old(i)]
    BY <1>1, <1>2, <2>1, RemoveShape
  <2>3. Within(rest, s)
    BY <2>2 DEF Within
  <2>4. Distinct(rest)
    <3>1. \A i, j \in 1 .. Len(rest) : old(i) = old(j) => i = j
      BY <1>1, <2>1, <2>2
    <3>2. QED
      BY <2>2, <3>1 DEF Distinct
  <2>5. \A i \in 1 .. Len(rest) : rest[i].key # key
    BY <2>1, <2>2 DEF Distinct
  <2>6. Ordered(rest, s)
    <3>1. \A i, j \in 1 .. Len(rest) : i < j => old(i) < old(j)
      BY <1>1, <2>1, <2>2
    <3>2. QED
      BY <2>2, <3>1 DEF Ordered
  <2>7. QED
    BY <1>1, <2>2, <2>3, <2>4, <2>5, <2>6
<1>3. CASE ~ Has(s, key)
  BY <1>1, <1>3 DEF Remove, Has, Within, Ordered
<1>4. QED
  BY <1>2, <1>3

(* The two operations of the cache keep its keys distinct and its size     *)
(* bounded, and hold no entry but the old ones and the one they are given. *)
LEMMA AppendEntry ==
  ASSUME NEW s \in Seq(EntrySet), Distinct(s), NEW e \in EntrySet
  PROVE  LET all == Append(Remove(s, e.key), e)
         IN  /\ all \in Seq(EntrySet)
             /\ Distinct(all)
             /\ Len(all) = Len(Remove(s, e.key)) + 1
             /\ \A i \in 1 .. Len(all) :
                  all[i] = e \/ \E j \in 1 .. Len(s) : all[i] = s[j]
<1> DEFINE rest == Remove(s, e.key)
           all == Append(rest, e)
<1>1. /\ rest \in Seq(EntrySet) /\ Distinct(rest) /\ Within(rest, s)
      /\ \A i \in 1 .. Len(rest) : rest[i].key # e.key
  BY RemoveProperties
<1>2. Len(rest) \in Nat
  BY <1>1, LenProperties
<1> HIDE DEF rest
<1>3. /\ all \in Seq(EntrySet) /\ Len(all) = Len(rest) + 1
      /\ \A i \in 1 .. Len(rest) : all[i] = rest[i]
      /\ all[Len(rest) + 1] = e
  BY <1>1, AppendProperties
<1>4. Distinct(all)
  BY <1>1, <1>2, <1>3 DEF Distinct
<1>5. \A i \in 1 .. Len(all) :
        all[i] = e \/ \E j \in 1 .. Len(s) : all[i] = s[j]
  BY <1>1, <1>2, <1>3 DEF Within
<1>6. QED
  BY <1>3, <1>4, <1>5 DEF rest

LEMMA PutProperties ==
  ASSUME NEW s \in Seq(EntrySet), Distinct(s), NEW e \in EntrySet
  PROVE  /\ Put(s, e) \in Seq(EntrySet)
         /\ Distinct(Put(s, e))
         /\ Len(Put(s, e)) <= MaxEntries
         /\ \A i \in 1 .. Len(Put(s, e)) :
              Put(s, e)[i] = e \/ \E j \in 1 .. Len(s) : Put(s, e)[i] = s[j]
<1> DEFINE all == Append(Remove(s, e.key), e)
           excess == Len(all) - MaxEntries
<1>1. /\ all \in Seq(EntrySet) /\ Distinct(all)
      /\ \A i \in 1 .. Len(all) :
           all[i] = e \/ \E j \in 1 .. Len(s) : all[i] = s[j]
  BY AppendEntry
<1>2. Len(all) \in Nat /\ MaxEntries \in Nat \ {0}
  BY <1>1, LenProperties, MaxEntriesAssumption
<1>3. Put(s, e) = IF excess > 0 THEN SubSeq(all, excess + 1, Len(all)) ELSE all
  BY DEF Put
<1> HIDE DEF all
<1>4. CASE ~ excess > 0
  <2>1. Put(s, e) = all
    BY <1>3, <1>4
  <2>2. QED
    BY <1>1, <1>2, <1>4, <2>1
<1>5. CASE excess > 0
  <2> DEFINE kept == SubSeq(all, excess + 1, Len(all))
  <2>1. excess \in Nat /\ Len(all) - (excess + 1) + 1 = MaxEntries
    BY <1>2, <1>5
  <2>2. \A i \in excess + 1 .. Len(all) : all[i] \in EntrySet
    BY <1>1, <1>2, <2>1, ElementOfSeq
  <2>3. /\ kept \in Seq(EntrySet)
        /\ Len(kept) = IF excess + 1 <= Len(all)
                       THEN Len(all) - (excess + 1) + 1 ELSE 0
        /\ \A i \in 1 .. Len(all) - (excess + 1) + 1 :
             kept[i] = all[excess + 1 + i - 1]
    BY <1>2, <2>1, <2>2, SubSeqProperties
  <2>4. /\ Len(kept) = MaxEntries
        /\ \A i \in 1 .. Len(kept) : /\ excess + i \in 1 .. Len(all)
                                     /\ kept[i] = all[excess + i]
    BY <1>2, <1>5, <2>1, <2>3
  <2>5. Distinct(kept)
    BY <1>1, <1>2, <2>1, <2>4 DEF Distinct
  <2>6. Put(s, e) = kept
    BY <1>3, <1>5
  <2>7. QED
    BY <1>1, <1>2, <2>3, <2>4, <2>5, <2>6
<1>6. QED
  BY <1>4, <1>5

LEMMA TouchProperties ==
  ASSUME NEW s \in Seq(EntrySet), Distinct(s), NEW key, Has(s, key)
  PROVE  /\ Touch(s, key) \in Seq(EntrySet)
         /\ Distinct(Touch(s, key))
         /\ Len(Touch(s, key)) = Len(s)
         /\ Within(Touch(s, key), s)
<1> DEFINE e == Entry(s, key)
<1>1. /\ e \in EntrySet /\ e.key = key
      /\ \E j \in 1 .. Len(s) : e = s[j]
  BY PositionType DEF Entry
<1>2. Touch(s, key) = Append(Remove(s, e.key), e)
  BY <1>1 DEF Touch
<1>3. Len(Remove(s, e.key)) = Len(s) - 1 /\ Len(s) \in Nat
  BY <1>1, RemoveShape, LenProperties
<1> HIDE DEF e
<1>4. /\ Touch(s, key) \in Seq(EntrySet)
      /\ Distinct(Touch(s, key))
      /\ Len(Touch(s, key)) = Len(Remove(s, e.key)) + 1
      /\ \A i \in 1 .. Len(Touch(s, key)) :
           Touch(s, key)[i] = e \/ \E j \in 1 .. Len(s) : Touch(s, key)[i] = s[j]
  <2> DEFINE all == Append(Remove(s, e.key), e)
  <2>1. /\ all \in Seq(EntrySet)
        /\ Distinct(all)
        /\ Len(all) = Len(Remove(s, e.key)) + 1
        /\ \A i \in 1 .. Len(all) :
             all[i] = e \/ \E j \in 1 .. Len(s) : all[i] = s[j]
    BY <1>1, AppendEntry
  <2>2. Touch(s, key) = all
    BY <1>2
  <2> HIDE DEF all
  <2>3. QED
    BY <2>1, <2>2
<1>5. Len(Touch(s, key)) = Len(s)
  BY <1>3, <1>4
<1>6. Within(Touch(s, key), s)
  BY <1>1, <1>4 DEF Within
<1>7. QED
  BY <1>4, <1>5, <1>6

-----------------------------------------------------------------------------
(* The order of the entries is the order of their last uses.               *)

InUseOrder(s) ==
  \A i, j \in 1 .. Len(s) : i < j => <<s[i].key, s[j].key>> \in used

(* The last element of s is the one just used; before it come entries in   *)
(* the order of their uses.                                                *)
LEMMA AppendOrder ==
  ASSUME NEW s \in Seq(EntrySet), Distinct(s), InUseOrder(s), NEW e \in EntrySet
  PROVE  LET all == Append(Remove(s, e.key), e)
         IN  \A i, j \in 1 .. Len(all) :
               i < j => <<all[i].key, all[j].key>> \in UseOf(e.key)
<1> DEFINE rest == Remove(s, e.key)
           all == Append(rest, e)
<1>1. /\ rest \in Seq(EntrySet) /\ Ordered(rest, s)
      /\ \A i \in 1 .. Len(rest) : rest[i].key # e.key
  BY RemoveProperties
<1>2. Len(rest) \in Nat /\ \A i \in 1 .. Len(rest) : rest[i] \in EntrySet
  BY <1>1, LenProperties, ElementOfSeq
<1> HIDE DEF rest
<1>3. /\ Len(all) = Len(rest) + 1
      /\ \A i \in 1 .. Len(rest) : all[i] = rest[i]
      /\ all[Len(rest) + 1] = e
  BY <1>1, AppendProperties
<1> HIDE DEF all
<1>4. ASSUME NEW i \in 1 .. Len(rest), NEW j \in 1 .. Len(rest), i < j
      PROVE  <<rest[i].key, rest[j].key>> \in UseOf(e.key)
  <2>1. <<rest[i].key, rest[j].key>> \in used
    BY <1>1, <1>4 DEF Ordered, InUseOrder
  <2>2. rest[i].key # e.key /\ rest[j].key # e.key
    BY <1>1
  <2>3. QED
    BY <2>1, <2>2 DEF UseOf
<1>5. ASSUME NEW i \in 1 .. Len(rest)
      PROVE  <<rest[i].key, e.key>> \in UseOf(e.key)
  <2>1. rest[i].key \in Keys \ {e.key} /\ e.key \in {e.key}
    BY <1>1, <1>2 DEF EntrySet
  <2>2. QED
    BY <2>1 DEF UseOf
<1>6. ASSUME NEW i \in 1 .. Len(all), NEW j \in 1 .. Len(all), i < j
      PROVE  <<all[i].key, all[j].key>> \in UseOf(e.key)
  <2>1. i \in 1 .. Len(rest) /\ all[i] = rest[i]
    BY <1>2, <1>3, <1>6
  <2>2. CASE j = Len(rest) + 1
    BY <1>3, <1>5, <2>1, <2>2
  <2>3. CASE j # Len(rest) + 1
    <3>1. j \in 1 .. Len(rest) /\ all[j] = rest[j]
      BY <1>2, <1>3, <2>3
    <3>2. QED
      BY <1>4, <1>6, <2>1, <3>1
  <2>4. QED
    BY <2>2, <2>3
<1>7. QED
  BY <1>6 DEF all, rest

(* The suffix that Put keeps. *)
LEMMA KeptShape ==
  ASSUME NEW all \in Seq(EntrySet), Len(all) - MaxEntries > 0
  PROVE  LET excess == Len(all) - MaxEntries
             kept   == SubSeq(all, excess + 1, Len(all))
         IN  /\ kept \in Seq(EntrySet)
             /\ Len(kept) = Len(all) - excess
             /\ \A i \in 1 .. Len(kept) : /\ excess + i \in 1 .. Len(all)
                                          /\ kept[i] = all[excess + i]
<1> DEFINE excess == Len(all) - MaxEntries
           kept == SubSeq(all, excess + 1, Len(all))
<1>1. Len(all) \in Nat /\ MaxEntries \in Nat \ {0} /\ excess \in Nat
  BY LenProperties, MaxEntriesAssumption
<1>2. \A i \in excess + 1 .. Len(all) : all[i] \in EntrySet
  BY <1>1, ElementOfSeq
<1>3. /\ kept \in Seq(EntrySet)
      /\ Len(kept) = IF excess + 1 <= Len(all)
                     THEN Len(all) - (excess + 1) + 1 ELSE 0
      /\ \A i \in 1 .. Len(all) - (excess + 1) + 1 :
           kept[i] = all[excess + 1 + i - 1]
  BY <1>1, <1>2, SubSeqProperties
<1>4. QED
  BY <1>1, <1>3

(* No key but e's own is lost when e is put in its place at the end. *)
LEMMA AppendKeeps ==
  ASSUME NEW s \in Seq(EntrySet), Distinct(s), NEW e \in EntrySet
  PROVE  KeysIn(s) \subseteq KeysIn(Append(Remove(s, e.key), e))
<1> DEFINE rest == Remove(s, e.key)
           all == Append(rest, e)
<1>1. rest \in Seq(EntrySet) /\ Len(rest) \in Nat /\ Len(s) \in Nat
  BY RemoveProperties, LenProperties
<1>2. /\ Len(all) = Len(rest) + 1
      /\ \A i \in 1 .. Len(rest) : all[i] = rest[i]
      /\ all[Len(rest) + 1] = e
  BY <1>1, AppendProperties
<1>3. SUFFICES ASSUME NEW i \in 1 .. Len(s) PROVE \E j \in 1 .. Len(all) : all[j].key = s[i].key
  BY DEF KeysIn
<1>4. CASE s[i].key = e.key
  <2>1. Len(rest) + 1 \in 1 .. Len(all)
    BY <1>1, <1>2
  <2>2. QED
    BY <1>2, <1>4, <2>1
<1>5. CASE s[i].key # e.key /\ Has(s, e.key)
  <2> DEFINE p == Position(s, e.key)
             new == IF i < p THEN i ELSE i - 1
  <2>1. p \in 1 .. Len(s) /\ s[p].key = e.key
    BY <1>5, PositionType
  <2>2. i # p
    BY <1>5, <2>1
  <2>3. /\ Len(rest) = Len(s) - 1
        /\ \A m \in 1 .. Len(s) - 1 : rest[m] = IF m < p THEN s[m] ELSE s[m + 1]
    BY <1>5, RemoveShape
  <2> HIDE DEF p, rest, all
  <2>4. new \in 1 .. Len(rest) /\ rest[new] = s[i]
    BY <1>1, <2>1, <2>2, <2>3
  <2>5. new \in 1 .. Len(all) /\ all[new] = s[i]
    BY <1>1, <1>2, <2>4
  <2>6. QED
    BY <2>5
<1>6. CASE ~ Has(s, e.key)
  <2>1. rest = s
    BY <1>6 DEF Remove
  <2>2. i \in 1 .. Len(all) /\ all[i] = s[i]
    BY <1>1, <1>2, <2>1
  <2>3. QED
    BY <2>2
<1>7. QED
  BY <1>4, <1>5, <1>6

LEMMA PutOrder ==
  ASSUME NEW s \in Seq(EntrySet), Distinct(s), InUseOrder(s), NEW e \in EntrySet
  PROVE  \A i, j \in 1 .. Len(Put(s, e)) :
           i < j => <<Put(s, e)[i].key, Put(s, e)[j].key>> \in UseOf(e.key)
<1> DEFINE all == Append(Remove(s, e.key), e)
           excess == Len(all) - MaxEntries
<1>1. /\ all \in Seq(EntrySet)
      /\ \A i, j \in 1 .. Len(all) :
           i < j => <<all[i].key, all[j].key>> \in UseOf(e.key)
  BY AppendEntry, AppendOrder
<1>2. Put(s, e) = IF excess > 0 THEN SubSeq(all, excess + 1, Len(all)) ELSE all
  BY DEF Put
<1> HIDE DEF all
<1>3. CASE ~ excess > 0
  BY <1>1, <1>2, <1>3
<1>4. CASE excess > 0
  <2> DEFINE kept == SubSeq(all, excess + 1, Len(all))
  <2>1. kept = Put(s, e)
    BY <1>2, <1>4
  <2>2. /\ Len(kept) = Len(all) - excess
        /\ \A i \in 1 .. Len(kept) : excess + i \in 1 .. Len(all)
                                     /\ kept[i] = all[excess + i]
    BY <1>1, <1>4, KeptShape
  <2> HIDE DEF kept
  <2>3. ASSUME NEW i \in 1 .. Len(kept), NEW j \in 1 .. Len(kept), i < j
        PROVE  <<kept[i].key, kept[j].key>> \in UseOf(e.key)
    <3>1. excess + i < excess + j
      BY <1>1, <1>4, <2>3, LenProperties, MaxEntriesAssumption
    <3>2. QED
      BY <1>1, <2>2, <3>1
  <2>4. QED
    BY <2>1, <2>3
<1>5. QED
  BY <1>3, <1>4

(* What a set drops was used before what it keeps: it drops only when the  *)
(* key is a new one, and then from the front.                              *)
LEMMA PutEvicts ==
  ASSUME NEW s \in Seq(EntrySet), Distinct(s), InUseOrder(s), NEW e \in EntrySet,
         Len(s) <= MaxEntries,
         NEW j \in KeysIn(s) \ KeysIn(Put(s, e)),
         NEW k \in KeysIn(s) \cap KeysIn(Put(s, e))
  PROVE  <<j, k>> \in used
<1> DEFINE all == Append(Remove(s, e.key), e)
           excess == Len(all) - MaxEntries
<1>1. /\ all \in Seq(EntrySet)
      /\ Len(all) = Len(Remove(s, e.key)) + 1
  BY AppendEntry
<1>2. Len(s) \in Nat /\ MaxEntries \in Nat \ {0}
  BY LenProperties, MaxEntriesAssumption
<1>3. CASE Has(s, e.key)
  <2>1. Len(all) = Len(s)
    BY <1>1, <1>2, <1>3, RemoveShape
  <2>2. Put(s, e) = all
    BY <1>2, <2>1 DEF Put
  <2>3. QED
    BY <2>2, AppendKeeps
<1>4. CASE ~ Has(s, e.key)
  <2>1. /\ all = Append(s, e)
        /\ Len(all) = Len(s) + 1
        /\ \A i \in 1 .. Len(s) : all[i] = s[i]
        /\ all[Len(s) + 1] = e
    BY <1>4, AppendProperties DEF Remove
  <2>2. PICK a \in 1 .. Len(s) : s[a].key = j
    BY DEF KeysIn
  <2>3. PICK b \in 1 .. Len(s) : s[b].key = k
    BY DEF KeysIn
  <2>4. CASE excess > 0
    <3> DEFINE kept == SubSeq(all, excess + 1, Len(all))
    <3>1. Put(s, e) = kept
      BY <2>4 DEF Put
    <3>2. /\ Len(kept) = Len(all) - excess
          /\ \A i \in 1 .. Len(kept) : excess + i \in 1 .. Len(all)
                                       /\ kept[i] = all[excess + i]
      BY <1>1, <2>4, KeptShape
    <3> HIDE DEF kept, all
    <3>3. a <= excess
      <4>1. SUFFICES ASSUME a > excess PROVE FALSE
        BY <1>1, <1>2, LenProperties
      <4>2. a - excess \in 1 .. Len(kept) /\ kept[a - excess] = all[a]
        BY <1>2, <2>1, <2>4, <3>2, <4>1
      <4>3. j \in KeysIn(kept)
        BY <2>1, <2>2, <4>2 DEF KeysIn
      <4>4. QED
        BY <3>1, <4>3
    <3>4. b > excess
      <4>1. PICK i \in 1 .. Len(kept) : kept[i].key = k
        BY <3>1 DEF KeysIn
      <4>2. all[excess + i].key = k /\ excess + i \in 1 .. Len(s) + 1
        BY <2>1, <3>2, <4>1
      <4>3. excess + i # Len(s) + 1
        BY <1>4, <2>1, <2>3, <4>2 DEF Has
      <4>4. excess + i \in 1 .. Len(s) /\ s[excess + i].key = s[b].key
        BY <1>2, <2>1, <2>3, <4>2, <4>3
      <4>5. excess + i = b
        BY <4>4 DEF Distinct
      <4>6. QED
        BY <1>2, <2>1, <4>5
    <3>5. a < b
      BY <1>2, <2>1, <3>3, <3>4
    <3>6. QED
      BY <2>2, <2>3, <3>5 DEF InUseOrder
  <2>5. CASE ~ excess > 0
    <3>1. Put(s, e) = all
      BY <2>5 DEF Put
    <3>2. a \in 1 .. Len(all) /\ all[a] = s[a]
      BY <1>2, <2>1
    <3>3. j \in KeysIn(all)
      BY <2>2, <3>2 DEF KeysIn
    <3>4. QED
      BY <3>1, <3>3
  <2>6. QED
    BY <2>4, <2>5
<1>5. QED
  BY <1>3, <1>4

LEMMA TouchOrder ==
  ASSUME NEW s \in Seq(EntrySet), Distinct(s), InUseOrder(s), NEW key, Has(s, key)
  PROVE  \A i, j \in 1 .. Len(Touch(s, key)) :
           i < j => <<Touch(s, key)[i].key, Touch(s, key)[j].key>> \in UseOf(key)
<1> DEFINE e == Entry(s, key)
           all == Append(Remove(s, e.key), e)
<1>1. e \in EntrySet /\ e.key = key
  BY PositionType DEF Entry
<1>2. Touch(s, key) = all
  BY <1>1 DEF Touch
<1>3. \A i, j \in 1 .. Len(all) : i < j => <<all[i].key, all[j].key>> \in UseOf(e.key)
  BY <1>1, AppendOrder
<1> HIDE DEF all
<1>4. QED
  BY <1>1, <1>2, <1>3

(* A get loses no key. *)
LEMMA TouchKeeps ==
  ASSUME NEW s \in Seq(EntrySet), Distinct(s), NEW key, Has(s, key)
  PROVE  KeysIn(s) \subseteq KeysIn(Touch(s, key))
<1> DEFINE e == Entry(s, key)
<1>1. e \in EntrySet /\ e.key = key
  BY PositionType DEF Entry
<1>2. Touch(s, key) = Append(Remove(s, e.key), e)
  BY <1>1 DEF Touch
<1> HIDE DEF e
<1>3. QED
  BY <1>1, <1>2, AppendKeeps

-----------------------------------------------------------------------------
(* The inductive invariant.                                                *)

(* What a request holds while it is in flight: the entry it took from the  *)
(* cache pairs a page with its ETag, a 304 names the page it stands for,   *)
(* and a 200 carries the page its ETag names.                              *)
HeldOK(c) ==
  /\ c.pc = "idle" <=> c.key = NoKey
  /\ c.cached # NoEntry => c.cached.data = c.cached.etag
  /\ c.pc = "answered" =>
       \/ c.answer.status = 200 /\ c.answer.etag \in {c.answer.data, NoEtag}
       \/ c.answer.status = 304 /\ Conditional(c) \in Pages

FlightOK == \A r \in Requests : HeldOK(req[r])

IInv ==
  /\ TypeOK
  /\ EtagNamesData
  /\ CacheBounded
  /\ InUseOrder(entries)
  /\ FlightOK

LEMMA InitIInv == Init => IInv
<1> SUFFICES ASSUME Init PROVE IInv
  OBVIOUS
<1>2. entries = <<>> /\ Len(entries) = 0 /\ entries \in Seq(EntrySet)
  BY DEF Init
<1>3. Idle \in HandlerSet
  BY ValuesAssumption DEF Idle, NoAnswer, HandlerSet, AnswerSet, Etags
<1>4. TypeOK
  BY <1>2, <1>3 DEF Init, TypeOK
<1>5. EtagNamesData /\ CacheBounded /\ InUseOrder(entries)
  BY <1>2, MaxEntriesAssumption DEF EtagNamesData, CacheBounded, InUseOrder
<1>6. FlightOK
  BY DEF Init, FlightOK, HeldOK, Idle
<1>7. QED
  BY <1>4, <1>5, <1>6 DEF IInv

(* A step that leaves the cache alone and moves one request. *)
LEMMA MovesOne ==
  ASSUME IInv, NEW r \in Requests, NEW c \in HandlerSet, HeldOK(c),
         req' = [req EXCEPT ![r] = c], UNCHANGED <<upstream, entries, used>>
  PROVE  IInv'
<1>1. TypeOK'
  BY DEF IInv, TypeOK
<1>2. EtagNamesData' /\ CacheBounded' /\ InUseOrder(entries)'
  BY DEF IInv, EtagNamesData, CacheBounded, InUseOrder
<1>3. FlightOK'
  <2>1. \A q \in Requests : req'[q] = IF q = r THEN c ELSE req[q]
    BY DEF IInv, TypeOK
  <2>2. QED
    BY <2>1 DEF IInv, FlightOK
<1>4. QED
  BY <1>1, <1>2, <1>3 DEF IInv

(* A step that leaves the requests alone and the cache too. *)
LEMMA ListKeeps ==
  ASSUME IInv, NEW r \in Requests, NEW key \in Keys, NEW inm \in Etags,
         List(r, key, inm)
  PROVE  IInv'
<1> DEFINE found == CacheEnabled /\ Has(entries, key)
           c == [pc |-> "sent", key |-> key, inm |-> inm, answer |-> NoAnswer,
                 cached |-> IF found THEN Entry(entries, key) ELSE NoEntry]
<1>1. /\ req' = [req EXCEPT ![r] = c]
      /\ UNCHANGED upstream
  BY DEF List
<1>2. entries \in Seq(EntrySet) /\ Distinct(entries)
  BY DEF IInv, TypeOK, CacheBounded, Distinct
<1>3. c \in HandlerSet
  <2>1. found => Entry(entries, key) \in EntrySet
    BY <1>2, PositionType
  <2>2. NoAnswer \in AnswerSet
    BY ValuesAssumption DEF NoAnswer, AnswerSet, Etags
  <2>3. QED
    BY <2>1, <2>2 DEF HandlerSet
<1>4. HeldOK(c)
  <2>1. found => Entry(entries, key).data = Entry(entries, key).etag
    BY <1>2, PositionType DEF IInv, EtagNamesData, Entry
  <2>2. c.pc = "sent" /\ c.key \in Keys
    OBVIOUS
  <2>3. c.cached # NoEntry => c.cached.data = c.cached.etag
    BY <2>1
  <2> HIDE DEF c
  <2>4. QED
    BY <2>2, <2>3, ValuesAssumption DEF HeldOK
<1> HIDE DEF c
<1>5. CASE ~ found
  BY <1>1, <1>3, <1>4, <1>5, MovesOne DEF List
<1>6. CASE found
  <2>1. entries' = Touch(entries, key) /\ used' = UseOf(key)
    BY <1>6 DEF List
  <2>2. /\ entries' \in Seq(EntrySet)
        /\ Distinct(entries')
        /\ Len(entries') = Len(entries)
        /\ Within(entries', entries)
    BY <1>2, <1>6, <2>1, TouchProperties
  <2>3. TypeOK'
    <3>1. used' \subseteq Keys \X Keys
      BY <2>1 DEF IInv, TypeOK, UseOf
    <3>2. QED
      BY <1>1, <1>3, <2>2, <3>1 DEF IInv, TypeOK
  <2>4. EtagNamesData'
    BY <2>2 DEF IInv, EtagNamesData, Within
  <2>5. CacheBounded'
    BY <2>2 DEF IInv, CacheBounded, Distinct
  <2>6. InUseOrder(entries)'
    <3>1. \A i, j \in 1 .. Len(Touch(entries, key)) :
            i < j => <<Touch(entries, key)[i].key, Touch(entries, key)[j].key>> \in UseOf(key)
      BY <1>2, <1>6, TouchOrder DEF IInv
    <3>2. QED
      BY <2>1, <3>1 DEF InUseOrder
  <2>7. FlightOK'
    <3>1. \A q \in Requests : req'[q] = IF q = r THEN c ELSE req[q]
      BY <1>1 DEF IInv, TypeOK
    <3>2. QED
      BY <1>4, <3>1 DEF IInv, FlightOK
  <2>8. QED
    BY <2>3, <2>4, <2>5, <2>6, <2>7 DEF IInv
<1>7. QED
  BY <1>5, <1>6

(* What a request holds when it is done. *)
LEMMA DoneHeld ==
  ASSUME TypeOK, NEW r \in Requests, NEW answer \in AnswerSet,
         req[r].pc # "idle", HeldOK(req[r])
  PROVE  LET c == [Idle EXCEPT !.pc = "done", !.key = req[r].key, !.answer = answer]
         IN  c \in HandlerSet /\ HeldOK(c)
<1> DEFINE c == [Idle EXCEPT !.pc = "done", !.key = req[r].key, !.answer = answer]
<1>1. req[r] \in HandlerSet
  BY DEF TypeOK
<1>2. req[r].key \in Keys \cup {NoKey} /\ req[r].key # NoKey
  BY <1>1 DEF HandlerSet, HeldOK
<1>3. Idle \in HandlerSet /\ Idle.cached = NoEntry
  BY ValuesAssumption DEF Idle, NoAnswer, HandlerSet, AnswerSet, Etags
<1>4. /\ c.pc = "done" /\ c.key = req[r].key /\ c.cached = NoEntry
  BY <1>3 DEF HandlerSet
<1>5. c \in HandlerSet
  BY <1>2, <1>3 DEF HandlerSet
<1> HIDE DEF c
<1>6. HeldOK(c)
  BY <1>2, <1>4 DEF HeldOK
<1>7. QED
  BY <1>5, <1>6 DEF c

LEMMA ReplyKeeps ==
  ASSUME IInv, NEW r \in Requests, NEW answer \in AnswerSet,
         req[r].pc # "idle", Reply(r, answer), UNCHANGED <<upstream, entries, used>>
  PROVE  IInv'
<1> DEFINE c == [Idle EXCEPT !.pc = "done", !.key = req[r].key, !.answer = answer]
<1>1. c \in HandlerSet /\ HeldOK(c)
  BY DoneHeld DEF IInv, FlightOK
<1>2. req' = [req EXCEPT ![r] = c]
  BY DEF Reply
<1> HIDE DEF c
<1>3. QED
  BY <1>1, <1>2, MovesOne

LEMMA AnsweredKeeps ==
  ASSUME IInv, NEW r \in Requests, NEW status \in {200, 304}, NEW etag \in Etags,
         NEW data \in Pages, Answered(r, status, etag, data), req[r].pc = "sent",
         \/ status = 200 /\ etag \in {data, NoEtag}
         \/ status = 304 /\ Conditional(req[r]) \in Pages,
         UNCHANGED <<upstream, entries, used>>
  PROVE  IInv'
<1> DEFINE a == [status |-> status, etag |-> etag, data |-> data]
           c == [req[r] EXCEPT !.pc = "answered", !.answer = a]
<1>1. req[r] \in HandlerSet /\ HeldOK(req[r])
  BY DEF IInv, TypeOK, FlightOK
<1>2. req' = [req EXCEPT ![r] = c]
  <2>1. req \in [Requests -> HandlerSet]
    BY DEF IInv, TypeOK
  <2>2. \A q \in Requests : req'[q] = IF q = r THEN c ELSE req[q]
    BY <2>1 DEF Answered
  <2>3. DOMAIN req' = Requests /\ req' = [q \in Requests |-> req'[q]]
    BY <2>1 DEF Answered
  <2>4. QED
    BY <2>1, <2>2, <2>3
<1>3. a \in AnswerSet
  BY DEF AnswerSet
<1>4. c \in HandlerSet
  BY <1>1, <1>3 DEF HandlerSet
<1>5. /\ c.pc = "answered" /\ c.answer = a /\ c.key = req[r].key
      /\ c.inm = req[r].inm /\ c.cached = req[r].cached
  BY <1>1 DEF HandlerSet
<1>6. HeldOK(c)
  BY <1>1, <1>5 DEF HeldOK, Conditional
<1> HIDE DEF c, a
<1>7. QED
  BY <1>2, <1>4, <1>6, MovesOne

LEMMA MissKeeps ==
  ASSUME IInv, NEW r \in Requests, CompleteMiss(r)
  PROVE  IInv'
<1> DEFINE c == req[r]
           e == [key |-> c.key, etag |-> c.answer.etag, data |-> c.answer.data]
           answer == [status |-> 200, etag |-> e.etag, data |-> e.data]
<1>1. c \in HandlerSet /\ HeldOK(c) /\ c.answer \in AnswerSet
  BY DEF IInv, TypeOK, FlightOK, HandlerSet
<1>2. answer \in AnswerSet
  BY <1>1 DEF AnswerSet
<1>3. c.pc = "answered" /\ c.pc # "idle" /\ Reply(r, answer) /\ UNCHANGED upstream
  BY DEF CompleteMiss
<1>4. CASE ~ (CacheEnabled /\ e.etag # NoEtag)
  <2>1. UNCHANGED <<upstream, entries, used>>
    BY <1>4 DEF CompleteMiss
  <2> HIDE DEF answer
  <2>2. QED
    BY <1>2, <1>3, <2>1, ReplyKeeps
<1>5. CASE CacheEnabled /\ e.etag # NoEtag
  <2>1. entries' = Put(entries, e) /\ used' = UseOf(e.key)
    BY <1>5 DEF CompleteMiss
  <2>2. ~ (c.answer.status = 304 /\ (c.inm # NoEtag \/ c.cached # NoEntry))
    BY DEF CompleteMiss
  <2>3. e \in EntrySet /\ e.data = e.etag
    <3>1. c.answer.status # 304
      BY <1>1, <1>3, <2>2, ValuesAssumption DEF HeldOK, Conditional
    <3>2. c.answer.etag \in {c.answer.data, NoEtag}
      BY <1>1, <1>3, <3>1 DEF HeldOK
    <3>3. c.answer.data = c.answer.etag
      BY <1>5, <3>2
    <3>4. c.key \in Keys
      BY <1>1, <1>3 DEF HeldOK, HandlerSet
    <3>5. c.answer.data \in Pages
      BY <1>1 DEF AnswerSet
    <3>6. QED
      BY <3>3, <3>4, <3>5 DEF EntrySet
  <2>4. entries \in Seq(EntrySet) /\ Distinct(entries) /\ InUseOrder(entries)
    BY DEF IInv, TypeOK, CacheBounded, Distinct
  <2> DEFINE d == [Idle EXCEPT !.pc = "done", !.key = req[r].key, !.answer = answer]
  <2>5. d \in HandlerSet /\ HeldOK(d)
    BY <1>1, <1>2, <1>3, DoneHeld DEF IInv
  <2>6. req' = [req EXCEPT ![r] = d]
    BY <1>3 DEF Reply
  <2> HIDE DEF d, e, answer
  <2>7. /\ entries' \in Seq(EntrySet)
        /\ Distinct(entries')
        /\ Len(entries') <= MaxEntries
        /\ \A i \in 1 .. Len(entries') :
             entries'[i] = e \/ \E j \in 1 .. Len(entries) : entries'[i] = entries[j]
    BY <2>1, <2>3, <2>4, PutProperties
  <2>8. TypeOK'
    <3>1. e.key \in Keys
      BY <2>3 DEF EntrySet
    <3>2. used' \subseteq Keys \X Keys
      BY <2>1, <3>1 DEF IInv, TypeOK, UseOf
    <3>3. QED
      BY <1>3, <2>5, <2>6, <2>7, <3>2 DEF IInv, TypeOK
  <2>9. EtagNamesData'
    BY <2>3, <2>7 DEF IInv, EtagNamesData
  <2>10. CacheBounded'
    BY <2>7 DEF CacheBounded, Distinct
  <2>11. InUseOrder(entries)'
    <3>1. \A i, j \in 1 .. Len(Put(entries, e)) :
            i < j => <<Put(entries, e)[i].key, Put(entries, e)[j].key>> \in UseOf(e.key)
      BY <2>3, <2>4, PutOrder
    <3>2. QED
      BY <2>1, <3>1 DEF InUseOrder
  <2>12. FlightOK'
    <3>1. \A q \in Requests : req'[q] = IF q = r THEN d ELSE req[q]
      BY <2>6 DEF IInv, TypeOK
    <3>2. QED
      BY <2>5, <3>1 DEF IInv, FlightOK
  <2>13. QED
    BY <2>8, <2>9, <2>10, <2>11, <2>12 DEF IInv
<1>6. QED
  BY <1>4, <1>5

LEMMA HandleKeeps ==
  ASSUME IInv, NEW r \in Requests, Handle(r)
  PROVE  IInv'
<1> USE DEF IInv
<1>1. req[r] \in HandlerSet /\ HeldOK(req[r])
  BY DEF TypeOK, FlightOK
<1>2. upstream \in [Keys -> Pages]
  BY DEF TypeOK
<1>3. req[r].pc = "sent" => req[r].key \in Keys /\ upstream[req[r].key] \in Pages
  BY <1>1, <1>2 DEF HandlerSet, HeldOK
<1> USE DEF Etags
<1>4. CASE \E key \in Keys, inm \in Etags : List(r, key, inm)
  BY <1>4, ListKeeps
<1>5. CASE AnswerNotModified(r)
  <2>1. Conditional(req[r]) \in Pages
    BY <1>3, <1>5 DEF AnswerNotModified
  <2>2. QED
    BY <1>5, <2>1, ValuesAssumption, AnsweredKeeps DEF AnswerNotModified
<1>6. CASE AnswerPage(r)
  <2>1. PICK etag \in {upstream[req[r].key], NoEtag} :
          Answered(r, 200, etag, upstream[req[r].key])
    BY <1>6 DEF AnswerPage
  <2>2. QED
    BY <1>3, <1>6, <2>1, AnsweredKeeps DEF AnswerPage
<1>7. CASE RequestFails(r)
  <2>1. NoAnswer \in AnswerSet
    BY ValuesAssumption DEF NoAnswer, AnswerSet
  <2>2. QED
    BY <1>7, <2>1, ReplyKeeps DEF RequestFails
<1>8. CASE CompleteNotModified(r)
  <2> DEFINE answer == [status |-> 304, etag |-> req[r].inm, data |-> EmptyPage]
  <2>1. answer \in AnswerSet
    BY <1>1, ValuesAssumption DEF AnswerSet, HandlerSet
  <2> HIDE DEF answer
  <2>2. Reply(r, answer) /\ req[r].pc = "answered" /\ UNCHANGED <<upstream, entries, used>>
    BY <1>8 DEF CompleteNotModified, answer
  <2>3. QED
    BY <2>1, <2>2, ReplyKeeps
<1>9. CASE CompleteHit(r)
  <2> DEFINE answer == [status |-> 200, etag |-> req[r].cached.etag,
                        data |-> req[r].cached.data]
  <2>1. req[r].cached \in EntrySet
    BY <1>1, <1>9 DEF CompleteHit, HandlerSet
  <2>2. answer \in AnswerSet
    BY <2>1 DEF AnswerSet, EntrySet
  <2> HIDE DEF answer
  <2>3. Reply(r, answer) /\ req[r].pc = "answered" /\ UNCHANGED <<upstream, entries, used>>
    BY <1>9 DEF CompleteHit, answer
  <2>4. QED
    BY <2>2, <2>3, ReplyKeeps
<1>10. CASE CompleteMiss(r)
  BY <1>10, MissKeeps
<1>11. CASE Respond(r)
  <2>1. Idle \in HandlerSet /\ HeldOK(Idle)
    BY ValuesAssumption DEF Idle, NoAnswer, HandlerSet, AnswerSet, HeldOK
  <2>2. QED
    BY <1>11, <2>1, MovesOne DEF Respond
<1>12. QED
  BY <1>4, <1>5, <1>6, <1>7, <1>8, <1>9, <1>10, <1>11 DEF Handle, Complete

LEMMA NextKeeps == IInv /\ [Next]_vars => IInv'
<1> SUFFICES ASSUME IInv, [Next]_vars PROVE IInv'
  OBVIOUS
<1>1. ASSUME NEW r \in Requests, Handle(r) PROVE IInv'
  BY <1>1, HandleKeeps
<1>2. ASSUME NEW key \in Keys, UpstreamChanges(key) PROVE IInv'
  <2>1. upstream' \in [Keys -> Pages] /\ UNCHANGED <<entries, req, used>>
    BY <1>2 DEF UpstreamChanges, IInv, TypeOK
  <2>2. QED
    BY <2>1 DEF IInv, TypeOK, EtagNamesData, CacheBounded, InUseOrder, FlightOK
<1>3. CASE Restart
  <2>1. entries' = <<>> /\ Len(entries') = 0 /\ entries' \in Seq(EntrySet)
    BY <1>3 DEF Restart
  <2>2. Idle \in HandlerSet /\ HeldOK(Idle)
    BY ValuesAssumption DEF Idle, NoAnswer, HandlerSet, AnswerSet, Etags, HeldOK
  <2>3. TypeOK'
    BY <1>3, <2>1, <2>2 DEF Restart, IInv, TypeOK
  <2>4. EtagNamesData' /\ CacheBounded' /\ InUseOrder(entries)'
    BY <2>1, MaxEntriesAssumption DEF EtagNamesData, CacheBounded, InUseOrder
  <2>5. FlightOK'
    BY <1>3, <2>2 DEF Restart, FlightOK
  <2>6. QED
    BY <2>3, <2>4, <2>5 DEF IInv
<1>4. CASE UNCHANGED vars
  BY <1>4 DEF vars, IInv, TypeOK, EtagNamesData, CacheBounded, InUseOrder, FlightOK
<1>5. QED
  BY <1>1, <1>2, <1>3, <1>4 DEF Next

LEMMA Inductive == Spec => []IInv
<1>1. QED
  BY InitIInv, NextKeeps, PTL DEF Spec

-----------------------------------------------------------------------------
(* The properties.                                                         *)

(* The state of the handlers, of the cache and of its use keeps its shape. *)
THEOREM TypeCorrect == Spec => []TypeOK
<1>1. IInv => TypeOK
  BY DEF IInv
<1>2. QED
  BY <1>1, Inductive, PTL

(* A cached page is the one its ETag names (CachedList): what a 304 to     *)
(* that ETag serves is the current page.                                   *)
THEOREM EtagsHonest == Spec => []EtagNamesData
<1>1. IInv => EtagNamesData
  BY DEF IInv
<1>2. QED
  BY <1>1, Inductive, PTL

(* The cache holds no query twice and no more than cache_max_entries       *)
(* entries, whichever order the handlers of concurrent misses finish in.   *)
THEOREM Bounded == Spec => []CacheBounded
<1>1. IInv => CacheBounded
  BY DEF IInv
<1>2. QED
  BY <1>1, Inductive, PTL

(* The cache evicts the least recently used entries: get() and set() keep  *)
(* the entries in the order of their last uses.                            *)
THEOREM LeastRecent == Spec => EvictsLeastRecent
<1> DEFINE Evicts ==
      entries' # <<>> =>
        \A j \in KeysIn(entries) \ KeysIn(entries'),
           k \in KeysIn(entries) \cap KeysIn(entries') : <<j, k>> \in used
<1>1. ASSUME IInv, Next PROVE Evicts
  <2>1. /\ entries \in Seq(EntrySet) /\ Distinct(entries)
        /\ InUseOrder(entries) /\ Len(entries) <= MaxEntries
    BY <1>1 DEF IInv, TypeOK, CacheBounded, Distinct
  <2>2. CASE UNCHANGED entries
    BY <2>2
  <2>3. CASE entries' = <<>>
    BY <2>3
  <2>4. ASSUME NEW key \in Keys, Has(entries, key), entries' = Touch(entries, key)
        PROVE  Evicts
    BY <2>1, <2>4, TouchKeeps
  <2>5. ASSUME NEW e \in EntrySet, entries' = Put(entries, e)
        PROVE  Evicts
    <3>1. SUFFICES ASSUME NEW j \in KeysIn(entries) \ KeysIn(Put(entries, e)),
                          NEW k \in KeysIn(entries) \cap KeysIn(Put(entries, e))
                   PROVE  <<j, k>> \in used
      BY <2>5
    <3>2. QED
      BY <2>1, PutEvicts
  <2>6. ASSUME NEW r \in Requests, CompleteMiss(r) PROVE Evicts
    <3> DEFINE c == req[r]
               e == [key |-> c.key, etag |-> c.answer.etag, data |-> c.answer.data]
    <3>1. c \in HandlerSet /\ HeldOK(c) /\ c.pc = "answered"
      BY <1>1, <2>6 DEF CompleteMiss, IInv, TypeOK, FlightOK
    <3>2. c.key \in Keys /\ c.answer \in AnswerSet
      BY <3>1 DEF HeldOK, HandlerSet
    <3>3. CASE CacheEnabled /\ e.etag # NoEtag
      <4>1. e \in EntrySet
        BY <3>2, <3>3 DEF AnswerSet, Etags, EntrySet
      <4>2. entries' = Put(entries, e)
        BY <2>6, <3>3 DEF CompleteMiss
      <4> HIDE DEF e
      <4>3. QED
        BY <2>5, <4>1, <4>2
    <3>4. CASE ~ (CacheEnabled /\ e.etag # NoEtag)
      <4>1. UNCHANGED entries
        BY <2>6, <3>4 DEF CompleteMiss
      <4>2. QED
        BY <2>2, <4>1
    <3>5. QED
      BY <3>3, <3>4
  <2>7. ASSUME NEW r \in Requests, Handle(r), ~ CompleteMiss(r) PROVE Evicts
    <3>1. CASE \E key \in Keys, inm \in Etags : List(r, key, inm)
      BY <2>2, <2>4, <3>1 DEF List
    <3>2. CASE ~ \E key \in Keys, inm \in Etags : List(r, key, inm)
      <4>1. UNCHANGED entries
        BY <2>7, <3>2 DEF Handle, AnswerNotModified, AnswerPage, RequestFails,
             Complete, CompleteNotModified, CompleteHit, Respond
      <4>2. QED
        BY <2>2, <4>1
    <3>3. QED
      BY <3>1, <3>2
  <2>8. QED
    BY <1>1, <2>2, <2>3, <2>6, <2>7 DEF Next, UpstreamChanges, Restart
<1>2. IInv /\ [Next]_vars => [Evicts]_vars
  BY <1>1 DEF vars
<1>3. QED
  BY <1>2, Inductive, PTL DEF Spec, EvictsLeastRecent

-----------------------------------------------------------------------------
(* The refinement.                                                         *)

asked == [r \in Requests |-> req[r].key]
told  == [r \in Requests |-> Told(req[r])]

LEMMA Updated ==
  ASSUME NEW S, NEW f, NEW g, NEW r \in S, NEW v,
         f = [q \in S |-> f[q]], g = [q \in S |-> g[q]],
         \A q \in S : g[q] = IF q = r THEN v ELSE f[q]
  PROVE  g = [f EXCEPT ![r] = v]
<1>1. QED
  OBVIOUS

LEMMA Mapped ==
  ASSUME IInv, NEW r \in Requests, NEW c, req' = [req EXCEPT ![r] = c]
  PROVE  /\ asked' = [asked EXCEPT ![r] = c.key]
         /\ told' = [told EXCEPT ![r] = Told(c)]
<1>1. \A q \in Requests : req'[q] = IF q = r THEN c ELSE req[q]
  BY DEF IInv, TypeOK
<1>2. asked' = [q \in Requests |-> req'[q].key]
  BY DEF asked
<1>3. told' = [q \in Requests |-> Told(req'[q])]
  BY DEF told, Told, Conditional
<1>4. asked' = [asked EXCEPT ![r] = c.key]
  <2>1. \A q \in Requests : /\ asked[q] = req[q].key
                            /\ asked'[q] = IF q = r THEN c.key ELSE asked[q]
    BY <1>1, <1>2 DEF asked
  <2>2. asked = [q \in Requests |-> asked[q]] /\ asked' = [q \in Requests |-> asked'[q]]
    BY DEF asked
  <2>3. QED
    BY <2>1, <2>2, Updated
<1>5. told' = [told EXCEPT ![r] = Told(c)]
  <2>1. \A q \in Requests : told[q] = Told(req[q])
    BY DEF told
  <2>2. \A q \in Requests : told'[q] = IF q = r THEN Told(c) ELSE told[q]
    BY <1>1, <1>3, <2>1
  <2>3. told = [q \in Requests |-> told[q]] /\ told' = [q \in Requests |-> told'[q]]
    BY <1>3 DEF told
  <2>4. QED
    BY <2>2, <2>3, Updated
<1>6. QED
  BY <1>4, <1>5

(* A step that changes neither the key nor what was told changes nothing.  *)
LEMMA Stutters ==
  ASSUME IInv, NEW r \in Requests, NEW c, req' = [req EXCEPT ![r] = c],
         c.key = req[r].key, Told(c) = Told(req[r])
  PROVE  UNCHANGED <<asked, told>>
<1>1. asked[r] = req[r].key /\ told[r] = Told(req[r])
  BY DEF asked, told
<1>2. asked' = [asked EXCEPT ![r] = asked[r]] /\ told' = [told EXCEPT ![r] = told[r]]
  BY <1>1, Mapped
<1>3. asked = [q \in Requests |-> asked[q]] /\ told = [q \in Requests |-> told[q]]
  BY DEF asked, told
<1>4. QED
  BY <1>2, <1>3

(* A handler step is a step of FreshList or is not seen there: the page is *)
(* read when GitHub answers, and what the handler then makes of the answer *)
(* and of the entry it took from the cache is that very page.              *)
LEMMA HandleImplements ==
  ASSUME IInv, NEW r \in Requests, Handle(r)
  PROVE  [Fresh!Next]_<<upstream, asked, told>>
<1> DEFINE c == req[r]
<1>0. ASSUME NEW d, req' = [req EXCEPT ![r] = d]
      PROVE  asked' = [asked EXCEPT ![r] = d.key] /\ told' = [told EXCEPT ![r] = Told(d)]
  BY <1>0, Mapped, Zenon
<1>1. /\ c \in HandlerSet /\ HeldOK(c) /\ req \in [Requests -> HandlerSet]
      /\ upstream \in [Keys -> Pages]
  BY DEF IInv, TypeOK, FlightOK
<1>2. /\ asked[r] = c.key /\ told[r] = Told(c)
      /\ asked = [q \in Requests |-> asked[q]] /\ told = [q \in Requests |-> told[q]]
  BY DEF asked, told
<1>3. NoEntry \notin Pages \cup {NoEtag} /\ NoEtag \notin Pages /\ NoKey \notin Keys
  BY ValuesAssumption, NoEntryAssumption DEF Etags
<1>4. CASE \E key \in Keys, inm \in Etags : List(r, key, inm)
  <2>1. PICK key \in Keys, inm \in Etags : List(r, key, inm)
    BY <1>4
  <2> DEFINE found == CacheEnabled /\ Has(entries, key)
             d == [pc |-> "sent", key |-> key, inm |-> inm, answer |-> NoAnswer,
                   cached |-> IF found THEN Entry(entries, key) ELSE NoEntry]
  <2>2. /\ req' = [req EXCEPT ![r] = d]
        /\ d.pc = "sent" /\ d.key = key
    BY <2>1 DEF List
  <2> HIDE DEF d
  <2>3. c.pc = "idle" /\ UNCHANGED upstream
    BY <2>1 DEF List
  <2>4. c.key = NoKey /\ Told(c) = NoEntry /\ Told(d) = NoEntry
    BY <1>1, <2>2, <2>3 DEF HeldOK, Told
  <2>5. asked' = [asked EXCEPT ![r] = key] /\ told' = [told EXCEPT ![r] = told[r]]
    BY <1>2, <2>2, <2>4, Mapped
  <2>6. told' = told
    BY <1>2, <2>5
  <2>7. Fresh!Ask(r)
    BY <1>2, <2>3, <2>4, <2>5, <2>6 DEF Fresh!Ask, asked, told
  <2>8. QED
    BY <2>7 DEF Fresh!Next
<1>5. ASSUME NEW status \in {200, 304}, NEW etag, NEW data,
             c.pc = "sent", Answered(r, status, etag, data), UNCHANGED upstream,
             \/ status = 200 /\ data = upstream[c.key]
             \/ status = 304 /\ Conditional(c) = upstream[c.key]
      PROVE  Fresh!Next
  <2> DEFINE e == [c EXCEPT !.pc = "answered",
                            !.answer = [status |-> status, etag |-> etag, data |-> data]]
  <2>1. req' = [req EXCEPT ![r] = e]
    <3>1. \A q \in Requests : req'[q] = IF q = r THEN e ELSE req[q]
      BY <1>1, <1>5 DEF Answered
    <3>2. req = [q \in Requests |-> req[q]] /\ req' = [q \in Requests |-> req'[q]]
      BY <1>1, <1>5 DEF Answered
    <3>3. QED
      BY <3>1, <3>2, Updated
  <2>2. PICK d : /\ req' = [req EXCEPT ![r] = d]
                 /\ d.pc = "answered" /\ d.key = c.key
                 /\ d.inm = c.inm /\ d.cached = c.cached
                 /\ d.answer.status = status /\ d.answer.data = data
    <3>1. /\ e.pc = "answered" /\ e.key = c.key /\ e.inm = c.inm /\ e.cached = c.cached
          /\ e.answer.status = status /\ e.answer.data = data
      BY <1>1 DEF HandlerSet
    <3> HIDE DEF e
    <3>2. QED
      BY <2>1, <3>1
  <2>3. Told(d) = upstream[c.key]
    BY <1>5, <2>2 DEF Told, Conditional
  <2>4. /\ asked' = [asked EXCEPT ![r] = asked[r]]
        /\ told' = [told EXCEPT ![r] = upstream[asked[r]]]
    <3>1. req' = [req EXCEPT ![r] = d]
      BY <2>2
    <3>2. asked' = [asked EXCEPT ![r] = d.key] /\ told' = [told EXCEPT ![r] = Told(d)]
      BY <3>1, <1>0
    <3>3. QED
      BY <1>2, <2>2, <2>3, <3>2
  <2>5. asked' = asked
    BY <1>2, <2>4
  <2>6. c.key # NoKey /\ Told(c) = NoEntry
    BY <1>1, <1>5 DEF HeldOK, Told
  <2>7. Fresh!Read(r)
    BY <1>2, <1>5, <2>4, <2>5, <2>6 DEF Fresh!Read, asked, told
  <2>8. QED
    BY <2>7 DEF Fresh!Next
<1>6. CASE AnswerNotModified(r) \/ AnswerPage(r)
  BY <1>5, <1>6 DEF AnswerNotModified, AnswerPage
<1>7. ASSUME NEW answer, Reply(r, answer)
      PROVE  \E d : /\ req' = [req EXCEPT ![r] = d]
                    /\ d.pc = "done" /\ d.key = c.key /\ d.answer = answer
  <2> DEFINE d == [Idle EXCEPT !.pc = "done", !.key = c.key, !.answer = answer]
  <2>1. Idle \in HandlerSet
    BY ValuesAssumption DEF Idle, NoAnswer, HandlerSet, AnswerSet, Etags
  <2>2. d.pc = "done" /\ d.key = c.key /\ d.answer = answer
    BY <2>1 DEF HandlerSet
  <2>3. req' = [req EXCEPT ![r] = d]
    BY <1>7 DEF Reply
  <2> HIDE DEF d
  <2>4. QED
    BY <2>2, <2>3
<1>8. CASE RequestFails(r)
  <2>1. PICK d : /\ req' = [req EXCEPT ![r] = d]
                 /\ d.pc = "done" /\ d.key = c.key /\ d.answer = NoAnswer
    BY <1>7, <1>8 DEF RequestFails
  <2>2. c.pc = "sent" /\ UNCHANGED upstream
    BY <1>8 DEF RequestFails
  <2>3. Told(d) = NoEtag
    BY <2>1 DEF Told, NoAnswer
  <2>4. c.key # NoKey /\ Told(c) = NoEntry
    BY <1>1, <2>2 DEF HeldOK, Told
  <2>5. /\ asked' = [asked EXCEPT ![r] = asked[r]]
        /\ told' = [told EXCEPT ![r] = NoEtag]
    <3>1. asked' = [asked EXCEPT ![r] = d.key] /\ told' = [told EXCEPT ![r] = Told(d)]
      BY <2>1, <1>0
    <3>2. QED
      BY <1>2, <2>1, <2>3, <3>1
  <2>6. asked' = asked
    BY <1>2, <2>5
  <2>7. Fresh!Fail(r)
    BY <1>2, <2>2, <2>4, <2>5, <2>6 DEF Fresh!Fail, asked, told
  <2>8. QED
    BY <2>7 DEF Fresh!Next
<1>9. ASSUME NEW answer, Reply(r, answer), UNCHANGED upstream, c.pc = "answered",
             answer.status \in {200, 304},
             (IF answer.status = 304 THEN answer.etag ELSE answer.data) = Told(c)
      PROVE  UNCHANGED <<upstream, asked, told>>
  <2>1. PICK d : /\ req' = [req EXCEPT ![r] = d]
                 /\ d.pc = "done" /\ d.key = c.key /\ d.answer = answer
    BY <1>7, <1>9
  <2>2. Told(d) = Told(c)
    BY <1>9, <2>1 DEF Told
  <2>3. QED
    BY <1>9, <2>1, <2>2, Stutters
<1>10. CASE CompleteNotModified(r)
  <2>1. c.pc = "answered" /\ c.answer.status = 304 /\ c.inm # NoEtag /\ UNCHANGED upstream
    BY <1>10 DEF CompleteNotModified
  <2>2. Told(c) = c.inm
    BY <2>1 DEF Told, Conditional
  <2>3. PICK answer : Reply(r, answer) /\ answer.status = 304 /\ answer.etag = c.inm
    BY <1>10 DEF CompleteNotModified
  <2>4. QED
    BY <1>9, <2>1, <2>2, <2>3
<1>11. CASE CompleteHit(r)
  <2>1. /\ c.pc = "answered" /\ c.answer.status = 304 /\ c.inm = NoEtag
        /\ c.cached # NoEntry /\ UNCHANGED upstream
    BY <1>11 DEF CompleteHit
  <2>2. Told(c) = c.cached.data
    BY <1>1, <2>1 DEF Told, Conditional, HeldOK
  <2>3. PICK answer : Reply(r, answer) /\ answer.status = 200 /\ answer.data = c.cached.data
    BY <1>11 DEF CompleteHit
  <2>4. QED
    BY <1>9, <2>1, <2>2, <2>3
<1>12. CASE CompleteMiss(r)
  <2>1. /\ c.pc = "answered" /\ UNCHANGED upstream
        /\ ~ (c.answer.status = 304 /\ (c.inm # NoEtag \/ c.cached # NoEntry))
    BY <1>12 DEF CompleteMiss
  <2>2. c.answer.status # 304
    BY <1>1, <1>3, <2>1 DEF HeldOK, Conditional
  <2>3. Told(c) = c.answer.data
    BY <2>1, <2>2 DEF Told
  <2>4. PICK answer : Reply(r, answer) /\ answer.status = 200 /\ answer.data = c.answer.data
    BY <1>12 DEF CompleteMiss
  <2>5. QED
    BY <1>9, <2>1, <2>3, <2>4
<1>13. CASE Respond(r)
  <2>1. c.pc = "done" /\ req' = [req EXCEPT ![r] = Idle] /\ UNCHANGED upstream
    BY <1>13 DEF Respond
  <2>2. Idle.key = NoKey /\ Idle.pc = "idle"
    BY DEF Idle
  <2>3. Told(Idle) = NoEntry
    BY <2>2 DEF Told
  <2>4. c.answer \in AnswerSet
    BY <1>1 DEF HandlerSet
  <2>5. Told(c) # NoEntry
    BY <1>3, <2>1, <2>4 DEF Told, AnswerSet, Etags
  <2>6. asked' = [asked EXCEPT ![r] = NoKey] /\ told' = [told EXCEPT ![r] = NoEntry]
    BY <2>1, <2>2, <2>3, Mapped
  <2>7. Fresh!Return(r)
    BY <1>2, <2>1, <2>5, <2>6 DEF Fresh!Return, asked, told
  <2>8. QED
    BY <2>7 DEF Fresh!Next
<1>14. QED
  BY <1>4, <1>6, <1>8, <1>10, <1>11, <1>12, <1>13 DEF Handle, Complete

(* Every caller is told of a page its query had at GitHub between the      *)
(* request and the reply, or that the request failed: the handler with its *)
(* cache implements FreshList, which has none.                             *)
THEOREM ImplementsFreshList == Spec => FreshSpec
<1>1. Init => Fresh!Init
  <2>1. Told(Idle) = NoEntry
    BY DEF Told, Idle
  <2>2. Idle.key = NoKey
    BY DEF Idle
  <2>3. QED
    BY <2>1, <2>2 DEF Init, Fresh!Init
<1>2. ASSUME IInv, Next PROVE [Fresh!Next]_<<upstream, asked, told>>
  <2>1. ASSUME NEW r \in Requests, Handle(r)
        PROVE  [Fresh!Next]_<<upstream, asked, told>>
    BY <1>2, <2>1, HandleImplements
  <2>2. ASSUME NEW key \in Keys, UpstreamChanges(key) PROVE Fresh!Next
    <3>1. UNCHANGED <<asked, told>>
      BY <2>2 DEF UpstreamChanges, asked, told, Told, Conditional
    <3>2. Fresh!Change(key)
      BY <2>2, <3>1 DEF UpstreamChanges, Fresh!Change, asked, told
    <3>3. QED
      BY <3>2 DEF Fresh!Next
  <2>3. CASE Restart
    <3>1. Told(Idle) = NoEntry /\ Idle.key = NoKey
      BY DEF Told, Idle
    <3>2. told' = [r \in Requests |-> Told(req'[r])]
      BY DEF told, Told, Conditional
    <3>3. /\ asked' = [r \in Requests |-> NoKey]
          /\ told' = [r \in Requests |-> NoEntry]
      BY <2>3, <3>1, <3>2 DEF Restart, asked
    <3>4. Fresh!Drop
      BY <2>3, <3>3 DEF Restart, Fresh!Drop, asked, told
    <3>5. QED
      BY <3>4 DEF Fresh!Next
  <2>4. QED
    BY <1>2, <2>1, <2>2, <2>3 DEF Next
<1>3. UNCHANGED vars => UNCHANGED <<upstream, asked, told>>
  BY DEF vars, asked, told, Told, Conditional
<1>4. IInv /\ [Next]_vars => [Fresh!Next]_Fresh!freshVars
  BY <1>2, <1>3 DEF Fresh!freshVars, asked, told
<1>5. QED
  BY <1>1, <1>4, Inductive, PTL DEF Spec, FreshSpec, Fresh!Spec
=============================================================================
