-------------------------- MODULE StableArray_proofs --------------------------
(***************************************************************************)
(* Proofs about StableArray, for every set of elements and every length.   *)
(*                                                                         *)
(* The inductive invariant says of the holes, the length and the set of    *)
(* live indices together that the holes are ordered, do not touch, stay    *)
(* below the last element, and cover exactly the indices that are not      *)
(* live.  Each way add and remove change the holes has a lemma of its own. *)
(***************************************************************************)
EXTENDS StableArray, SequenceTheorems, TLAPS

Partition(hs, n, live) ==
    /\ hs \in Seq(HoleType)
    /\ live \subseteq 0 .. n - 1
    /\ \A i, j \in DOMAIN hs : i < j => End(hs[i]) < hs[j].index
    /\ \A i \in DOMAIN hs : End(hs[i]) < n
    /\ \A id \in 0 .. n - 1 : id \in live <=> \A i \in DOMAIN hs : ~Covers(hs[i], id)

IInv ==
    /\ data \in Seq(Element)
    /\ Length <= MaxLength
    /\ Partition(holes, Length, DOMAIN held)
    /\ \A id \in DOMAIN held : held[id] \in Element /\ At(id) = held[id]

(***************************************************************************)
(* Sequences.                                                              *)
(***************************************************************************)
LEMMA PrefixFacts ==
    ASSUME NEW S, NEW s \in Seq(S), NEW i \in 0 .. Len(s)
    PROVE  /\ SubSeq(s, 1, i) \in Seq(S)
           /\ DOMAIN SubSeq(s, 1, i) = 1 .. i
           /\ Len(SubSeq(s, 1, i)) = i
           /\ \A j \in 1 .. i : SubSeq(s, 1, i)[j] = s[j]
  OBVIOUS

LEMMA FrontFacts ==
    ASSUME NEW S, NEW s \in Seq(S), s # << >>
    PROVE  /\ Len(s) \in Nat \ {0}
           /\ DOMAIN s = 1 .. Len(s)
           /\ Front(s) \in Seq(S)
           /\ DOMAIN Front(s) = 1 .. Len(s) - 1
           /\ Len(Front(s)) = Len(s) - 1
           /\ \A i \in 1 .. Len(s) - 1 : Front(s)[i] = s[i]
           /\ Last(s) = s[Len(s)]
           /\ Last(s) \in S
  <1>1. Len(s) \in Nat \ {0} /\ DOMAIN s = 1 .. Len(s)
    BY EmptySeq, LenProperties
  <1>2. Len(s) - 1 \in 0 .. Len(s)
    BY <1>1
  <1>3. /\ Front(s) \in Seq(S)
        /\ DOMAIN Front(s) = 1 .. Len(s) - 1
        /\ Len(Front(s)) = Len(s) - 1
        /\ \A i \in 1 .. Len(s) - 1 : Front(s)[i] = s[i]
    BY <1>2, PrefixFacts DEF Front
  <1>4. Last(s) = s[Len(s)] /\ Last(s) \in S
    BY <1>1, ElementOfSeq DEF Last
  <1>5. QED
    BY <1>1, <1>3, <1>4

LEMMA RemoveAtFacts ==
    ASSUME NEW S, NEW s \in Seq(S), NEW i \in 1 .. Len(s)
    PROVE  /\ RemoveAt(s, i) \in Seq(S)
           /\ DOMAIN RemoveAt(s, i) = 1 .. Len(s) - 1
           /\ Len(RemoveAt(s, i)) = Len(s) - 1
           /\ \A j \in 1 .. Len(s) - 1 : RemoveAt(s, i)[j] = IF j < i THEN s[j] ELSE s[j + 1]
  <1> DEFINE lo == SubSeq(s, 1, i - 1)
             hi == SubSeq(s, i + 1, Len(s))
  <1>1. Len(s) \in Nat /\ \A j \in 1 .. Len(s) : s[j] \in S
    BY LenProperties, ElementOfSeq
  <1>2. /\ lo \in Seq(S)
        /\ Len(lo) = i - 1
        /\ \A j \in 1 .. i - 1 : lo[j] = s[j]
    BY <1>1
  <1>3. /\ hi \in Seq(S)
        /\ Len(hi) = Len(s) - i
        /\ \A j \in 1 .. Len(s) - i : hi[j] = s[j + i]
    BY <1>1
  <1>4. RemoveAt(s, i) = lo \o hi
    BY DEF RemoveAt
  <1> HIDE DEF lo, hi
  <1>5. /\ lo \o hi \in Seq(S)
        /\ Len(lo \o hi) = Len(lo) + Len(hi)
        /\ \A j \in 1 .. Len(lo) + Len(hi) :
             (lo \o hi)[j] = IF j <= Len(lo) THEN lo[j] ELSE hi[j - Len(lo)]
    BY <1>2, <1>3, ConcatProperties
  <1>6. Len(lo \o hi) = Len(s) - 1 /\ DOMAIN (lo \o hi) = 1 .. Len(s) - 1
    BY <1>1, <1>2, <1>3, <1>5, LenProperties
  <1>7. ASSUME NEW j \in 1 .. Len(s) - 1
        PROVE  (lo \o hi)[j] = IF j < i THEN s[j] ELSE s[j + 1]
    <2>1. j \in 1 .. Len(lo) + Len(hi) /\ (j <= Len(lo) <=> j < i)
      BY <1>1, <1>2, <1>3
    <2>2. CASE j < i
      BY <1>1, <1>2, <1>5, <2>1, <2>2
    <2>3. CASE ~(j < i)
      <3>1. j - Len(lo) \in 1 .. Len(s) - i /\ (j - Len(lo)) + i = j + 1
        BY <1>1, <1>2, <2>3
      <3>2. hi[j - Len(lo)] = s[(j - Len(lo)) + i]
        BY <1>3, <3>1
      <3>3. (lo \o hi)[j] = hi[j - Len(lo)]
        BY <1>5, <2>1, <2>3
      <3>4. QED
        BY <2>3, <3>1, <3>2, <3>3
    <2>4. QED
      BY <2>2, <2>3
  <1>8. QED
    BY <1>4, <1>5, <1>6, <1>7

LEMMA InsertAtFacts ==
    ASSUME NEW S, NEW s \in Seq(S), NEW i \in 1 .. Len(s), NEW e \in S
    PROVE  /\ InsertAt(s, i, e) \in Seq(S)
           /\ DOMAIN InsertAt(s, i, e) = 1 .. Len(s) + 1
           /\ Len(InsertAt(s, i, e)) = Len(s) + 1
           /\ \A j \in 1 .. Len(s) + 1 :
                InsertAt(s, i, e)[j] = IF j < i THEN s[j] ELSE IF j = i THEN e ELSE s[j - 1]
  <1> DEFINE lo == SubSeq(s, 1, i - 1)
             hi == SubSeq(s, i, Len(s))
             mid == lo \o <<e>>
  <1>1. Len(s) \in Nat /\ \A j \in 1 .. Len(s) : s[j] \in S
    BY LenProperties, ElementOfSeq
  <1>2. /\ lo \in Seq(S)
        /\ Len(lo) = i - 1
        /\ \A j \in 1 .. i - 1 : lo[j] = s[j]
    BY <1>1
  <1>3. /\ hi \in Seq(S)
        /\ Len(hi) = Len(s) - i + 1
        /\ \A j \in 1 .. Len(s) - i + 1 : hi[j] = s[j + i - 1]
    BY <1>1
  <1>4. InsertAt(s, i, e) = mid \o hi
    BY DEF InsertAt
  <1>5. <<e>> \in Seq(S) /\ Len(<<e>>) = 1 /\ <<e>>[1] = e
    OBVIOUS
  <1> HIDE DEF lo, hi
  <1>6. /\ mid \in Seq(S)
        /\ Len(mid) = i
        /\ \A j \in 1 .. i : mid[j] = IF j <= i - 1 THEN lo[j] ELSE <<e>>[j - (i - 1)]
    BY <1>1, <1>2, <1>5, ConcatProperties
  <1>7. \A j \in 1 .. i : mid[j] = IF j < i THEN s[j] ELSE e
    BY <1>2, <1>5, <1>6
  <1> HIDE DEF mid
  <1>8. /\ mid \o hi \in Seq(S)
        /\ Len(mid \o hi) = Len(mid) + Len(hi)
        /\ \A j \in 1 .. Len(mid) + Len(hi) :
             (mid \o hi)[j] = IF j <= Len(mid) THEN mid[j] ELSE hi[j - Len(mid)]
    BY <1>3, <1>6, ConcatProperties
  <1>9. Len(mid \o hi) = Len(s) + 1 /\ DOMAIN (mid \o hi) = 1 .. Len(s) + 1
    BY <1>1, <1>3, <1>6, <1>8, LenProperties
  <1>10. ASSUME NEW j \in 1 .. Len(s) + 1
         PROVE  (mid \o hi)[j] = IF j < i THEN s[j] ELSE IF j = i THEN e ELSE s[j - 1]
    <2>1. j \in 1 .. Len(mid) + Len(hi) /\ (j <= Len(mid) <=> j <= i)
      BY <1>1, <1>3, <1>6
    <2>2. CASE j <= i
      BY <1>1, <1>6, <1>7, <1>8, <2>1, <2>2
    <2>3. CASE ~(j <= i)
      <3>1. j - Len(mid) \in 1 .. Len(s) - i + 1 /\ (j - Len(mid)) + i - 1 = j - 1
        BY <1>1, <1>6, <2>3
      <3>2. hi[j - Len(mid)] = s[(j - Len(mid)) + i - 1]
        BY <1>3, <3>1
      <3>3. (mid \o hi)[j] = hi[j - Len(mid)]
        BY <1>8, <2>1, <2>3
      <3>4. QED
        BY <2>3, <3>1, <3>2, <3>3
    <2>4. QED
      BY <2>2, <2>3
  <1>11. QED
    BY <1>4, <1>8, <1>9, <1>10

(***************************************************************************)
(* What add and remove do to the holes.                                    *)
(***************************************************************************)
\* The last hole gives its first index away.
Filled(hs) ==
    IF Last(hs).size = 1 THEN Front(hs)
    ELSE [hs EXCEPT ![Len(hs)] = Hole(Last(hs).index + 1, Last(hs).size - 1)]

LEMMA FillLemma ==
    ASSUME NEW hs, NEW n \in Nat, NEW live, Partition(hs, n, live), hs # << >>
    PROVE  /\ Last(hs).index \in 0 .. n - 1
           /\ Last(hs).index \notin live
           /\ Partition(Filled(hs), n, live \union {Last(hs).index})
  <1> DEFINE k == Len(hs)
             h == Last(hs)
             g == Hole(h.index + 1, h.size - 1)
             new == live \union {h.index}
  <1>1. /\ hs \in Seq(HoleType)
        /\ k \in Nat \ {0}
        /\ DOMAIN hs = 1 .. k
        /\ h = hs[k]
        /\ h \in HoleType
    BY FrontFacts DEF Partition
  <1>2. /\ live \subseteq 0 .. n - 1
        /\ \A i, j \in 1 .. k : i < j => End(hs[i]) < hs[j].index
        /\ \A i \in 1 .. k : End(hs[i]) < n
        /\ \A id \in 0 .. n - 1 : id \in live <=> \A i \in 1 .. k : ~Covers(hs[i], id)
    BY <1>1 DEF Partition
  <1>3. /\ \A i \in 1 .. k : hs[i] \in HoleType
        /\ \A i \in 1 .. k : hs[i].index \in Nat /\ End(hs[i]) \in Nat
    <2>1. \A i \in 1 .. k : hs[i] \in HoleType
      BY <1>1, ElementOfSeq
    <2>2. QED
      BY <2>1 DEF HoleType, End
  <1> HIDE DEF k, h
  <1>4. h.index \in Nat /\ h.size \in Nat \ {0} /\ h.index + h.size < n
    BY <1>1, <1>2 DEF HoleType, End
  <1>5. \A id \in 0 .. n - 1 : Covers(h, id) <=> h.index <= id /\ id < h.index + h.size
    BY DEF Covers, End
  <1>6. h.index \in 0 .. n - 1 /\ h.index \notin live /\ new \subseteq 0 .. n - 1
    <2>1. h.index \in 0 .. n - 1
      BY <1>4
    <2>2. Covers(h, h.index)
      BY <1>4, <1>5, <2>1
    <2>3. k \in 1 .. k
      BY <1>1
    <2>4. QED
      BY <1>1, <1>2, <2>1, <2>2, <2>3
  <1>7. \A i \in 1 .. k - 1 : ~Covers(hs[i], h.index)
    BY <1>1, <1>2, <1>3, <1>4 DEF Covers
  <1>8. CASE h.size = 1
    <2>1. Filled(hs) = Front(hs)
      BY <1>8 DEF Filled, h
    <2>2. /\ Front(hs) \in Seq(HoleType)
          /\ DOMAIN Front(hs) = 1 .. k - 1
          /\ \A i \in 1 .. k - 1 : Front(hs)[i] = hs[i]
      BY <1>1, FrontFacts DEF k
    <2>3. \A id \in 0 .. n - 1 : Covers(h, id) <=> id = h.index
      BY <1>4, <1>5, <1>8
    <2>4. \A id \in 0 .. n - 1 : id \in new <=> \A i \in 1 .. k - 1 : ~Covers(hs[i], id)
      BY <1>1, <1>2, <1>7, <2>3
    <2>5. \A i, j \in 1 .. k - 1 : i < j => End(Front(hs)[i]) < Front(hs)[j].index
      BY <1>1, <1>2, <2>2
    <2>6. \A i \in 1 .. k - 1 : End(Front(hs)[i]) < n
      BY <1>1, <1>2, <2>2
    <2>7. \A id \in 0 .. n - 1 : id \in new <=> \A i \in 1 .. k - 1 : ~Covers(Front(hs)[i], id)
      BY <2>2, <2>4
    <2>8. Partition(Filled(hs), n, new)
      BY <1>6, <2>1, <2>2, <2>5, <2>6, <2>7 DEF Partition
    <2>9. QED
      BY <1>6, <2>8 DEF h
  <1>9. CASE h.size # 1
    <2>1. g \in HoleType /\ g.index = h.index + 1 /\ End(g) = End(h)
      BY <1>4, <1>9 DEF Hole, HoleType, End
    <2>2. Filled(hs) = [hs EXCEPT ![k] = g]
      BY <1>9 DEF Filled, h, k
    <2>3. \A id \in 0 .. n - 1 : Covers(h, id) <=> id = h.index \/ Covers(g, id)
      BY <1>4, <1>5, <1>9, <2>1 DEF Covers, End
    <2>4. ~Covers(g, h.index)
      BY <2>1, <1>4 DEF Covers
    <2> HIDE DEF g
    <2>5. /\ Filled(hs) \in Seq(HoleType)
          /\ DOMAIN Filled(hs) = 1 .. k
          /\ \A i \in 1 .. k : Filled(hs)[i] = IF i = k THEN g ELSE hs[i]
      BY <1>1, <2>1, <2>2
    <2>6. \A i, j \in 1 .. k : i < j => End(Filled(hs)[i]) < Filled(hs)[j].index
      BY <1>1, <1>2, <1>3, <1>4, <2>1, <2>5
    <2>7. \A i \in 1 .. k : End(Filled(hs)[i]) < n
      BY <1>1, <1>2, <2>1, <2>5
    <2>8. \A id \in 0 .. n - 1 : id \in new <=> \A i \in 1 .. k : ~Covers(Filled(hs)[i], id)
      <3> SUFFICES ASSUME NEW id \in 0 .. n - 1
                   PROVE  id \in new <=> \A i \in 1 .. k : ~Covers(Filled(hs)[i], id)
        OBVIOUS
      <3>1. id \in live <=> (~Covers(h, id) /\ \A i \in 1 .. k - 1 : ~Covers(hs[i], id))
        BY <1>1, <1>2
      <3>2. (\A i \in 1 .. k : ~Covers(Filled(hs)[i], id))
              <=> (~Covers(g, id) /\ \A i \in 1 .. k - 1 : ~Covers(hs[i], id))
        BY <1>1, <2>5
      <3>3. QED
        BY <1>7, <2>3, <2>4, <3>1, <3>2
    <2>9. QED
      BY <1>6, <2>5, <2>6, <2>7, <2>8 DEF Partition, h
  <1>10. QED
    BY <1>6, <1>8, <1>9 DEF h

\* What a partition says of its holes, by their positions.
LEMMA PartitionFacts ==
    ASSUME NEW hs, NEW n \in Nat, NEW live, Partition(hs, n, live)
    PROVE  /\ hs \in Seq(HoleType)
           /\ Len(hs) \in Nat
           /\ DOMAIN hs = 1 .. Len(hs)
           /\ live \subseteq 0 .. n - 1
           /\ \A i \in 1 .. Len(hs) : hs[i] \in HoleType
           /\ \A i \in 1 .. Len(hs) : /\ hs[i].index \in Nat
                                      /\ hs[i].size \in Nat \ {0}
                                      /\ End(hs[i]) \in Nat
                                      /\ hs[i].index < End(hs[i])
                                      /\ End(hs[i]) < n
           /\ \A i, j \in 1 .. Len(hs) : i < j => End(hs[i]) < hs[j].index
           /\ \A id \in 0 .. n - 1 : id \in live <=> \A i \in 1 .. Len(hs) : ~Covers(hs[i], id)
  <1>1. /\ hs \in Seq(HoleType)
        /\ Len(hs) \in Nat
        /\ DOMAIN hs = 1 .. Len(hs)
    BY LenProperties DEF Partition
  <1>2. \A i \in 1 .. Len(hs) : hs[i] \in HoleType
    BY <1>1, ElementOfSeq
  <1>3. \A i \in 1 .. Len(hs) : /\ hs[i].index \in Nat
                                /\ hs[i].size \in Nat \ {0}
                                /\ End(hs[i]) \in Nat
                                /\ hs[i].index < End(hs[i])
    BY <1>2 DEF HoleType, End
  <1>4. /\ live \subseteq 0 .. n - 1
        /\ \A i \in 1 .. Len(hs) : End(hs[i]) < n
        /\ \A i, j \in 1 .. Len(hs) : i < j => End(hs[i]) < hs[j].index
        /\ \A id \in 0 .. n - 1 : id \in live <=> \A i \in 1 .. Len(hs) : ~Covers(hs[i], id)
    BY <1>1 DEF Partition
  <1>5. QED
    BY <1>1, <1>2, <1>3, <1>4

\* The last element goes, and the hole below it with it.
LEMMA TrimLemma ==
    ASSUME NEW hs, NEW n \in Nat, NEW live, Partition(hs, n, live), n - 1 \in live,
           hs # << >>, End(Last(hs)) = n - 1
    PROVE  /\ Last(hs).index \in 0 .. n - 1
           /\ Partition(Front(hs), Last(hs).index, live \ {n - 1})
  <1> DEFINE k == Len(hs)
             m == Last(hs).index
  <1>1. /\ k \in Nat \ {0}
        /\ k \in 1 .. k
        /\ Last(hs) = hs[k]
        /\ Front(hs) \in Seq(HoleType)
        /\ DOMAIN Front(hs) = 1 .. k - 1
        /\ \A i \in 1 .. k - 1 : Front(hs)[i] = hs[i]
    BY FrontFacts DEF Partition
  <1>2. /\ m \in Nat
        /\ m < n - 1
        /\ m = hs[k].index
        /\ End(hs[k]) = n - 1
    BY <1>1, PartitionFacts
  <1>3. \A id \in 0 .. n - 1 : Covers(hs[k], id) <=> m <= id /\ id < n - 1
    BY <1>2 DEF Covers
  <1>4. \A id \in 0 .. n - 1 : id \in live <=> \A i \in 1 .. k : ~Covers(hs[i], id)
    BY PartitionFacts
  <1>5. live \subseteq 0 .. n - 1
    BY PartitionFacts
  <1>6. \A id \in live : id = n - 1 \/ id \in 0 .. m - 1
    BY <1>1, <1>2, <1>3, <1>4, <1>5
  <1>0. \A i, j \in 1 .. k : i < j => End(hs[i]) < hs[j].index
    BY PartitionFacts
  <1> HIDE DEF k, m
  <1>7. \A i, j \in 1 .. k - 1 : i < j => End(Front(hs)[i]) < Front(hs)[j].index
    BY <1>0, <1>1
  <1>8. \A i \in 1 .. k - 1 : End(Front(hs)[i]) < m
    BY <1>0, <1>1, <1>2
  <1>9. \A id \in 0 .. m - 1 : id \in live \ {n - 1} <=> \A i \in 1 .. k - 1 : ~Covers(Front(hs)[i], id)
    <2> SUFFICES ASSUME NEW id \in 0 .. m - 1
                 PROVE  id \in live \ {n - 1} <=> \A i \in 1 .. k - 1 : ~Covers(Front(hs)[i], id)
      OBVIOUS
    <2>1. id \in 0 .. n - 1 /\ id # n - 1 /\ ~Covers(hs[k], id)
      BY <1>2, <1>3
    <2>2. id \in live <=> \A i \in 1 .. k - 1 : ~Covers(hs[i], id)
      BY <1>1, <1>4, <2>1
    <2>3. QED
      BY <1>1, <2>1, <2>2
  <1>10. live \ {n - 1} \subseteq 0 .. m - 1
    BY <1>6
  <1>11. Partition(Front(hs), m, live \ {n - 1})
    BY <1>1, <1>7, <1>8, <1>9, <1>10 DEF Partition
  <1>12. QED
    BY <1>2, <1>11 DEF m

\* The last element goes, and the one below it is live.
LEMMA PopLemma ==
    ASSUME NEW hs, NEW n \in Nat, NEW live, Partition(hs, n, live), n - 1 \in live,
           ~(hs # << >> /\ End(Last(hs)) = n - 1)
    PROVE  Partition(hs, n - 1, live \ {n - 1})
  <1> DEFINE k == Len(hs)
  <1>1. /\ hs \in Seq(HoleType)
        /\ k \in Nat
        /\ DOMAIN hs = 1 .. k
        /\ n - 1 \in Nat
        /\ live \subseteq 0 .. n - 1
    BY PartitionFacts
  <1>2. \A i \in 1 .. k : End(hs[i]) < n - 1
    <2> SUFFICES ASSUME NEW i \in 1 .. k PROVE End(hs[i]) < n - 1
      OBVIOUS
    <2>1. hs # << >> /\ Last(hs) = hs[k] /\ k \in 1 .. k
      <3>1. hs # << >>
        BY <1>1
      <3>2. QED
        BY <1>1, <3>1 DEF Last
    <2>2. End(hs[k]) # n - 1 /\ End(hs[k]) < n /\ End(hs[k]) \in Nat
      BY <2>1, PartitionFacts
    <2>3. CASE i = k
      BY <2>2, <2>3
    <2>4. CASE i # k
      <3>1. End(hs[i]) < hs[k].index /\ hs[k].index < End(hs[k])
        BY <2>1, <2>4, PartitionFacts
      <3>2. End(hs[i]) \in Nat /\ hs[k].index \in Nat
        BY <2>1, PartitionFacts
      <3>3. QED
        BY <2>2, <3>1, <3>2
    <2>5. QED
      BY <2>3, <2>4
  <1>3. \A id \in 0 .. n - 1 : id \in live <=> \A i \in 1 .. k : ~Covers(hs[i], id)
    BY PartitionFacts
  <1>4. \A i, j \in 1 .. k : i < j => End(hs[i]) < hs[j].index
    BY PartitionFacts
  <1> HIDE DEF k
  <1>5. \A id \in 0 .. (n - 1) - 1 : id \in live \ {n - 1} <=> \A i \in 1 .. k : ~Covers(hs[i], id)
    BY <1>1, <1>3
  <1>6. live \ {n - 1} \subseteq 0 .. (n - 1) - 1
    BY <1>1
  <1>7. QED
    BY <1>1, <1>2, <1>4, <1>5, <1>6 DEF Partition

LEMMA HoleFacts ==
    ASSUME NEW m, NEW s
    PROVE  /\ Hole(m, s).index = m
           /\ Hole(m, s).size = s
           /\ End(Hole(m, s)) = m + s
           /\ m \in Nat /\ s \in Nat \ {0} => Hole(m, s) \in HoleType
  BY DEF Hole, End, HoleType

Covered(hs, x) == \E i \in 1 .. Len(hs) : Covers(hs[i], x)

\* Holes that are in order and cover one index more partition what is left.
LEMMA Regroup ==
    ASSUME NEW hs, NEW n \in Nat, NEW live, Partition(hs, n, live),
           NEW id \in live, NEW new \in Seq(HoleType),
           \A i, j \in 1 .. Len(new) : i < j => End(new[i]) < new[j].index,
           \A i \in 1 .. Len(new) : End(new[i]) < n,
           \A x \in 0 .. n - 1 : Covered(new, x) <=> x = id \/ Covered(hs, x)
    PROVE  Partition(new, n, live \ {id})
  <1>1. DOMAIN new = 1 .. Len(new)
    BY LenProperties
  <1>2. \A x \in 0 .. n - 1 : x \in live <=> ~Covered(hs, x)
    BY PartitionFacts DEF Covered
  <1>3. \A x \in 0 .. n - 1 : x \in live \ {id} <=> \A i \in 1 .. Len(new) : ~Covers(new[i], x)
    BY <1>2 DEF Covered
  <1>4. live \ {id} \subseteq 0 .. n - 1
    BY PartitionFacts
  <1>5. QED
    BY <1>1, <1>3, <1>4 DEF Partition

\* A live index lies outside every hole, and above one that does not decide.
LEMMA LiveOutside ==
    ASSUME NEW hs, NEW n \in Nat, NEW live, Partition(hs, n, live),
           NEW id \in live, NEW i \in 1 .. Len(hs)
    PROVE  /\ id \in Nat
           /\ id < hs[i].index \/ End(hs[i]) <= id
           /\ ~Decides(hs[i], id) => End(hs[i]) < id
  <1>1. id \in 0 .. n - 1 /\ hs[i].index \in Nat /\ End(hs[i]) \in Nat
    BY PartitionFacts
  <1>2. ~Covers(hs[i], id)
    BY <1>1, PartitionFacts
  <1>3. id < hs[i].index \/ End(hs[i]) <= id
    BY <1>1, <1>2 DEF Covers
  <1>4. QED
    BY <1>1, <1>3 DEF Decides, Extends, Before

\* Taking one from index 0 wraps to a value no index of the array has.
LEMMA WrapMatchesNoIndex ==
    ASSUME NEW h \in HoleType, h.index < IndexValues,
           NEW id \in Nat, id < IndexValues - 1
    PROVE  Precedes(h, id) <=> h.index = id + 1
  <1>1. h.index \in Nat /\ IndexValues \in Nat \ {0}
    BY LengthAssumption DEF HoleType
  <1>2. CASE h.index = 0
    <2>1. (0 - 1) % IndexValues = IndexValues - 1
      BY <1>1
    <2>2. QED
      BY <1>1, <1>2, <2>1 DEF Precedes, MinusOne
  <1>3. CASE h.index # 0
    <2>1. (h.index - 1) % IndexValues = h.index - 1
      BY <1>1, <1>3
    <2>2. QED
      BY <1>1, <1>3, <2>1 DEF Precedes, MinusOne
  <1>4. QED
    BY <1>2, <1>3

\* A hole that grows at either end without touching its neighbours.
LEMMA GrowLemma ==
    ASSUME NEW hs, NEW n \in Nat, NEW live, Partition(hs, n, live),
           NEW id \in live, id # n - 1, NEW i \in 1 .. Len(hs), NEW h \in HoleType,
           \/ h = Hole(hs[i].index, hs[i].size + 1) /\ End(hs[i]) = id
           \/ h = Hole(id, hs[i].size + 1) /\ hs[i].index = id + 1,
           \A j \in 1 .. i - 1 : End(hs[j]) < h.index,
           i < Len(hs) => End(h) < hs[i + 1].index
    PROVE  Partition([hs EXCEPT ![i] = h], n, live \ {id})
  <1> DEFINE k == Len(hs)
             new == [hs EXCEPT ![i] = h]
  <1>1. /\ hs \in Seq(HoleType)
        /\ k \in Nat
        /\ id \in 0 .. n - 1
        /\ \A j \in 1 .. k : /\ hs[j].index \in Nat
                             /\ hs[j].size \in Nat \ {0}
                             /\ End(hs[j]) \in Nat
                             /\ hs[j].index < End(hs[j])
                             /\ End(hs[j]) < n
    BY PartitionFacts
  <1>2. \A a, b \in 1 .. k : a < b => End(hs[a]) < hs[b].index
    BY PartitionFacts
  <1>3. /\ new \in Seq(HoleType)
        /\ Len(new) = k
        /\ \A j \in 1 .. k : new[j] = IF j = i THEN h ELSE hs[j]
    BY <1>1, ExceptSeq
  <1>4. /\ h.index \in Nat
        /\ End(h) \in Nat
        /\ \A x \in 0 .. n - 1 : Covers(h, x) <=> x = id \/ Covers(hs[i], x)
        /\ End(h) < n
    <2> DEFINE o == hs[i]
    <2>1. /\ o.index \in Nat /\ o.size \in Nat /\ End(o) = o.index + o.size /\ End(o) < n
          /\ id \in 0 .. n - 1
      BY <1>1 DEF End
    <2>2. CASE h = Hole(o.index, o.size + 1) /\ End(o) = id
      <3>1. h.index = o.index /\ End(h) = o.index + (o.size + 1)
        BY <2>2, HoleFacts
      <3>2. o.index + (o.size + 1) = id + 1 /\ End(o) = id
        BY <2>1, <2>2
      <3>3. /\ h.index \in Nat /\ End(h) \in Nat
            /\ h.index = o.index /\ End(h) = End(o) + 1
        BY <2>1, <3>1, <3>2
      <3> HIDE DEF o
      <3>4. \A x \in 0 .. n - 1 : Covers(h, x) <=> x = id \/ Covers(o, x)
        BY <2>1, <3>2, <3>3 DEF Covers
      <3>5. End(h) < n
        BY <2>1, <3>2, <3>3, <1>1
      <3>6. QED
        BY <3>3, <3>4, <3>5 DEF o
    <2>3. CASE h = Hole(id, o.size + 1) /\ o.index = id + 1
      <3>1. h.index = id /\ End(h) = id + (o.size + 1)
        BY <2>3, HoleFacts
      <3>2. h.index = id /\ End(h) = End(o) /\ o.index = id + 1
        BY <2>1, <2>3, <3>1
      <3> HIDE DEF o
      <3>3. \A x \in 0 .. n - 1 : Covers(h, x) <=> x = id \/ Covers(o, x)
        BY <2>1, <3>2 DEF Covers
      <3>4. QED
        BY <2>1, <3>2, <3>3 DEF o
    <2>4. QED
      BY <2>2, <2>3
  <1> HIDE DEF k, new
  <1>5. \A j \in i + 1 .. k : End(h) < hs[j].index
    <2> SUFFICES ASSUME NEW j \in i + 1 .. k PROVE End(h) < hs[j].index
      OBVIOUS
    <2>1. i + 1 \in 1 .. k /\ j \in 1 .. k /\ i < k
      BY <1>1
    <2>2. End(h) < hs[i + 1].index
      BY <2>1 DEF k
    <2>3. CASE j = i + 1
      BY <2>2, <2>3
    <2>4. CASE j # i + 1
      <3>1. End(hs[i + 1]) < hs[j].index /\ hs[i + 1].index < End(hs[i + 1])
        BY <1>1, <1>2, <2>1, <2>4
      <3>2. hs[i + 1].index \in Nat /\ End(hs[i + 1]) \in Nat /\ hs[j].index \in Nat
        BY <1>1, <2>1
      <3>3. QED
        BY <1>4, <2>2, <3>1, <3>2
    <2>5. QED
      BY <2>3, <2>4
  <1>6. ASSUME NEW a \in 1 .. k, NEW b \in 1 .. k, a < b
        PROVE  End(new[a]) < new[b].index
    <2>1. CASE a = i
      BY <1>3, <1>5, <1>6, <2>1
    <2>2. CASE b = i
      BY <1>3, <1>6, <2>2
    <2>3. CASE a # i /\ b # i
      BY <1>2, <1>3, <1>6, <2>3
    <2>4. QED
      BY <2>1, <2>2, <2>3
  <1>7. \A a \in 1 .. k : End(new[a]) < n
    BY <1>1, <1>3, <1>4
  <1>8. ASSUME NEW x \in 0 .. n - 1
        PROVE  Covered(new, x) <=> x = id \/ Covered(hs, x)
    <2>1. Covered(new, x) <=> Covers(h, x) \/ \E j \in 1 .. k : j # i /\ Covers(hs[j], x)
      BY <1>3 DEF Covered, k
    <2>2. Covered(hs, x) <=> Covers(hs[i], x) \/ \E j \in 1 .. k : j # i /\ Covers(hs[j], x)
      BY DEF Covered, k
    <2>3. QED
      BY <1>4, <2>1, <2>2
  <1>9. Partition(new, n, live \ {id})
    BY <1>3, <1>6, <1>7, <1>8, Regroup
  <1>10. QED
    BY <1>9 DEF new

\* Two holes that id, and nothing else, keeps apart become one.
LEMMA StitchLemma ==
    ASSUME NEW hs, NEW n \in Nat, NEW live, Partition(hs, n, live),
           NEW id \in live, id # n - 1, NEW i \in 1 .. Len(hs), i < Len(hs),
           End(hs[i]) = id, hs[i + 1].index = id + 1
    PROVE  Partition(RemoveAt([hs EXCEPT ![i] = Hole(hs[i].index, hs[i].size + 1 + hs[i + 1].size)], i + 1),
                     n, live \ {id})
  <1> DEFINE k == Len(hs)
             h == Hole(hs[i].index, hs[i].size + 1 + hs[i + 1].size)
             mid == [hs EXCEPT ![i] = h]
             new == RemoveAt(mid, i + 1)
  <1>1. /\ hs \in Seq(HoleType)
        /\ k \in Nat
        /\ id \in 0 .. n - 1
        /\ \A j \in 1 .. k : /\ hs[j].index \in Nat
                             /\ hs[j].size \in Nat \ {0}
                             /\ End(hs[j]) \in Nat
                             /\ hs[j].index < End(hs[j])
                             /\ End(hs[j]) < n
    BY PartitionFacts
  <1>2. \A a, b \in 1 .. k : a < b => End(hs[a]) < hs[b].index
    BY PartitionFacts
  <1>3. i \in 1 .. k /\ i + 1 \in 1 .. k
    BY <1>1
  <1>4. /\ h \in HoleType
        /\ h.index = hs[i].index
        /\ End(h) = End(hs[i + 1])
    <2>1. /\ hs[i].index \in Nat /\ hs[i].size \in Nat /\ hs[i + 1].size \in Nat
          /\ id \in Nat
          /\ hs[i].index + hs[i].size = id
          /\ End(hs[i + 1]) = id + 1 + hs[i + 1].size
      BY <1>1, <1>3 DEF End
    <2>2. hs[i].size + 1 + hs[i + 1].size \in Nat \ {0}
      BY <2>1
    <2>3. h.index = hs[i].index /\ End(h) = hs[i].index + (hs[i].size + 1 + hs[i + 1].size)
      BY HoleFacts
    <2>4. h \in HoleType
      BY <2>1, <2>2, HoleFacts
    <2> HIDE DEF h, mid, new
    <2>5. End(hs[i + 1]) = hs[i].index + (hs[i].size + 1 + hs[i + 1].size)
      <3> DEFINE u == hs[i].index
                 v == hs[i].size
                 w == hs[i + 1].size
                 e == End(hs[i + 1])
      <3>1. u \in Nat /\ v \in Nat /\ w \in Nat /\ id \in Nat /\ u + v = id /\ e = id + 1 + w
        BY <2>1
      <3> HIDE DEF u, v, w, e
      <3>2. e = u + (v + 1 + w)
        BY <3>1
      <3>3. QED
        BY <3>2 DEF u, v, w, e
    <2>6. QED
      BY <2>3, <2>4, <2>5
  <1>5. \A x \in 0 .. n - 1 : Covers(h, x) <=> x = id \/ Covers(hs[i], x) \/ Covers(hs[i + 1], x)
    BY <1>1, <1>3, <1>4 DEF Covers
  <1>6. /\ mid \in Seq(HoleType)
        /\ Len(mid) = k
        /\ \A j \in 1 .. k : mid[j] = IF j = i THEN h ELSE hs[j]
    BY <1>1, <1>4, ExceptSeq
  <1> HIDE DEF k, h, mid
  <1>7. /\ new \in Seq(HoleType)
        /\ Len(new) = k - 1
        /\ \A j \in 1 .. k - 1 : new[j] = IF j < i + 1 THEN mid[j] ELSE mid[j + 1]
    BY <1>3, <1>6, RemoveAtFacts
  <1>8. Len(new) = k - 1
    BY <1>7
  <1> HIDE DEF new
  <1>9. ASSUME NEW j \in 1 .. k - 1
        PROVE  new[j] = IF j < i THEN hs[j] ELSE IF j = i THEN h ELSE hs[j + 1]
    <2>1. j \in 1 .. k /\ j + 1 \in 1 .. k
      BY <1>1
    <2>2. CASE j <= i
      BY <1>3, <1>6, <1>7, <2>1, <2>2
    <2>3. CASE ~(j <= i)
      BY <1>3, <1>6, <1>7, <2>1, <2>3
    <2>4. QED
      BY <2>2, <2>3
  <1>10. ASSUME NEW a \in 1 .. k - 1, NEW b \in 1 .. k - 1, a < b
         PROVE  End(new[a]) < new[b].index
    <2>1. CASE b < i
      BY <1>1, <1>2, <1>3, <1>9, <1>10, <2>1
    <2>2. CASE b = i
      BY <1>1, <1>2, <1>3, <1>4, <1>9, <1>10, <2>2
    <2>3. CASE b > i
      <3>1. b + 1 \in 1 .. k /\ new[b] = hs[b + 1]
        BY <1>1, <1>3, <1>9, <2>3
      <3>2. CASE a < i
        <4>1. a \in 1 .. k /\ a < b + 1 /\ new[a] = hs[a]
          BY <1>1, <1>3, <1>9, <1>10, <3>2
        <4>2. QED
          BY <1>2, <3>1, <4>1
      <3>3. CASE a = i
        BY <1>1, <1>2, <1>3, <1>4, <1>9, <1>10, <3>1, <3>3
      <3>4. CASE a > i
        <4>1. a + 1 \in 1 .. k /\ a + 1 < b + 1 /\ new[a] = hs[a + 1]
          BY <1>1, <1>3, <1>9, <1>10, <3>4
        <4>2. QED
          BY <1>2, <3>1, <4>1
      <3>5. QED
        BY <1>3, <3>2, <3>3, <3>4
    <2>4. QED
      BY <1>3, <2>1, <2>2, <2>3
  <1>11. ASSUME NEW a \in 1 .. k - 1
         PROVE  End(new[a]) < n
    <2>1. a \in 1 .. k /\ a + 1 \in 1 .. k
      BY <1>1
    <2>2. End(hs[a]) < n /\ End(hs[a + 1]) < n /\ End(h) < n
      BY <1>1, <1>3, <1>4, <2>1
    <2>3. new[a] = hs[a] \/ new[a] = h \/ new[a] = hs[a + 1]
      BY <1>9
    <2>4. QED
      BY <2>2, <2>3
  <1>12. ASSUME NEW x \in 0 .. n - 1
         PROVE  Covered(new, x) <=> x = id \/ Covered(hs, x)
    <2>1. ASSUME Covered(new, x) PROVE x = id \/ Covered(hs, x)
      <3>1. PICK j \in 1 .. k - 1 : Covers(new[j], x)
        BY <1>8, <2>1 DEF Covered
      <3>2. j \in 1 .. k /\ j + 1 \in 1 .. k
        BY <1>1
      <3>3. QED
        BY <1>3, <1>5, <1>9, <3>1, <3>2 DEF Covered, k
    <2>2. ASSUME x = id \/ Covered(hs, x) PROVE Covered(new, x)
      <3>1. i \in 1 .. k - 1 /\ new[i] = h
        BY <1>1, <1>3, <1>9
      <3>2. CASE Covers(h, x)
        BY <1>8, <3>1, <3>2 DEF Covered
      <3>3. CASE ~Covers(h, x)
        <4>1. PICK j \in 1 .. k : Covers(hs[j], x)
          BY <1>5, <2>2, <3>3 DEF Covered, k
        <4>2. j # i /\ j # i + 1
          BY <1>5, <3>3, <4>1
        <4>3. CASE j < i
          BY <1>1, <1>3, <1>8, <1>9, <4>1, <4>3 DEF Covered
        <4>4. CASE j > i + 1
          <5>1. j - 1 \in 1 .. k - 1 /\ new[j - 1] = hs[j]
            BY <1>1, <1>3, <1>9, <4>4
          <5>2. QED
            BY <1>8, <4>1, <5>1 DEF Covered
        <4>5. QED
          BY <1>3, <4>2, <4>3, <4>4
      <3>4. QED
        BY <3>2, <3>3
    <2>3. QED
      BY <2>1, <2>2
  <1>13. Partition(new, n, live \ {id})
    BY <1>7, <1>8, <1>10, <1>11, <1>12, Regroup
  <1>14. QED
    BY <1>13 DEF new, mid, h

\* A hole of its own, before the one at i.
LEMMA InsertLemma ==
    ASSUME NEW hs, NEW n \in Nat, NEW live, Partition(hs, n, live),
           NEW id \in live, id # n - 1, NEW i \in 1 .. Len(hs),
           id + 1 < hs[i].index, \A j \in 1 .. i - 1 : End(hs[j]) < id
    PROVE  Partition(InsertAt(hs, i, Hole(id, 1)), n, live \ {id})
  <1> DEFINE k == Len(hs)
             h == Hole(id, 1)
             new == InsertAt(hs, i, h)
  <1>1. /\ hs \in Seq(HoleType)
        /\ k \in Nat
        /\ id \in 0 .. n - 1
        /\ \A j \in 1 .. k : /\ hs[j].index \in Nat
                             /\ End(hs[j]) \in Nat
                             /\ hs[j].index < End(hs[j])
                             /\ End(hs[j]) < n
    BY PartitionFacts
  <1>2. \A a, b \in 1 .. k : a < b => End(hs[a]) < hs[b].index
    BY PartitionFacts
  <1>3. /\ h \in HoleType
        /\ h.index = id
        /\ End(h) = id + 1
    BY <1>1, HoleFacts
  <1>4. i \in 1 .. k
    OBVIOUS
  <1>5. \A x \in 0 .. n - 1 : Covers(h, x) <=> x = id
    BY <1>1, <1>3 DEF Covers
  <1> HIDE DEF k, h
  <1>6. /\ new \in Seq(HoleType)
        /\ Len(new) = k + 1
        /\ \A j \in 1 .. k + 1 : new[j] = IF j < i THEN hs[j] ELSE IF j = i THEN h ELSE hs[j - 1]
    BY <1>1, <1>3, InsertAtFacts DEF k
  <1> HIDE DEF new
  <1>7. \A j \in i .. k : id + 1 < hs[j].index
    <2> SUFFICES ASSUME NEW j \in i .. k PROVE id + 1 < hs[j].index
      OBVIOUS
    <2>1. j \in 1 .. k
      BY <1>1, <1>4
    <2>2. CASE j = i
      BY <2>2
    <2>3. CASE j # i
      <3>1. End(hs[i]) < hs[j].index /\ hs[i].index < End(hs[i])
        BY <1>1, <1>2, <1>4, <2>1, <2>3
      <3>2. QED
        BY <1>1, <1>4, <2>1, <3>1
    <2>4. QED
      BY <2>2, <2>3
  <1>8. ASSUME NEW a \in 1 .. k + 1, NEW b \in 1 .. k + 1, a < b
        PROVE  End(new[a]) < new[b].index
    <2>1. CASE b < i
      <3>1. a \in 1 .. k /\ b \in 1 .. k /\ new[a] = hs[a] /\ new[b] = hs[b]
        BY <1>1, <1>4, <1>6, <1>8, <2>1
      <3>2. QED
        BY <1>2, <1>8, <3>1
    <2>2. CASE b = i
      <3>1. a \in 1 .. i - 1 /\ new[a] = hs[a] /\ new[b] = h
        BY <1>1, <1>4, <1>6, <1>8, <2>2
      <3>2. QED
        BY <1>3, <3>1
    <2>3. CASE b > i
      <3>1. b - 1 \in i .. k /\ b - 1 \in 1 .. k /\ new[b] = hs[b - 1]
        BY <1>1, <1>4, <1>6, <2>3
      <3>2. CASE a < i
        <4>1. a \in 1 .. k /\ a < b - 1 /\ new[a] = hs[a]
          BY <1>1, <1>4, <1>6, <2>3, <3>2
        <4>2. QED
          BY <1>2, <3>1, <4>1
      <3>3. CASE a = i
        BY <1>3, <1>6, <1>7, <3>1, <3>3
      <3>4. CASE a > i
        <4>1. a - 1 \in 1 .. k /\ a - 1 < b - 1 /\ new[a] = hs[a - 1]
          BY <1>1, <1>4, <1>6, <1>8, <3>4
        <4>2. QED
          BY <1>2, <3>1, <4>1
      <3>5. QED
        BY <1>4, <3>2, <3>3, <3>4
    <2>4. QED
      BY <1>4, <2>1, <2>2, <2>3
  <1>9. ASSUME NEW a \in 1 .. k + 1
        PROVE  End(new[a]) < n
    <2>1. CASE a = i
      BY <1>1, <1>3, <1>6, <2>1
    <2>2. CASE a < i
      <3>1. a \in 1 .. k /\ new[a] = hs[a]
        BY <1>1, <1>4, <1>6, <2>2
      <3>2. QED
        BY <1>1, <3>1
    <2>3. CASE a > i
      <3>1. a - 1 \in 1 .. k /\ ~(a < i) /\ a # i
        BY <1>1, <1>4, <2>3
      <3>2. new[a] = hs[a - 1]
        BY <1>6, <3>1
      <3>3. QED
        BY <1>1, <3>1, <3>2
    <2>4. QED
      BY <1>4, <2>1, <2>2, <2>3
  <1>10. ASSUME NEW x \in 0 .. n - 1
         PROVE  Covered(new, x) <=> x = id \/ Covered(hs, x)
    <2>1. ASSUME Covered(new, x) PROVE x = id \/ Covered(hs, x)
      <3>1. PICK j \in 1 .. k + 1 : Covers(new[j], x)
        BY <1>6, <2>1 DEF Covered
      <3>2. CASE j = i
        BY <1>5, <1>6, <3>1, <3>2
      <3>3. CASE j < i
        <4>1. j \in 1 .. k /\ new[j] = hs[j]
          BY <1>1, <1>4, <1>6, <3>3
        <4>2. QED
          BY <3>1, <4>1 DEF Covered, k
      <3>4. CASE j > i
        <4>1. j - 1 \in 1 .. k /\ new[j] = hs[j - 1]
          BY <1>1, <1>4, <1>6, <3>4
        <4>2. QED
          BY <3>1, <4>1 DEF Covered, k
      <3>5. QED
        BY <1>4, <3>2, <3>3, <3>4
    <2>2. ASSUME x = id \/ Covered(hs, x) PROVE Covered(new, x)
      <3>1. CASE x = id
        <4>1. i \in 1 .. k + 1 /\ new[i] = h
          BY <1>1, <1>4, <1>6
        <4>2. QED
          BY <1>5, <1>6, <3>1, <4>1 DEF Covered
      <3>2. CASE Covered(hs, x)
        <4>1. PICK j \in 1 .. k : Covers(hs[j], x)
          BY <3>2 DEF Covered, k
        <4>2. CASE j < i
          <5>1. j \in 1 .. k + 1 /\ new[j] = hs[j]
            BY <1>1, <1>6, <4>2
          <5>2. QED
            BY <1>6, <4>1, <5>1 DEF Covered
        <4>3. CASE ~(j < i)
          <5>1. j + 1 \in 1 .. k + 1 /\ new[j + 1] = hs[j]
            BY <1>1, <1>4, <1>6, <4>3
          <5>2. QED
            BY <1>6, <4>1, <5>1 DEF Covered
        <4>4. QED
          BY <4>2, <4>3
      <3>3. QED
        BY <2>2, <3>1, <3>2
    <2>3. QED
      BY <2>1, <2>2
  <1>11. Partition(new, n, live \ {id})
    BY <1>6, <1>8, <1>9, <1>10, Regroup
  <1>12. QED
    BY <1>11 DEF new, h

\* A hole of its own, behind all others.
LEMMA AppendLemma ==
    ASSUME NEW hs, NEW n \in Nat, NEW live, Partition(hs, n, live),
           NEW id \in live, id # n - 1, \A j \in 1 .. Len(hs) : End(hs[j]) < id
    PROVE  Partition(Append(hs, Hole(id, 1)), n, live \ {id})
  <1> DEFINE k == Len(hs)
             h == Hole(id, 1)
             new == Append(hs, h)
  <1>1. /\ hs \in Seq(HoleType)
        /\ k \in Nat
        /\ id \in 0 .. n - 1
        /\ \A j \in 1 .. k : End(hs[j]) < n
    BY PartitionFacts
  <1>2. \A a, b \in 1 .. k : a < b => End(hs[a]) < hs[b].index
    BY PartitionFacts
  <1>3. /\ h \in HoleType
        /\ h.index = id
        /\ End(h) = id + 1
    BY <1>1, HoleFacts
  <1>4. \A x \in 0 .. n - 1 : Covers(h, x) <=> x = id
    BY <1>1, <1>3 DEF Covers
  <1>5. \A j \in 1 .. k : End(hs[j]) < id
    OBVIOUS
  <1> HIDE DEF h
  <1>6. /\ new \in Seq(HoleType)
        /\ Len(new) = k + 1
        /\ \A j \in 1 .. k : new[j] = hs[j]
        /\ new[k + 1] = h
    BY <1>1, <1>3, AppendProperties
  <1> HIDE DEF k, new
  <1>7. ASSUME NEW a \in 1 .. k + 1, NEW b \in 1 .. k + 1, a < b
        PROVE  End(new[a]) < new[b].index
    <2>1. a \in 1 .. k
      BY <1>1, <1>7
    <2>2. CASE b = k + 1
      BY <1>3, <1>5, <1>6, <2>1, <2>2
    <2>3. CASE b # k + 1
      <3>1. b \in 1 .. k
        BY <1>1, <2>3
      <3>2. QED
        BY <1>2, <1>6, <1>7, <2>1, <3>1
    <2>4. QED
      BY <2>2, <2>3
  <1>8. \A a \in 1 .. k + 1 : a \in 1 .. k \/ a = k + 1
    BY <1>1
  <1>9. \A a \in 1 .. k + 1 : End(new[a]) < n
    BY <1>1, <1>3, <1>6, <1>8
  <1>10. \A a \in 1 .. k : a \in 1 .. k + 1
    BY <1>1
  <1>11. k + 1 \in 1 .. k + 1
    BY <1>1
  <1>12. ASSUME NEW x \in 0 .. n - 1
         PROVE  Covered(new, x) <=> x = id \/ Covered(hs, x)
    <2>1. Covered(new, x) <=> \E j \in 1 .. k + 1 : Covers(new[j], x)
      BY <1>6 DEF Covered
    <2>2. Covered(hs, x) <=> \E j \in 1 .. k : Covers(hs[j], x)
      BY DEF Covered, k
    <2>3. QED
      BY <1>4, <1>6, <1>8, <1>10, <1>11, <2>1, <2>2
  <1>13. Partition(new, n, live \ {id})
    BY <1>6, <1>7, <1>9, <1>12, Regroup
  <1>14. QED
    BY <1>13 DEF new, h

(***************************************************************************)
(* The invariant.                                                          *)
(***************************************************************************)
LEMMA LengthFacts ==
    ASSUME IInv
    PROVE  /\ Length \in Nat
           /\ Length <= MaxLength
           /\ MaxLength \in Nat
           /\ DOMAIN held \subseteq 0 .. Length - 1
           /\ \A id \in 0 .. Length - 1 : At(id) \in Element
  <1>1. Length \in Nat /\ \A i \in 1 .. Length : data[i] \in Element
    BY LenProperties, ElementOfSeq DEF IInv, Length
  <1>2. \A id \in 0 .. Length - 1 : id + 1 \in 1 .. Length
    BY <1>1
  <1>3. QED
    BY <1>1, <1>2, LengthAssumption DEF IInv, Partition, At

LEMMA InitInv == Init => IInv
  <1> SUFFICES ASSUME Init PROVE IInv
    OBVIOUS
  <1>1. data \in Seq(Element) /\ Len(data) = 0 /\ holes \in Seq(HoleType) /\ Len(holes) = 0
    BY EmptySeq DEF Init
  <1>2. DOMAIN holes = {}
    BY DEF Init
  <1>3. DOMAIN held = {}
    BY DEF Init
  <1>4. Partition(holes, 0, {})
    BY <1>1, <1>2 DEF Partition
  <1>5. QED
    BY <1>1, <1>3, <1>4, LengthAssumption DEF IInv, Length

LEMMA AddInv ==
    ASSUME IInv, NEW e \in Element, AddElement(e)
    PROVE  IInv'
  <1>1. CASE FillHole(e)
    <2> DEFINE id == Last(holes).index
    <2>1. /\ Length \in Nat
          /\ Partition(holes, Length, DOMAIN held)
          /\ holes # << >>
          /\ data \in Seq(Element)
      BY <1>1, LengthFacts DEF IInv, FillHole
    <2>2. /\ id \in 0 .. Length - 1
          /\ id \notin DOMAIN held
          /\ Partition(Filled(holes), Length, DOMAIN held \union {id})
      BY <2>1, FillLemma
    <2>3. holes' = Filled(holes) /\ data' = [data EXCEPT ![id + 1] = e]
      BY <1>1 DEF FillHole, Filled
    <2>4. held' = [k \in DOMAIN held \union {id} |-> IF k = id THEN e ELSE held[k]]
      BY <1>1 DEF FillHole, Keeps
    <2> HIDE DEF id
    <2>5. id + 1 \in 1 .. Len(data)
      BY <2>1, <2>2 DEF Length
    <2>6. /\ data' \in Seq(Element)
          /\ Len(data') = Len(data)
          /\ \A j \in 1 .. Len(data) : data'[j] = IF j = id + 1 THEN e ELSE data[j]
      BY <2>1, <2>3, <2>5, ExceptSeq
    <2>7. ASSUME NEW k \in DOMAIN held' PROVE held'[k] \in Element /\ At(k)' = held'[k]
      <3>1. k \in 0 .. Length - 1
        BY <2>1, <2>2, <2>4, LengthFacts
      <3>2. k + 1 \in 1 .. Len(data) /\ (k + 1 = id + 1 <=> k = id)
        BY <2>1, <2>2, <3>1 DEF Length
      <3>3. QED
        BY <2>4, <2>6, <3>2 DEF IInv, At
    <2>8. Partition(holes', Length', DOMAIN held')
      BY <2>2, <2>3, <2>4, <2>6 DEF Length
    <2>9. QED
      BY <2>6, <2>7, <2>8, LengthFacts DEF IInv, Length
  <1>2. CASE AddLast(e)
    <2> DEFINE n == Length
    <2>1. /\ n \in Nat
          /\ n < MaxLength
          /\ MaxLength \in Nat
          /\ data \in Seq(Element)
          /\ holes = << >>
          /\ holes' = holes
          /\ data' = Append(data, e)
          /\ held' = [k \in DOMAIN held \union {n} |-> IF k = n THEN e ELSE held[k]]
      BY <1>2, LengthFacts DEF IInv, AddLast, Keeps
    <2>2. /\ data' \in Seq(Element)
          /\ Len(data') = n + 1
          /\ \A j \in 1 .. n : data'[j] = data[j]
          /\ data'[n + 1] = e
      BY <2>1, AppendProperties DEF Length
    <2>3. DOMAIN held \subseteq 0 .. n - 1 /\ DOMAIN held' = DOMAIN held \union {n}
      BY <2>1, LengthFacts
    <2> HIDE DEF n
    <2>4. ASSUME NEW k \in DOMAIN held' PROVE held'[k] \in Element /\ At(k)' = held'[k]
      <3>1. CASE k = n
        BY <2>1, <2>2, <2>3, <3>1 DEF At
      <3>2. CASE k # n
        <4>1. k \in DOMAIN held /\ k + 1 \in 1 .. n
          BY <2>1, <2>3, <3>2
        <4>2. QED
          BY <2>1, <2>2, <3>2, <4>1 DEF IInv, At
      <3>3. QED
        BY <3>1, <3>2
    <2>5. DOMAIN holes = {} /\ holes \in Seq(HoleType)
      BY <2>1, EmptySeq
    <2>6. \A id \in 0 .. n - 1 : id \in DOMAIN held
      BY <2>5 DEF IInv, Partition, n
    <2>7. \A id \in 0 .. (n + 1) - 1 : id \in DOMAIN held'
      BY <2>1, <2>3, <2>6
    <2>8. DOMAIN held' \subseteq 0 .. (n + 1) - 1
      BY <2>1, <2>3
    <2>9. Partition(holes', Length', DOMAIN held')
      BY <2>1, <2>2, <2>5, <2>7, <2>8 DEF Partition, Length
    <2>10. (Length <= MaxLength)'
      BY <2>1, <2>2 DEF Length
    <2>11. QED
      BY <2>2, <2>4, <2>9, <2>10 DEF IInv
  <1>3. QED
    BY <1>1, <1>2 DEF AddElement

LEMMA RemoveLastInv ==
    ASSUME IInv, NEW id \in DOMAIN held, RemoveLast(id)
    PROVE  IInv'
  <1> DEFINE n == Length
             kept == DOMAIN held \ {id}
             trims == holes # << >> /\ End(Last(holes)) = n - 1
  <1>1. /\ n \in Nat
        /\ n <= MaxLength
        /\ MaxLength \in Nat
        /\ n = Len(data)
        /\ data \in Seq(Element)
        /\ id = n - 1
        /\ n - 1 \in DOMAIN held
        /\ DOMAIN held \subseteq 0 .. n - 1
        /\ Partition(holes, n, DOMAIN held)
    BY LengthFacts DEF IInv, RemoveLast, Length
  <1>2. held' = [k \in kept |-> held[k]]
    BY DEF RemoveLast, GivesBack
  <1>3. \A k \in kept : held[k] \in Element /\ data[k + 1] = held[k]
    BY DEF IInv, At
  <1>4. ASSUME NEW m \in 0 .. n - 1, data' = SubSeq(data, 1, m), Partition(holes', m, kept)
        PROVE  IInv'
    <2>1. m \in 0 .. Len(data)
      BY <1>1
    <2>2. /\ data' \in Seq(Element)
          /\ Len(data') = m
          /\ \A j \in 1 .. m : data'[j] = data[j]
      BY <1>1, <1>4, <2>1, PrefixFacts
    <2>3. kept \subseteq 0 .. m - 1 /\ DOMAIN held' = kept
      BY <1>2, <1>4 DEF Partition
    <2> HIDE DEF kept, n
    <2>4. \A k \in kept : k + 1 \in 1 .. m
      BY <2>3
    <2>5. \A k \in DOMAIN held' : held'[k] \in Element /\ At(k)' = held'[k]
      BY <1>2, <1>3, <2>2, <2>3, <2>4 DEF At
    <2>6. m <= MaxLength
      BY <1>1
    <2>7. Partition(holes', Len(data'), DOMAIN held')
      BY <1>4, <2>2, <2>3
    <2>8. QED
      BY <2>2, <2>5, <2>6, <2>7 DEF IInv, Length
  <1>5. CASE trims
    <2> DEFINE m == Last(holes).index
    <2>1. data' = SubSeq(data, 1, m) /\ holes' = Front(holes)
      BY <1>5 DEF RemoveLast
    <2>2. m \in 0 .. n - 1 /\ Partition(Front(holes), m, DOMAIN held \ {n - 1})
      BY <1>1, <1>5, TrimLemma
    <2>3. QED
      BY <1>1, <1>4, <2>1, <2>2
  <1>6. CASE ~trims
    <2>1. data' = SubSeq(data, 1, n - 1) /\ holes' = holes
      BY <1>6 DEF RemoveLast, Front, Length
    <2>2. Partition(holes, n - 1, DOMAIN held \ {n - 1})
      BY <1>1, <1>6, PopLemma
    <2>3. n - 1 \in 0 .. n - 1
      BY <1>1
    <2>4. QED
      BY <1>1, <1>4, <2>1, <2>2, <2>3
  <1>7. QED
    BY <1>5, <1>6

LEMMA RemoveInnerInv ==
    ASSUME IInv, NEW id \in DOMAIN held, RemoveInner(id)
    PROVE  IInv'
  <1> DEFINE n == Length
             kept == DOMAIN held \ {id}
  <1>1. /\ n \in Nat
        /\ Partition(holes, n, DOMAIN held)
        /\ holes \in Seq(HoleType)
        /\ DOMAIN holes = 1 .. Len(holes)
        /\ id # n - 1
        /\ data' = data
        /\ held' = [k \in kept |-> held[k]]
    BY LengthFacts, PartitionFacts DEF IInv, RemoveInner, GivesBack
  <1>2. ASSUME Partition(holes', n, kept)
        PROVE  IInv'
    BY <1>1, <1>2 DEF IInv, Length, At
  <1>3. ASSUME NEW i \in DOMAIN holes, FirstDecides(i, id),
               GrowHole(id, i) \/ GrowHoleDown(id, i) \/ NewHole(id, i)
        PROVE  Partition(holes', n, kept)
    <2>1. i \in 1 .. Len(holes)
      BY <1>1, <1>3
    <2>2. ASSUME NEW j \in 1 .. i - 1
          PROVE  End(holes[j]) < id
      <3>1. j \in 1 .. Len(holes) /\ ~Decides(holes[j], id)
        BY <1>3, <2>1, PartitionFacts, <1>1 DEF FirstDecides
      <3>2. QED
        BY <1>1, <3>1, LiveOutside
    <2>3. /\ id \in Nat
          /\ holes[i].index \in Nat
          /\ holes[i].size \in Nat \ {0}
          /\ End(holes[i]) \in Nat
          /\ End(holes[i]) = holes[i].index + holes[i].size
      BY <1>1, <2>1, PartitionFacts, LiveOutside DEF End
    <2>0. Precedes(holes[i], id) <=> holes[i].index = id + 1
      <3>1. n <= MaxLength /\ id \in 0 .. n - 1
        BY LengthFacts
      <3>2. holes[i] \in HoleType /\ holes[i].index < n
        <4>1. holes[i] \in HoleType
          BY <1>1, <2>1, PartitionFacts
        <4>2. holes[i].index < End(holes[i]) /\ End(holes[i]) < n
          BY <1>1, <2>1, PartitionFacts
        <4>3. QED
          BY <1>1, <2>3, <4>1, <4>2
      <3>3. holes[i].index < IndexValues /\ id < IndexValues - 1
        BY <1>1, <2>3, <3>1, <3>2, LengthAssumption
      <3>4. QED
        BY <2>3, <3>2, <3>3, WrapMatchesNoIndex
    <2>4. CASE GrowHole(id, i)
      <3> DEFINE longer == Hole(holes[i].index, holes[i].size + 1)
      <3>1. /\ longer \in HoleType
            /\ longer.index = holes[i].index
            /\ longer.size = holes[i].size + 1
            /\ End(longer) = id + 1
            /\ End(holes[i]) = id
        <4>1. End(holes[i]) = id
          BY <2>4 DEF GrowHole, Extends
        <4>2. End(longer) = holes[i].index + (holes[i].size + 1)
          BY HoleFacts
        <4>3. holes[i].size + 1 \in Nat \ {0}
          BY <2>3
        <4>4. QED
          BY <2>3, <4>1, <4>2, <4>3, HoleFacts
      <3>2. CASE i < Len(holes) /\ End(longer) = holes[i + 1].index
        <4>1. holes' = RemoveAt([holes EXCEPT ![i] =
                          Hole(holes[i].index, holes[i].size + 1 + holes[i + 1].size)], i + 1)
          BY <2>4, <3>1, <3>2 DEF GrowHole, Stitch
        <4>2. QED
          BY <1>1, <2>1, <3>1, <3>2, <4>1, StitchLemma
      <3>3. CASE ~(i < Len(holes) /\ End(longer) = holes[i + 1].index)
        <4>1. holes' = [holes EXCEPT ![i] = longer]
          BY <2>4, <3>3 DEF GrowHole, Stitch
        <4>2. \A j \in 1 .. i - 1 : End(holes[j]) < longer.index
          <5> SUFFICES ASSUME NEW j \in 1 .. i - 1 PROVE End(holes[j]) < longer.index
            OBVIOUS
          <5>1. j \in 1 .. Len(holes) /\ j < i
            BY <1>1, <2>1, PartitionFacts
          <5>2. QED
            BY <1>1, <2>1, <3>1, <5>1, PartitionFacts
        <4>3. i < Len(holes) => End(longer) < holes[i + 1].index
          <5> SUFFICES ASSUME i < Len(holes) PROVE End(longer) < holes[i + 1].index
            OBVIOUS
          <5>1. i + 1 \in 1 .. Len(holes) /\ i < i + 1
            BY <1>1, <2>1, PartitionFacts
          <5>2. End(holes[i]) < holes[i + 1].index /\ holes[i + 1].index \in Nat
            BY <1>1, <2>1, <5>1, PartitionFacts
          <5>3. QED
            BY <2>3, <3>1, <3>3, <5>2
        <4>4. QED
          BY <1>1, <2>1, <3>1, <4>1, <4>2, <4>3, GrowLemma
      <3>4. QED
        BY <3>2, <3>3
    <2>5. CASE GrowHoleDown(id, i)
      <3> DEFINE longer == Hole(id, holes[i].size + 1)
      <3>1. holes[i].index = id + 1 /\ holes' = [holes EXCEPT ![i] = longer]
        BY <2>0, <2>5 DEF GrowHoleDown
      <3>2. /\ longer \in HoleType
            /\ longer.index = id
            /\ End(longer) = End(holes[i])
        <4>1. holes[i].size + 1 \in Nat \ {0}
          BY <2>3
        <4>2. End(longer) = id + (holes[i].size + 1)
          BY HoleFacts
        <4>3. QED
          BY <2>3, <3>1, <4>1, <4>2, HoleFacts
      <3>3. \A j \in 1 .. i - 1 : End(holes[j]) < longer.index
        BY <2>2, <3>2
      <3>4. i < Len(holes) => End(longer) < holes[i + 1].index
        <4> SUFFICES ASSUME i < Len(holes) PROVE End(longer) < holes[i + 1].index
          OBVIOUS
        <4>1. i + 1 \in 1 .. Len(holes) /\ i < i + 1
          BY <1>1, <2>1, PartitionFacts
        <4>2. QED
          BY <1>1, <2>1, <3>2, <4>1, PartitionFacts
      <3>5. QED
        BY <1>1, <2>1, <3>1, <3>2, <3>3, <3>4, GrowLemma
    <2>6. CASE NewHole(id, i)
      <3>1. /\ holes' = InsertAt(holes, i, Hole(id, 1))
            /\ holes[i].index # id + 1
            /\ id < holes[i].index
        BY <1>3, <2>0, <2>6 DEF NewHole, FirstDecides, Decides, Extends, Before
      <3>2. id + 1 < holes[i].index
        BY <2>3, <3>1
      <3>3. QED
        BY <1>1, <2>1, <2>2, <3>1, <3>2, InsertLemma
    <2>7. QED
      BY <1>3, <2>4, <2>5, <2>6
  <1>4. ASSUME NewLastHole(id)
        PROVE  Partition(holes', n, kept)
    <2>1. \A j \in 1 .. Len(holes) : End(holes[j]) < id
      BY <1>1, <1>4, LiveOutside DEF NewLastHole
    <2>2. holes' = Append(holes, Hole(id, 1))
      BY <1>4 DEF NewLastHole
    <2>3. QED
      BY <1>1, <2>1, <2>2, AppendLemma
  <1>5. QED
    BY <1>2, <1>3, <1>4 DEF RemoveInner

LEMMA NextInv == IInv /\ [Next]_vars => IInv'
  <1> SUFFICES ASSUME IInv, [Next]_vars PROVE IInv'
    OBVIOUS
  <1>1. ASSUME NEW e \in Element, AddElement(e) PROVE IInv'
    BY <1>1, AddInv
  <1>2. ASSUME NEW id \in DOMAIN held, RemoveElement(id) PROVE IInv'
    BY <1>2, RemoveLastInv, RemoveInnerInv DEF RemoveElement
  <1>3. ASSUME NEW id \in DOMAIN held, GetElement(id) PROVE IInv'
    BY <1>3 DEF GetElement, IInv, Length, At
  <1>4. CASE UNCHANGED vars
    BY <1>4 DEF vars, IInv, Length, At
  <1>5. QED
    BY <1>1, <1>2, <1>3, <1>4 DEF Next

THEOREM Invariance == Spec => []IInv
  <1>1. QED
    BY InitInv, NextInv, PTL DEF Spec

\* The type of the array holds in every behaviour (StableArray.zig 11-20).
THEOREM TypeCorrect == Spec => []TypeOK
  <1>1. IInv => TypeOK
    BY LengthFacts DEF IInv, Partition, TypeOK
  <1>2. QED
    BY <1>1, Invariance, PTL

\* Whatever the sequence of add and remove, the holes stay ordered and apart
\* from each other and from the end of the array (line 19).
THEOREM HolesOrderedCorrect == Spec => []HolesOrdered
  <1>1. IInv => HolesOrdered
    BY DEF IInv, Partition, HolesOrdered
  <1>2. QED
    BY <1>1, Invariance, PTL

\* The holes are exactly the indices nobody holds.
THEOREM FreeIndicesCorrect == Spec => []HolesAreTheFreeIndices
  <1>1. IInv => HolesAreTheFreeIndices
    BY DEF IInv, Partition, HolesOrdered, HolesAreTheFreeIndices
  <1>2. QED
    BY <1>1, Invariance, PTL

\* An element stays at its index, unchanged, until it is removed (line 16).
THEOREM ElementsStayCorrect == Spec => []ElementsStay
  <1>1. IInv => ElementsStay
    <2> SUFFICES ASSUME IInv, NEW id \in DOMAIN held PROVE id < Length /\ At(id) = held[id]
      BY DEF ElementsStay
    <2>1. Length \in Nat /\ id \in 0 .. Length - 1
      BY LengthFacts
    <2>2. QED
      BY <2>1 DEF IInv
  <1>2. QED
    BY <1>1, Invariance, PTL

NoTail == Length > 0 => (Length - 1) \in DOMAIN held

\* The array ends in a live element: remove gives the place at the end back,
\* with every hole below it, so the array is never longer than its youngest
\* element needs.
THEOREM NoTailCorrect == Spec => []NoTail
  <1>1. IInv => NoTail
    <2> SUFFICES ASSUME IInv, Length > 0 PROVE Length - 1 \in DOMAIN held
      BY DEF NoTail
    <2>1. Length \in Nat /\ Partition(holes, Length, DOMAIN held) /\ Length - 1 \in 0 .. Length - 1
      BY LengthFacts DEF IInv
    <2>2. \A i \in 1 .. Len(holes) : ~Covers(holes[i], Length - 1)
      <3> SUFFICES ASSUME NEW i \in 1 .. Len(holes) PROVE ~Covers(holes[i], Length - 1)
        OBVIOUS
      <3>1. End(holes[i]) < Length /\ End(holes[i]) \in Nat
        BY <2>1, PartitionFacts
      <3>2. QED
        BY <2>1, <3>1 DEF Covers
    <2>3. QED
      BY <2>1, <2>2, PartitionFacts
  <1>2. QED
    BY <1>1, Invariance, PTL

(***************************************************************************)
(* Refinement.                                                             *)
(***************************************************************************)
LEMMA InitRefines == Init => Abstract!Init
  BY DEF Init, Abstract!Init

LEMMA StepRefines == IInv /\ [Next]_vars => [Abstract!Next]_Abstract!vars
  <1> SUFFICES ASSUME IInv, [Next]_vars PROVE [Abstract!Next]_Abstract!vars
    OBVIOUS
  <1>1. ASSUME NEW e \in Element, FillHole(e) PROVE Abstract!Next
    <2>1. Last(holes).index \in (0 .. MaxLength - 1) \ DOMAIN held
      <3>1. /\ holes # << >>
            /\ Partition(holes, Length, DOMAIN held)
            /\ Length \in Nat /\ Length <= MaxLength /\ MaxLength \in Nat
        BY <1>1, LengthFacts DEF FillHole, IInv
      <3>2. Last(holes).index \in 0 .. Length - 1 /\ Last(holes).index \notin DOMAIN held
        BY <3>1, FillLemma
      <3>3. QED
        BY <3>1, <3>2
    <2>2. Keeps(Last(holes).index, e)
      BY <1>1 DEF FillHole
    <2>3. Abstract!Put(e)
      BY <2>1, <2>2 DEF Keeps, Abstract!Put
    <2>4. QED
      BY <2>3 DEF Abstract!Next
  <1>2. ASSUME NEW e \in Element, AddLast(e) PROVE Abstract!Next
    <2>1. Length \in (0 .. MaxLength - 1) \ DOMAIN held
      BY <1>2, LengthFacts DEF AddLast
    <2>2. Keeps(Length, e)
      BY <1>2 DEF AddLast
    <2>3. Abstract!Put(e)
      BY <2>1, <2>2 DEF Keeps, Abstract!Put
    <2>4. QED
      BY <2>3 DEF Abstract!Next
  <1>3. ASSUME NEW id \in DOMAIN held, RemoveElement(id) PROVE Abstract!Next
    <2>1. GivesBack(id)
      BY <1>3 DEF RemoveElement, RemoveLast, RemoveInner
    <2>2. At(id) = held[id]
      BY DEF IInv
    <2>3. Abstract!Take(id)
      BY <2>1, <2>2 DEF GivesBack, Abstract!Take
    <2>4. QED
      BY <2>3 DEF Abstract!Next
  <1>4. ASSUME NEW id \in DOMAIN held, GetElement(id) PROVE Abstract!Next
    <2>1. Abstract!Look(id)
      BY <1>4 DEF GetElement, Abstract!Look, IInv
    <2>2. QED
      BY <2>1 DEF Abstract!Next
  <1>5. CASE UNCHANGED vars
    BY <1>5 DEF vars, Abstract!vars
  <1>6. QED
    BY <1>1, <1>2, <1>3, <1>4, <1>5 DEF Next, AddElement

\* add, remove and get are the map from indices to elements their users rely
\* on, for every kind of element and every length.
THEOREM RefinesStableMap == Spec => ImplementsStableMap
  <1>1. QED
    BY InitRefines, StepRefines, Invariance, PTL DEF Spec, ImplementsStableMap, Abstract!Spec
=============================================================================
