------------------------ MODULE StagingUpload_proofs ------------------------
(***************************************************************************)
(* Proofs about StagingUpload, for any slots, models, lengths and          *)
(* failures.  The invariant follows an upload from its queue to its        *)
(* destination: where it is, which bytes wait for it and where, which      *)
(* lists the GPU has still to execute and what will be there when it does. *)
(* The sums, the bytes and the execution of a list are recursive           *)
(* functions; what is said of them is proved by induction on their length. *)
(***************************************************************************)
EXTENDS StagingUpload, WellFoundedInduction, FiniteSetTheorems, TLAPS

Write == [set : Set, imgIndex : Nat, bufIndex : Nat]

\* The info the write points to is the one queued with it.
Meant(w, images, bufs) ==
  \E m \in Model :
    \/ /\ w.set = <<m, "model">> /\ w.bufIndex = 0
       /\ w.imgIndex \in 1 .. Len(images) /\ images[w.imgIndex] = <<m, "texture">>
    \/ /\ w.set = <<m, "instance">>
       /\ w.bufIndex \in 1 .. Len(bufs) /\ bufs[w.bufIndex] = <<m, "matrix">>

Info == Model \X {"texture", "matrix"}

\* The two lists of infos and the queue of the writes that point into them.
QueuesInv ==
  /\ descriptorWrites \in Seq(Write)
  /\ descriptorImageWrites \in Seq(Info) /\ descriptorBufferWrites \in Seq(Info)
  /\ \A k \in 1 .. Len(descriptorWrites) :
       Meant(descriptorWrites[k], descriptorImageWrites, descriptorBufferWrites)

\* A slot is in flight once at most, and not while its list is being recorded.
SlotsInv ==
  /\ \A p, q \in DOMAIN inFlight : inFlight[p] = inFlight[q] => p = q
  /\ pc \in {"upload", "fill", "descriptors", "render", "end"} => imageIndex \notin Range(inFlight)
  /\ pc = "done" => inFlight = <<>>
  /\ pc \in {"upload", "fill"} => renderCmdLists[imageIndex] = <<>>

Copied(list, d) == \E i \in DOMAIN list : list[i].op = "copy" /\ list[i].to = d

\* A list that begins with n uploads: barrier, copies, one barrier per stage.
UploadsFirst(list, n) ==
  LET To(d) == \E i \in 2 .. n + 1 : list[i].to = d IN
  /\ n + 3 <= Len(list)
  /\ list[1].op = "pre" /\ list[1].of = {d \in Destination : To(d) /\ d[2] = "texture"}
  /\ \A i \in 2 .. n + 1 : list[i].op = "copy" /\ list[i].size = Length[list[i].to]
  /\ \A i, j \in 2 .. n + 1 : list[i].to = list[j].to => i = j
  /\ list[n + 2].op = "post" /\ list[n + 2].stage = "fragment"
  /\ list[n + 2].of = {d \in Destination : To(d) /\ FirstUse(d) = "fragment"}
  /\ list[n + 3].op = "post" /\ list[n + 3].stage = "vertex_input"
  /\ list[n + 3].of = {d \in Destination : To(d) /\ FirstUse(d) = "vertex_input"}

DrawsFrom(list, k) == \A i \in k .. Len(list) : list[i].op = "draw"

\* A list is nothing but draws, or uploads and draws behind them.
Shape(list) ==
  \/ DrawsFrom(list, 1)
  \/ \E n \in 1 .. Len(list) : UploadsFirst(list, n) /\ DrawsFrom(list, n + 4)

ListsInv ==
  /\ \A s \in Pending : Shape(renderCmdLists[s])
  /\ pc \in {"descriptors", "render"} =>
       \A i \in DOMAIN renderCmdLists[imageIndex] : renderCmdLists[imageIndex][i].op # "draw"

\* A slot and its staging buffer, which is its own, exists and has its size.
BuffersInv ==
  /\ \A s \in Slot : stagingBuffers[s] = 0 <=> stagingBufferSizes[s] = 0
  /\ \A s, t \in Slot : stagingBuffers[s] = stagingBuffers[t] /\ stagingBuffers[s] # 0 => s = t
  /\ \A s \in Slot : stagingBuffers[s] # 0 =>
       Len(memory[stagingBuffers[s]]) = stagingBufferSizes[s]
  /\ pc # "done" => \A s \in Slot \ broken : stagingBuffers[s] # 0 => stagingBuffers[s] \in live
  /\ \A b \in live : \E s \in Slot : stagingBuffers[s] = b
  /\ pc = "done" => live = {}
  /\ pc = "fill" => /\ Size(stageData) # 0
                    /\ Size(stageData) <= stagingBufferSizes[imageIndex]

\* Where an upload may be.
InQueue(d) == d \in Range(stageData)
Holds(s, d) == s \in Pending /\ Copied(renderCmdLists[s], d)
Recorded(d) == \E s \in Slot : Holds(s, d)
Arrived(d) == content[d] # <<>>

\* ... and that it is in one place, from the creation of its model on.
PlacesInv ==
  /\ \A i, j \in DOMAIN stageData : stageData[i] = stageData[j] => i = j
  /\ \A d \in Destination :
       /\ InQueue(d) => ~ Recorded(d) /\ ~ Arrived(d)
       /\ Recorded(d) => ~ Arrived(d)
       /\ InQueue(d) \/ Recorded(d) \/ Arrived(d) => d[1] \in attempted
       /\ pc # "done" /\ d[1] \in models => InQueue(d) \/ Recorded(d) \/ Arrived(d)
       /\ \A s, t \in Slot : Holds(s, d) /\ Holds(t, d) => s = t

\* What arrived is visible to the stage that uses it first.
LayoutsInv == \A d \in Destination : Arrived(d) => layout[d] = FirstUse(d)

\* A set is written, or will be by the next flush.
WriteDue(set) == sets[set] # <<>> \/ \E w \in Range(descriptorWrites) : w.set = set
ReadyInv ==
  /\ pc = "descriptors" => stageData = <<>>
  /\ pc = "render" => Queued \subseteq delayed
  /\ pc # "done" => /\ \A m \in models : WriteDue(<<m, "model">>)
                    /\ \A m \in instances : WriteDue(<<m, "instance">>)

\* Whatever the list draws is bound and there, but for what is late.
DrawsReady(list, there, late) ==
  \A i \in DOMAIN list : list[i].op = "draw" =>
    \A m \in list[i].of \ late :
       m \in list[i].bound /\ \A p \in Part : <<m, p>> \in there

\* What is there once the first p lists in flight are executed.
ThereAfter(p) ==
  {d \in Destination :
     Arrived(d) \/ \E q \in 1 .. p : Copied(renderCmdLists[inFlight[q]], d)}

DrawsInv ==
  /\ \A p \in DOMAIN inFlight :
       DrawsReady(renderCmdLists[inFlight[p]], ThereAfter(p), delayed)
  /\ pc = "end" => DrawsReady(renderCmdLists[imageIndex],
                              {d \in Destination : Arrived(d) \/ Recorded(d)}, delayed)

\* The copy finds the bytes of its destination.
Finds(c, bytes) ==
  /\ c.size = Length[c.to] /\ c.offset + c.size <= Len(bytes)
  /\ \A j \in 1 .. c.size : bytes[c.offset + j] = <<c.to, j>>

BytesInv ==
  broken = {} => \A s \in Pending : \A i \in DOMAIN renderCmdLists[s] :
    renderCmdLists[s][i].op = "copy" =>
      /\ renderCmdLists[s][i].from = stagingBuffers[s] /\ stagingBuffers[s] # 0
      /\ Finds(renderCmdLists[s][i], memory[stagingBuffers[s]])

\* The commands of a list, and the state of the GPU between two of them.
Stages == {"undefined", "transfer", "fragment", "vertex_input"}
Command ==
       [op : {"pre"}, of : SUBSET Destination]
  \cup [op : {"copy"}, to : Destination, from : Nat, offset : Nat, size : Nat]
  \cup [op : {"post"}, stage : {"fragment", "vertex_input"}, of : SUBSET Destination]
  \cup [op : {"draw"}, of : SUBSET Model, bound : SUBSET Model]

GpuState == [content : [Destination -> Seq(Byte)], layout : [Destination -> Stages],
             unready : SUBSET Model]

ListsTypeOK == renderCmdLists \in [Slot -> Seq(Command)]

IInv ==
  /\ TypeOK /\ ListsTypeOK /\ QueuesInv /\ SetsReferToTheirOwn
  /\ SlotsInv /\ ListsInv /\ BuffersInv /\ PlacesInv /\ LayoutsInv
  /\ ReadyInv /\ DrawsInv /\ BytesInv /\ DrawnIsReady /\ BytesArrive

----------------------------------------------------------------------------
(***************************************************************************)
(* Induction and recursion over the natural numbers.  The theorems of the  *)
(* library are about an operator, which the provers cannot instantiate;    *)
(* here a set takes its place, and a function that of the step of a recursion.*)
(***************************************************************************)

\* A set of numbers that is not empty has a least element, as < is well-founded.
LEMMA Least ==
    ASSUME NEW T, T \subseteq Nat, T # {}
    PROVE  \E x \in T : \A y \in T : x <= y
  <1> DEFINE R == OpToRel(<, Nat)
  <1>1. IsWellFoundedOn(R, Nat)
    BY NatLessThanWellFounded
  <1>2. \A x, y \in Nat : y < x => <<y, x>> \in R
    BY DEF OpToRel
  <1> HIDE DEF R
  <1>3. \E x \in T : \A y \in T : ~ (<<y, x>> \in R)
    BY <1>1, WFMin
  <1>4. \A x, y \in Nat : x <= y \/ y < x
    OBVIOUS
  <1>5. QED
    BY <1>2, <1>3, <1>4

\* Hence induction, over sets: the least counterexample has no predecessor.
LEMMA Induction ==
    ASSUME NEW T, 0 \in T, \A n \in Nat : n \in T => n + 1 \in T
    PROVE  Nat \subseteq T
  <1> DEFINE C == {n \in Nat : n \notin T}
  <1>1. SUFFICES ASSUME C # {} PROVE FALSE
    OBVIOUS
  <1>2. C \subseteq Nat
    OBVIOUS
  <1> HIDE DEF C
  <1>3. PICK x \in C : \A y \in C : x <= y
    BY <1>1, <1>2, Least
  <1>4. x \in Nat /\ x # 0
    BY <1>2, <1>3 DEF C
  <1>5. x - 1 \in Nat /\ x - 1 \notin C
    BY <1>2, <1>3, <1>4
  <1>6. x - 1 \in T
    BY <1>5 DEF C
  <1>7. QED
    BY <1>3, <1>4, <1>5, <1>6 DEF C

Solves(f, n, S, base, step) ==
  /\ f \in [0 .. n -> S] /\ f[0] = base
  /\ \A k \in 1 .. n : f[k] = step[<<k, f[k - 1]>>]

\* A recursion over the first numbers has a solution.
LEMMA Recursion ==
    ASSUME NEW S, NEW base \in S, NEW n \in Nat, NEW step \in [(1 .. n) \X S -> S]
    PROVE  \E f : Solves(f, n, S, base, step)
  <1> DEFINE T == {m \in Nat : m <= n => \E f : Solves(f, m, S, base, step)}
  <1>1. 0 \in T
    <2>1. Solves([k \in 0 .. 0 |-> base], 0, S, base, step)
      BY DEF Solves
    <2>2. QED
      BY <2>1
  <1>2. ASSUME NEW m \in Nat, m \in T PROVE m + 1 \in T
    <2>1. SUFFICES ASSUME m + 1 <= n PROVE \E f : Solves(f, m + 1, S, base, step)
      OBVIOUS
    <2>2. PICK f : Solves(f, m, S, base, step)
      BY <1>2, <2>1
    <2>3. f[m] \in S /\ step[<<m + 1, f[m]>>] \in S
      BY <2>1, <2>2 DEF Solves
    <2> DEFINE g == [k \in 0 .. m + 1 |-> IF k = m + 1 THEN step[<<m + 1, f[m]>>] ELSE f[k]]
    <2>4. g \in [0 .. m + 1 -> S] /\ g[0] = base
      BY <2>2, <2>3 DEF Solves
    <2>5. ASSUME NEW k \in 1 .. m + 1 PROVE g[k] = step[<<k, g[k - 1]>>]
      <3>1. CASE k = m + 1
        <4>1. k - 1 = m /\ m \in 0 .. m + 1 /\ m # m + 1
          BY <3>1
        <4>2. g[k] = step[<<m + 1, f[m]>>] /\ g[m] = f[m]
          BY <3>1, <4>1
        <4>3. QED
          BY <3>1, <4>1, <4>2
      <3>2. CASE k # m + 1
        <4>1. k \in 1 .. m /\ k - 1 \in 0 .. m /\ k - 1 # m + 1
          BY <3>2
        <4>2. g[k] = f[k] /\ g[k - 1] = f[k - 1]
          BY <4>1
        <4>3. QED
          BY <2>2, <4>1, <4>2 DEF Solves
      <3>3. QED
        BY <3>1, <3>2
    <2> HIDE DEF g
    <2>6. Solves(g, m + 1, S, base, step)
      BY <2>4, <2>5 DEF Solves
    <2>7. QED
      BY <2>6
  <1> HIDE DEF T
  <1>3. n \in T
    BY <1>1, <1>2, Induction
  <1>4. QED
    BY <1>3 DEF T

\* Induction over the first numbers.
LEMMA UpTo ==
    ASSUME NEW n \in Nat, NEW T, 0 \in T, \A k \in 1 .. n : k - 1 \in T => k \in T
    PROVE  0 .. n \subseteq T
  <1> DEFINE U == {k \in Nat : k <= n => k \in T}
  <1>1. 0 \in U
    OBVIOUS
  <1>2. ASSUME NEW k \in Nat, k \in U PROVE k + 1 \in U
    <2>1. SUFFICES ASSUME k + 1 <= n PROVE k + 1 \in T
      OBVIOUS
    <2>2. k + 1 \in 1 .. n /\ (k + 1) - 1 = k /\ k <= n
      BY <2>1
    <2>3. k \in T
      BY <1>2, <2>2
    <2>4. QED
      BY <2>2, <2>3
  <1> HIDE DEF U
  <1>3. Nat \subseteq U
    BY <1>1, <1>2, Induction
  <1>4. QED
    BY <1>3 DEF U

----------------------------------------------------------------------------
(***************************************************************************)
(* The operators on a queue: sums, sequences put behind another, and the   *)
(* bytes uploadMemory writes.                                              *)
(***************************************************************************)

\* The recursion of BytesUpTo.
LEMMA SumFacts ==
    ASSUME NEW s \in Seq(Destination)
    PROVE  /\ BytesUpTo(s)[0] = 0
           /\ \A k \in 0 .. Len(s) : BytesUpTo(s)[k] \in Nat
           /\ \A k \in 1 .. Len(s) : BytesUpTo(s)[k] = BytesUpTo(s)[k - 1] + Length[s[k]]
  <1> DEFINE n == Len(s)
             step == [p \in (1 .. n) \X Nat |-> p[2] + Length[s[p[1]]]]
             body(f) == [k \in 0 .. n |-> IF k = 0 THEN 0 ELSE f[k - 1] + Length[s[k]]]
             h == BytesUpTo(s)
  <1>1. n \in Nat /\ \A k \in 1 .. n : s[k] \in Destination /\ Length[s[k]] \in Nat
    BY UploadAssumption
  <1>2. step \in [(1 .. n) \X Nat -> Nat] /\ 0 \in Nat
    BY <1>1
  <1>3. \A k \in 1 .. n, x \in Nat : step[<<k, x>>] = x + Length[s[k]]
    OBVIOUS
  <1>4. \A k \in 1 .. n : k - 1 \in 0 .. n
    BY <1>1
  <1>5. h = CHOOSE g : g = body(g)
    BY DEF BytesUpTo
  <1> HIDE DEF step, n
  <1>6. PICK f : Solves(f, n, Nat, 0, step)
    BY <1>1, <1>2, Recursion
  <1>7. \A k \in 1 .. n : f[k] = f[k - 1] + Length[s[k]]
    BY <1>3, <1>4, <1>6 DEF Solves
  <1>8. f = body(f)
    BY <1>1, <1>6, <1>7 DEF Solves
  <1>9. h = body(h)
    BY <1>5, <1>8
  <1> HIDE DEF h
  <1>10. h[0] = 0 /\ \A k \in 1 .. n : h[k] = h[k - 1] + Length[s[k]]
    BY <1>1, <1>9
  <1> DEFINE T == {k \in Nat : h[k] \in Nat}
  <1>11. 0 \in T
    BY <1>10
  <1>12. ASSUME NEW k \in 1 .. n, k - 1 \in T PROVE k \in T
    <2>1. h[k] = h[k - 1] + Length[s[k]] /\ h[k - 1] \in Nat /\ Length[s[k]] \in Nat
      BY <1>1, <1>10, <1>12
    <2>2. h[k] \in Nat /\ k \in Nat
      BY <2>1
    <2>3. QED
      BY <2>2
  <1> HIDE DEF T
  <1>13. 0 .. n \subseteq T
    BY <1>1, <1>11, <1>12, UpTo
  <1>14. QED
    BY <1>10, <1>13 DEF h, n, T

\* Every upload has a byte at least.
LEMMA SumGrows ==
    ASSUME NEW s \in Seq(Destination), NEW k \in 0 .. Len(s), NEW i \in 0 .. Len(s), i < k
    PROVE  BytesUpTo(s)[i] < BytesUpTo(s)[k]
  <1> DEFINE n == Len(s)
             h == BytesUpTo(s)
             T == {m \in 0 .. n : \A j \in 0 .. n : j < m => h[j] < h[m]}
  <1>1. n \in Nat /\ \A m \in 1 .. n : s[m] \in Destination
    OBVIOUS
  <1>2. \A m \in 1 .. n : Length[s[m]] \in Nat /\ Length[s[m]] > 0
    BY <1>1, UploadAssumption
  <1>3. /\ \A m \in 0 .. n : h[m] \in Nat
        /\ \A m \in 1 .. n : h[m] = h[m - 1] + Length[s[m]]
    BY SumFacts
  <1> HIDE DEF n, h
  <1>4. 0 \in T
    BY <1>1
  <1>5. ASSUME NEW m \in 1 .. n, m - 1 \in T PROVE m \in T
    <2>1. SUFFICES ASSUME NEW j \in 0 .. n, j < m PROVE h[j] < h[m]
      BY <1>1
    <2>2. h[m - 1] < h[m]
      <3>1. m - 1 \in 0 .. n
        BY <1>1
      <3>2. QED
        BY <1>2, <1>3, <3>1
    <2>3. CASE j = m - 1
      BY <2>2, <2>3
    <2>4. CASE j # m - 1
      <3>1. j < m - 1
        BY <2>1, <2>4
      <3>2. h[j] < h[m - 1]
        BY <1>5, <3>1
      <3>3. h[j] \in Nat /\ h[m - 1] \in Nat /\ h[m] \in Nat
        BY <1>1, <1>3
      <3>4. QED
        BY <2>2, <3>2, <3>3
    <2>5. QED
      BY <2>3, <2>4
  <1> HIDE DEF T
  <1>6. 0 .. n \subseteq T
    BY <1>1, <1>4, <1>5, UpTo
  <1>7. QED
    BY <1>6 DEF T, n, h

\* The size of a queue, 0 only for the empty one.
LEMMA SizeFacts ==
    ASSUME NEW s \in Seq(Destination)
    PROVE  Size(s) \in Nat /\ (Size(s) = 0 <=> s = <<>>)
  <1>1. Len(s) \in Nat /\ (Len(s) = 0 <=> s = <<>>)
    OBVIOUS
  <1>2. /\ BytesUpTo(s)[0] = 0 /\ \A k \in 0 .. Len(s) : BytesUpTo(s)[k] \in Nat
    BY SumFacts
  <1>3. Len(s) # 0 => BytesUpTo(s)[0] < BytesUpTo(s)[Len(s)]
    BY <1>1, SumGrows
  <1>4. QED
    BY <1>1, <1>2, <1>3 DEF Size

\* A sequence put behind another.
LEMMA Joined ==
    ASSUME NEW S, NEW s \in Seq(S), NEW t \in Seq(S)
    PROVE  /\ s \o t \in Seq(S) /\ Len(s \o t) = Len(s) + Len(t)
           /\ Len(s) \in Nat /\ Len(t) \in Nat
           /\ \A i \in 1 .. Len(s) : (s \o t)[i] = s[i]
           /\ \A i \in 1 .. Len(t) : (s \o t)[Len(s) + i] = t[i]
  OBVIOUS

\* The bytes of a destination, one at least.
LEMMA BytesFacts ==
    ASSUME NEW d \in Destination
    PROVE  /\ Bytes(d) \in Seq(Byte) /\ Len(Bytes(d)) = Length[d]
           /\ Length[d] \in Nat /\ Length[d] > 0
           /\ \A j \in 1 .. Length[d] : Bytes(d)[j] = <<d, j>>
  <1>1. Length[d] \in Nat /\ Length[d] > 0
    BY UploadAssumption
  <1>2. \A j \in 1 .. Length[d] : <<d, j>> \in Byte
    BY DEF Byte
  <1>3. QED
    BY <1>1, <1>2 DEF Bytes

Put(s, k) ==
  /\ Written(s)[k] \in Seq(Byte) /\ Len(Written(s)[k]) = BytesUpTo(s)[k]
  /\ \A i \in 1 .. k : \A j \in 1 .. Length[s[i]] :
       Written(s)[k][BytesUpTo(s)[i - 1] + j] = <<s[i], j>>

\* uploadMemory puts the bytes where the copies will look for them.
LEMMA WrittenFacts ==
    ASSUME NEW s \in Seq(Destination), NEW m \in 0 .. Len(s)
    PROVE  Put(s, m)
  <1> DEFINE n == Len(s)
             step == [p \in (1 .. n) \X Seq(Byte) |-> p[2] \o Bytes(s[p[1]])]
             body(f) == [k \in 0 .. n |-> IF k = 0 THEN <<>> ELSE f[k - 1] \o Bytes(s[k])]
             h == Written(s)
             T == {k \in 0 .. n : Put(s, k)}
  <1>1. /\ n \in Nat
        /\ \A k \in 1 .. n : /\ s[k] \in Destination /\ Bytes(s[k]) \in Seq(Byte)
                             /\ Len(Bytes(s[k])) = Length[s[k]] /\ Length[s[k]] \in Nat
                             /\ \A j \in 1 .. Length[s[k]] : Bytes(s[k])[j] = <<s[k], j>>
    <2>1. n \in Nat /\ \A k \in 1 .. n : s[k] \in Destination
      OBVIOUS
    <2>2. QED
      BY <2>1, BytesFacts
  <1>2. step \in [(1 .. n) \X Seq(Byte) -> Seq(Byte)] /\ <<>> \in Seq(Byte)
    <2>1. \A x \in Seq(Byte), y \in Seq(Byte) : x \o y \in Seq(Byte)
      BY Joined
    <2>2. QED
      BY <1>1, <2>1
  <1>3. \A k \in 1 .. n, x \in Seq(Byte) : step[<<k, x>>] = x \o Bytes(s[k])
    OBVIOUS
  <1>4. \A k \in 1 .. n : k - 1 \in 0 .. n
    BY <1>1
  <1>5. h = CHOOSE g : g = body(g)
    BY DEF Written
  <1>6. /\ BytesUpTo(s)[0] = 0 /\ \A k \in 0 .. n : BytesUpTo(s)[k] \in Nat
        /\ \A k \in 1 .. n : BytesUpTo(s)[k] = BytesUpTo(s)[k - 1] + Length[s[k]]
    BY SumFacts
  <1> HIDE DEF step, n
  <1>7. PICK f : Solves(f, n, Seq(Byte), <<>>, step)
    BY <1>1, <1>2, Recursion
  <1>8. \A k \in 1 .. n : f[k] = f[k - 1] \o Bytes(s[k])
    BY <1>3, <1>4, <1>7 DEF Solves
  <1>9. f = body(f)
    <2>1. f = [k \in 0 .. n |-> f[k]]
      BY <1>7 DEF Solves
    <2>2. ASSUME NEW k \in 0 .. n
          PROVE  f[k] = IF k = 0 THEN <<>> ELSE f[k - 1] \o Bytes(s[k])
      <3>1. k # 0 => k \in 1 .. n
        BY <1>1
      <3>2. QED
        BY <1>7, <1>8, <3>1 DEF Solves
    <2>3. QED
      BY <2>1, <2>2, Zenon
  <1>10. h = body(h)
    BY <1>5, <1>9
  <1> HIDE DEF h
  <1>11. h[0] = <<>> /\ \A k \in 1 .. n : h[k] = h[k - 1] \o Bytes(s[k])
    <2>1. \A k \in 0 .. n : h[k] = IF k = 0 THEN <<>> ELSE h[k - 1] \o Bytes(s[k])
      BY <1>10, Zenon
    <2>2. 0 \in 0 .. n /\ \A k \in 1 .. n : k \in 0 .. n /\ k # 0
      BY <1>1
    <2>3. QED
      BY <2>1, <2>2, Zenon
  <1>12. 0 \in T
    <2>1. h[0] \in Seq(Byte) /\ Len(h[0]) = 0
      BY <1>11
    <2>2. Put(s, 0)
      BY <1>6, <2>1 DEF Put, h
    <2>3. QED
      BY <1>1, <2>2
  <1>13. ASSUME NEW k \in 1 .. n, k - 1 \in T PROVE k \in T
    <2>1. /\ h[k - 1] \in Seq(Byte) /\ Len(h[k - 1]) = BytesUpTo(s)[k - 1]
          /\ \A i \in 1 .. k - 1 : \A j \in 1 .. Length[s[i]] :
               h[k - 1][BytesUpTo(s)[i - 1] + j] = <<s[i], j>>
      BY <1>13 DEF Put, h
    <2>2. h[k] = h[k - 1] \o Bytes(s[k])
      BY <1>11
    <2>3. /\ h[k] \in Seq(Byte) /\ Len(h[k]) = BytesUpTo(s)[k]
          /\ \A p \in 1 .. BytesUpTo(s)[k - 1] : h[k][p] = h[k - 1][p]
          /\ \A j \in 1 .. Length[s[k]] : h[k][BytesUpTo(s)[k - 1] + j] = <<s[k], j>>
      <3> DEFINE a == h[k - 1]
                 b == Bytes(s[k])
      <3>1. /\ Len(a) = BytesUpTo(s)[k - 1] /\ Len(b) = Length[s[k]]
            /\ \A j \in 1 .. Length[s[k]] : b[j] = <<s[k], j>>
            /\ h[k] = a \o b
        BY <1>1, <2>1, <2>2
      <3>2. /\ a \o b \in Seq(Byte) /\ Len(a \o b) = Len(a) + Len(b)
            /\ \A p \in 1 .. Len(a) : (a \o b)[p] = a[p]
            /\ \A j \in 1 .. Len(b) : (a \o b)[Len(a) + j] = b[j]
        <4>1. a \in Seq(Byte) /\ b \in Seq(Byte)
          BY <1>1, <2>1
        <4> HIDE DEF a, b
        <4>2. QED
          BY <4>1, Joined
      <3> HIDE DEF a, b
      <3>3. Len(h[k]) = BytesUpTo(s)[k]
        BY <1>6, <3>1, <3>2
      <3>4. QED
        BY <3>1, <3>2, <3>3 DEF a
    <2>4. ASSUME NEW i \in 1 .. k - 1, NEW j \in 1 .. Length[s[i]]
          PROVE  h[k][BytesUpTo(s)[i - 1] + j] = <<s[i], j>>
      <3>1. /\ i \in 1 .. n /\ i \in 0 .. n /\ i - 1 \in 0 .. n /\ k - 1 \in 0 .. n
            /\ i < k - 1 \/ i = k - 1
        BY <1>1
      <3>2. BytesUpTo(s)[i] <= BytesUpTo(s)[k - 1]
        <4>1. i < k - 1 => BytesUpTo(s)[i] < BytesUpTo(s)[k - 1]
          BY <3>1, SumGrows DEF n
        <4>2. QED
          BY <3>1, <4>1, <1>6
      <3>3. BytesUpTo(s)[i - 1] + j \in 1 .. BytesUpTo(s)[k - 1]
        <4>1. BytesUpTo(s)[i] = BytesUpTo(s)[i - 1] + Length[s[i]]
          BY <3>1, <1>6
        <4>2. /\ BytesUpTo(s)[i - 1] \in Nat /\ BytesUpTo(s)[k - 1] \in Nat
              /\ Length[s[i]] \in Nat
          BY <1>1, <1>6, <3>1
        <4>3. QED
          BY <3>2, <4>1, <4>2
      <3>4. QED
        BY <2>1, <2>3, <3>3
    <2>5. \A i \in 1 .. k : i \in 1 .. k - 1 \/ i = k
      BY <1>1
    <2>6. Put(s, k)
      BY <2>3, <2>4, <2>5 DEF Put, h
    <2>7. QED
      BY <2>6, <1>1
  <1> HIDE DEF T
  <1>14. 0 .. n \subseteq T
    BY <1>1, <1>12, <1>13, UpTo
  <1>15. QED
    BY <1>14 DEF T, n

----------------------------------------------------------------------------
(***************************************************************************)
(* The GPU: one command, one list, and what a list does as a whole.        *)
(***************************************************************************)

\* What a copy reads, inside a live buffer.
LEMMA ReadFacts ==
    ASSUME memory \in Seq(Seq(Byte)), live \subseteq 1 .. Len(memory),
           NEW b, NEW offset \in Nat, NEW size \in Nat
    PROVE  /\ Read(b, offset, size) \in Seq(Byte) /\ Len(Read(b, offset, size)) = size
           /\ \A j \in 1 .. size : b \in live /\ offset + j <= Len(memory[b]) =>
                Read(b, offset, size)[j] = memory[b][offset + j]
  <1>1. <<>> \in Byte
    BY DEF Byte
  <1>2. ASSUME NEW j \in 1 .. size, b \in live, offset + j <= Len(memory[b])
        PROVE  memory[b][offset + j] \in Byte
    <2>1. memory[b] \in Seq(Byte)
      BY <1>2
    <2>2. offset + j \in 1 .. Len(memory[b])
      BY <1>2, <2>1
    <2>3. QED
      BY <2>1, <2>2
  <1> DEFINE e(j) == IF b \in live /\ offset + j <= Len(memory[b]) THEN memory[b][offset + j]
                     ELSE <<>>
             r == [j \in 1 .. size |-> e(j)]
  <1>3. \A j \in 1 .. size : e(j) \in Byte
    BY <1>1, <1>2
  <1>4. Read(b, offset, size) = r
    BY DEF Read
  <1>5. \A j \in 1 .. size : b \in live /\ offset + j <= Len(memory[b]) =>
          r[j] = memory[b][offset + j]
    OBVIOUS
  <1> HIDE DEF e
  <1>6. r \in Seq(Byte) /\ Len(r) = size
    BY <1>3
  <1> HIDE DEF r
  <1>7. QED
    BY <1>4, <1>5, <1>6

\* What one command does.
LEMMA ApplyFacts ==
    ASSUME memory \in Seq(Seq(Byte)), live \subseteq 1 .. Len(memory),
           NEW g \in GpuState, NEW c \in Command
    PROVE  /\ Apply(g, c) \in GpuState
           /\ c.op \in {"pre", "copy", "post", "draw"}
           /\ c.op \in {"pre", "post"} =>
                /\ Apply(g, c).content = g.content /\ Apply(g, c).unready = g.unready
                /\ \A d \in Destination : Apply(g, c).layout[d] =
                     IF d \notin c.of THEN g.layout[d]
                     ELSE IF c.op = "pre" THEN "transfer" ELSE c.stage
           /\ c.op = "copy" =>
                /\ Apply(g, c).layout = g.layout /\ Apply(g, c).unready = g.unready
                /\ \A d \in Destination \ {c.to} : Apply(g, c).content[d] = g.content[d]
                /\ CanReceive(g, c.to) =>
                     Apply(g, c).content[c.to] = Read(c.from, c.offset, c.size)
           /\ c.op = "draw" =>
                /\ Apply(g, c).content = g.content /\ Apply(g, c).layout = g.layout
                /\ Apply(g, c).unready =
                     g.unready \cup {m \in c.of : ~ Readable(g, m) \/ m \notin c.bound}
  <1>1. c.op \in {"pre", "copy", "post", "draw"}
    BY DEF Command
  <1>2. CASE c.op = "pre"
    <2>1. c.of \subseteq Destination
      BY <1>2 DEF Command
    <2> DEFINE x == [d \in Destination |-> IF d \in c.of THEN "transfer" ELSE g.layout[d]]
    <2>2. Apply(g, c) = [g EXCEPT !.layout = x]
      BY <1>2 DEF Apply
    <2>3. /\ x \in [Destination -> Stages]
          /\ \A d \in Destination : x[d] = IF d \in c.of THEN "transfer" ELSE g.layout[d]
      BY <2>1 DEF GpuState, Stages
    <2> HIDE DEF x
    <2>4. /\ Apply(g, c) \in GpuState /\ Apply(g, c).layout = x
          /\ Apply(g, c).content = g.content /\ Apply(g, c).unready = g.unready
      BY <2>2, <2>3 DEF GpuState
    <2>5. QED
      BY <1>2, <2>3, <2>4
  <1>3. CASE c.op = "post"
    <2>1. c.of \subseteq Destination /\ c.stage \in {"fragment", "vertex_input"}
      BY <1>3 DEF Command
    <2> DEFINE x == [d \in Destination |-> IF d \in c.of THEN c.stage ELSE g.layout[d]]
    <2>2. Apply(g, c) = [g EXCEPT !.layout = x]
      BY <1>3 DEF Apply
    <2>3. /\ x \in [Destination -> Stages]
          /\ \A d \in Destination : x[d] = IF d \in c.of THEN c.stage ELSE g.layout[d]
      BY <2>1 DEF GpuState, Stages
    <2> HIDE DEF x
    <2>4. /\ Apply(g, c) \in GpuState /\ Apply(g, c).layout = x
          /\ Apply(g, c).content = g.content /\ Apply(g, c).unready = g.unready
      BY <2>2, <2>3 DEF GpuState
    <2>5. QED
      BY <1>3, <2>3, <2>4
  <1>4. CASE c.op = "copy"
    <2>1. c.to \in Destination /\ c.offset \in Nat /\ c.size \in Nat
      BY <1>4 DEF Command
    <2> DEFINE x == IF CanReceive(g, c.to) THEN Read(c.from, c.offset, c.size) ELSE << <<>> >>
    <2>2. Apply(g, c) = [g EXCEPT !.content[c.to] = x]
      BY <1>4 DEF Apply
    <2>3. x \in Seq(Byte) /\ (CanReceive(g, c.to) => x = Read(c.from, c.offset, c.size))
      <3>1. Read(c.from, c.offset, c.size) \in Seq(Byte)
        BY <2>1, ReadFacts
      <3>2. << <<>> >> \in Seq(Byte)
        BY DEF Byte
      <3>3. QED
        BY <3>1, <3>2
    <2> HIDE DEF x
    <2>4. /\ Apply(g, c) \in GpuState
          /\ Apply(g, c).layout = g.layout /\ Apply(g, c).unready = g.unready
          /\ Apply(g, c).content = [g.content EXCEPT ![c.to] = x]
      BY <2>1, <2>2, <2>3 DEF GpuState
    <2>5. /\ \A d \in Destination \ {c.to} : Apply(g, c).content[d] = g.content[d]
          /\ Apply(g, c).content[c.to] = x
      BY <2>1, <2>4 DEF GpuState
    <2>6. QED
      BY <1>4, <2>3, <2>4, <2>5
  <1>5. CASE c.op = "draw"
    <2>1. c.of \subseteq Model
      BY <1>5 DEF Command
    <2>2. Apply(g, c) = [g EXCEPT !.unready = g.unready \cup
                           {m \in c.of : ~ Readable(g, m) \/ m \notin c.bound}]
      BY <1>5 DEF Apply
    <2>3. QED
      BY <1>5, <2>1, <2>2 DEF GpuState
  <1>6. QED
    BY <1>1, <1>2, <1>3, <1>4, <1>5

\* A barrier changes the layouts of what it is about.
LEMMA ApplyBarrier ==
    ASSUME memory \in Seq(Seq(Byte)), live \subseteq 1 .. Len(memory),
           NEW g \in GpuState, NEW c \in Command, c.op \in {"pre", "post"}, NEW after, after = Apply(g, c)
    PROVE  /\ after.content = g.content /\ after.unready = g.unready
           /\ \A d \in Destination \ c.of : after.layout[d] = g.layout[d]
           /\ \A d \in Destination \cap c.of :
                after.layout[d] = IF c.op = "pre" THEN "transfer" ELSE c.stage
  BY ApplyFacts

\* A copy to what can receive changes the content of its destination.
LEMMA ApplyCopy ==
    ASSUME memory \in Seq(Seq(Byte)), live \subseteq 1 .. Len(memory),
           NEW g \in GpuState, NEW c \in Command, c.op = "copy", CanReceive(g, c.to),
           NEW after, after = Apply(g, c)
    PROVE  /\ after.layout = g.layout /\ after.unready = g.unready
           /\ \A d \in Destination \ {c.to} : after.content[d] = g.content[d]
           /\ after.content[c.to] = Read(c.from, c.offset, c.size)
  BY ApplyFacts

\* A draw adds to what was drawn too early.
LEMMA ApplyDraw ==
    ASSUME memory \in Seq(Seq(Byte)), live \subseteq 1 .. Len(memory),
           NEW g \in GpuState, NEW c \in Command, c.op = "draw"
    PROVE  /\ Apply(g, c).content = g.content /\ Apply(g, c).layout = g.layout
           /\ Apply(g, c).unready =
                g.unready \cup {m \in c.of : ~ Readable(g, m) \/ m \notin c.bound}
  BY ApplyFacts

\* The execution of a list is one step after the other.
LEMMA ExecutionFacts ==
    ASSUME memory \in Seq(Seq(Byte)), live \subseteq 1 .. Len(memory),
           NEW g \in GpuState, NEW list \in Seq(Command)
    PROVE  /\ Execution(g, list)[0] = g
           /\ \A k \in 0 .. Len(list) : Execution(g, list)[k] \in GpuState
           /\ \A k \in 1 .. Len(list) :
                Execution(g, list)[k] = Apply(Execution(g, list)[k - 1], list[k])
  <1> DEFINE n == Len(list)
             step == [p \in (1 .. n) \X GpuState |-> Apply(p[2], list[p[1]])]
             body(f) == [k \in 0 .. n |-> IF k = 0 THEN g ELSE Apply(f[k - 1], list[k])]
             h == Execution(g, list)
             T == {k \in 0 .. n : h[k] \in GpuState}
  <1>1. n \in Nat /\ \A k \in 1 .. n : list[k] \in Command
    OBVIOUS
  <1>2. \A k \in 1 .. n, x \in GpuState : Apply(x, list[k]) \in GpuState
    BY <1>1, ApplyFacts
  <1>3. step \in [(1 .. n) \X GpuState -> GpuState]
    BY <1>2
  <1>4. \A k \in 1 .. n, x \in GpuState : step[<<k, x>>] = Apply(x, list[k])
    OBVIOUS
  <1>5. \A k \in 1 .. n : k - 1 \in 0 .. n
    BY <1>1
  <1>6. h = CHOOSE f : f = body(f)
    BY DEF Execution
  <1> HIDE DEF step, n
  <1>7. PICK f : Solves(f, n, GpuState, g, step)
    BY <1>1, <1>3, Recursion
  <1>8. \A k \in 1 .. n : f[k] = Apply(f[k - 1], list[k])
    BY <1>4, <1>5, <1>7 DEF Solves
  <1>9. f = body(f)
    <2>1. f = [k \in 0 .. n |-> f[k]]
      BY <1>7 DEF Solves
    <2>2. ASSUME NEW k \in 0 .. n
          PROVE  f[k] = IF k = 0 THEN g ELSE Apply(f[k - 1], list[k])
      <3>1. k # 0 => k \in 1 .. n
        BY <1>1
      <3>2. QED
        BY <1>7, <1>8, <3>1 DEF Solves
    <2>3. QED
      BY <2>1, <2>2, Zenon
  <1>10. h = body(h)
    BY <1>6, <1>9
  <1> HIDE DEF h
  <1>11. h[0] = g /\ \A k \in 1 .. n : h[k] = Apply(h[k - 1], list[k])
    <2>1. \A k \in 0 .. n : h[k] = IF k = 0 THEN g ELSE Apply(h[k - 1], list[k])
      BY <1>10, Zenon
    <2>2. 0 \in 0 .. n /\ \A k \in 1 .. n : k \in 0 .. n /\ k # 0
      BY <1>1
    <2>3. QED
      BY <2>1, <2>2, Zenon
  <1>12. 0 \in T
    BY <1>1, <1>11
  <1>13. ASSUME NEW k \in 1 .. n, k - 1 \in T PROVE k \in T
    <2>1. h[k - 1] \in GpuState /\ k \in 0 .. n
      BY <1>1, <1>13
    <2>2. QED
      BY <1>2, <1>11, <2>1
  <1> HIDE DEF T
  <1>14. 0 .. n \subseteq T
    BY <1>1, <1>12, <1>13, UpTo
  <1>15. QED
    BY <1>11, <1>14 DEF T, h, n

\* A list that is recorded: draws change neither contents nor layouts.
LEMMA DrawPhase ==
    ASSUME memory \in Seq(Seq(Byte)), live \subseteq 1 .. Len(memory),
           NEW g \in GpuState, NEW list \in Seq(Command),
           NEW m \in 0 .. Len(list), DrawsFrom(list, m + 1)
    PROVE  LET start == Execution(g, list)[m]
               end == Execution(g, list)[Len(list)]
           IN  /\ end.content = start.content /\ end.layout = start.layout
               /\ \A x \in end.unready \ start.unready :
                    \E i \in DOMAIN list : /\ list[i].op = "draw" /\ x \in list[i].of
                                           /\ ~ Readable(start, x) \/ x \notin list[i].bound
  <1> DEFINE n == Len(list)
             h == Execution(g, list)
             start == h[m]
             Bad(x) == \E i \in DOMAIN list :
                         /\ list[i].op = "draw" /\ x \in list[i].of
                         /\ ~ Readable(start, x) \/ x \notin list[i].bound
             T == {k \in 0 .. n : k >= m =>
                     /\ h[k].content = start.content /\ h[k].layout = start.layout
                     /\ \A x \in h[k].unready \ start.unready : Bad(x)}
  <1>1. /\ n \in Nat /\ DOMAIN list = 1 .. n
        /\ \A k \in 1 .. n : list[k] \in Command
    OBVIOUS
  <1>2. \A k \in m + 1 .. n : list[k].op = "draw"
    BY DEF DrawsFrom
  <1>3. /\ \A k \in 0 .. n : h[k] \in GpuState
        /\ \A k \in 1 .. n : h[k] = Apply(h[k - 1], list[k])
    BY ExecutionFacts
  <1> HIDE DEF h, n
  <1>4. 0 \in T
    BY <1>1
  <1>5. ASSUME NEW k \in 1 .. n, k - 1 \in T PROVE k \in T
    <2>1. SUFFICES ASSUME k >= m
                   PROVE  /\ h[k].content = start.content /\ h[k].layout = start.layout
                          /\ \A x \in h[k].unready \ start.unready : Bad(x)
      BY <1>1
    <2>2. CASE k = m
      BY <2>2
    <2>3. CASE k # m
      <3>1. k - 1 >= m /\ k \in m + 1 .. n /\ k - 1 \in 0 .. n
        BY <1>1, <2>1, <2>3
      <3>2. /\ h[k - 1].content = start.content /\ h[k - 1].layout = start.layout
            /\ \A x \in h[k - 1].unready \ start.unready : Bad(x)
        BY <1>5, <3>1
      <3>3. list[k].op = "draw" /\ list[k] \in Command /\ h[k - 1] \in GpuState
        BY <1>1, <1>2, <1>3, <3>1
      <3>4. /\ h[k].content = h[k - 1].content /\ h[k].layout = h[k - 1].layout
            /\ h[k].unready = h[k - 1].unready \cup
                 {x \in list[k].of : ~ Readable(h[k - 1], x) \/ x \notin list[k].bound}
        <4>1. h[k] = Apply(h[k - 1], list[k])
          BY <1>3
        <4>2. QED
          BY <3>3, <4>1, ApplyDraw
      <3>5. \A x : Readable(h[k - 1], x) <=> Readable(start, x)
        BY <3>2 DEF Readable
      <3>6. ASSUME NEW x \in h[k].unready \ start.unready PROVE Bad(x)
        <4>1. CASE x \in h[k - 1].unready
          BY <3>2, <4>1
        <4>2. CASE x \notin h[k - 1].unready
          <5>1. x \in list[k].of /\ (~ Readable(start, x) \/ x \notin list[k].bound)
            BY <3>4, <3>5, <4>2
          <5>2. QED
            BY <1>1, <3>3, <5>1
        <4>3. QED
          BY <4>1, <4>2
      <3>7. QED
        BY <3>2, <3>4, <3>6
    <2>4. QED
      BY <2>2, <2>3
  <1> HIDE DEF T, Bad
  <1>6. 0 .. n \subseteq T
    BY <1>1, <1>4, <1>5, UpTo
  <1>7. n \in T /\ n >= m
    <2>1. n \in 0 .. n
      BY <1>1
    <2>2. QED
      BY <1>6, <2>1 DEF n
  <1>8. QED
    BY <1>7 DEF T, n, h, Bad

\* The barrier and the copies at the beginning of a list.
LEMMA CopyPhase ==
    ASSUME memory \in Seq(Seq(Byte)), live \subseteq 1 .. Len(memory),
           NEW g \in GpuState, NEW list \in Seq(Command),
           NEW n \in 1 .. Len(list), UploadsFirst(list, n)
    PROVE  LET end == Execution(g, list)[n + 1]
           IN  /\ end.unready = g.unready
               /\ \A d \in Destination : (\A i \in 2 .. n + 1 : list[i].to # d) =>
                    end.layout[d] = g.layout[d] /\ end.content[d] = g.content[d]
               /\ \A i \in 2 .. n + 1 :
                    end.content[list[i].to] = Read(list[i].from, list[i].offset, list[i].size)
  <1> DEFINE h == Execution(g, list)
             Copy(i) == Read(list[i].from, list[i].offset, list[i].size)
             T == {k \in 0 .. n + 1 : k > 0 =>
                     /\ h[k].unready = g.unready
                     /\ \A d \in Destination :
                          h[k].layout[d] = IF d \in list[1].of THEN "transfer" ELSE g.layout[d]
                     /\ \A d \in Destination : (\A i \in 2 .. k : list[i].to # d) =>
                          h[k].content[d] = g.content[d]
                     /\ \A i \in 2 .. k : h[k].content[list[i].to] = Copy(i)}
  <1>1. /\ n \in Nat /\ n + 3 <= Len(list) /\ Len(list) \in Nat
        /\ \A k \in 1 .. n + 1 : k \in 1 .. Len(list) /\ list[k] \in Command
    BY DEF UploadsFirst
  <1>2. /\ list[1].op = "pre"
        /\ list[1].of = {d \in Destination : (\E i \in 2 .. n + 1 : list[i].to = d)
                                             /\ d[2] = "texture"}
        /\ \A i \in 2 .. n + 1 : list[i].op = "copy"
        /\ \A i, j \in 2 .. n + 1 : list[i].to = list[j].to => i = j
    BY DEF UploadsFirst
  <1>3. \A i \in 2 .. n + 1 : list[i].to \in Destination
    <2>1. \A c \in Command : c.op = "copy" => c.to \in Destination
      BY DEF Command
    <2>2. \A i \in 2 .. n + 1 : i \in 1 .. n + 1
      BY <1>1
    <2>3. QED
      BY <1>1, <1>2, <2>1, <2>2
  <1>4. /\ h[0] = g
        /\ \A k \in 0 .. n + 1 : h[k] \in GpuState
        /\ \A k \in 1 .. n + 1 : h[k] = Apply(h[k - 1], list[k])
    BY <1>1, ExecutionFacts
  <1> HIDE DEF h, Copy
  <1>5. 0 \in T
    BY <1>1
  <1>6. ASSUME NEW k \in 1 .. n + 1, k - 1 \in T PROVE k \in T
    <2>1. /\ k - 1 \in 0 .. n + 1 /\ h[k - 1] \in GpuState /\ list[k] \in Command
          /\ h[k] = Apply(h[k - 1], list[k])
      BY <1>1, <1>4
    <2>2. CASE k = 1
      <3>1. /\ h[1].content = g.content /\ h[1].unready = g.unready
            /\ \A d \in Destination :
                 h[1].layout[d] = IF d \in list[1].of THEN "transfer" ELSE g.layout[d]
        <4> DEFINE c == list[1]
                   a == h[1]
        <4>1. g \in GpuState /\ c \in Command /\ c.op = "pre" /\ a = Apply(g, c)
          BY <1>2, <1>4, <2>1, <2>2
        <4> HIDE DEF a, c
        <4>2. /\ a.content = g.content /\ a.unready = g.unready
              /\ \A d \in Destination \ c.of : a.layout[d] = g.layout[d]
              /\ \A d \in Destination \cap c.of : a.layout[d] = "transfer"
          BY <4>1, ApplyBarrier
        <4>3. QED
          BY <4>2 DEF a, c
      <3>2. QED
        BY <1>1, <2>2, <3>1
    <2>3. CASE k # 1
      <3> DEFINE to == list[k].to
      <3>1. /\ k \in 2 .. n + 1 /\ k - 1 > 0
            /\ \A i \in 2 .. k - 1 : i \in 2 .. n + 1 /\ i # k
            /\ \A i \in 2 .. k : i \in 2 .. k - 1 \/ i = k
            /\ \A i \in 2 .. k - 1 : i \in 2 .. k
            /\ k \in 2 .. k
        BY <1>1, <2>3
      <3>2. /\ h[k - 1].unready = g.unready
            /\ \A d \in Destination :
                 h[k - 1].layout[d] = IF d \in list[1].of THEN "transfer" ELSE g.layout[d]
            /\ \A d \in Destination : (\A i \in 2 .. k - 1 : list[i].to # d) =>
                 h[k - 1].content[d] = g.content[d]
            /\ \A i \in 2 .. k - 1 : h[k - 1].content[list[i].to] = Copy(i)
        BY <1>6, <3>1
      <3>3. list[k].op = "copy" /\ to \in Destination
        BY <1>2, <1>3, <3>1
      <3>4. CanReceive(h[k - 1], to)
        <4>1. to[2] = "texture" => to \in list[1].of
          BY <1>2, <3>1, <3>3
        <4>2. QED
          BY <3>2, <3>3, <4>1 DEF CanReceive
      <3>5. /\ h[k].layout = h[k - 1].layout /\ h[k].unready = h[k - 1].unready
            /\ \A d \in Destination \ {to} : h[k].content[d] = h[k - 1].content[d]
            /\ h[k].content[to] = Copy(k)
        <4> DEFINE c == list[k]
                   a == h[k]
                   b == h[k - 1]
        <4>1. /\ b \in GpuState /\ c \in Command /\ c.op = "copy"
              /\ CanReceive(b, c.to) /\ a = Apply(b, c)
          BY <2>1, <3>3, <3>4
        <4> HIDE DEF a, b, c
        <4>2. /\ a.layout = b.layout /\ a.unready = b.unready
              /\ \A d \in Destination \ {c.to} : a.content[d] = b.content[d]
              /\ a.content[c.to] = Read(c.from, c.offset, c.size)
          BY <4>1, ApplyCopy
        <4>3. QED
          BY <4>2 DEF a, b, c, Copy
      <3>6. \A i \in 2 .. k - 1 : list[i].to \in Destination \ {to}
        BY <1>2, <1>3, <3>1
      <3> HIDE DEF to
      <3>7. \A i \in 2 .. k : h[k].content[list[i].to] = Copy(i)
        BY <3>1, <3>2, <3>5, <3>6 DEF to
      <3>8. ASSUME NEW d \in Destination, \A i \in 2 .. k : list[i].to # d
            PROVE  h[k].content[d] = g.content[d]
        BY <3>1, <3>2, <3>5, <3>8 DEF to
      <3>9. QED
        BY <3>2, <3>5, <3>7, <3>8
    <2>4. QED
      BY <2>2, <2>3
  <1> HIDE DEF T
  <1>7. 0 .. n + 1 \subseteq T
    <2> DEFINE last == n + 1
    <2>1. last \in Nat /\ \A k \in 1 .. last : k - 1 \in T => k \in T
      BY <1>1, <1>6
    <2> HIDE DEF last
    <2>2. 0 .. last \subseteq T
      BY <1>5, <2>1, UpTo
    <2>3. QED
      BY <2>2 DEF last
  <1>8. n + 1 \in T /\ n + 1 > 0
    BY <1>1, <1>7
  <1>9. \A d \in Destination : (\A i \in 2 .. n + 1 : list[i].to # d) => d \notin list[1].of
    BY <1>2
  <1>10. QED
    BY <1>8, <1>9 DEF T, h, Copy

To(list, n, d) == \E i \in 2 .. n + 1 : list[i].to = d

\* The barriers behind the copies.
LEMMA PostPhase ==
    ASSUME memory \in Seq(Seq(Byte)), live \subseteq 1 .. Len(memory),
           NEW g \in GpuState, NEW list \in Seq(Command),
           NEW n \in 1 .. Len(list), UploadsFirst(list, n)
    PROVE  LET end == Execution(g, list)[n + 3]
           IN  /\ end.unready = g.unready
               /\ \A d \in Destination : ~ To(list, n, d) =>
                    end.layout[d] = g.layout[d] /\ end.content[d] = g.content[d]
               /\ \A i \in 2 .. n + 1 :
                    /\ end.layout[list[i].to] = FirstUse(list[i].to)
                    /\ end.content[list[i].to] = Read(list[i].from, list[i].offset, list[i].size)
  <1> DEFINE h == Execution(g, list)
             Copy(i) == Read(list[i].from, list[i].offset, list[i].size)
  <1>1. /\ n + 1 \in 0 .. Len(list) /\ n + 2 \in 0 .. Len(list) /\ n + 3 \in 0 .. Len(list)
        /\ n + 2 \in 1 .. Len(list) /\ n + 3 \in 1 .. Len(list)
        /\ (n + 2) - 1 = n + 1 /\ (n + 3) - 1 = n + 2 /\ n + 1 \in Nat
    BY DEF UploadsFirst
  <1>2. /\ h[n + 1] \in GpuState /\ h[n + 2] \in GpuState
        /\ h[n + 2] = Apply(h[n + 1], list[n + 2])
        /\ h[n + 3] = Apply(h[n + 2], list[n + 3])
        /\ list[n + 2] \in Command /\ list[n + 3] \in Command
    BY <1>1, ExecutionFacts
  <1>3. /\ list[n + 2].op = "post" /\ list[n + 2].stage = "fragment"
        /\ list[n + 2].of = {d \in Destination : To(list, n, d) /\ FirstUse(d) = "fragment"}
        /\ list[n + 3].op = "post" /\ list[n + 3].stage = "vertex_input"
        /\ list[n + 3].of = {d \in Destination : To(list, n, d) /\ FirstUse(d) = "vertex_input"}
    BY DEF UploadsFirst, To
  <1>4. /\ h[n + 1].unready = g.unready
        /\ \A d \in Destination : ~ To(list, n, d) =>
             h[n + 1].layout[d] = g.layout[d] /\ h[n + 1].content[d] = g.content[d]
        /\ \A i \in 2 .. n + 1 : h[n + 1].content[list[i].to] = Copy(i)
    BY CopyPhase DEF To
  <1> DEFINE a == h[n + 1]
             b == h[n + 2]
             c == h[n + 3]
             p == list[n + 2]
             q == list[n + 3]
  <1>5. /\ a \in GpuState /\ b \in GpuState /\ p \in Command /\ q \in Command
        /\ b = Apply(a, p) /\ c = Apply(b, q) /\ p.op = "post" /\ q.op = "post"
        /\ p.stage = "fragment" /\ q.stage = "vertex_input"
    BY <1>2, <1>3
  <1> HIDE DEF a, b, c, p, q, Copy
  <1>6. /\ b.content = a.content /\ b.unready = a.unready
        /\ \A d \in Destination \ p.of : b.layout[d] = a.layout[d]
        /\ \A d \in Destination \cap p.of : b.layout[d] = "fragment"
    BY <1>5, ApplyBarrier
  <1>7. /\ c.content = b.content /\ c.unready = b.unready
        /\ \A d \in Destination \ q.of : c.layout[d] = b.layout[d]
        /\ \A d \in Destination \cap q.of : c.layout[d] = "vertex_input"
    BY <1>5, ApplyBarrier
  <1>8. \A d \in Destination : ~ To(list, n, d) => d \notin p.of /\ d \notin q.of
    BY <1>3 DEF p, q
  <1>9. ASSUME NEW i \in 2 .. n + 1
        PROVE  list[i].to \in Destination /\ c.layout[list[i].to] = FirstUse(list[i].to)
    <2> DEFINE d == list[i].to
    <2>1. d \in Destination /\ To(list, n, d)
      <3>1. list[i] \in Command /\ list[i].op = "copy"
        BY DEF UploadsFirst
      <3>2. QED
        BY <3>1 DEF Command, To
    <2>2. FirstUse(d) \in {"fragment", "vertex_input"}
      BY DEF FirstUse
    <2>3. FirstUse(d) = "fragment" => d \in p.of /\ d \notin q.of
      BY <1>3, <2>1 DEF p, q
    <2>4. FirstUse(d) = "vertex_input" => d \in q.of
      BY <1>3, <2>1 DEF p, q
    <2> HIDE DEF d
    <2>5. c.layout[d] = FirstUse(d)
      BY <1>6, <1>7, <2>1, <2>2, <2>3, <2>4
    <2>6. QED
      BY <2>1, <2>5 DEF d
  <1>10. /\ a.unready = g.unready
         /\ \A d \in Destination : ~ To(list, n, d) =>
              a.layout[d] = g.layout[d] /\ a.content[d] = g.content[d]
         /\ \A i \in 2 .. n + 1 : a.content[list[i].to] = Copy(i)
    BY <1>4 DEF a
  <1>11. /\ c.unready = g.unready
         /\ \A d \in Destination : ~ To(list, n, d) =>
              c.layout[d] = g.layout[d] /\ c.content[d] = g.content[d]
         /\ \A i \in 2 .. n + 1 : /\ c.layout[list[i].to] = FirstUse(list[i].to)
                                  /\ c.content[list[i].to] = Copy(i)
    BY <1>6, <1>7, <1>8, <1>9, <1>10
  <1>12. QED
    BY <1>11 DEF c, Copy

\* What a whole list does to the GPU's state.
LEMMA Executed ==
    ASSUME memory \in Seq(Seq(Byte)), live \subseteq 1 .. Len(memory),
           NEW g \in GpuState, NEW list \in Seq(Command), Shape(list),
           NEW end, end = Execution(g, list)[Len(list)]
    PROVE  /\ end \in GpuState
           /\ \A d \in Destination : ~ Copied(list, d) =>
                end.layout[d] = g.layout[d] /\ end.content[d] = g.content[d]
           /\ \A i \in DOMAIN list : list[i].op = "copy" =>
                /\ end.layout[list[i].to] = FirstUse(list[i].to)
                /\ end.content[list[i].to] = Read(list[i].from, list[i].offset, list[i].size)
           /\ \A x \in end.unready \ g.unready :
                \E i \in DOMAIN list : /\ list[i].op = "draw" /\ x \in list[i].of
                                       /\ ~ Readable(end, x) \/ x \notin list[i].bound
  <1> DEFINE h == Execution(g, list)
  <1>1. Len(list) \in Nat /\ DOMAIN list = 1 .. Len(list)
    OBVIOUS
  <1>2. end \in GpuState /\ h[0] = g
    BY <1>1, ExecutionFacts
  <1>3. CASE DrawsFrom(list, 1)
    <2>1. 0 \in 0 .. Len(list) /\ DrawsFrom(list, 0 + 1)
      BY <1>1, <1>3
    <2>2. /\ end.content = g.content /\ end.layout = g.layout
          /\ \A x \in end.unready \ g.unready :
               \E i \in DOMAIN list : /\ list[i].op = "draw" /\ x \in list[i].of
                                      /\ ~ Readable(g, x) \/ x \notin list[i].bound
      BY <1>2, <2>1, DrawPhase
    <2>3. \A i \in DOMAIN list : list[i].op # "copy"
      BY <1>1, <1>3 DEF DrawsFrom
    <2>4. \A x : Readable(end, x) <=> Readable(g, x)
      BY <2>2 DEF Readable
    <2>5. QED
      BY <1>2, <2>2, <2>3, <2>4
  <1>4. CASE \E n \in 1 .. Len(list) : UploadsFirst(list, n) /\ DrawsFrom(list, n + 4)
    <2>1. PICK n \in 1 .. Len(list) : UploadsFirst(list, n) /\ DrawsFrom(list, n + 4)
      BY <1>4
    <2> DEFINE m == n + 3
               mid == h[m]
    <2>2. m \in 0 .. Len(list) /\ DrawsFrom(list, m + 1)
      <3>1. m \in 0 .. Len(list) /\ m + 1 = n + 4
        BY <1>1, <2>1 DEF UploadsFirst
      <3>2. QED
        BY <2>1, <3>1
    <2>3. /\ mid.unready = g.unready
          /\ \A d \in Destination : ~ To(list, n, d) =>
               mid.layout[d] = g.layout[d] /\ mid.content[d] = g.content[d]
          /\ \A i \in 2 .. n + 1 :
               /\ mid.layout[list[i].to] = FirstUse(list[i].to)
               /\ mid.content[list[i].to] = Read(list[i].from, list[i].offset, list[i].size)
      BY <2>1, PostPhase
    <2> HIDE DEF m
    <2>4. /\ end.content = mid.content /\ end.layout = mid.layout
          /\ \A x \in end.unready \ mid.unready :
               \E i \in DOMAIN list : /\ list[i].op = "draw" /\ x \in list[i].of
                                      /\ ~ Readable(mid, x) \/ x \notin list[i].bound
      BY <2>2, DrawPhase
    <2> HIDE DEF h, mid
    <2>5. ASSUME NEW i \in DOMAIN list PROVE list[i].op = "copy" <=> i \in 2 .. n + 1
      <3>1. /\ list[1].op = "pre" /\ list[n + 2].op = "post" /\ list[n + 3].op = "post"
            /\ \A k \in 2 .. n + 1 : list[k].op = "copy"
            /\ \A k \in n + 4 .. Len(list) : list[k].op = "draw"
        BY <2>1 DEF UploadsFirst, DrawsFrom
      <3>2. /\ i = 1 \/ i \in 2 .. n + 1 \/ i = n + 2 \/ i = n + 3 \/ i \in n + 4 .. Len(list)
            /\ i \in 2 .. n + 1 => ~ (i = 1 \/ i = n + 2 \/ i = n + 3 \/ i \in n + 4 .. Len(list))
        BY <1>1
      <3>3. QED
        BY <3>1, <3>2
    <2>6. \A d \in Destination : To(list, n, d) => Copied(list, d)
      <3>1. \A i \in 2 .. n + 1 : i \in DOMAIN list /\ list[i].op = "copy"
        BY <1>1, <2>1 DEF UploadsFirst
      <3>2. QED
        BY <3>1 DEF To, Copied
    <2>7. \A x : Readable(end, x) <=> Readable(mid, x)
      BY <2>4 DEF Readable
    <2>8. QED
      BY <1>2, <2>3, <2>4, <2>5, <2>6, <2>7
  <1>5. QED
    BY <1>3, <1>4 DEF Shape

----------------------------------------------------------------------------
(***************************************************************************)
(* The lists that are recorded have the shape that needs.                  *)
(***************************************************************************)

\* The commands uploadStagingData records.
LEMMA CommandsFacts ==
    ASSUME NEW q \in Seq(Destination), q # <<>>, NEW b \in Nat,
           \A i, j \in DOMAIN q : q[i] = q[j] => i = j
    PROVE  LET list == Commands(q, b) IN
           /\ list \in Seq(Command) /\ Shape(list)
           /\ \A i \in DOMAIN list : list[i].op # "draw"
           /\ \A d \in Destination : Copied(list, d) <=> d \in Range(q)
           /\ \A i \in DOMAIN list : list[i].op = "copy" =>
                \E k \in DOMAIN q : list[i] = [op |-> "copy", to |-> q[k], from |-> b,
                                               offset |-> BytesUpTo(q)[k - 1],
                                               size |-> Length[q[k]]]
  <1> DEFINE n == Len(q)
             pre == <<PreBarrier(q)>>
             copies == Copies(q, b)
             post == PostBarriers(q)
             list == Commands(q, b)
             Copy(k) == [op |-> "copy", to |-> q[k], from |-> b,
                         offset |-> BytesUpTo(q)[k - 1], size |-> Length[q[k]]]
  <1>1. /\ n \in Nat /\ n >= 1 /\ DOMAIN q = 1 .. n
        /\ \A k \in 1 .. n : q[k] \in Destination
        /\ Range(q) = {q[k] : k \in 1 .. n}
    BY DEF Range
  <1>2. \A k \in 1 .. n : Copy(k) \in Command
    <2>1. ASSUME NEW k \in 1 .. n PROVE BytesUpTo(q)[k - 1] \in Nat /\ Length[q[k]] \in Nat
      <3>1. k - 1 \in 0 .. n
        BY <1>1
      <3>2. QED
        BY <1>1, <3>1, SumFacts, UploadAssumption
    <2>2. QED
      BY <1>1, <2>1 DEF Command
  <1>3. /\ pre \in Seq(Command) /\ Len(pre) = 1 /\ pre[1] = PreBarrier(q)
    <2>1. PreBarrier(q) \in Command
      BY <1>1 DEF PreBarrier, Images, Command
    <2>2. QED
      BY <2>1
  <1>4. /\ copies \in Seq(Command) /\ Len(copies) = n /\ \A k \in 1 .. n : copies[k] = Copy(k)
    <2>1. copies = [k \in 1 .. n |-> Copy(k)]
      BY <1>1 DEF Copies
    <2> HIDE DEF Copy, copies
    <2>2. QED
      BY <1>1, <1>2, <2>1
  <1>5. /\ post \in Seq(Command) /\ Len(post) = 2
        /\ post[1] = PostBarrier(q, "fragment") /\ post[2] = PostBarrier(q, "vertex_input")
    <2>1. \A s \in {"fragment", "vertex_input"} : PostBarrier(q, s) \in Command
      BY <1>1 DEF PostBarrier, Command
    <2>2. QED
      BY <2>1 DEF PostBarriers
  <1> HIDE DEF Copy, pre, copies, post
  <1>6. /\ pre \o copies \in Seq(Command) /\ Len(pre \o copies) = n + 1
        /\ (pre \o copies)[1] = pre[1]
        /\ \A k \in 1 .. n : (pre \o copies)[k + 1] = Copy(k)
    <2>1. /\ pre \o copies \in Seq(Command) /\ Len(pre \o copies) = Len(pre) + Len(copies)
          /\ \A i \in 1 .. Len(pre) : (pre \o copies)[i] = pre[i]
          /\ \A i \in 1 .. Len(copies) : (pre \o copies)[Len(pre) + i] = copies[i]
      <3>1. pre \in Seq(Command) /\ copies \in Seq(Command)
        BY <1>3, <1>4
      <3>2. QED
        BY <3>1, Joined
    <2>2. ASSUME NEW k \in 1 .. n PROVE (pre \o copies)[k + 1] = Copy(k)
      <3>1. k \in 1 .. Len(copies) /\ Len(pre) + k = k + 1
        BY <1>1, <1>3, <1>4
      <3>2. QED
        BY <1>4, <2>1, <3>1
    <2>3. Len(pre \o copies) = n + 1 /\ (pre \o copies)[1] = pre[1]
      BY <1>1, <1>3, <1>4, <2>1
    <2>4. QED
      BY <2>1, <2>2, <2>3
  <1>7. /\ list \in Seq(Command) /\ Len(list) = n + 3
        /\ list[1] = PreBarrier(q)
        /\ \A k \in 1 .. n : list[k + 1] = Copy(k)
        /\ list[n + 2] = PostBarrier(q, "fragment") /\ list[n + 3] = PostBarrier(q, "vertex_input")
    <2> DEFINE s == pre \o copies
    <2>1. list = s \o post
      BY DEF Commands, pre, copies, post
    <2>2. s \in Seq(Command) /\ Len(s) = n + 1 /\ s[1] = pre[1] /\ \A k \in 1 .. n : s[k + 1] = Copy(k)
      BY <1>6
    <2> HIDE DEF s
    <2>3. /\ list \in Seq(Command) /\ Len(list) = Len(s) + Len(post)
          /\ \A i \in 1 .. Len(s) : list[i] = s[i]
          /\ \A i \in 1 .. Len(post) : list[Len(s) + i] = post[i]
      <3>1. s \in Seq(Command) /\ post \in Seq(Command)
        BY <1>5, <2>2
      <3>2. /\ s \o post \in Seq(Command) /\ Len(s \o post) = Len(s) + Len(post)
            /\ \A i \in 1 .. Len(s) : (s \o post)[i] = s[i]
            /\ \A i \in 1 .. Len(post) : (s \o post)[Len(s) + i] = post[i]
        BY <3>1, Joined
      <3> HIDE DEF list
      <3>3. QED
        BY <2>1, <3>2
    <2>4. /\ 1 \in 1 .. Len(s) /\ \A k \in 1 .. n : k + 1 \in 1 .. Len(s)
          /\ Len(s) + 1 = n + 2 /\ Len(s) + 2 = n + 3
          /\ 1 \in 1 .. Len(post) /\ 2 \in 1 .. Len(post)
      BY <1>1, <1>5, <2>2
    <2>5. QED
      BY <1>3, <1>5, <2>2, <2>3, <2>4
  <1> HIDE DEF list
  <1>8. /\ \A i \in 2 .. n + 1 : i - 1 \in 1 .. n /\ list[i] = Copy(i - 1)
        /\ \A k \in 1 .. n : k + 1 \in 2 .. n + 1
    <2>1. /\ \A k \in 1 .. n : k + 1 \in 2 .. n + 1
          /\ \A i \in 2 .. n + 1 : i - 1 \in 1 .. n /\ i = (i - 1) + 1
      BY <1>1
    <2>2. QED
      BY <1>7, <2>1
  <1>9. \A k \in 1 .. n : Copy(k).op = "copy" /\ Copy(k).to = q[k] /\ Copy(k).size = Length[q[k]]
    BY DEF Copy
  <1>10. \A d \in Destination : To(list, n, d) <=> d \in Range(q)
    <2>1. ASSUME NEW i \in 2 .. n + 1 PROVE list[i].to \in Range(q)
      <3>1. i - 1 \in 1 .. n /\ list[i] = Copy(i - 1)
        BY <1>8
      <3>2. list[i].to = q[i - 1]
        BY <1>9, <3>1
      <3>3. QED
        BY <1>1, <3>1, <3>2
    <2>2. ASSUME NEW k \in 1 .. n PROVE k + 1 \in 2 .. n + 1 /\ list[k + 1].to = q[k]
      BY <1>1, <1>7, <1>8, <1>9
    <2>3. QED
      BY <1>1, <2>1, <2>2 DEF To
  <1>11. UploadsFirst(list, n)
    <2>1. /\ list[1].op = "pre"
          /\ list[1].of = {d \in Destination : To(list, n, d) /\ d[2] = "texture"}
      BY <1>1, <1>7, <1>10 DEF PreBarrier, Images
    <2>2. /\ list[n + 2].op = "post" /\ list[n + 2].stage = "fragment"
          /\ list[n + 2].of = {d \in Destination : To(list, n, d) /\ FirstUse(d) = "fragment"}
          /\ list[n + 3].op = "post" /\ list[n + 3].stage = "vertex_input"
          /\ list[n + 3].of = {d \in Destination : To(list, n, d) /\ FirstUse(d) = "vertex_input"}
      BY <1>1, <1>7, <1>10 DEF PostBarrier
    <2>3. \A i \in 2 .. n + 1 : list[i].op = "copy" /\ list[i].size = Length[list[i].to]
      BY <1>8, <1>9
    <2>4. \A i, j \in 2 .. n + 1 : list[i].to = list[j].to => i = j
      <3>1. \A i \in 2 .. n + 1 : i - 1 \in 1 .. n /\ list[i].to = q[i - 1]
        BY <1>8, <1>9
      <3>2. QED
        BY <1>1, <3>1
    <2>5. QED
      BY <1>1, <1>7, <2>1, <2>2, <2>3, <2>4 DEF UploadsFirst, To
  <1>12. \A i \in 1 .. n + 3 :
           \/ i \in 2 .. n + 1 /\ list[i].op = "copy"
           \/ i \notin 2 .. n + 1 /\ list[i].op \in {"pre", "post"}
    <2>1. \A i \in 1 .. n + 3 : i = 1 \/ i \in 2 .. n + 1 \/ i = n + 2 \/ i = n + 3
      BY <1>1
    <2>2. 1 \notin 2 .. n + 1 /\ n + 2 \notin 2 .. n + 1 /\ n + 3 \notin 2 .. n + 1
      BY <1>1
    <2>3. QED
      BY <1>11, <2>1, <2>2 DEF UploadsFirst
  <1>13. Shape(list)
    <2>1. n \in 1 .. Len(list) /\ DrawsFrom(list, n + 4)
      BY <1>1, <1>7 DEF DrawsFrom
    <2>2. QED
      BY <1>11, <2>1 DEF Shape
  <1>14. DOMAIN list = 1 .. n + 3 /\ \A i \in 2 .. n + 1 : i \in 1 .. n + 3
    BY <1>1, <1>7
  <1>15. \A d \in Destination : Copied(list, d) <=> To(list, n, d)
    BY <1>12, <1>14 DEF Copied, To
  <1>16. \A i \in DOMAIN list : list[i].op = "copy" => \E k \in DOMAIN q : list[i] = Copy(k)
    BY <1>1, <1>8, <1>12, <1>14
  <1>17. \A i \in DOMAIN list : list[i].op # "draw"
    BY <1>12, <1>14
  <1>18. QED
    BY <1>7, <1>10, <1>13, <1>15, <1>16, <1>17 DEF list, Copy

\* A draw behind what is recorded.
LEMMA DrawFacts ==
    ASSUME NEW list \in Seq(Command), Shape(list), NEW c \in Command, c.op = "draw"
    PROVE  LET longer == Append(list, c) IN
           /\ longer \in Seq(Command) /\ Shape(longer)
           /\ \A d : Copied(longer, d) <=> Copied(list, d)
           /\ \A i \in DOMAIN longer : \/ i \in DOMAIN list /\ longer[i] = list[i]
                                       \/ i \notin DOMAIN list /\ longer[i] = c
           /\ \A i \in DOMAIN list : i \in DOMAIN longer /\ longer[i] = list[i]
  <1> DEFINE longer == Append(list, c)
             n == Len(list)
  <1>1. /\ longer \in Seq(Command) /\ Len(longer) = n + 1 /\ n \in Nat
        /\ DOMAIN list = 1 .. n /\ DOMAIN longer = 1 .. n + 1
        /\ \A i \in 1 .. n : longer[i] = list[i]
        /\ longer[n + 1] = c
    OBVIOUS
  <1> HIDE DEF longer, n
  <1>2. \A i \in 1 .. n + 1 : i \in 1 .. n \/ (i \notin 1 .. n /\ i = n + 1)
    BY <1>1
  <1>3. \A i \in 1 .. n : i \in 1 .. n + 1
    BY <1>1
  <1>4. \A d : Copied(longer, d) <=> Copied(list, d)
    BY <1>1, <1>2, <1>3 DEF Copied
  <1>5. ASSUME NEW k \in Nat, k >= 1, DrawsFrom(list, k) PROVE DrawsFrom(longer, k)
    <2>1. SUFFICES ASSUME NEW i \in k .. n + 1 PROVE longer[i].op = "draw"
      BY <1>1 DEF DrawsFrom
    <2>2. (i \in k .. n /\ i \in 1 .. n) \/ i = n + 1
      BY <1>1, <1>5
    <2>3. \A j \in k .. n : list[j].op = "draw"
      BY <1>5 DEF DrawsFrom, n
    <2>4. QED
      BY <1>1, <2>2, <2>3
  <1>6. ASSUME NEW k \in 1 .. n, UploadsFirst(list, k) PROVE UploadsFirst(longer, k)
    <2>1. /\ k + 3 <= n /\ k + 3 <= n + 1
          /\ 1 \in 1 .. n /\ k + 2 \in 1 .. n /\ k + 3 \in 1 .. n
          /\ \A i \in 2 .. k + 1 : i \in 1 .. n
      BY <1>1, <1>6 DEF UploadsFirst, n
    <2>2. /\ longer[1] = list[1] /\ longer[k + 2] = list[k + 2] /\ longer[k + 3] = list[k + 3]
          /\ \A i \in 2 .. k + 1 : longer[i] = list[i]
      BY <1>1, <2>1
    <2>3. QED
      BY <1>1, <1>6, <2>1, <2>2 DEF UploadsFirst
  <1>7. Shape(longer)
    <2>1. CASE DrawsFrom(list, 1)
      BY <1>5, <2>1 DEF Shape
    <2>2. CASE \E k \in 1 .. n : UploadsFirst(list, k) /\ DrawsFrom(list, k + 4)
      <3>1. PICK k \in 1 .. n : UploadsFirst(list, k) /\ DrawsFrom(list, k + 4)
        BY <2>2
      <3>2. k \in 1 .. Len(longer) /\ k + 4 \in Nat /\ k + 4 >= 1
        BY <1>1
      <3>3. QED
        BY <1>5, <1>6, <3>1, <3>2 DEF Shape
    <2>3. QED
      BY <2>1, <2>2 DEF Shape, n
  <1>8. QED
    BY <1>1, <1>2, <1>3, <1>4, <1>7 DEF longer

----------------------------------------------------------------------------
(***************************************************************************)
(* What a step does to the lists, to the memory and to the GPU.            *)
(***************************************************************************)

\* The steps that leave the lists alone.
Quiet ==
  \/ Game
  \/ GrowStagingBuffer \/ LargeEnough \/ UpdateDescriptorSets \/ Deinit
  \/ UNCHANGED vars

\* The steps after which a frame goes on with an empty list.
NoUploads == NothingStaged \/ CreateBufferFails \/ MapMemoryFails

\* The steps, by what they do to the lists.
LEMMA Kinds ==
    ASSUME [Next]_vars
    PROVE  Quiet \/ NoUploads \/ BeginFrame \/ RecordUploads \/ Render \/ EndFrame \/ ExecuteFrame
  BY DEF Next, Frame, Terminated, Quiet, NoUploads

\* The types that the steps below keep needing.
LEMMA InSlot ==
    ASSUME IInv
    PROVE  /\ imageIndex \in Slot /\ inFlight \in Seq(Slot) /\ Pending \subseteq Slot
           /\ \A s \in Slot : renderCmdLists[s] \in Seq(Command)
           /\ DOMAIN renderCmdLists = Slot
           /\ \A p \in DOMAIN inFlight : inFlight[p] \in Slot /\ inFlight[p] \in Range(inFlight)
           /\ \A s \in Range(inFlight) : s \in Slot /\ s \in Pending /\ \E p \in DOMAIN inFlight : s = inFlight[p]
  <1>1. imageIndex \in Slot /\ inFlight \in Seq(Slot)
    BY DEF IInv, TypeOK
  <1>2. \A p \in DOMAIN inFlight : inFlight[p] \in Slot
    BY <1>1
  <1>3. /\ \A s \in Slot : renderCmdLists[s] \in Seq(Command)
        /\ DOMAIN renderCmdLists = Slot
    BY DEF IInv, ListsTypeOK
  <1>4. QED
    BY <1>1, <1>2, <1>3 DEF Pending, Range

\* What each kind of step does to the lists that are pending.
LEMMA QuietEffect ==
    ASSUME IInv, Quiet
    PROVE  /\ UNCHANGED <<renderCmdLists, inFlight, imageIndex, content, layout, unready>>
           /\ Pending' = Pending /\ \A s, d : Holds(s, d)' <=> Holds(s, d)
           /\ pc' \in {"descriptors", "end"} => pc' = pc
           /\ pc' = "render" => pc \in {"descriptors", "render"}
           /\ pc \in {"descriptors", "render"} => pc' \in {"descriptors", "render"}
           /\ pc' \in {"upload", "fill"} => pc \in {"upload", "fill"}
           /\ pc' = "done" => inFlight = <<>>
           /\ Recording' <=> Recording
  <1>1. /\ UNCHANGED <<renderCmdLists, inFlight, imageIndex, content, layout, unready>>
        /\ Recording' <=> Recording
        /\ pc' \in {"descriptors", "end"} => pc' = pc
        /\ pc' = "render" => pc \in {"descriptors", "render"}
        /\ pc \in {"descriptors", "render"} => pc' \in {"descriptors", "render"}
        /\ pc' \in {"upload", "fill"} => pc \in {"upload", "fill"}
    <2>1. CASE Game
      BY <2>1 DEF Game, NewModel, NewModelFails, NewInstance, gpu, Recording
    <2>2. CASE GrowStagingBuffer
      BY <2>2 DEF GrowStagingBuffer, gpu, Recording
    <2>3. CASE LargeEnough
      BY <2>3 DEF LargeEnough, gpu, Recording
    <2>4. CASE UpdateDescriptorSets
      BY <2>4 DEF UpdateDescriptorSets, gpu, Recording
    <2>5. CASE Deinit
      BY <2>5 DEF Deinit, gpu, Recording
    <2>6. CASE UNCHANGED vars
      BY <2>6 DEF vars, gpu, Recording
    <2>7. QED
      BY <2>1, <2>2, <2>3, <2>4, <2>5, <2>6 DEF Quiet
  <1>2. Pending' = Pending
    BY <1>1 DEF Pending, Recording
  <1>3. \A s, d : Holds(s, d)' <=> Holds(s, d)
    BY <1>1, <1>2 DEF Holds
  <1>4. pc' = "done" => inFlight = <<>>
    <2>1. pc = "done" => inFlight = <<>>
      BY DEF IInv, SlotsInv
    <2>2. pc' = "done" => pc = "done" \/ Deinit
      BY DEF Quiet, Game, NewModel, NewModelFails, NewInstance, GrowStagingBuffer, LargeEnough,
             UpdateDescriptorSets, vars
    <2>3. QED
      BY <2>1, <2>2 DEF Deinit
  <1>5. QED
    BY <1>1, <1>2, <1>3, <1>4

\* ... an empty list becomes pending,
LEMMA NoUploadsEffect ==
    ASSUME IInv, NoUploads
    PROVE  /\ UNCHANGED <<renderCmdLists, inFlight, imageIndex, content, layout, unready,
                          scene, stageData, queues, sets>>
           /\ pc \in {"upload", "fill"} /\ pc' \in {"descriptors", "render"}
           /\ renderCmdLists[imageIndex] = <<>>
           /\ Pending' = Pending \cup {imageIndex}
           /\ \A s, d : Holds(s, d)' <=> Holds(s, d)
  <1>1. /\ UNCHANGED <<renderCmdLists, inFlight, imageIndex, content, layout, unready,
                       scene, stageData, queues, sets>>
        /\ pc \in {"upload", "fill"} /\ pc' \in {"descriptors", "render"}
    BY DEF NoUploads, NothingStaged, CreateBufferFails, MapMemoryFails, gpu
  <1>2. renderCmdLists[imageIndex] = <<>>
    BY <1>1 DEF IInv, SlotsInv
  <1>3. Pending' = Pending \cup {imageIndex}
    BY <1>1 DEF Pending, Recording
  <1>4. \A d : ~ Copied(renderCmdLists[imageIndex], d)
    BY <1>2 DEF Copied
  <1>5. QED
    BY <1>1, <1>2, <1>3, <1>4 DEF Holds

\* ... the list of a slot that is not pending is emptied,
LEMMA BeginEffect ==
    ASSUME IInv, BeginFrame
    PROVE  /\ imageIndex \notin Pending /\ Pending' = Pending
           /\ renderCmdLists'[imageIndex] = <<>>
           /\ \A s \in Slot \ {imageIndex} : renderCmdLists'[s] = renderCmdLists[s]
           /\ \A s, d : Holds(s, d)' <=> Holds(s, d)
  <1>1. /\ pc = "systems" /\ pc' = "upload" /\ UNCHANGED <<inFlight, imageIndex>>
        /\ imageIndex \notin Range(inFlight)
        /\ renderCmdLists' = [renderCmdLists EXCEPT ![imageIndex] = <<>>]
    BY DEF BeginFrame
  <1>2. imageIndex \notin Pending /\ Pending' = Pending
    BY <1>1 DEF Pending, Recording
  <1>3. /\ renderCmdLists'[imageIndex] = <<>>
        /\ \A s \in Slot \ {imageIndex} : renderCmdLists'[s] = renderCmdLists[s]
    BY <1>1, InSlot
  <1>4. \A s, d : Holds(s, d)' <=> Holds(s, d)
    BY <1>2, <1>3, InSlot DEF Holds
  <1>5. QED
    BY <1>2, <1>3, <1>4

\* ... a draw comes behind what is recorded,
LEMMA RenderEffect ==
    ASSUME IInv, Render
    PROVE  /\ Pending' = Pending /\ imageIndex \in Pending /\ imageIndex \notin Range(inFlight)
           /\ \A s \in Slot \ {imageIndex} : renderCmdLists'[s] = renderCmdLists[s]
           /\ \E c \in Command :
                /\ c = [op |-> "draw", of |-> instances, bound |-> {m \in Model : Bound(m)}]
                /\ renderCmdLists'[imageIndex] = Append(renderCmdLists[imageIndex], c)
           /\ renderCmdLists[imageIndex] \in Seq(Command) /\ Shape(renderCmdLists[imageIndex])
           /\ renderCmdLists'[imageIndex] \in Seq(Command) /\ Shape(renderCmdLists'[imageIndex])
           /\ \A s, d : Holds(s, d)' <=> Holds(s, d)
  <1> DEFINE c == [op |-> "draw", of |-> instances, bound |-> {m \in Model : Bound(m)}]
             list == renderCmdLists[imageIndex]
  <1>1. /\ pc = "render" /\ pc' = "end" /\ UNCHANGED <<inFlight, imageIndex>>
        /\ renderCmdLists' = [renderCmdLists EXCEPT ![imageIndex] = Append(list, c)]
    BY DEF Render
  <1>2. c \in Command /\ c.op = "draw"
    <2>1. instances \subseteq Model
      BY DEF IInv, TypeOK
    <2>2. QED
      BY <2>1 DEF Command
  <1> HIDE DEF c
  <1>3. Pending' = Pending /\ imageIndex \in Pending
    BY <1>1 DEF Pending, Recording
  <1>4. imageIndex \notin Range(inFlight)
    BY <1>1 DEF IInv, SlotsInv
  <1>5. /\ renderCmdLists'[imageIndex] = Append(list, c)
        /\ \A s \in Slot \ {imageIndex} : renderCmdLists'[s] = renderCmdLists[s]
    BY <1>1, InSlot
  <1>6. list \in Seq(Command) /\ Shape(list)
    BY <1>3, InSlot DEF IInv, ListsInv
  <1> HIDE DEF list
  <1>7. /\ Append(list, c) \in Seq(Command) /\ Shape(Append(list, c))
        /\ \A d : Copied(Append(list, c), d) <=> Copied(list, d)
    BY <1>2, <1>6, DrawFacts
  <1>8. \A s, d : Holds(s, d)' <=> Holds(s, d)
    BY <1>3, <1>5, <1>7, InSlot DEF Holds, list
  <1>9. QED
    BY <1>2, <1>3, <1>4, <1>5, <1>6, <1>7, <1>8 DEF c, list

\* ... a list that was recorded is in flight,
LEMMA EndEffect ==
    ASSUME IInv, EndFrame
    PROVE  /\ Pending' = Pending /\ imageIndex \in Pending /\ imageIndex \notin Range(inFlight)
           /\ UNCHANGED renderCmdLists
           /\ inFlight' = Append(inFlight, imageIndex)
           /\ \A s, d : Holds(s, d)' <=> Holds(s, d)
  <1>1. /\ pc = "end" /\ pc' \in {"systems", "deinit"} /\ UNCHANGED renderCmdLists
        /\ inFlight' = Append(inFlight, imageIndex)
    BY DEF EndFrame
  <1>2. imageIndex \notin Range(inFlight)
    BY <1>1 DEF IInv, SlotsInv
  <1>3. Range(inFlight') = Range(inFlight) \cup {imageIndex}
    <2>1. inFlight \in Seq(Slot) /\ imageIndex \in Slot
      BY InSlot
    <2>2. QED
      BY <1>1, <2>1 DEF Range
  <1>4. Pending' = Pending /\ imageIndex \in Pending
    BY <1>1, <1>3 DEF Pending, Recording
  <1>5. QED
    BY <1>1, <1>2, <1>4 DEF Holds

\* ... and, when the uploads are recorded, the buffer is the slot's own and large enough,
LEMMA FillFacts ==
    ASSUME IInv, RecordUploads
    PROVE  /\ stageData \in Seq(Destination) /\ stageData # <<>>
           /\ \A i, j \in DOMAIN stageData : stageData[i] = stageData[j] => i = j
           /\ imageIndex \in Slot /\ stagingBuffers[imageIndex] \in 1 .. Len(memory)
           /\ Size(stageData) \in Nat
           /\ Size(stageData) <= Len(memory[stagingBuffers[imageIndex]])
  <1>1. pc = "fill"
    BY DEF RecordUploads
  <1>2. /\ stageData \in Seq(Destination)
        /\ \A i, j \in DOMAIN stageData : stageData[i] = stageData[j] => i = j
        /\ imageIndex \in Slot /\ stagingBuffers[imageIndex] \in 0 .. Len(memory)
        /\ Len(memory) \in Nat /\ stagingBufferSizes[imageIndex] \in Nat
    BY DEF IInv, TypeOK, PlacesInv
  <1>3. Size(stageData) \in Nat /\ (Size(stageData) = 0 <=> stageData = <<>>)
    BY <1>2, SizeFacts
  <1>4. Size(stageData) # 0 /\ Size(stageData) <= stagingBufferSizes[imageIndex]
    BY <1>1 DEF IInv, BuffersInv
  <1>5. stagingBuffers[imageIndex] # 0
    BY <1>2, <1>3, <1>4 DEF IInv, BuffersInv
  <1>6. Len(memory[stagingBuffers[imageIndex]]) = stagingBufferSizes[imageIndex]
    BY <1>2, <1>5 DEF IInv, BuffersInv
  <1>7. QED
    BY <1>2, <1>3, <1>4, <1>5, <1>6

\* so that the commands of all that is queued become pending.
LEMMA RecordEffect ==
    ASSUME IInv, RecordUploads
    PROVE  /\ imageIndex \notin Pending /\ Pending' = Pending \cup {imageIndex}
           /\ renderCmdLists'[imageIndex] = Commands(stageData, stagingBuffers[imageIndex])
           /\ renderCmdLists'[imageIndex] \in Seq(Command) /\ Shape(renderCmdLists'[imageIndex])
           /\ \A i \in DOMAIN renderCmdLists'[imageIndex] : renderCmdLists'[imageIndex][i].op # "draw"
           /\ \A s \in Slot \ {imageIndex} : renderCmdLists'[s] = renderCmdLists[s]
           /\ \A d \in Destination : Copied(renderCmdLists'[imageIndex], d) <=> InQueue(d)
           /\ \A s \in Slot, d \in Destination :
                Holds(s, d)' <=> Holds(s, d) \/ (s = imageIndex /\ InQueue(d))
  <1> DEFINE b == stagingBuffers[imageIndex]
             list == Commands(stageData, b)
  <1>1. /\ stageData \in Seq(Destination) /\ stageData # <<>>
        /\ \A i, j \in DOMAIN stageData : stageData[i] = stageData[j] => i = j
        /\ imageIndex \in Slot /\ b \in Nat
    BY FillFacts
  <1>2. /\ pc = "fill" /\ pc' = "descriptors" /\ UNCHANGED <<inFlight, imageIndex>>
        /\ renderCmdLists' = [renderCmdLists EXCEPT ![imageIndex] = renderCmdLists[imageIndex] \o list]
    BY DEF RecordUploads
  <1> HIDE DEF b
  <1>3. /\ list \in Seq(Command) /\ Shape(list)
        /\ \A i \in DOMAIN list : list[i].op # "draw"
        /\ \A d \in Destination : Copied(list, d) <=> d \in Range(stageData)
    BY <1>1, CommandsFacts
  <1> HIDE DEF list
  <1>4. renderCmdLists[imageIndex] = <<>> /\ imageIndex \notin Range(inFlight)
    BY <1>2 DEF IInv, SlotsInv
  <1>5. <<>> \o list = list
    BY <1>3
  <1>6. /\ renderCmdLists'[imageIndex] = list
        /\ \A s \in Slot \ {imageIndex} : renderCmdLists'[s] = renderCmdLists[s]
    BY <1>1, <1>2, <1>4, <1>5, InSlot
  <1>7. imageIndex \notin Pending /\ Pending' = Pending \cup {imageIndex}
    BY <1>2, <1>4 DEF Pending, Recording
  <1>8. \A d \in Destination : Copied(renderCmdLists'[imageIndex], d) <=> InQueue(d)
    BY <1>3, <1>6 DEF InQueue
  <1>9. \A s \in Slot, d \in Destination :
          Holds(s, d)' <=> Holds(s, d) \/ (s = imageIndex /\ InQueue(d))
    BY <1>6, <1>7, <1>8 DEF Holds
  <1>10. QED
    BY <1>3, <1>6, <1>7, <1>8, <1>9 DEF list, b

\* What is in memory after uploadMemory.
LEMMA MemoryEffect ==
    ASSUME IInv, RecordUploads
    PROVE  LET b == stagingBuffers[imageIndex] IN
           /\ b \in 1 .. Len(memory)
           /\ memory' \in Seq(Seq(Byte)) /\ Len(memory') = Len(memory)
           /\ \A x \in 1 .. Len(memory) : Len(memory'[x]) = Len(memory[x])
           /\ \A x \in 1 .. Len(memory) : x # b => memory'[x] = memory[x]
           /\ \A k \in DOMAIN stageData :
                /\ BytesUpTo(stageData)[k - 1] + Length[stageData[k]] <= Len(memory'[b])
                /\ \A j \in 1 .. Length[stageData[k]] :
                     memory'[b][BytesUpTo(stageData)[k - 1] + j] = <<stageData[k], j>>
  <1> DEFINE b == stagingBuffers[imageIndex]
             n == Len(stageData)
             bytes == Written(stageData)[n]
             old == memory[b]
             new == bytes \o SubSeq(old, Len(bytes) + 1, Len(old))
             at == BytesUpTo(stageData)
  <1>1. /\ stageData \in Seq(Destination) /\ n \in Nat /\ n \in 0 .. n
        /\ DOMAIN stageData = 1 .. n
        /\ b \in 1 .. Len(memory) /\ at[n] <= Len(old)
    BY FillFacts DEF Size
  <1>2. memory \in Seq(Seq(Byte)) /\ Len(memory) \in Nat /\ old \in Seq(Byte) /\ Len(old) \in Nat
    BY <1>1 DEF IInv, TypeOK
  <1>3. memory' = [memory EXCEPT ![b] = new]
    BY DEF RecordUploads, UploadMemory
  <1>4. /\ bytes \in Seq(Byte) /\ Len(bytes) = at[n]
        /\ \A k \in 1 .. n : \A j \in 1 .. Length[stageData[k]] :
             bytes[at[k - 1] + j] = <<stageData[k], j>>
    BY <1>1, WrittenFacts DEF Put
  <1>5. \A k \in 1 .. n : Length[stageData[k]] \in Nat
    BY <1>1, UploadAssumption
  <1>6. /\ \A k \in 0 .. n : at[k] \in Nat
        /\ \A k \in 1 .. n : at[k] = at[k - 1] + Length[stageData[k]]
    BY <1>1, SumFacts
  <1> HIDE DEF b, n, bytes, old, at
  <1>7. ASSUME NEW k \in 1 .. n PROVE at[k] <= at[n] /\ k - 1 \in 0 .. n /\ k \in 0 .. n
    <2>1. k - 1 \in 0 .. n /\ k \in 0 .. n
      BY <1>1
    <2>2. k = n \/ k < n
      BY <1>1
    <2>3. k < n => at[k] < at[n]
      BY <1>1, <2>1, SumGrows DEF n, at
    <2>4. QED
      BY <1>1, <1>6, <2>1, <2>2, <2>3
  <1>8. /\ new \in Seq(Byte) /\ Len(new) = Len(old)
        /\ \A i \in 1 .. Len(bytes) : new[i] = bytes[i]
    <2> DEFINE rest == SubSeq(old, Len(bytes) + 1, Len(old))
    <2>1. at[n] \in Nat /\ Len(bytes) \in Nat /\ Len(bytes) <= Len(old)
      BY <1>1, <1>4, <1>6
    <2>2. rest \in Seq(Byte) /\ Len(rest) = Len(old) - Len(bytes)
      BY <1>2, <2>1
    <2> HIDE DEF rest
    <2>3. /\ bytes \o rest \in Seq(Byte) /\ Len(bytes \o rest) = Len(bytes) + Len(rest)
          /\ \A i \in 1 .. Len(bytes) : (bytes \o rest)[i] = bytes[i]
      BY <1>4, <2>2, Joined
    <2>4. QED
      BY <1>2, <2>1, <2>2, <2>3 DEF rest
  <1> HIDE DEF new
  <1>9. /\ memory' \in Seq(Seq(Byte)) /\ Len(memory') = Len(memory)
        /\ memory'[b] = new
        /\ \A x \in 1 .. Len(memory) : x # b => memory'[x] = memory[x]
    BY <1>1, <1>2, <1>3, <1>8
  <1>10. \A x \in 1 .. Len(memory) : Len(memory'[x]) = Len(memory[x])
    BY <1>8, <1>9 DEF old
  <1>11. ASSUME NEW k \in 1 .. n
         PROVE  /\ at[k - 1] + Length[stageData[k]] <= Len(memory'[b])
                /\ \A j \in 1 .. Length[stageData[k]] :
                     memory'[b][at[k - 1] + j] = <<stageData[k], j>>
    <2>1. /\ at[k - 1] \in Nat /\ at[k] \in Nat /\ at[n] \in Nat /\ at[k] <= at[n]
          /\ at[k] = at[k - 1] + Length[stageData[k]] /\ Length[stageData[k]] \in Nat
      BY <1>1, <1>5, <1>6, <1>7
    <2>2. \A j \in 1 .. Length[stageData[k]] : at[k - 1] + j \in 1 .. Len(bytes)
      BY <1>4, <2>1
    <2>3. Len(memory'[b]) = Len(old) /\ Len(old) \in Nat
      BY <1>2, <1>8, <1>9
    <2>4. at[k - 1] + Length[stageData[k]] <= Len(memory'[b])
      BY <1>1, <2>1, <2>3
    <2>5. \A j \in 1 .. Length[stageData[k]] :
            memory'[b][at[k - 1] + j] = <<stageData[k], j>>
      BY <1>4, <1>8, <1>9, <2>2
    <2>6. QED
      BY <2>4, <2>5
  <1>12. QED
    BY <1>1, <1>9, <1>10, <1>11 DEF b, at

\* The oldest list is executed.
LEMMA ExecuteEffect ==
    ASSUME IInv, ExecuteFrame
    PROVE  LET h == Head(inFlight)
               list == renderCmdLists[h]
           IN  /\ inFlight # <<>> /\ h \in Slot /\ h = inFlight[1] /\ 1 \in DOMAIN inFlight
               /\ UNCHANGED <<pc, imageIndex, scene, stageData, queues, buffers,
                              renderCmdLists, sets, faults>>
               /\ inFlight' \in Seq(Slot) /\ Len(inFlight') = Len(inFlight) - 1
               /\ \A p \in DOMAIN inFlight' :
                    p + 1 \in DOMAIN inFlight /\ inFlight'[p] = inFlight[p + 1] 
               /\ h \in Pending /\ Pending' = Pending \ {h} /\ (Recording => h # imageIndex)
               /\ list \in Seq(Command) /\ Shape(list)
               /\ content' \in [Destination -> Seq(Byte)] /\ layout' \in [Destination -> Stages]
               /\ unready' \subseteq Model
               /\ \A d \in Destination : ~ Copied(list, d) =>
                    layout'[d] = layout[d] /\ content'[d] = content[d]
               /\ \A i \in DOMAIN list : list[i].op = "copy" =>
                    /\ layout'[list[i].to] = FirstUse(list[i].to)
                    /\ content'[list[i].to] = Read(list[i].from, list[i].offset, list[i].size)
               /\ \A x \in unready' \ unready :
                    \E i \in DOMAIN list :
                       /\ list[i].op = "draw" /\ x \in list[i].of
                       /\ (\E p \in Part : layout'[<<x, p>>] # FirstUse(<<x, p>>))
                          \/ x \notin list[i].bound
  <1> DEFINE h == Head(inFlight)
             list == renderCmdLists[h]
             g == [content |-> content, layout |-> layout, unready |-> unready]
             end == Execution(g, list)[Len(list)]
  <1>1. /\ inFlight # <<>> /\ inFlight' = Tail(inFlight)
        /\ content' = end.content /\ layout' = end.layout /\ unready' = end.unready
        /\ UNCHANGED <<pc, imageIndex, scene, stageData, queues, buffers,
                       renderCmdLists, sets, faults>>
    BY DEF ExecuteFrame
  <1> HIDE DEF g, end
  <1>2. /\ h \in Slot /\ h = inFlight[1] /\ 1 \in DOMAIN inFlight
        /\ inFlight \in Seq(Slot) /\ inFlight' \in Seq(Slot) /\ Len(inFlight') = Len(inFlight) - 1
        /\ \A p \in DOMAIN inFlight' : p + 1 \in DOMAIN inFlight /\ inFlight'[p] = inFlight[p + 1]
        /\ \A p \in DOMAIN inFlight : p = 1 \/ (p - 1 \in DOMAIN inFlight' /\ inFlight[p] = inFlight'[p - 1])
        /\ \A p \in DOMAIN inFlight' : p + 1 # 1
    BY <1>1, InSlot
  <1>3. Range(inFlight') = Range(inFlight) \ {h}
    <2>1. \A p, q \in DOMAIN inFlight : inFlight[p] = inFlight[q] => p = q
      BY DEF IInv, SlotsInv
    <2>2. \A p \in DOMAIN inFlight' : inFlight'[p] # h
      BY <1>2, <2>1
    <2> HIDE DEF h
    <2>3. ASSUME NEW s \in Range(inFlight') PROVE s \in Range(inFlight) \ {h}
      <3>1. PICK p \in DOMAIN inFlight' : s = inFlight'[p]
        BY DEF Range
      <3>2. p + 1 \in DOMAIN inFlight /\ s = inFlight[p + 1]
        BY <1>2, <3>1
      <3>3. QED
        BY <2>2, <3>1, <3>2 DEF Range
    <2>4. ASSUME NEW s \in Range(inFlight) \ {h} PROVE s \in Range(inFlight')
      <3>1. PICK p \in DOMAIN inFlight : s = inFlight[p]
        BY DEF Range
      <3>2. p - 1 \in DOMAIN inFlight' /\ s = inFlight'[p - 1]
        BY <1>2, <3>1
      <3>3. QED
        BY <3>2 DEF Range
    <2>5. QED
      BY <2>3, <2>4
  <1>4. Recording => h # imageIndex
    <2>1. Recording => imageIndex \notin Range(inFlight)
      BY DEF Recording, IInv, SlotsInv
    <2>2. h \in Range(inFlight)
      BY <1>2, InSlot
    <2>3. QED
      BY <2>1, <2>2
  <1>5. h \in Pending /\ Pending' = Pending \ {h}
    <2>1. h \in Pending /\ (Recording' <=> Recording) /\ imageIndex' = imageIndex
      BY <1>1, <1>2, InSlot DEF Recording
    <2> HIDE DEF h
    <2>2. QED
      BY <1>3, <1>4, <2>1 DEF Pending
  <1>6. list \in Seq(Command) /\ Shape(list)
    BY <1>2, <1>5, InSlot DEF IInv, ListsInv
  <1>7. /\ memory \in Seq(Seq(Byte)) /\ live \subseteq 1 .. Len(memory)
        /\ g \in GpuState /\ g.content = content /\ g.layout = layout /\ g.unready = unready
    BY DEF IInv, TypeOK, g, GpuState, Stages
  <1> HIDE DEF h, list
  <1>8. /\ end \in GpuState
        /\ \A d \in Destination : ~ Copied(list, d) =>
             end.layout[d] = g.layout[d] /\ end.content[d] = g.content[d]
        /\ \A i \in DOMAIN list : list[i].op = "copy" =>
             /\ end.layout[list[i].to] = FirstUse(list[i].to)
             /\ end.content[list[i].to] = Read(list[i].from, list[i].offset, list[i].size)
        /\ \A x \in end.unready \ g.unready :
             \E i \in DOMAIN list : /\ list[i].op = "draw" /\ x \in list[i].of
                                    /\ ~ Readable(end, x) \/ x \notin list[i].bound
    BY <1>6, <1>7, Executed DEF end
  <1>9. \A x : ~ Readable(end, x) => \E p \in Part : layout'[<<x, p>>] # FirstUse(<<x, p>>)
    BY <1>1 DEF Readable
  <1>10. end.content \in [Destination -> Seq(Byte)] /\ end.layout \in [Destination -> Stages]
         /\ end.unready \subseteq Model
    BY <1>8 DEF GpuState
  <1>11. \A x \in unready' \ unready :
                    \E i \in DOMAIN list :
                       /\ list[i].op = "draw" /\ x \in list[i].of
                       /\ (\E p \in Part : layout'[<<x, p>>] # FirstUse(<<x, p>>))
                          \/ x \notin list[i].bound
    BY <1>1, <1>7, <1>8, <1>9
  <1>12. /\ \A d \in Destination : ~ Copied(list, d) =>
              layout'[d] = layout[d] /\ content'[d] = content[d]
         /\ \A i \in DOMAIN list : list[i].op = "copy" =>
              /\ layout'[list[i].to] = FirstUse(list[i].to)
              /\ content'[list[i].to] = Read(list[i].from, list[i].offset, list[i].size)
    BY <1>1, <1>7, <1>8
  <1>13. QED
    BY <1>1, <1>2, <1>4, <1>5, <1>6, <1>10, <1>11, <1>12 DEF h, list

----------------------------------------------------------------------------
(***************************************************************************)
(* The steps preserve the invariant, one conjunct after the other.         *)
(***************************************************************************)

\* A model's uploads behind the queue, all or the first of them.
FirstUploads(m, n) == SubSeq(Uploads(m), 1, n)

\* A queue that a model put its uploads behind.
LEMMA QueueLonger ==
    ASSUME NEW s \in Seq(Destination), NEW m \in Model, NEW n \in 0 .. 3
    PROVE  LET t == FirstUploads(m, n) IN
           /\ s \o t \in Seq(Destination)
           /\ Range(s \o t) = Range(s) \cup Range(t)
           /\ Uploads(m) \in Seq(Destination) /\ t \in Seq(Destination) /\ Len(t) = n
           /\ \A d \in Range(t) : d[1] = m
           /\ \A i, j \in DOMAIN t : t[i] = t[j] => i = j
           /\ n = 3 => t = Uploads(m) /\ \A p \in Part : <<m, p>> \in Range(t)
  <1> DEFINE u == Uploads(m)
             t == FirstUploads(m, n)
  <1>1. /\ u \in Seq(Destination) /\ Len(u) = 3
        /\ u[1] = <<m, "texture">> /\ u[2] = <<m, "vertices">> /\ u[3] = <<m, "indices">>
    <2>1. \A p \in Part : <<m, p>> \in Destination
      BY DEF Destination
    <2>2. QED
      BY <2>1 DEF Uploads, Part
  <1>2. t = SubSeq(u, 1, n)
    BY DEF FirstUploads
  <1> HIDE DEF t, u
  <1>3. /\ t \in Seq(Destination) /\ Len(t) = n /\ DOMAIN t = 1 .. n
        /\ \A i \in 1 .. n : t[i] = u[i] /\ (i = 1 \/ i = 2 \/ i = 3)
    <2>1. t \in Seq(Destination) /\ Len(t) = n /\ \A i \in 1 .. n : t[i] = u[i]
      BY <1>1, <1>2
    <2>2. \A i \in 1 .. n : i = 1 \/ i = 2 \/ i = 3
      OBVIOUS
    <2>3. QED
      BY <2>1, <2>2
  <1>4. /\ \A d \in Range(t) : d[1] = m
        /\ \A i, j \in DOMAIN t : t[i] = t[j] => i = j
    BY <1>1, <1>3 DEF Range
  <1>5. n = 3 => t = u /\ \A p \in Part : <<m, p>> \in Range(t)
    <2>1. SUFFICES ASSUME n = 3 PROVE t = u /\ \A p \in Part : <<m, p>> \in Range(t)
      OBVIOUS
    <2>2. t = u
      BY <1>1, <1>3, <2>1
    <2>3. 1 \in DOMAIN t /\ 2 \in DOMAIN t /\ 3 \in DOMAIN t
      BY <1>3, <2>1
    <2>4. QED
      BY <1>1, <2>2, <2>3 DEF Range, Part
  <1>6. /\ s \o t \in Seq(Destination) /\ Len(s \o t) = Len(s) + n
        /\ \A i \in 1 .. Len(s) : (s \o t)[i] = s[i]
        /\ \A i \in 1 .. n : (s \o t)[Len(s) + i] = t[i]
        /\ Len(s) \in Nat
    BY <1>3, Joined
  <1>7. Range(s \o t) = Range(s) \cup Range(t)
    <2>1. /\ \A i \in 1 .. Len(s) + n : i \in 1 .. Len(s) \/ (i - Len(s) \in 1 .. n /\ i = Len(s) + (i - Len(s)))
          /\ \A i \in 1 .. Len(s) : i \in 1 .. Len(s) + n
          /\ \A i \in 1 .. n : Len(s) + i \in 1 .. Len(s) + n
      BY <1>6
    <2>2. DOMAIN (s \o t) = 1 .. Len(s) + n /\ DOMAIN s = 1 .. Len(s)
      BY <1>6
    <2> DEFINE c == s \o t
    <2> HIDE DEF c
    <2>3. /\ \A i \in 1 .. Len(s) : c[i] = s[i]
          /\ \A i \in 1 .. n : c[Len(s) + i] = t[i]
          /\ DOMAIN c = 1 .. Len(s) + n
      BY <1>6, <2>2 DEF c
    <2>4. ASSUME NEW x \in Range(c) PROVE x \in Range(s) \cup Range(t)
      <3>1. PICK i \in 1 .. Len(s) + n : x = c[i]
        BY <2>3 DEF Range
      <3>2. CASE i \in 1 .. Len(s)
        BY <2>2, <2>3, <3>1, <3>2 DEF Range
      <3>3. CASE i - Len(s) \in 1 .. n
        <4>1. x = t[i - Len(s)]
          BY <2>1, <2>3, <3>1, <3>3, <1>6
        <4>2. QED
          BY <1>3, <3>3, <4>1 DEF Range
      <3>4. QED
        BY <2>1, <3>1, <3>2, <3>3
    <2>5. Range(s) \subseteq Range(c)
      BY <2>1, <2>2, <2>3 DEF Range
    <2>6. Range(t) \subseteq Range(c)
      BY <1>3, <2>1, <2>3 DEF Range
    <2>7. QED
      BY <2>4, <2>5, <2>6 DEF c
  <1>8. QED
    BY <1>1, <1>3, <1>4, <1>5, <1>6, <1>7 DEF u, t

\* A model puts none, one or all of its uploads into the queue.
LEMMA NewModelQueue ==
    ASSUME IInv, NEW m \in Model, NewModel(m) \/ NewModelFails(m)
    PROVE  \E n \in 0 .. 3 : /\ stageData' = stageData \o FirstUploads(m, n)
                             /\ NewModel(m) => n = 3
  <1>1. CASE NewModel(m)
    <2>1. stageData \in Seq(Destination)
      BY DEF IInv, TypeOK
    <2>2. 3 \in 0 .. 3
      OBVIOUS
    <2>3. FirstUploads(m, 3) = Uploads(m)
      BY <2>1, <2>2, QueueLonger
    <2>4. stageData' = stageData \o FirstUploads(m, 3)
      BY <1>1, <2>3 DEF NewModel
    <2>5. QED
      BY <2>2, <2>4
  <1>2. CASE NewModelFails(m) /\ ~ NewModel(m)
    <2>1. PICK n \in {0, 1, 3} : stageData' = stageData \o SubSeq(Uploads(m), 1, n)
      BY <1>2 DEF NewModelFails
    <2>2. n \in 0 .. 3
      BY <2>1
    <2>3. QED
      BY <1>2, <2>1, <2>2 DEF FirstUploads
  <1>3. QED
    BY <1>1, <1>2

\* Types.
LEMMA TypeStep ==
    ASSUME IInv, [Next]_vars
    PROVE  TypeOK'
  <1> USE DEF TypeOK
  <1>1. TypeOK
    BY DEF IInv
  <1>2. ASSUME NEW m \in Model, NewModel(m) \/ NewModelFails(m) PROVE TypeOK'
    <2>1. stageData' \in Seq(Destination)
      <3>1. PICK n \in 0 .. 3 : stageData' = stageData \o FirstUploads(m, n)
        BY <1>2, NewModelQueue
      <3>2. QED
        BY <1>1, <3>1, QueueLonger
    <2>2. failed' \in 0 .. MaxFailures
      BY <1>1, <1>2, UploadAssumption DEF NewModel, NewModelFails, Fail, faults
    <2>3. /\ attempted' = attempted \cup {m} /\ models' \in {models, models \cup {m}}
          /\ UNCHANGED <<pc, imageIndex, instances, buffers, inFlight, gpu, broken, delayed>>
      BY <1>2 DEF NewModel, NewModelFails, faults
    <2>4. QED
      BY <1>1, <2>1, <2>2, <2>3 DEF buffers, gpu
  <1>3. ASSUME NEW m \in Model, NewInstance(m) PROVE TypeOK'
    BY <1>1, <1>3 DEF NewInstance, buffers, gpu, faults
  <1>4. CASE BeginFrame \/ NothingStaged \/ LargeEnough
    BY <1>1, <1>4 DEF BeginFrame, NothingStaged, LargeEnough, scene, buffers, gpu, faults
  <1>5. CASE GrowStagingBuffer
    <2> DEFINE new == Len(memory) + 1
               e == [i \in 1 .. Size(stageData) |-> <<>>]
    <2>1. Size(stageData) \in Nat
      BY <1>1, SizeFacts
    <2>2. e \in Seq(Byte)
      BY <2>1 DEF Byte
    <2>3. /\ memory' = Append(memory, e) /\ live' = WithoutOld \cup {new} /\ pc' = "fill"
          /\ stagingBuffers' = [stagingBuffers EXCEPT ![imageIndex] = new]
          /\ stagingBufferSizes' = [stagingBufferSizes EXCEPT ![imageIndex] = Size(stageData)]
          /\ UNCHANGED <<imageIndex, attempted, models, instances, stageData, inFlight,
                         content, layout, unready, failed, broken, delayed>>
      BY <1>5 DEF GrowStagingBuffer, scene, gpu, faults
    <2> HIDE DEF e
    <2>4. /\ memory' \in Seq(Seq(Byte)) /\ Len(memory') = new /\ Len(memory) \in Nat
      BY <1>1, <2>2, <2>3
    <2>5. WithoutOld \subseteq live
      BY DEF WithoutOld
    <2>6. \A b \in 0 .. Len(memory) : b \in 0 .. new
      BY <2>4
    <2>7. \A b \in 1 .. Len(memory) : b \in 1 .. new
      BY <2>4
    <2>8. new \in 1 .. new /\ new \in 0 .. new
      BY <2>4
    <2> HIDE DEF new
    <2>9. stagingBuffers' \in [Slot -> 0 .. Len(memory')]
      BY <1>1, <2>3, <2>4, <2>6, <2>8
    <2>10. live' \subseteq 1 .. Len(memory')
      BY <1>1, <2>3, <2>4, <2>5, <2>7, <2>8
    <2>11. stagingBufferSizes' \in [Slot -> Nat]
      BY <1>1, <2>1, <2>3
    <2>12. QED
      BY <1>1, <2>3, <2>4, <2>9, <2>10, <2>11
  <1>6. Queued \subseteq Model
    <2>1. \A d \in Range(stageData) : d[1] \in Model
      BY <1>1 DEF Range, Destination
    <2>2. \A w \in Range(descriptorWrites) : w.set[1] \in Model
      <3>1. descriptorWrites \in Seq(Write)
        BY DEF IInv, QueuesInv
      <3>2. ASSUME NEW w \in Range(descriptorWrites) PROVE w.set \in Set
        <4>1. PICK k \in DOMAIN descriptorWrites : w = descriptorWrites[k]
          BY DEF Range
        <4>2. w \in Write
          BY <3>1, <4>1
        <4>3. QED
          BY <4>2 DEF Write
      <3>3. \A s \in Set : s[1] \in Model
        BY DEF Set
      <3>4. QED
        BY <3>2, <3>3
    <2>3. QED
      BY <2>1, <2>2 DEF Queued
  <1>7. CASE CreateBufferFails
    <2>1. failed' \in 0 .. MaxFailures /\ WithoutOld \subseteq live
      BY <1>1, <1>7, UploadAssumption DEF CreateBufferFails, Fail, WithoutOld
    <2>2. QED
      BY <1>1, <1>6, <1>7, <2>1 DEF CreateBufferFails, scene, gpu
  <1>8. CASE MapMemoryFails
    <2>1. failed' \in 0 .. MaxFailures
      BY <1>1, <1>8, UploadAssumption DEF MapMemoryFails, Fail
    <2>2. QED
      BY <1>1, <1>6, <1>8, <2>1 DEF MapMemoryFails, scene, buffers, gpu
  <1>9. CASE RecordUploads
    <2>1. memory' \in Seq(Seq(Byte)) /\ Len(memory') = Len(memory)
      BY <1>9, MemoryEffect
    <2>2. QED
      BY <1>1, <1>9, <2>1 DEF RecordUploads, scene, gpu, faults
  <1>10. CASE UpdateDescriptorSets \/ Render
    BY <1>1, <1>10 DEF UpdateDescriptorSets, Render, scene, buffers, gpu, faults
  <1>11. CASE EndFrame
    <2>1. (imageIndex + 1) % BufferedImages \in Slot
      BY <1>1, UploadAssumption DEF Slot
    <2>2. inFlight' \in Seq(Slot)
      BY <1>1, <1>11 DEF EndFrame
    <2>3. QED
      BY <1>1, <1>11, <2>1, <2>2 DEF EndFrame, scene, buffers, gpu, faults
  <1>12. CASE Deinit
    <2>1. /\ live' \subseteq live /\ stageData' = <<>> /\ pc' = "done"
          /\ UNCHANGED <<imageIndex, attempted, models, instances, stagingBuffers,
                         stagingBufferSizes, memory, inFlight, content, layout, unready,
                         failed, broken, delayed>>
      BY <1>12 DEF Deinit, scene, gpu, faults
    <2>2. stageData' \in Seq(Destination)
      BY <2>1
    <2>3. QED
      BY <1>1, <2>1, <2>2
  <1>13. CASE ExecuteFrame
    <2>1. /\ UNCHANGED <<pc, imageIndex, scene, stageData, buffers, faults>>
          /\ inFlight' \in Seq(Slot) /\ content' \in [Destination -> Seq(Byte)]
          /\ layout' \in [Destination -> Stages] /\ unready' \subseteq Model
      BY <1>13, ExecuteEffect
    <2>2. QED
      BY <1>1, <2>1 DEF scene, buffers, faults, Stages
  <1>14. CASE UNCHANGED vars
    BY <1>1, <1>14 DEF vars, scene, buffers, gpu, faults
  <1>15. QED
    BY <1>2, <1>3, <1>4, <1>5, <1>7, <1>8, <1>9, <1>10, <1>11, <1>12, <1>13, <1>14
    DEF Next, Game, Frame, Terminated

LEMMA ListsTypeStep ==
    ASSUME IInv, [Next]_vars
    PROVE  ListsTypeOK'
  <1>1. /\ renderCmdLists \in [Slot -> Seq(Command)] /\ imageIndex \in Slot
    BY InSlot DEF IInv, ListsTypeOK
  <1>2. CASE Quiet \/ NoUploads \/ EndFrame \/ ExecuteFrame
    BY <1>1, <1>2, QuietEffect, NoUploadsEffect DEF ListsTypeOK, EndFrame, ExecuteFrame
  <1>3. CASE BeginFrame
    <2>1. <<>> \in Seq(Command)
      OBVIOUS
    <2>2. QED
      BY <1>1, <1>3, <2>1 DEF ListsTypeOK, BeginFrame
  <1>4. CASE Render
    <2>1. /\ renderCmdLists'[imageIndex] \in Seq(Command)
          /\ \A s \in Slot \ {imageIndex} : renderCmdLists'[s] = renderCmdLists[s]
      BY <1>4, RenderEffect
    <2>2. renderCmdLists' = [s \in Slot |-> renderCmdLists'[s]]
      BY <1>1, <1>4 DEF Render
    <2>3. \A s \in Slot : renderCmdLists'[s] \in Seq(Command)
      BY <1>1, <2>1
    <2>4. QED
      BY <2>2, <2>3 DEF ListsTypeOK
  <1>5. CASE RecordUploads
    <2>1. /\ renderCmdLists'[imageIndex] \in Seq(Command)
          /\ \A s \in Slot \ {imageIndex} : renderCmdLists'[s] = renderCmdLists[s]
      BY <1>5, RecordEffect
    <2>2. renderCmdLists' = [s \in Slot |-> renderCmdLists'[s]]
      BY <1>1, <1>5 DEF RecordUploads
    <2>3. \A s \in Slot : renderCmdLists'[s] \in Seq(Command)
      BY <1>1, <2>1
    <2>4. QED
      BY <2>2, <2>3 DEF ListsTypeOK
  <1>6. QED
    BY <1>2, <1>3, <1>4, <1>5, Kinds

\* The slots in flight and the one being recorded.
LEMMA SlotsStep ==
    ASSUME IInv, [Next]_vars
    PROVE  SlotsInv'
  <1> USE DEF SlotsInv
  <1>1. SlotsInv
    BY DEF IInv
  <1>2. CASE Quiet
    <2>1. /\ UNCHANGED <<renderCmdLists, inFlight, imageIndex>>
          /\ pc' \in {"upload", "fill", "descriptors", "render", "end"} =>
               pc \in {"upload", "fill", "descriptors", "render", "end"}
          /\ pc' \in {"upload", "fill"} => pc \in {"upload", "fill"}
          /\ pc' = "done" => inFlight = <<>>
      BY <1>2, QuietEffect
    <2>2. QED
      BY <1>1, <2>1
  <1>3. CASE NoUploads
    <2>1. /\ UNCHANGED <<renderCmdLists, inFlight, imageIndex>>
          /\ pc \in {"upload", "fill"} /\ pc' \in {"descriptors", "render"}
      BY <1>3, NoUploadsEffect
    <2>2. QED
      BY <1>1, <2>1
  <1>4. CASE BeginFrame
    <2>1. /\ renderCmdLists'[imageIndex] = <<>>
          /\ imageIndex \notin Range(inFlight) /\ pc' = "upload"
          /\ UNCHANGED <<inFlight, imageIndex>>
      BY <1>4, BeginEffect DEF BeginFrame
    <2>2. QED
      BY <1>1, <2>1
  <1>5. CASE RecordUploads \/ Render
    <2>1. /\ UNCHANGED <<inFlight, imageIndex>> /\ pc \in {"fill", "render"}
          /\ pc' \in {"descriptors", "end"}
      BY <1>5 DEF RecordUploads, Render
    <2>2. QED
      BY <1>1, <2>1
  <1>6. CASE EndFrame
    <2>1. /\ pc' \in {"systems", "deinit"} /\ inFlight' = Append(inFlight, imageIndex)
          /\ imageIndex \notin Range(inFlight)
      BY <1>6, EndEffect DEF EndFrame
    <2>2. inFlight \in Seq(Slot) /\ imageIndex \in Slot
      BY InSlot
    <2>3. /\ Len(inFlight) \in Nat /\ DOMAIN inFlight' = 1 .. Len(inFlight) + 1
          /\ \A p \in 1 .. Len(inFlight) : inFlight'[p] = inFlight[p] /\ inFlight[p] # imageIndex
          /\ inFlight'[Len(inFlight) + 1] = imageIndex
          /\ DOMAIN inFlight = 1 .. Len(inFlight)
      BY <2>1, <2>2 DEF Range
    <2>4. \A p \in 1 .. Len(inFlight) + 1 : p \in 1 .. Len(inFlight) \/ p = Len(inFlight) + 1
      BY <2>3
    <2>5. \A p, q \in DOMAIN inFlight' : inFlight'[p] = inFlight'[q] => p = q
      BY <1>1, <2>3, <2>4
    <2>6. QED
      BY <2>1, <2>5
  <1>7. CASE ExecuteFrame
    <2>1. /\ UNCHANGED <<pc, imageIndex, renderCmdLists>>
          /\ inFlight # <<>> /\ inFlight' \in Seq(Slot)
          /\ \A p \in DOMAIN inFlight' :
               p + 1 \in DOMAIN inFlight /\ inFlight'[p] = inFlight[p + 1]
      BY <1>7, ExecuteEffect
    <2>2. DOMAIN inFlight' \subseteq Nat
      BY <2>1
    <2>3. \A p, q \in DOMAIN inFlight' : inFlight'[p] = inFlight'[q] => p = q
      BY <1>1, <2>1, <2>2
    <2>4. Range(inFlight') \subseteq Range(inFlight)
      BY <2>1 DEF Range
    <2>5. QED
      BY <1>1, <2>1, <2>3, <2>4
  <1>8. QED
    BY <1>2, <1>3, <1>4, <1>5, <1>6, <1>7, Kinds

\* The lists keep their shape.
LEMMA ListsStep ==
    ASSUME IInv, [Next]_vars
    PROVE  ListsInv'
  <1> USE DEF ListsInv
  <1>1. ListsInv
    BY DEF IInv
  <1>2. CASE Quiet
    <2>1. /\ UNCHANGED <<renderCmdLists, imageIndex>> /\ Pending' = Pending
          /\ pc' \in {"descriptors", "render"} => pc \in {"descriptors", "render"}
      BY <1>2, QuietEffect
    <2>2. QED
      BY <1>1, <2>1
  <1>3. CASE NoUploads
    <2>1. /\ UNCHANGED <<renderCmdLists, imageIndex>> /\ Pending' = Pending \cup {imageIndex}
          /\ renderCmdLists[imageIndex] = <<>>
      BY <1>3, NoUploadsEffect
    <2>2. Shape(<<>>)
      BY DEF Shape, DrawsFrom
    <2>3. QED
      BY <1>1, <2>1, <2>2
  <1>4. CASE BeginFrame
    <2>1. /\ imageIndex \notin Pending /\ Pending' = Pending /\ pc' = "upload"
          /\ \A s \in Slot \ {imageIndex} : renderCmdLists'[s] = renderCmdLists[s]
      BY <1>4, BeginEffect DEF BeginFrame
    <2>2. \A s \in Pending : renderCmdLists'[s] = renderCmdLists[s]
      BY <2>1, InSlot
    <2>3. QED
      BY <1>1, <2>1, <2>2
  <1>5. CASE RecordUploads
    <2>1. /\ Pending' = Pending \cup {imageIndex}
          /\ Shape(renderCmdLists'[imageIndex])
          /\ \A i \in DOMAIN renderCmdLists'[imageIndex] : renderCmdLists'[imageIndex][i].op # "draw"
          /\ \A s \in Slot \ {imageIndex} : renderCmdLists'[s] = renderCmdLists[s]
          /\ imageIndex' = imageIndex
      BY <1>5, RecordEffect DEF RecordUploads
    <2>2. \A s \in Pending : s # imageIndex => renderCmdLists'[s] = renderCmdLists[s]
      BY <2>1, InSlot
    <2>3. QED
      BY <1>1, <2>1, <2>2
  <1>6. CASE Render
    <2>1. /\ Pending' = Pending /\ pc' = "end"
          /\ Shape(renderCmdLists'[imageIndex])
          /\ \A s \in Slot \ {imageIndex} : renderCmdLists'[s] = renderCmdLists[s]
      BY <1>6, RenderEffect DEF Render
    <2>2. \A s \in Pending : s # imageIndex => renderCmdLists'[s] = renderCmdLists[s]
      BY <2>1, InSlot
    <2>3. QED
      BY <1>1, <2>1, <2>2
  <1>7. CASE EndFrame
    <2>1. Pending' = Pending /\ UNCHANGED renderCmdLists /\ pc' \in {"systems", "deinit"}
      BY <1>7, EndEffect DEF EndFrame
    <2>2. QED
      BY <1>1, <2>1
  <1>8. CASE ExecuteFrame
    <2>1. UNCHANGED <<renderCmdLists, pc, imageIndex>> /\ Pending' \subseteq Pending
      BY <1>8, ExecuteEffect
    <2>2. QED
      BY <1>1, <2>1
  <1>9. QED
    BY <1>2, <1>3, <1>4, <1>5, <1>6, <1>7, <1>8, Kinds

\* The slots and their buffers, growing, failing to grow, and at the end.
LEMMA BuffersStep ==
    ASSUME IInv, [Next]_vars
    PROVE  BuffersInv'
  <1> USE DEF BuffersInv
  <1>1. /\ BuffersInv
        /\ stagingBuffers \in [Slot -> 0 .. Len(memory)] /\ stagingBufferSizes \in [Slot -> Nat]
        /\ memory \in Seq(Seq(Byte)) /\ live \subseteq 1 .. Len(memory)
        /\ imageIndex \in Slot /\ Len(memory) \in Nat /\ stageData \in Seq(Destination)
    BY DEF IInv, TypeOK
  <1>2. Size(stageData) \in Nat
    BY <1>1, SizeFacts
  <1>3. CASE GrowStagingBuffer
    <2> DEFINE new == Len(memory) + 1
               e == [i \in 1 .. Size(stageData) |-> <<>>]
    <2>1. e \in Seq(Byte) /\ Len(e) = Size(stageData)
      BY <1>2 DEF Byte
    <2>2. /\ pc' = "fill" /\ stagingBufferSizes[imageIndex] < Size(stageData)
          /\ live' = WithoutOld \cup {new} /\ memory' = Append(memory, e)
          /\ stagingBuffers' = [stagingBuffers EXCEPT ![imageIndex] = new]
          /\ stagingBufferSizes' = [stagingBufferSizes EXCEPT ![imageIndex] = Size(stageData)]
          /\ UNCHANGED <<imageIndex, stageData, broken>>
      BY <1>3 DEF GrowStagingBuffer, TooSmall, faults
    <2> HIDE DEF e
    <2>3. /\ \A b \in 1 .. Len(memory) : memory'[b] = memory[b]
          /\ memory'[new] = e
      BY <1>1, <2>1, <2>2
    <2>4. /\ new \in Nat /\ new # 0 /\ \A b \in 0 .. Len(memory) : b # new
          /\ \A b \in 1 .. Len(memory) : b # 0 /\ b # new
          /\ \A b \in 0 .. Len(memory) : b # 0 => b \in 1 .. Len(memory)
      BY <1>1
    <2> HIDE DEF new
    <2>5. /\ stagingBuffers'[imageIndex] = new
          /\ stagingBufferSizes'[imageIndex] = Size(stageData) /\ Size(stageData) # 0
          /\ \A s \in Slot \ {imageIndex} : /\ stagingBuffers'[s] = stagingBuffers[s]
                                            /\ stagingBufferSizes'[s] = stagingBufferSizes[s]
      BY <1>1, <1>2, <2>2
    <2>6. \A s \in Slot : stagingBuffers[s] \in 0 .. Len(memory) /\ stagingBuffers[s] # new
      BY <1>1, <2>4
    <2>7. \A s \in Slot : stagingBuffers'[s] = 0 <=> stagingBufferSizes'[s] = 0
      BY <1>1, <2>4, <2>5
    <2>8. \A s, t \in Slot : stagingBuffers'[s] = stagingBuffers'[t] /\ stagingBuffers'[s] # 0 => s = t
      BY <1>1, <2>5, <2>6
    <2>9. ASSUME NEW s \in Slot, stagingBuffers'[s] # 0
          PROVE  Len(memory'[stagingBuffers'[s]]) = stagingBufferSizes'[s]
      <3>1. CASE s = imageIndex
        BY <2>1, <2>3, <2>5, <3>1
      <3>2. CASE s # imageIndex
        BY <1>1, <2>3, <2>4, <2>5, <2>6, <2>9, <3>2
      <3>3. QED
        BY <3>1, <3>2
    <2>10. ASSUME NEW s \in Slot \ broken, stagingBuffers'[s] # 0 PROVE stagingBuffers'[s] \in live'
      <3>1. CASE s = imageIndex
        BY <2>2, <2>5, <3>1
      <3>2. CASE s # imageIndex
        <4>1. stagingBuffers[s] \in live /\ stagingBuffers[s] # stagingBuffers[imageIndex]
          BY <1>1, <1>3, <2>5, <2>10, <3>2 DEF GrowStagingBuffer
        <4>2. QED
          BY <2>2, <2>5, <3>2, <4>1 DEF WithoutOld
      <3>3. QED
        BY <3>1, <3>2
    <2>11. ASSUME NEW b \in live' PROVE \E s \in Slot : stagingBuffers'[s] = b
      <3>1. CASE b = new
        BY <1>1, <2>5, <3>1
      <3>2. CASE b # new
        <4>1. b \in live /\ (stagingBufferSizes[imageIndex] # 0 => b # stagingBuffers[imageIndex])
          BY <2>2, <3>2 DEF WithoutOld
        <4>2. PICK s \in Slot : stagingBuffers[s] = b
          BY <1>1, <4>1
        <4>3. b # 0
          BY <1>1, <2>4, <4>1
        <4>4. s # imageIndex
          BY <1>1, <4>1, <4>2, <4>3
        <4>5. QED
          BY <2>5, <4>2, <4>4
      <3>3. QED
        BY <3>1, <3>2
    <2>12. /\ Size(stageData') # 0 /\ pc' = "fill"
           /\ Size(stageData') <= stagingBufferSizes'[imageIndex']
      BY <1>2, <2>2, <2>5
    <2>13. \A s \in Slot \ broken' : stagingBuffers'[s] # 0 => stagingBuffers'[s] \in live'
      BY <2>2, <2>10
    <2>14. QED
      BY <2>7, <2>8, <2>9, <2>11, <2>12, <2>13
  <1>4. CASE CreateBufferFails
    <2>1. /\ pc' = "render" /\ live' = WithoutOld /\ broken' = broken \cup {imageIndex}
          /\ pc = "upload" /\ UNCHANGED <<imageIndex, stageData, stagingBuffers, stagingBufferSizes, memory>>
      BY <1>4 DEF CreateBufferFails
    <2>2. WithoutOld \subseteq live
      BY DEF WithoutOld
    <2>3. ASSUME NEW s \in Slot \ broken', stagingBuffers[s] # 0 PROVE stagingBuffers[s] \in live'
      <3>1. stagingBuffers[s] \in live /\ stagingBuffers[s] # stagingBuffers[imageIndex]
        BY <1>1, <2>1, <2>3
      <3>2. QED
        BY <2>1, <3>1 DEF WithoutOld
    <2>4. QED
      BY <1>1, <2>1, <2>2, <2>3
  <1>5. CASE RecordUploads
    <2>1. /\ \A x \in 1 .. Len(memory) : Len(memory'[x]) = Len(memory[x])
          /\ pc = "fill" /\ pc' = "descriptors"
          /\ UNCHANGED <<imageIndex, stagingBuffers, stagingBufferSizes, live, broken>>
      BY <1>5, MemoryEffect DEF RecordUploads, faults
    <2>2. \A s \in Slot : stagingBuffers[s] # 0 => stagingBuffers[s] \in 1 .. Len(memory)
      BY <1>1
    <2>3. QED
      BY <1>1, <2>1, <2>2
  <1>6. CASE Deinit
    <2>1. /\ pc' = "done" /\ live' = live \ Range(stagingBuffers)
          /\ UNCHANGED <<imageIndex, stagingBuffers, stagingBufferSizes, memory, broken>>
      BY <1>6 DEF Deinit, faults
    <2>2. live' = {}
      <3>1. SUFFICES ASSUME NEW b \in live' PROVE FALSE
        OBVIOUS
      <3>2. PICK s \in Slot : stagingBuffers[s] = b
        BY <1>1, <2>1
      <3>3. b \in Range(stagingBuffers)
        BY <1>1, <3>2 DEF Range
      <3>4. QED
        BY <2>1, <3>3
    <2>3. QED
      BY <1>1, <2>1, <2>2
  <1>7. CASE NothingStaged \/ MapMemoryFails
    BY <1>1, <1>7 DEF NothingStaged, MapMemoryFails, buffers, faults
  <1>8. CASE LargeEnough
    <2>1. /\ Size(stageData) # 0 /\ Size(stageData) <= stagingBufferSizes[imageIndex]
          /\ pc = "upload" /\ pc' = "fill" /\ UNCHANGED <<imageIndex, stageData, buffers, broken>>
      BY <1>1, <1>2, <1>8 DEF LargeEnough, TooSmall, faults
    <2>2. QED
      BY <1>1, <2>1 DEF buffers
  <1>9. CASE Game
    BY <1>1, <1>9 DEF Game, NewModel, NewModelFails, NewInstance, buffers, faults
  <1>10. CASE BeginFrame \/ UpdateDescriptorSets \/ Render \/ EndFrame
    BY <1>1, <1>10 DEF BeginFrame, UpdateDescriptorSets, Render, EndFrame, buffers, faults
  <1>11. CASE ExecuteFrame \/ UNCHANGED vars
    BY <1>1, <1>11 DEF ExecuteFrame, vars, buffers, faults
  <1>12. QED
    BY <1>3, <1>4, <1>5, <1>6, <1>7, <1>9, <1>10, <1>11, <1>8 DEF Next, Frame, Terminated

\* What a list copies, and that it copies it once.
LEMMA ShapeFacts ==
    ASSUME NEW list \in Seq(Command), Shape(list)
    PROVE  /\ \A i \in DOMAIN list : list[i].op = "copy" =>
                /\ list[i].to \in Destination /\ list[i].size = Length[list[i].to]
                /\ list[i].size \in Nat /\ list[i].size > 0 /\ list[i].offset \in Nat
           /\ \A i, j \in DOMAIN list :
                list[i].op = "copy" /\ list[j].op = "copy" /\ list[i].to = list[j].to => i = j
  <1>1. Len(list) \in Nat /\ DOMAIN list = 1 .. Len(list)
    OBVIOUS
  <1>2. CASE DrawsFrom(list, 1)
    BY <1>1, <1>2 DEF DrawsFrom
  <1>3. CASE \E n \in 1 .. Len(list) : UploadsFirst(list, n) /\ DrawsFrom(list, n + 4)
    <2>1. PICK n \in 1 .. Len(list) : UploadsFirst(list, n) /\ DrawsFrom(list, n + 4)
      BY <1>3
    <2>2. ASSUME NEW i \in DOMAIN list, list[i].op = "copy" PROVE i \in 2 .. n + 1
      <3>1. /\ list[1].op = "pre" /\ list[n + 2].op = "post" /\ list[n + 3].op = "post"
            /\ \A k \in n + 4 .. Len(list) : list[k].op = "draw"
        BY <2>1 DEF UploadsFirst, DrawsFrom
      <3>2. i = 1 \/ i \in 2 .. n + 1 \/ i = n + 2 \/ i = n + 3 \/ i \in n + 4 .. Len(list)
        BY <1>1
      <3>3. QED
        BY <2>2, <3>1, <3>2
    <2>3. /\ \A i \in 2 .. n + 1 : list[i].size = Length[list[i].to]
          /\ \A i, j \in 2 .. n + 1 : list[i].to = list[j].to => i = j
      BY <2>1 DEF UploadsFirst
    <2>4. \A i \in DOMAIN list : list[i].op = "copy" =>
            list[i].to \in Destination /\ list[i].offset \in Nat
      <3>1. \A c \in Command : c.op = "copy" => c.to \in Destination /\ c.offset \in Nat
        BY DEF Command
      <3>2. QED
        BY <1>1, <3>1
    <2>5. \A d \in Destination : Length[d] \in Nat /\ Length[d] > 0
      BY UploadAssumption
    <2>6. QED
      BY <2>2, <2>3, <2>4, <2>5
  <1>4. QED
    BY <1>2, <1>3 DEF Shape

\* What the oldest list copies arrives, and is visible to its first use.
LEMMA Arrivals ==
    ASSUME IInv, ExecuteFrame
    PROVE  /\ \A d \in Destination : Arrived(d)' <=> Arrived(d) \/ Holds(Head(inFlight), d)
           /\ \A d \in Destination : Holds(Head(inFlight), d) => layout'[d] = FirstUse(d)
           /\ \A d \in Destination : ~ Holds(Head(inFlight), d) => layout'[d] = layout[d]
           /\ \A s, d : Holds(s, d)' <=> Holds(s, d) /\ s # Head(inFlight)
  <1> DEFINE h == Head(inFlight)
             list == renderCmdLists[h]
  <1>1. /\ h \in Pending /\ Pending' = Pending \ {h} /\ UNCHANGED renderCmdLists
        /\ list \in Seq(Command) /\ Shape(list)
        /\ \A d \in Destination : ~ Copied(list, d) =>
             layout'[d] = layout[d] /\ content'[d] = content[d]
        /\ \A i \in DOMAIN list : list[i].op = "copy" =>
             /\ layout'[list[i].to] = FirstUse(list[i].to)
             /\ content'[list[i].to] = Read(list[i].from, list[i].offset, list[i].size)
    BY ExecuteEffect
  <1> HIDE DEF h
  <1>2. \A s, d : Holds(s, d)' <=> Holds(s, d) /\ s # h
    BY <1>1 DEF Holds
  <1>3. \A d : Holds(h, d) <=> Copied(list, d)
    BY <1>1 DEF Holds
  <1> HIDE DEF list
  <1>4. ASSUME NEW d \in Destination, Copied(list, d)
        PROVE  content'[d] # <<>> /\ layout'[d] = FirstUse(d)
    <2>1. PICK i \in DOMAIN list : list[i].op = "copy" /\ list[i].to = d
      BY <1>4 DEF Copied
    <2>2. list[i].size \in Nat /\ list[i].size > 0 /\ list[i].offset \in Nat
      BY <1>1, <2>1, ShapeFacts
    <2>3. memory \in Seq(Seq(Byte)) /\ live \subseteq 1 .. Len(memory)
      BY DEF IInv, TypeOK
    <2>4. Len(Read(list[i].from, list[i].offset, list[i].size)) = list[i].size
      BY <2>2, <2>3, ReadFacts
    <2>5. QED
      BY <1>1, <2>1, <2>2, <2>4
  <1>5. QED
    BY <1>1, <1>2, <1>3, <1>4 DEF h, Arrived

\* Steps that move no upload.
LEMMA PlacesKept ==
    ASSUME PlacesInv, UNCHANGED <<stageData, content, attempted, models>>,
           \A s, d : Holds(s, d)' <=> Holds(s, d), pc' # "done" => pc # "done"
    PROVE  PlacesInv'
  <1>1. \A d : /\ InQueue(d)' <=> InQueue(d)
               /\ Arrived(d)' <=> Arrived(d)
               /\ Recorded(d)' <=> Recorded(d)
    BY DEF InQueue, Arrived, Recorded
  <1>2. QED
    BY <1>1 DEF PlacesInv

\* Two sequences of different things without repetition, joined.
LEMMA JoinedDistinct ==
    ASSUME NEW S, NEW s \in Seq(S), NEW t \in Seq(S),
           \A i, j \in DOMAIN s : s[i] = s[j] => i = j,
           \A i, j \in DOMAIN t : t[i] = t[j] => i = j,
           \A x \in Range(s) : x \notin Range(t)
    PROVE  \A i, j \in DOMAIN (s \o t) : (s \o t)[i] = (s \o t)[j] => i = j
  <1> DEFINE c == s \o t
             m == Len(s)
             n == Len(t)
  <1>1. /\ m \in Nat /\ n \in Nat /\ DOMAIN c = 1 .. m + n
        /\ DOMAIN s = 1 .. m /\ DOMAIN t = 1 .. n
        /\ \A i \in 1 .. m : c[i] = s[i]
        /\ \A i \in 1 .. n : c[m + i] = t[i]
    OBVIOUS
  <1> HIDE DEF c, m, n
  <1>2. \A i \in 1 .. m + n : i \in 1 .. m \/ (i - m \in 1 .. n /\ i = m + (i - m) /\ i \in Nat)
    BY <1>1
  <1>3. \A i \in 1 .. m + n : i - m \in 1 .. n => c[i] = t[i - m] /\ c[i] \in Range(t)
    <2>1. ASSUME NEW i \in 1 .. m + n, i - m \in 1 .. n
          PROVE  c[i] = t[i - m] /\ t[i - m] \in Range(t)
      <3>1. i = m + (i - m)
        BY <1>1
      <3>2. c[m + (i - m)] = t[i - m]
        BY <1>1, <2>1
      <3>3. QED
        BY <1>1, <2>1, <3>1, <3>2 DEF Range
    <2>2. QED
      BY <2>1
  <1>4. \A i \in 1 .. m : c[i] = s[i] /\ c[i] \in Range(s)
    BY <1>1 DEF Range
  <1>5. ASSUME NEW i \in 1 .. m + n, NEW j \in 1 .. m + n, c[i] = c[j] PROVE i = j
    <2>1. CASE i \in 1 .. m /\ j \in 1 .. m
      BY <1>1, <1>4, <1>5, <2>1
    <2>2. CASE i - m \in 1 .. n /\ j - m \in 1 .. n
      <3>1. t[i - m] = t[j - m]
        BY <1>3, <1>5, <2>2
      <3>2. i - m = j - m
        BY <1>1, <2>2, <3>1
      <3>3. QED
        BY <1>1, <3>2
    <2>3. CASE i \in 1 .. m /\ j - m \in 1 .. n
      BY <1>3, <1>4, <1>5, <2>3
    <2>4. CASE i - m \in 1 .. n /\ j \in 1 .. m
      BY <1>3, <1>4, <1>5, <2>4
    <2>5. QED
      BY <1>2, <2>1, <2>2, <2>3, <2>4
  <1>6. QED
    BY <1>1, <1>5 DEF c

\* Uploads go from the queue into one list, and with it to where they belong.
LEMMA PlacesStep ==
    ASSUME IInv, [Next]_vars
    PROVE  PlacesInv'
  <1>1. PlacesInv
    BY DEF IInv
  <1>2. ASSUME NEW m \in Model, NewModel(m) \/ NewModelFails(m) PROVE PlacesInv'
    <2>1. PICK n \in 0 .. 3 : /\ stageData' = stageData \o FirstUploads(m, n)
                              /\ NewModel(m) => n = 3
      BY <1>2, NewModelQueue
    <2> DEFINE t == FirstUploads(m, n)
    <2>2. stageData \in Seq(Destination)
      BY DEF IInv, TypeOK
    <2>3. /\ t \in Seq(Destination) /\ Range(stageData') = Range(stageData) \cup Range(t)
          /\ \A d \in Range(t) : d[1] = m
          /\ \A i, j \in DOMAIN t : t[i] = t[j] => i = j
          /\ n = 3 => \A p \in Part : <<m, p>> \in Range(t)
      BY <2>1, <2>2, QueueLonger
    <2> HIDE DEF t
    <2>4. /\ m \notin attempted /\ attempted' = attempted \cup {m} /\ pc' = pc
          /\ models' = IF NewModel(m) THEN models \cup {m} ELSE models
          /\ UNCHANGED content
      BY <1>2 DEF NewModel, NewModelFails, gpu
    <2>5. \A s, d : Holds(s, d)' <=> Holds(s, d)
      <3>1. Quiet
        BY <1>2 DEF Quiet, Game
      <3>2. QED
        BY <3>1, QuietEffect
    <2>6. \A d \in Range(t) : d \in Destination /\ ~ InQueue(d) /\ ~ Recorded(d) /\ ~ Arrived(d)
      <3>1. \A d \in Range(t) : d \in Destination
        BY <2>3 DEF Range
      <3>2. QED
        BY <1>1, <2>3, <2>4, <3>1 DEF PlacesInv
    <2>7. \A i, j \in DOMAIN stageData' : stageData'[i] = stageData'[j] => i = j
      <3>1. \A i, j \in DOMAIN stageData : stageData[i] = stageData[j] => i = j
        BY <1>1 DEF PlacesInv
      <3>2. \A d \in Range(stageData) : d \notin Range(t)
        BY <2>6 DEF InQueue
      <3>3. QED
        <4>1. \A i, j \in DOMAIN (stageData \o t) :
                (stageData \o t)[i] = (stageData \o t)[j] => i = j
          BY <2>2, <2>3, <3>1, <3>2, JoinedDistinct
        <4>2. stageData' = stageData \o t
          BY <2>1 DEF t
        <4>3. QED
          BY <4>1, <4>2
    <2>8. \A d : /\ InQueue(d)' <=> InQueue(d) \/ d \in Range(t)
                 /\ Arrived(d)' <=> Arrived(d)
                 /\ Recorded(d)' <=> Recorded(d)
      BY <2>3, <2>4, <2>5 DEF InQueue, Arrived, Recorded
    <2>9. ASSUME NEW d \in Destination, pc' # "done", d[1] \in models'
          PROVE  InQueue(d) \/ d \in Range(t) \/ Recorded(d) \/ Arrived(d)
      <3>1. CASE d[1] \in models
        BY <1>1, <2>4, <2>9, <3>1 DEF PlacesInv
      <3>2. CASE d[1] \notin models
        <4>1. NewModel(m) /\ d[1] = m /\ n = 3
          BY <2>1, <2>4, <2>9, <3>2
        <4>2. d[2] \in Part /\ d = <<d[1], d[2]>>
          BY DEF Destination
        <4>3. QED
          BY <2>3, <4>1, <4>2
      <3>3. QED
        BY <3>1, <3>2
    <2>10. ASSUME NEW d \in Destination
           PROVE  /\ InQueue(d)' => ~ Recorded(d)' /\ ~ Arrived(d)'
                  /\ Recorded(d)' => ~ Arrived(d)'
                  /\ InQueue(d)' \/ Recorded(d)' \/ Arrived(d)' => d[1] \in attempted'
                  /\ \A s, u \in Slot : Holds(s, d)' /\ Holds(u, d)' => s = u
      BY <1>1, <2>3, <2>4, <2>5, <2>6, <2>8 DEF PlacesInv
    <2>11. QED
      BY <2>7, <2>8, <2>9, <2>10 DEF PlacesInv
  <1>3. CASE RecordUploads
    <2>1. /\ stageData' = <<>> /\ UNCHANGED <<content, attempted, models>>
          /\ pc # "done" /\ pc' # "done"
      BY <1>3 DEF RecordUploads, gpu, scene
    <2>2. \A s \in Slot, d \in Destination :
            Holds(s, d)' <=> Holds(s, d) \/ (s = imageIndex /\ InQueue(d))
      BY <1>3, RecordEffect
    <2>3. imageIndex \in Slot
      BY InSlot
    <2>4. \A d \in Destination : /\ ~ InQueue(d)'
                                 /\ Arrived(d)' <=> Arrived(d)
                                 /\ Recorded(d)' <=> Recorded(d) \/ InQueue(d)
      BY <2>1, <2>2, <2>3 DEF InQueue, Arrived, Recorded, Range
    <2>5. \A d \in Destination : InQueue(d) => \A s \in Slot : ~ Holds(s, d)
      BY <1>1 DEF PlacesInv, Recorded
    <2>6. \A i, j \in DOMAIN stageData' : stageData'[i] = stageData'[j] => i = j
      BY <2>1
    <2>7. QED
      BY <1>1, <2>1, <2>2, <2>4, <2>5, <2>6 DEF PlacesInv
  <1>4. CASE ExecuteFrame
    <2> DEFINE h == Head(inFlight)
    <2>1. UNCHANGED <<stageData, attempted, models, pc>> /\ h \in Slot
      BY <1>4, ExecuteEffect DEF scene
    <2>2. /\ \A d \in Destination : Arrived(d)' <=> Arrived(d) \/ Holds(h, d)
          /\ \A s, d : Holds(s, d)' <=> Holds(s, d) /\ s # h
      BY <1>4, Arrivals
    <2> HIDE DEF h
    <2>3. \A d \in Destination : /\ InQueue(d)' <=> InQueue(d)
                                 /\ Holds(h, d) => Recorded(d)
                                 /\ Recorded(d) => Recorded(d)' \/ Holds(h, d)
                                 /\ Recorded(d)' => Recorded(d)
      BY <2>1, <2>2 DEF InQueue, Recorded
    <2>4. \A d \in Destination : Holds(h, d) => ~ Recorded(d)'
      BY <1>1, <2>1, <2>2 DEF PlacesInv, Recorded
    <2>5. QED
      BY <1>1, <2>1, <2>2, <2>3, <2>4 DEF PlacesInv
  <1>5. CASE Deinit
    <2>1. /\ stageData' = <<>> /\ UNCHANGED <<content, attempted, models>> /\ pc' = "done"
      BY <1>5 DEF Deinit, gpu, scene
    <2>2. \A s, d : Holds(s, d)' <=> Holds(s, d)
      <3>1. Quiet
        BY <1>5 DEF Quiet
      <3>2. QED
        BY <3>1, QuietEffect
    <2>3. \A d : ~ InQueue(d)' /\ (Arrived(d)' <=> Arrived(d)) /\ (Recorded(d)' <=> Recorded(d))
      BY <2>1, <2>2 DEF InQueue, Arrived, Recorded, Range
    <2>4. \A i, j \in DOMAIN stageData' : stageData'[i] = stageData'[j] => i = j
      BY <2>1
    <2>5. QED
      BY <1>1, <2>1, <2>2, <2>3, <2>4 DEF PlacesInv
  <1>6. ASSUME UNCHANGED <<stageData, content, attempted, models>>,
               \A s, d : Holds(s, d)' <=> Holds(s, d), pc' # "done" => pc # "done"
        PROVE  PlacesInv'
    BY <1>1, <1>6, PlacesKept
  <1>7. ASSUME NEW m \in Model, NewInstance(m) PROVE PlacesInv'
    <2>1. Quiet
      BY <1>7 DEF Quiet, Game
    <2>2. UNCHANGED <<stageData, content, attempted, models>> /\ pc' = pc
      BY <1>7 DEF NewInstance, gpu
    <2>3. QED
      BY <2>1, <2>2, <1>6, QuietEffect
  <1>8. CASE GrowStagingBuffer \/ LargeEnough \/ UpdateDescriptorSets \/ UNCHANGED vars
    <2>1. Quiet
      BY <1>8 DEF Quiet
    <2>2. UNCHANGED <<stageData, content, attempted, models>> /\ (pc' # "done" => pc # "done")
      BY <1>8 DEF GrowStagingBuffer, LargeEnough, UpdateDescriptorSets, vars, gpu, scene
    <2>3. QED
      BY <2>1, <2>2, <1>6, QuietEffect
  <1>9. CASE NoUploads
    <2>1. /\ UNCHANGED <<stageData, content, scene>> /\ pc # "done"
          /\ \A s, d : Holds(s, d)' <=> Holds(s, d)
      BY <1>9, NoUploadsEffect
    <2>2. QED
      BY <2>1, <1>6 DEF scene
  <1>10. CASE BeginFrame
    <2>1. UNCHANGED <<stageData, content, attempted, models>> /\ pc # "done"
      BY <1>10 DEF BeginFrame, gpu, scene
    <2>2. QED
      BY <1>10, <2>1, <1>6, BeginEffect
  <1>11. CASE Render
    <2>1. UNCHANGED <<stageData, content, attempted, models>> /\ pc # "done"
      BY <1>11 DEF Render, gpu, scene
    <2>2. QED
      BY <1>11, <2>1, <1>6, RenderEffect
  <1>12. CASE EndFrame
    <2>1. UNCHANGED <<stageData, content, attempted, models>> /\ pc # "done"
      BY <1>12 DEF EndFrame, gpu, scene
    <2>2. QED
      BY <1>12, <2>1, <1>6, EndEffect
  <1>13. QED
    BY <1>2, <1>3, <1>4, <1>5, <1>7, <1>8, <1>9, <1>10, <1>11, <1>12, Kinds DEF Quiet, Game

\* Steps that leave the GPU alone, and what is only added to.
LEMMA Histories ==
    ASSUME [Next]_vars
    PROVE  /\ delayed \subseteq delayed' /\ broken \subseteq broken'
           /\ ~ ExecuteFrame => UNCHANGED <<content, layout, unready>>
  <1>1. CASE UNCHANGED vars
    BY <1>1 DEF vars, gpu, faults
  <1>2. CASE Game
    BY <1>2 DEF Game, NewModel, NewModelFails, NewInstance, gpu, faults
  <1>3. CASE BeginFrame \/ NothingStaged \/ GrowStagingBuffer \/ CreateBufferFails \/ LargeEnough
    BY <1>3 DEF BeginFrame, NothingStaged, GrowStagingBuffer, CreateBufferFails, LargeEnough, gpu, faults
  <1>4. CASE MapMemoryFails \/ RecordUploads \/ UpdateDescriptorSets \/ Render \/ EndFrame \/ Deinit
    BY <1>4 DEF MapMemoryFails, RecordUploads, UpdateDescriptorSets, Render, EndFrame, Deinit, gpu, faults
  <1>5. CASE ExecuteFrame
    BY <1>5 DEF ExecuteFrame, faults
  <1>6. QED
    BY <1>1, <1>2, <1>3, <1>4, <1>5 DEF Next, Frame, Terminated

\* What arrives is made visible.
LEMMA LayoutsStep ==
    ASSUME IInv, [Next]_vars
    PROVE  LayoutsInv'
  <1>1. LayoutsInv
    BY DEF IInv
  <1>2. CASE ExecuteFrame
    <2>1. /\ \A d \in Destination : Arrived(d)' <=> Arrived(d) \/ Holds(Head(inFlight), d)
          /\ \A d \in Destination : Holds(Head(inFlight), d) => layout'[d] = FirstUse(d)
          /\ \A d \in Destination : ~ Holds(Head(inFlight), d) => layout'[d] = layout[d]
      BY <1>2, Arrivals
    <2>2. QED
      BY <1>1, <2>1 DEF LayoutsInv
  <1>3. CASE ~ ExecuteFrame
    BY <1>1, <1>3, Histories DEF LayoutsInv, Arrived
  <1>4. QED
    BY <1>2, <1>3

\* A queued write stays due, and a new one is.
LEMMA DueStays ==
    ASSUME QueuesInv, NEW w \in Write, UNCHANGED sets,
           descriptorWrites' = Append(descriptorWrites, w)
    PROVE  WriteDue(w.set)' /\ \A s : WriteDue(s) => WriteDue(s)'
  <1>1. descriptorWrites \in Seq(Write)
    BY DEF QueuesInv
  <1>2. Range(descriptorWrites') = Range(descriptorWrites) \cup {w}
    BY <1>1 DEF Range
  <1>3. QED
    BY <1>2 DEF WriteDue

\* What a set refers to after the flush.
LEMMA UpdatedSets ==
    ASSUME QueuesInv, UpdateDescriptorSets,
           NEW m \in Model, NEW kind \in {"model", "instance"}
    PROVE  sets'[<<m, kind>>] =
             IF \E w \in Range(descriptorWrites) : w.set = <<m, kind>>
             THEN <<m, IF kind = "model" THEN "texture" ELSE "matrix">>
             ELSE sets[<<m, kind>>]
  <1> DEFINE s == <<m, kind>>
  <1>1. s \in Set
    BY DEF Set
  <1>2. sets'[s] = IF \E w \in Range(descriptorWrites) : w.set = s
                   THEN Target(CHOOSE w \in Range(descriptorWrites) : w.set = s)
                   ELSE sets[s]
    BY <1>1 DEF UpdateDescriptorSets
  <1>3. CASE ~ \E w \in Range(descriptorWrites) : w.set = s
    BY <1>2, <1>3
  <1>4. CASE \E w \in Range(descriptorWrites) : w.set = s
    <2>1. PICK w : /\ w \in Range(descriptorWrites) /\ w.set = s
                   /\ w = CHOOSE v \in Range(descriptorWrites) : v.set = s
      BY <1>4
    <2>2. Meant(w, descriptorImageWrites, descriptorBufferWrites)
      <3>1. PICK k \in 1 .. Len(descriptorWrites) : w = descriptorWrites[k]
        BY <2>1 DEF Range, QueuesInv
      <3>2. QED
        BY <3>1 DEF QueuesInv
    <2>3. CASE kind = "model"
      <3>1. /\ w.bufIndex = 0 /\ descriptorImageWrites[w.imgIndex] = <<m, "texture">>
        BY <2>1, <2>2, <2>3 DEF Meant
      <3>2. QED
        BY <1>2, <1>4, <2>1, <2>3, <3>1 DEF Target
    <2>4. CASE kind = "instance"
      <3>1. /\ w.bufIndex # 0 /\ descriptorBufferWrites[w.bufIndex] = <<m, "matrix">>
        BY <2>1, <2>2, <2>4 DEF Meant
      <3>2. QED
        BY <1>2, <1>4, <2>1, <2>4, <3>1 DEF Target
    <2>5. QED
      BY <2>3, <2>4
  <1>5. QED
    BY <1>3, <1>4

\* The writes that are due, and what is late when a frame is rendered.
LEMMA ReadyStep ==
    ASSUME IInv, [Next]_vars
    PROVE  ReadyInv'
  <1>1. /\ ReadyInv /\ QueuesInv /\ stageData \in Seq(Destination)
        /\ models \subseteq Model /\ instances \subseteq Model
    BY DEF IInv, TypeOK
  <1>2. ASSUME UNCHANGED <<models, instances, descriptorWrites, sets>>, pc' # "done" => pc # "done",
               pc' = "descriptors" => stageData' = <<>>,
               pc' = "render" => Queued' \subseteq delayed'
        PROVE  ReadyInv'
    BY <1>1, <1>2 DEF ReadyInv, WriteDue
  <1>3. ASSUME NEW m \in Model, NewModel(m) PROVE ReadyInv'
    <2> DEFINE w == [set |-> <<m, "model">>, imgIndex |-> Len(descriptorImageWrites) + 1, bufIndex |-> 0]
    <2>1. /\ pc' = "systems" /\ pc = "systems" /\ models' = models \cup {m}
          /\ descriptorWrites' = Append(descriptorWrites, w) /\ UNCHANGED <<instances, sets>>
      BY <1>3 DEF NewModel, AddImageUpdate
    <2>2. w \in Write /\ w.set = <<m, "model">>
      BY <1>1 DEF Write, Set, QueuesInv
    <2> HIDE DEF w
    <2>3. WriteDue(<<m, "model">>)' /\ \A s : WriteDue(s) => WriteDue(s)'
      BY <1>1, <2>1, <2>2, DueStays
    <2>4. QED
      BY <1>1, <2>1, <2>3 DEF ReadyInv
  <1>4. ASSUME NEW m \in Model, NewInstance(m) PROVE ReadyInv'
    <2> DEFINE w == [set |-> <<m, "instance">>, imgIndex |-> 0, bufIndex |-> Len(descriptorBufferWrites) + 1]
    <2>1. /\ pc' = "systems" /\ pc = "systems" /\ instances' = instances \cup {m}
          /\ descriptorWrites' = Append(descriptorWrites, w) /\ UNCHANGED <<models, sets>>
      BY <1>4 DEF NewInstance, AddBufferUpdate
    <2>2. w \in Write /\ w.set = <<m, "instance">>
      BY <1>1 DEF Write, Set, QueuesInv
    <2> HIDE DEF w
    <2>3. WriteDue(<<m, "instance">>)' /\ \A s : WriteDue(s) => WriteDue(s)'
      BY <1>1, <2>1, <2>2, DueStays
    <2>4. QED
      BY <1>1, <2>1, <2>3 DEF ReadyInv
  <1>5. ASSUME NEW m \in Model, NewModelFails(m) PROVE ReadyInv'
    <2>1. UNCHANGED <<models, instances, descriptorWrites, sets>> /\ pc = "systems" /\ pc' = "systems"
      BY <1>5 DEF NewModelFails, queues
    <2>2. QED
      BY <1>2, <2>1
  <1>6. CASE NothingStaged
    <2>1. UNCHANGED <<models, instances, stageData, descriptorWrites, sets>>
          /\ Size(stageData) = 0 /\ pc = "upload" /\ pc' = "descriptors"
      BY <1>6 DEF NothingStaged, queues, scene
    <2>2. stageData = <<>>
      BY <1>1, <2>1, SizeFacts
    <2>3. QED
      BY <1>2, <2>1, <2>2
  <1>7. CASE CreateBufferFails \/ MapMemoryFails
    <2>1. UNCHANGED <<models, instances, stageData, descriptorWrites, sets>>
          /\ delayed' = delayed \cup Queued /\ pc # "done" /\ pc' = "render"
      BY <1>7 DEF CreateBufferFails, MapMemoryFails, queues, scene
    <2>2. Queued' = Queued
      BY <2>1 DEF Queued
    <2>3. QED
      BY <1>2, <2>1, <2>2
  <1>8. CASE RecordUploads
    BY <1>2, <1>8 DEF RecordUploads, scene, queues
  <1>9. CASE UpdateDescriptorSets
    <2>1. /\ pc = "descriptors" /\ pc' = "render" /\ descriptorWrites' = <<>>
          /\ UNCHANGED <<models, instances, stageData>>
      BY <1>9 DEF UpdateDescriptorSets, scene
    <2>2. Queued' = {}
      BY <1>1, <2>1 DEF Queued, ReadyInv, Range
    <2>3. \A m \in Model : /\ WriteDue(<<m, "model">>) => WriteDue(<<m, "model">>)'
                           /\ WriteDue(<<m, "instance">>) => WriteDue(<<m, "instance">>)'
      <3>1. ASSUME NEW m \in Model, NEW kind \in {"model", "instance"}, WriteDue(<<m, kind>>)
            PROVE  sets'[<<m, kind>>] # <<>>
        <4>1. sets'[<<m, kind>>] =
                IF \E w \in Range(descriptorWrites) : w.set = <<m, kind>>
                THEN <<m, IF kind = "model" THEN "texture" ELSE "matrix">>
                ELSE sets[<<m, kind>>]
          BY <1>1, <1>9, UpdatedSets
        <4>2. \A x : <<m, x>> # <<>>
          OBVIOUS
        <4>3. QED
          BY <3>1, <4>1, <4>2 DEF WriteDue
      <3>2. QED
        BY <3>1 DEF WriteDue
    <2>4. QED
      BY <1>1, <2>1, <2>2, <2>3 DEF ReadyInv
  <1>10. CASE Deinit
    BY <1>10 DEF Deinit, ReadyInv
  <1>11. CASE BeginFrame \/ GrowStagingBuffer \/ LargeEnough \/ Render \/ EndFrame
    <2>1. /\ UNCHANGED <<models, instances, descriptorWrites, sets>> /\ pc # "done"
          /\ pc' \notin {"descriptors", "render"}
      BY <1>11 DEF BeginFrame, GrowStagingBuffer, LargeEnough, Render, EndFrame, queues, scene
    <2>2. QED
      BY <1>2, <2>1
  <1>12. CASE ExecuteFrame \/ UNCHANGED vars
    <2>1. UNCHANGED <<pc, models, instances, descriptorWrites, sets, stageData, delayed>>
      BY <1>12 DEF ExecuteFrame, vars, queues, scene, faults
    <2>2. Queued' = Queued
      BY <2>1 DEF Queued
    <2>3. QED
      BY <1>1, <1>2, <2>1, <2>2 DEF ReadyInv
  <1>13. QED
    BY <1>3, <1>4, <1>5, <1>6, <1>7, <1>8, <1>9, <1>10, <1>11, <1>12 DEF Next, Game, Frame, Terminated

\* The more has arrived and the later a flush is, the easier a draw is ready.
LEMMA DrawsReadyGrows ==
    ASSUME NEW list \in Seq(Command), NEW there, NEW more, NEW late, NEW later,
           DrawsReady(list, there, late), there \subseteq more, late \subseteq later
    PROVE  DrawsReady(list, more, later)
  BY DEF DrawsReady

\* The draws of every list in flight, and of the one being recorded.
LEMMA DrawsStep ==
    ASSUME IInv, [Next]_vars
    PROVE  DrawsInv'
  <1>1. DrawsInv /\ delayed \subseteq delayed'
    BY Histories DEF IInv
  <1>2. ASSUME UNCHANGED <<inFlight, content>>,
               \A s \in Range(inFlight) : renderCmdLists'[s] = renderCmdLists[s]
        PROVE  \A p \in DOMAIN inFlight' :
                 DrawsReady(renderCmdLists'[inFlight'[p]], ThereAfter(p)', delayed')
    <2>1. SUFFICES ASSUME NEW p \in DOMAIN inFlight
                   PROVE  DrawsReady(renderCmdLists'[inFlight[p]], ThereAfter(p)', delayed')
      BY <1>2
    <2>2. \A q \in DOMAIN inFlight : renderCmdLists'[inFlight[q]] = renderCmdLists[inFlight[q]]
      BY <1>2, InSlot
    <2>3. \A q \in 1 .. p : q \in DOMAIN inFlight
      <3>1. inFlight \in Seq(Slot)
        BY InSlot
      <3>2. QED
        BY <3>1
    <2>4. ThereAfter(p)' = ThereAfter(p)
      BY <1>2, <2>2, <2>3 DEF ThereAfter, Arrived
    <2>5. renderCmdLists[inFlight[p]] \in Seq(Command)
      BY InSlot
    <2>6. DrawsReady(renderCmdLists[inFlight[p]], ThereAfter(p), delayed)
      BY <1>1 DEF DrawsInv
    <2>7. QED
      BY <1>1, <2>2, <2>4, <2>5, <2>6, DrawsReadyGrows
  <1>3. CASE Quiet
    <2>1. /\ UNCHANGED <<renderCmdLists, inFlight, imageIndex, content>>
          /\ \A s, d : Holds(s, d)' <=> Holds(s, d)
          /\ pc' = "end" => pc = "end"
      BY <1>3, QuietEffect
    <2>2. {d \in Destination : Arrived(d) \/ Recorded(d)}'
            = {d \in Destination : Arrived(d) \/ Recorded(d)}
      BY <2>1 DEF Arrived, Recorded
    <2>3. renderCmdLists[imageIndex] \in Seq(Command)
      BY InSlot
    <2>4. pc' = "end" => DrawsReady(renderCmdLists'[imageIndex'],
                                    {d \in Destination : Arrived(d) \/ Recorded(d)}', delayed')
      BY <1>1, <2>1, <2>2, <2>3, DrawsReadyGrows DEF DrawsInv
    <2>5. QED
      BY <1>2, <2>1, <2>4 DEF DrawsInv
  <1>4. CASE NoUploads
    <2>1. UNCHANGED <<renderCmdLists, inFlight, content>> /\ pc' # "end"
      BY <1>4, NoUploadsEffect
    <2>2. QED
      BY <1>2, <2>1 DEF DrawsInv
  <1>5. CASE BeginFrame
    <2>1. /\ imageIndex \notin Range(inFlight) /\ UNCHANGED <<inFlight, content>> /\ pc' # "end"
          /\ \A s \in Slot \ {imageIndex} : renderCmdLists'[s] = renderCmdLists[s]
      BY <1>5, BeginEffect DEF BeginFrame, gpu
    <2>2. \A s \in Range(inFlight) : renderCmdLists'[s] = renderCmdLists[s]
      BY <2>1, InSlot
    <2>3. QED
      BY <1>2, <2>1, <2>2 DEF DrawsInv
  <1>6. CASE RecordUploads
    <2>1. /\ imageIndex \notin Pending /\ UNCHANGED <<inFlight, content>> /\ pc' # "end"
          /\ \A s \in Slot \ {imageIndex} : renderCmdLists'[s] = renderCmdLists[s]
      BY <1>6, RecordEffect DEF RecordUploads, gpu
    <2>2. \A s \in Range(inFlight) : renderCmdLists'[s] = renderCmdLists[s]
      BY <2>1, InSlot
    <2>3. QED
      BY <1>2, <2>1, <2>2 DEF DrawsInv
  <1>7. CASE Render
    <2> DEFINE list == renderCmdLists[imageIndex]
               there == {d \in Destination : Arrived(d) \/ Recorded(d)}
    <2>1. /\ imageIndex \notin Range(inFlight)
          /\ UNCHANGED <<inFlight, imageIndex, content, stageData, models, instances, delayed>>
          /\ pc = "render"
          /\ \A s \in Slot \ {imageIndex} : renderCmdLists'[s] = renderCmdLists[s]
          /\ \A s, d : Holds(s, d)' <=> Holds(s, d)
          /\ list \in Seq(Command) /\ Shape(list)
      BY <1>7, RenderEffect DEF Render, gpu, scene, faults
    <2>2. PICK c \in Command :
            /\ c = [op |-> "draw", of |-> instances, bound |-> {m \in Model : Bound(m)}]
            /\ renderCmdLists'[imageIndex] = Append(list, c)
      BY <1>7, RenderEffect
    <2>3. c.op = "draw" /\ c.of = instances /\ c.bound = {m \in Model : Bound(m)}
      BY <2>2
    <2>4. \A s \in Range(inFlight) : renderCmdLists'[s] = renderCmdLists[s]
      BY <2>1, InSlot
    <2>5. there' = there
      BY <2>1 DEF Arrived, Recorded
    <2>6. \A i \in DOMAIN list : list[i].op # "draw"
      BY <2>1 DEF IInv, ListsInv
    <2> HIDE DEF list
    <2>7. \A i \in DOMAIN Append(list, c) :
            \/ i \in DOMAIN list /\ Append(list, c)[i] = list[i]
            \/ i \notin DOMAIN list /\ Append(list, c)[i] = c
      BY <2>1, <2>3, DrawFacts
    <2>8. ASSUME NEW m \in instances \ delayed
          PROVE  Bound(m) /\ m \in Model /\ \A p \in Part : <<m, p>> \in there
      <3>1. m \in models /\ m \in Model /\ m \notin Queued
        BY <2>1, <2>8 DEF IInv, TypeOK, ReadyInv
      <3>2. WriteDue(<<m, "model">>) /\ WriteDue(<<m, "instance">>)
        BY <2>1, <2>8, <3>1 DEF IInv, ReadyInv
      <3>3. \A w \in Range(descriptorWrites) : w.set[1] # m
        BY <3>1 DEF Queued
      <3>4. Bound(m)
        <4>1. <<m, "model">>[1] = m /\ <<m, "instance">>[1] = m
          OBVIOUS
        <4>2. QED
          BY <3>2, <3>3, <4>1 DEF WriteDue, Bound
      <3>5. ASSUME NEW p \in Part PROVE <<m, p>> \in there
        <4>1. <<m, p>> \in Destination /\ <<m, p>>[1] = m
          BY <3>1 DEF Destination
        <4>2. ~ InQueue(<<m, p>>)
          BY <3>1, <4>1 DEF Queued, InQueue
        <4>3. QED
          BY <2>1, <3>1, <4>1, <4>2 DEF IInv, PlacesInv
      <3>6. QED
        BY <3>1, <3>4, <3>5
    <2> HIDE DEF there
    <2>9. DrawsReady(Append(list, c), there, delayed)
      <3>1. SUFFICES ASSUME NEW i \in DOMAIN Append(list, c), Append(list, c)[i].op = "draw",
                            NEW m \in Append(list, c)[i].of \ delayed
                     PROVE  m \in Append(list, c)[i].bound /\ \A p \in Part : <<m, p>> \in there
        BY DEF DrawsReady
      <3>2. Append(list, c)[i] = c
        BY <2>6, <2>7, <3>1
      <3>3. QED
        BY <2>3, <2>8, <3>1, <3>2
    <2>10. DrawsReady(renderCmdLists'[imageIndex'], there', delayed')
      BY <2>1, <2>2, <2>5, <2>9
    <2>11. QED
      BY <1>2, <2>1, <2>4, <2>10 DEF DrawsInv, there
  <1>8. CASE EndFrame
    <2>1. /\ UNCHANGED <<renderCmdLists, content, delayed>> /\ pc' # "end" /\ pc = "end"
          /\ inFlight' = Append(inFlight, imageIndex)
      BY <1>8 DEF EndFrame, gpu, faults
    <2>2. inFlight \in Seq(Slot) /\ imageIndex \in Slot /\ Len(inFlight) \in Nat
      BY InSlot
    <2>3. PICK n \in Nat : n = Len(inFlight)
      BY <2>2
    <2>4. /\ DOMAIN inFlight = 1 .. n /\ DOMAIN inFlight' = 1 .. n + 1
          /\ \A p \in 1 .. n : inFlight'[p] = inFlight[p]
          /\ inFlight'[n + 1] = imageIndex
      BY <2>1, <2>2, <2>3
    <2>5. ASSUME NEW p \in 1 .. n
          PROVE  DrawsReady(renderCmdLists'[inFlight'[p]], ThereAfter(p)', delayed')
      <3>1. \A q \in 1 .. p : q \in 1 .. n
        BY <2>3
      <3>2. ThereAfter(p)' = ThereAfter(p)
        BY <2>1, <2>4, <3>1 DEF ThereAfter, Arrived
      <3>3. DrawsReady(renderCmdLists[inFlight[p]], ThereAfter(p), delayed)
        BY <1>1, <2>4 DEF DrawsInv
      <3>4. QED
        BY <2>1, <2>4, <3>2, <3>3
    <2>6. DrawsReady(renderCmdLists'[inFlight'[n + 1]], ThereAfter(n + 1)', delayed')
      <3> DEFINE there == {d \in Destination : Arrived(d) \/ Recorded(d)}
      <3>1. DrawsReady(renderCmdLists[imageIndex], there, delayed)
        BY <1>1, <2>1 DEF DrawsInv
      <3>2. ASSUME NEW d \in Destination, Recorded(d)
            PROVE  \E q \in 1 .. n + 1 : Copied(renderCmdLists'[inFlight'[q]], d)
        <4>1. PICK s \in Slot : s \in Pending /\ Copied(renderCmdLists[s], d)
          BY <3>2 DEF Recorded, Holds
        <4>2. CASE s = imageIndex
          <5>1. n + 1 \in 1 .. n + 1
            BY <2>3
          <5>2. QED
            BY <2>1, <2>4, <4>1, <4>2, <5>1
        <4>3. CASE s # imageIndex
          <5>1. PICK q \in DOMAIN inFlight : s = inFlight[q]
            BY <4>1, <4>3 DEF Pending, Range
          <5>2. q \in 1 .. n + 1
            BY <2>4, <2>3
          <5>3. QED
            BY <2>1, <2>4, <4>1, <5>1, <5>2
        <4>4. QED
          BY <4>2, <4>3
      <3>3. there \subseteq ThereAfter(n + 1)'
        BY <2>1, <3>2 DEF ThereAfter, Arrived
      <3>4. renderCmdLists[imageIndex] \in Seq(Command)
        BY InSlot
      <3> HIDE DEF there
      <3>5. QED
        BY <2>1, <2>4, <3>1, <3>3, <3>4, DrawsReadyGrows
    <2>7. \A p \in 1 .. n + 1 : p \in 1 .. n \/ p = n + 1
      BY <2>3
    <2>8. QED
      BY <2>1, <2>4, <2>5, <2>6, <2>7 DEF DrawsInv
  <1>9. CASE ExecuteFrame
    <2> DEFINE h == Head(inFlight)
    <2>1. /\ h = inFlight[1] /\ UNCHANGED <<pc, imageIndex, renderCmdLists, delayed>> /\ h \in Pending
          /\ \A p \in DOMAIN inFlight' : p + 1 \in DOMAIN inFlight /\ inFlight'[p] = inFlight[p + 1]
          /\ inFlight' \in Seq(Slot)
      BY <1>9, ExecuteEffect DEF faults
    <2>2. /\ \A d \in Destination : Arrived(d)' <=> Arrived(d) \/ Holds(h, d)
          /\ \A s, d : Holds(s, d)' <=> Holds(s, d) /\ s # h
      BY <1>9, Arrivals
    <2> HIDE DEF h
    <2>3. ASSUME NEW p \in DOMAIN inFlight'
          PROVE  DrawsReady(renderCmdLists'[inFlight'[p]], ThereAfter(p)', delayed')
      <3>1. DrawsReady(renderCmdLists[inFlight[p + 1]], ThereAfter(p + 1), delayed)
        BY <1>1, <2>1 DEF DrawsInv
      <3>2. ASSUME NEW d \in Destination, NEW q \in 1 .. p + 1, Copied(renderCmdLists[inFlight[q]], d)
            PROVE  Arrived(d)' \/ \E r \in 1 .. p : Copied(renderCmdLists'[inFlight'[r]], d)
        <4>1. CASE q = 1
          BY <2>1, <2>2, <3>2, <4>1 DEF Holds
        <4>2. CASE q # 1
          <5>1. q - 1 \in 1 .. p /\ q - 1 \in DOMAIN inFlight' /\ (q - 1) + 1 = q
            BY <2>1, <4>2
          <5>2. inFlight'[q - 1] = inFlight[q]
            BY <2>1, <5>1
          <5>3. QED
            BY <2>1, <3>2, <5>1, <5>2
        <4>3. QED
          BY <4>1, <4>2
      <3>3. ThereAfter(p + 1) \subseteq ThereAfter(p)'
        BY <2>2, <3>2 DEF ThereAfter
      <3>4. renderCmdLists[inFlight[p + 1]] \in Seq(Command)
        BY <2>1, InSlot
      <3>5. QED
        BY <2>1, <3>1, <3>3, <3>4, DrawsReadyGrows
    <2>4. ASSUME pc' = "end"
          PROVE  DrawsReady(renderCmdLists'[imageIndex'],
                            {d \in Destination : Arrived(d) \/ Recorded(d)}', delayed')
      <3>1. DrawsReady(renderCmdLists[imageIndex], {d \in Destination : Arrived(d) \/ Recorded(d)}, delayed)
        BY <1>1, <2>1, <2>4 DEF DrawsInv
      <3>2. {d \in Destination : Arrived(d) \/ Recorded(d)}
              \subseteq {d \in Destination : Arrived(d) \/ Recorded(d)}'
        BY <2>2 DEF Recorded
      <3>3. renderCmdLists[imageIndex] \in Seq(Command)
        BY InSlot
      <3>4. QED
        BY <2>1, <3>1, <3>2, <3>3, DrawsReadyGrows
    <2>5. QED
      BY <2>3, <2>4 DEF DrawsInv
  <1>10. QED
    BY <1>3, <1>4, <1>5, <1>6, <1>7, <1>8, <1>9, Kinds

\* A model is drawn in a list, before which all its data was copied.
LEMMA DrawnStep ==
    ASSUME IInv, [Next]_vars
    PROVE  DrawnIsReady'
  <1>1. DrawnIsReady /\ delayed \subseteq delayed'
    BY Histories DEF IInv
  <1>2. CASE ~ ExecuteFrame
    <2>1. unready' = unready \/ UNCHANGED unready
      BY <1>2, Histories
    <2>2. QED
      BY <1>1, <2>1 DEF DrawnIsReady
  <1>3. CASE ExecuteFrame
    <2> DEFINE h == Head(inFlight)
               list == renderCmdLists[h]
    <2>1. /\ h = inFlight[1] /\ 1 \in DOMAIN inFlight /\ h \in Pending /\ UNCHANGED delayed
          /\ list \in Seq(Command)
          /\ unready' \subseteq Model
          /\ \A x \in unready' \ unready :
               \E i \in DOMAIN list :
                  /\ list[i].op = "draw" /\ x \in list[i].of
                  /\ (\E p \in Part : layout'[<<x, p>>] # FirstUse(<<x, p>>))
                     \/ x \notin list[i].bound
      BY <1>3, ExecuteEffect DEF faults
    <2>2. /\ \A d \in Destination : Holds(h, d) => layout'[d] = FirstUse(d)
          /\ \A d \in Destination : ~ Holds(h, d) => layout'[d] = layout[d]
      BY <1>3, Arrivals
    <2> HIDE DEF h
    <2>3. DrawsReady(list, ThereAfter(1), delayed)
      BY <1>1, <2>1 DEF IInv, DrawsInv
    <2>4. \A d \in ThereAfter(1) : layout'[d] = FirstUse(d)
      <3>1. ASSUME NEW d \in ThereAfter(1) PROVE layout'[d] = FirstUse(d)
        <4>1. d \in Destination /\ (Arrived(d) \/ Copied(list, d))
          <5>1. \A q \in 1 .. 1 : q = 1
            OBVIOUS
          <5>2. QED
            BY <2>1, <5>1 DEF ThereAfter
        <4>2. Arrived(d) => layout[d] = FirstUse(d)
          BY <4>1 DEF IInv, LayoutsInv
        <4>3. Copied(list, d) => Holds(h, d)
          BY <2>1 DEF Holds
        <4>4. QED
          BY <2>2, <4>1, <4>2, <4>3
      <3>2. QED
        BY <3>1
    <2> HIDE DEF list
    <2>5. ASSUME NEW x \in unready' \ unready PROVE x \in delayed
      <3>1. PICK i \in DOMAIN list :
              /\ list[i].op = "draw" /\ x \in list[i].of
              /\ (\E p \in Part : layout'[<<x, p>>] # FirstUse(<<x, p>>)) \/ x \notin list[i].bound
        BY <2>1
      <3>2. x \notin delayed => x \in list[i].bound /\ \A p \in Part : <<x, p>> \in ThereAfter(1)
        BY <2>3, <3>1 DEF DrawsReady
      <3>3. QED
        BY <2>4, <3>1, <3>2
    <2>6. QED
      BY <1>1, <2>1, <2>5 DEF DrawnIsReady
  <1>4. QED
    BY <1>2, <1>3

\* Steps that change neither lists nor buffers.
LEMMA BytesKept ==
    ASSUME BytesInv, UNCHANGED <<stagingBuffers, memory>>, broken \subseteq broken',
           \A s \in Pending' : s \in Pending /\ renderCmdLists'[s] = renderCmdLists[s]
    PROVE  BytesInv'
  BY DEF BytesInv

\* The bytes stay where the copies will look for them.
LEMMA BytesStep ==
    ASSUME IInv, [Next]_vars
    PROVE  BytesInv'
  <1>1. BytesInv /\ broken \subseteq broken'
    BY Histories DEF IInv
  <1>2. CASE GrowStagingBuffer
    <2> DEFINE e == [i \in 1 .. Size(stageData) |-> <<>>]
    <2>1. /\ pc = "upload" /\ UNCHANGED renderCmdLists
          /\ memory' = Append(memory, e)
          /\ stagingBuffers' = [stagingBuffers EXCEPT ![imageIndex] = Len(memory) + 1]
      BY <1>2 DEF GrowStagingBuffer
    <2>2. /\ memory \in Seq(Seq(Byte)) /\ imageIndex \in Slot
          /\ stagingBuffers \in [Slot -> 0 .. Len(memory)]
          /\ stageData \in Seq(Destination)
      BY DEF IInv, TypeOK
    <2>3. e \in Seq(Byte)
      <3>1. Size(stageData) \in Nat
        BY <2>2, SizeFacts
      <3>2. QED
        BY <3>1 DEF Byte
    <2> HIDE DEF e
    <2>4. \A b \in 1 .. Len(memory) : memory'[b] = memory[b]
      BY <2>1, <2>2, <2>3
    <2>5. Pending' = Pending /\ imageIndex \notin Pending
      <3>1. Quiet
        BY <1>2 DEF Quiet
      <3>2. imageIndex \notin Range(inFlight)
        BY <2>1 DEF IInv, SlotsInv
      <3>3. QED
        BY <2>1, <3>1, <3>2, QuietEffect DEF Pending, Recording
    <2>6. \A s \in Pending : stagingBuffers'[s] = stagingBuffers[s] /\ stagingBuffers[s] \in 0 .. Len(memory)
      BY <2>1, <2>2, <2>5, InSlot
    <2>7. \A b \in 0 .. Len(memory) : b # 0 => b \in 1 .. Len(memory)
      BY <2>2
    <2>8. \A s \in Pending : stagingBuffers[s] # 0 => memory'[stagingBuffers[s]] = memory[stagingBuffers[s]]
      BY <2>4, <2>6, <2>7
    <2>9. QED
      BY <1>1, <2>1, <2>5, <2>6, <2>8 DEF BytesInv
  <1>3. CASE RecordUploads
    <2> DEFINE b == stagingBuffers[imageIndex]
               list == Commands(stageData, b)
    <2>1. /\ Pending' = Pending \cup {imageIndex} /\ imageIndex \notin Pending
          /\ renderCmdLists'[imageIndex] = list
          /\ \A s \in Slot \ {imageIndex} : renderCmdLists'[s] = renderCmdLists[s]
      BY <1>3, RecordEffect
    <2>2. /\ b \in 1 .. Len(memory)
          /\ \A x \in 1 .. Len(memory) : x # b => memory'[x] = memory[x]
          /\ \A k \in DOMAIN stageData :
               /\ BytesUpTo(stageData)[k - 1] + Length[stageData[k]] <= Len(memory'[b])
               /\ \A j \in 1 .. Length[stageData[k]] :
                    memory'[b][BytesUpTo(stageData)[k - 1] + j] = <<stageData[k], j>>
      BY <1>3, MemoryEffect
    <2>3. Len(memory) \in Nat
      BY DEF IInv, TypeOK
    <2>4. UNCHANGED <<stagingBuffers, imageIndex>>
      BY <1>3 DEF RecordUploads
    <2>5. \A i \in DOMAIN list : list[i].op = "copy" =>
            \E k \in DOMAIN stageData :
              list[i] = [op |-> "copy", to |-> stageData[k], from |-> b,
                         offset |-> BytesUpTo(stageData)[k - 1], size |-> Length[stageData[k]]]
      <3>1. /\ stageData \in Seq(Destination) /\ stageData # <<>> /\ b \in Nat
            /\ \A i, j \in DOMAIN stageData : stageData[i] = stageData[j] => i = j
        BY <1>3, FillFacts
      <3> HIDE DEF b
      <3>2. QED
        BY <3>1, CommandsFacts
    <2> HIDE DEF list
    <2>6. ASSUME NEW i \in DOMAIN list, list[i].op = "copy"
          PROVE  list[i].from = b /\ b # 0 /\ Finds(list[i], memory'[b])
      <3>1. PICK k \in DOMAIN stageData :
              list[i] = [op |-> "copy", to |-> stageData[k], from |-> b,
                         offset |-> BytesUpTo(stageData)[k - 1], size |-> Length[stageData[k]]]
        BY <2>5, <2>6
      <3>2. /\ list[i].from = b /\ list[i].to = stageData[k] /\ list[i].size = Length[stageData[k]]
            /\ list[i].offset = BytesUpTo(stageData)[k - 1]
        BY <3>1
      <3>3. b # 0
        BY <2>2, <2>3
      <3> HIDE DEF b
      <3>4. QED
        BY <2>2, <3>2, <3>3 DEF Finds
    <2>7. ASSUME NEW s \in Pending, broken = {}, NEW i \in DOMAIN renderCmdLists[s],
                 renderCmdLists[s][i].op = "copy"
          PROVE  /\ s # imageIndex /\ renderCmdLists'[s] = renderCmdLists[s]
                 /\ renderCmdLists[s][i].from = stagingBuffers[s] /\ stagingBuffers[s] # 0
                 /\ Finds(renderCmdLists[s][i], memory'[stagingBuffers[s]])
      <3>1. /\ renderCmdLists[s][i].from = stagingBuffers[s] /\ stagingBuffers[s] # 0
            /\ Finds(renderCmdLists[s][i], memory[stagingBuffers[s]])
        BY <1>1, <2>7 DEF BytesInv
      <3>2. s \in Slot /\ s # imageIndex /\ imageIndex \in Slot
        BY <2>1, InSlot
      <3>3. stagingBuffers[s] # b
        BY <3>1, <3>2 DEF IInv, BuffersInv
      <3>4. stagingBuffers[s] \in 1 .. Len(memory)
        BY <2>3, <3>1, <3>2 DEF IInv, TypeOK
      <3>5. QED
        BY <2>1, <2>2, <3>1, <3>2, <3>3, <3>4
    <2>8. ASSUME broken' = {}, NEW s \in Pending', NEW i \in DOMAIN renderCmdLists'[s],
                 renderCmdLists'[s][i].op = "copy"
          PROVE  /\ renderCmdLists'[s][i].from = stagingBuffers'[s] /\ stagingBuffers'[s] # 0
                 /\ Finds(renderCmdLists'[s][i], memory'[stagingBuffers'[s]])
      <3>1. CASE s = imageIndex
        BY <2>1, <2>4, <2>6, <2>8, <3>1
      <3>2. CASE s # imageIndex
        <4>1. s \in Pending /\ broken = {}
          BY <1>1, <2>1, <2>8, <3>2
        <4>2. renderCmdLists'[s] = renderCmdLists[s]
          BY <2>1, <3>2, <4>1, InSlot
        <4>3. QED
          BY <2>4, <2>7, <2>8, <4>1, <4>2
      <3>3. QED
        BY <3>1, <3>2
    <2>9. QED
      BY <2>8 DEF BytesInv
  <1>4. CASE NoUploads
    <2>1. /\ UNCHANGED <<renderCmdLists, imageIndex>> /\ renderCmdLists[imageIndex] = <<>>
          /\ Pending' = Pending \cup {imageIndex}
      BY <1>4, NoUploadsEffect
    <2>2. UNCHANGED <<stagingBuffers, memory>>
      BY <1>4 DEF NoUploads, NothingStaged, CreateBufferFails, MapMemoryFails, buffers
    <2>3. DOMAIN renderCmdLists[imageIndex] = {}
      BY <2>1
    <2>4. QED
      BY <1>1, <2>1, <2>2, <2>3 DEF BytesInv
  <1>5. CASE Render
    <2> DEFINE list == renderCmdLists[imageIndex]
    <2>1. /\ Pending' = Pending /\ UNCHANGED <<imageIndex, stagingBuffers, memory>>
          /\ \A s \in Slot \ {imageIndex} : renderCmdLists'[s] = renderCmdLists[s]
          /\ list \in Seq(Command) /\ Shape(list)
      BY <1>5, RenderEffect DEF Render, buffers
    <2>2. PICK c \in Command :
            /\ c = [op |-> "draw", of |-> instances, bound |-> {m \in Model : Bound(m)}]
            /\ renderCmdLists'[imageIndex] = Append(list, c)
      BY <1>5, RenderEffect
    <2>3. c.op = "draw"
      BY <2>2
    <2> HIDE DEF list
    <2>4. \A i \in DOMAIN Append(list, c) :
            \/ i \in DOMAIN list /\ Append(list, c)[i] = list[i]
            \/ i \notin DOMAIN list /\ Append(list, c)[i] = c
      BY <2>1, <2>3, DrawFacts
    <2>5. \A i \in DOMAIN renderCmdLists'[imageIndex] : renderCmdLists'[imageIndex][i].op = "copy" =>
            i \in DOMAIN renderCmdLists[imageIndex] /\ renderCmdLists'[imageIndex][i] = renderCmdLists[imageIndex][i]
      BY <2>2, <2>3, <2>4 DEF list
    <2>6. \A s \in Pending : s # imageIndex => renderCmdLists'[s] = renderCmdLists[s]
      BY <2>1, InSlot
    <2>7. QED
      BY <1>1, <2>1, <2>5, <2>6 DEF BytesInv
  <1>6. CASE BeginFrame
    <2>1. /\ Pending' = Pending /\ imageIndex \notin Pending /\ UNCHANGED <<stagingBuffers, memory>>
          /\ \A s \in Slot \ {imageIndex} : renderCmdLists'[s] = renderCmdLists[s]
      BY <1>6, BeginEffect DEF BeginFrame, buffers
    <2>2. \A s \in Pending : renderCmdLists'[s] = renderCmdLists[s]
      BY <2>1, InSlot
    <2>3. QED
      BY <1>1, <2>1, <2>2, BytesKept
  <1>7. CASE Quiet /\ ~ GrowStagingBuffer
    <2>1. UNCHANGED renderCmdLists /\ Pending' = Pending
      BY <1>7, QuietEffect
    <2>2. UNCHANGED <<stagingBuffers, memory>>
      BY <1>7 DEF Quiet, Game, NewModel, NewModelFails, NewInstance, LargeEnough,
                  UpdateDescriptorSets, Deinit, vars, buffers
    <2>3. QED
      BY <1>1, <2>1, <2>2, BytesKept
  <1>8. CASE EndFrame
    <2>1. UNCHANGED <<renderCmdLists, stagingBuffers, memory>> /\ Pending' = Pending
      BY <1>8, EndEffect DEF EndFrame, buffers
    <2>2. QED
      BY <1>1, <2>1, BytesKept
  <1>9. CASE ExecuteFrame
    <2>1. UNCHANGED <<renderCmdLists, buffers>> /\ Pending' \subseteq Pending
      BY <1>9, ExecuteEffect
    <2>2. QED
      BY <1>1, <2>1, BytesKept DEF buffers
  <1>10. QED
    BY <1>2, <1>3, <1>4, <1>5, <1>6, <1>7, <1>8, <1>9, Kinds

\* What arrives are the bytes of the destination.
LEMMA ArriveStep ==
    ASSUME IInv, [Next]_vars
    PROVE  BytesArrive'
  <1>1. BytesArrive /\ broken \subseteq broken'
    BY Histories DEF IInv
  <1>2. CASE ~ ExecuteFrame
    BY <1>1, <1>2, Histories DEF BytesArrive
  <1>3. CASE ExecuteFrame
    <2> DEFINE h == Head(inFlight)
               list == renderCmdLists[h]
    <2>1. /\ h \in Pending /\ h \in Slot /\ list \in Seq(Command) /\ Shape(list)
          /\ inFlight # <<>> /\ UNCHANGED broken
          /\ \A d \in Destination : ~ Copied(list, d) => content'[d] = content[d]
          /\ \A i \in DOMAIN list : list[i].op = "copy" =>
               content'[list[i].to] = Read(list[i].from, list[i].offset, list[i].size)
      BY <1>3, ExecuteEffect DEF faults
    <2> HIDE DEF h
    <2>2. broken = {} => \A i \in DOMAIN list : list[i].op = "copy" =>
            /\ list[i].from = stagingBuffers[h] /\ stagingBuffers[h] # 0
            /\ Finds(list[i], memory[stagingBuffers[h]])
      BY <2>1 DEF IInv, BytesInv
    <2>3. broken = {} /\ stagingBuffers[h] # 0 => stagingBuffers[h] \in live
      BY <2>1 DEF IInv, SlotsInv, BuffersInv
    <2> HIDE DEF list
    <2>4. ASSUME broken = {}, NEW d \in Destination, Copied(list, d)
          PROVE  content'[d] = Bytes(d)
      <3>1. PICK i \in DOMAIN list : list[i].op = "copy" /\ list[i].to = d
        BY <2>4 DEF Copied
      <3> DEFINE b == stagingBuffers[h]
                 o == list[i].offset
      <3>2. /\ content'[d] = Read(b, o, Length[d]) /\ b \in live
            /\ o + Length[d] <= Len(memory[b])
            /\ \A j \in 1 .. Length[d] : memory[b][o + j] = <<d, j>>
        BY <2>1, <2>2, <2>3, <2>4, <3>1 DEF Finds
      <3>3. o \in Nat /\ Length[d] \in Nat
        BY <2>1, <3>1, ShapeFacts, UploadAssumption
      <3>4. Len(memory[b]) \in Nat
        BY <3>2 DEF IInv, TypeOK
      <3> HIDE DEF b, o
      <3>5. \A j \in 1 .. Length[d] : o + j <= Len(memory[b])
        BY <3>2, <3>3, <3>4
      <3>6. Read(b, o, Length[d]) = [j \in 1 .. Length[d] |-> <<d, j>>]
        BY <3>2, <3>5 DEF Read
      <3>7. QED
        BY <3>2, <3>6 DEF Bytes
    <2>5. QED
      BY <1>1, <2>1, <2>4 DEF BytesArrive
  <1>4. QED
    BY <1>2, <1>3

\* A list that grows leaves what was queued before where it was.
LEMMA Grows ==
    ASSUME NEW S, NEW s \in Seq(S), NEW e \in S
    PROVE  /\ Append(s, e) \in Seq(S) /\ Len(Append(s, e)) = Len(s) + 1
           /\ Len(s) \in Nat
           /\ \A i \in 1 .. Len(s) : Append(s, e)[i] = s[i]
           /\ Append(s, e)[Len(s) + 1] = e
  OBVIOUS

\* An info added to a list changes no other.
LEMMA MeantStays ==
    ASSUME NEW w, NEW images \in Seq(Info), NEW bufs \in Seq(Info), Meant(w, images, bufs),
           NEW e \in Info
    PROVE  Meant(w, Append(images, e), bufs) /\ Meant(w, images, Append(bufs, e))
  <1>1. /\ Len(Append(images, e)) = Len(images) + 1 /\ Len(images) \in Nat
        /\ \A i \in 1 .. Len(images) : Append(images, e)[i] = images[i]
        /\ Len(Append(bufs, e)) = Len(bufs) + 1 /\ Len(bufs) \in Nat
        /\ \A i \in 1 .. Len(bufs) : Append(bufs, e)[i] = bufs[i]
    BY Grows
  <1>2. /\ 1 .. Len(images) \subseteq 1 .. Len(Append(images, e))
        /\ 1 .. Len(bufs) \subseteq 1 .. Len(Append(bufs, e))
    BY <1>1
  <1>3. QED
    BY <1>1, <1>2 DEF Meant

\* A write appended to the queue, its info to one of the lists.
LEMMA QueueGrows ==
    ASSUME QueuesInv, NEW w \in Write,
           descriptorWrites' = Append(descriptorWrites, w),
           descriptorImageWrites' \in Seq(Info), descriptorBufferWrites' \in Seq(Info),
           Meant(w, descriptorImageWrites', descriptorBufferWrites'),
           \A v : Meant(v, descriptorImageWrites, descriptorBufferWrites)
                    => Meant(v, descriptorImageWrites', descriptorBufferWrites')
    PROVE  QueuesInv'
  <1>1. /\ descriptorWrites' \in Seq(Write)
        /\ Len(descriptorWrites') = Len(descriptorWrites) + 1 /\ Len(descriptorWrites) \in Nat
        /\ \A k \in 1 .. Len(descriptorWrites) : descriptorWrites'[k] = descriptorWrites[k]
        /\ descriptorWrites'[Len(descriptorWrites) + 1] = w
    BY Grows DEF QueuesInv
  <1>2. ASSUME NEW k \in 1 .. Len(descriptorWrites')
        PROVE  Meant(descriptorWrites'[k], descriptorImageWrites', descriptorBufferWrites')
    <2>1. CASE k = Len(descriptorWrites) + 1
      BY <1>1, <2>1
    <2>2. CASE k # Len(descriptorWrites) + 1
      <3>1. k \in 1 .. Len(descriptorWrites)
        BY <1>1, <2>2
      <3>2. QED
        BY <1>1, <3>1 DEF QueuesInv
    <2>3. QED
      BY <2>1, <2>2
  <1>3. QED
    BY <1>1, <1>2 DEF QueuesInv

\* The write of a texture,
LEMMA AddImageLemma ==
    ASSUME QueuesInv, NEW m \in Model, AddImageUpdate(<<m, "model">>, <<m, "texture">>)
    PROVE  QueuesInv'
  <1> DEFINE e == <<m, "texture">>
             n == Len(descriptorImageWrites) + 1
             w == [set |-> <<m, "model">>, imgIndex |-> n, bufIndex |-> 0]
  <1>1. /\ descriptorImageWrites \in Seq(Info) /\ descriptorBufferWrites \in Seq(Info)
        /\ e \in Info
    BY DEF QueuesInv, Info
  <1>2. /\ descriptorImageWrites' = Append(descriptorImageWrites, e)
        /\ descriptorWrites' = Append(descriptorWrites, w)
        /\ descriptorBufferWrites' = descriptorBufferWrites
    BY DEF AddImageUpdate
  <1>3. /\ descriptorImageWrites' \in Seq(Info) /\ Len(descriptorImageWrites') = n
        /\ n \in Nat /\ n >= 1
        /\ descriptorImageWrites'[n] = e
    BY <1>1, <1>2, Grows
  <1>4. /\ w.set = <<m, "model">> /\ w.imgIndex = n /\ w.bufIndex = 0
        /\ w \in Write
    BY <1>3 DEF Write, Set
  <1> HIDE DEF e, n, w
  <1>5. Meant(w, descriptorImageWrites', descriptorBufferWrites')
    BY <1>3, <1>4 DEF Meant, e
  <1>6. \A v : Meant(v, descriptorImageWrites, descriptorBufferWrites)
                 => Meant(v, descriptorImageWrites', descriptorBufferWrites')
    BY <1>1, <1>2, MeantStays
  <1>7. QED
    BY <1>1, <1>2, <1>3, <1>4, <1>5, <1>6, QueueGrows

\* ... and that of an instance's matrix.
LEMMA AddBufferLemma ==
    ASSUME QueuesInv, NEW m \in Model, AddBufferUpdate(<<m, "instance">>, <<m, "matrix">>)
    PROVE  QueuesInv'
  <1> DEFINE e == <<m, "matrix">>
             n == Len(descriptorBufferWrites) + 1
             w == [set |-> <<m, "instance">>, imgIndex |-> 0, bufIndex |-> n]
  <1>1. /\ descriptorImageWrites \in Seq(Info) /\ descriptorBufferWrites \in Seq(Info)
        /\ e \in Info
    BY DEF QueuesInv, Info
  <1>2. /\ descriptorBufferWrites' = Append(descriptorBufferWrites, e)
        /\ descriptorWrites' = Append(descriptorWrites, w)
        /\ descriptorImageWrites' = descriptorImageWrites
    BY DEF AddBufferUpdate
  <1>3. /\ descriptorBufferWrites' \in Seq(Info) /\ Len(descriptorBufferWrites') = n
        /\ n \in Nat /\ n >= 1
        /\ descriptorBufferWrites'[n] = e
    BY <1>1, <1>2, Grows
  <1>4. /\ w.set = <<m, "instance">> /\ w.imgIndex = 0 /\ w.bufIndex = n
        /\ w \in Write
    BY <1>3 DEF Write, Set
  <1> HIDE DEF e, n, w
  <1>5. Meant(w, descriptorImageWrites', descriptorBufferWrites')
    BY <1>3, <1>4 DEF Meant, e
  <1>6. \A v : Meant(v, descriptorImageWrites, descriptorBufferWrites)
                 => Meant(v, descriptorImageWrites', descriptorBufferWrites')
    BY <1>1, <1>2, MeantStays
  <1>7. QED
    BY <1>1, <1>2, <1>3, <1>4, <1>5, <1>6, QueueGrows

\* The queue of writes and the lists of infos.
LEMMA QueuesStep ==
    ASSUME QueuesInv, [Next]_vars
    PROVE  QueuesInv'
  <1>1. CASE UNCHANGED queues
    BY <1>1 DEF QueuesInv, queues
  <1>2. ASSUME NEW m \in Model, NewModel(m) PROVE QueuesInv'
    BY <1>2, AddImageLemma DEF NewModel
  <1>3. ASSUME NEW m \in Model, NewInstance(m) PROVE QueuesInv'
    BY <1>3, AddBufferLemma DEF NewInstance
  <1>4. ASSUME NEW m \in Model, NewModelFails(m) PROVE QueuesInv'
    BY <1>1, <1>4 DEF NewModelFails
  <1>5. CASE UpdateDescriptorSets \/ Deinit
    <2>1. /\ descriptorWrites' = <<>> /\ descriptorImageWrites' = <<>>
          /\ descriptorBufferWrites' = <<>>
      BY <1>5 DEF UpdateDescriptorSets, Deinit
    <2>2. QED
      BY <2>1 DEF QueuesInv
  <1>6. CASE BeginFrame \/ NothingStaged \/ GrowStagingBuffer \/ CreateBufferFails \/ LargeEnough
    BY <1>1, <1>6
    DEF BeginFrame, NothingStaged, GrowStagingBuffer, CreateBufferFails, LargeEnough
  <1>7. CASE MapMemoryFails \/ RecordUploads \/ Render \/ EndFrame \/ ExecuteFrame
    BY <1>1, <1>7 DEF MapMemoryFails, RecordUploads, Render, EndFrame, ExecuteFrame
  <1>8. CASE UNCHANGED vars
    BY <1>1, <1>8 DEF vars
  <1>9. QED
    BY <1>2, <1>3, <1>4, <1>5, <1>6, <1>7, <1>8 DEF Next, Game, Frame, Terminated

\* What the sets refer to.
LEMMA SetsStep ==
    ASSUME QueuesInv, SetsReferToTheirOwn, [Next]_vars
    PROVE  SetsReferToTheirOwn'
  <1>1. CASE UNCHANGED sets
    BY <1>1 DEF SetsReferToTheirOwn
  <1>2. CASE UpdateDescriptorSets
    <2>1. ASSUME NEW m \in Model
          PROVE  /\ sets'[<<m, "model">>] \in {sets[<<m, "model">>], <<m, "texture">>}
                 /\ sets'[<<m, "instance">>] \in {sets[<<m, "instance">>], <<m, "matrix">>}
      BY <1>2, UpdatedSets
    <2>2. QED
      BY <2>1 DEF SetsReferToTheirOwn
  <1>3. CASE Game
    BY <1>1, <1>3 DEF Game, NewModel, NewModelFails, NewInstance
  <1>4. CASE BeginFrame \/ NothingStaged \/ GrowStagingBuffer \/ CreateBufferFails \/ LargeEnough
    BY <1>1, <1>4
    DEF BeginFrame, NothingStaged, GrowStagingBuffer, CreateBufferFails, LargeEnough
  <1>5. CASE MapMemoryFails \/ RecordUploads \/ Render \/ EndFrame \/ Deinit \/ ExecuteFrame
    BY <1>1, <1>5 DEF MapMemoryFails, RecordUploads, Render, EndFrame, Deinit, ExecuteFrame
  <1>6. CASE UNCHANGED vars
    BY <1>1, <1>6 DEF vars
  <1>7. QED
    BY <1>2, <1>3, <1>4, <1>5, <1>6 DEF Next, Frame, Terminated

----------------------------------------------------------------------------
\* The invariant holds at first, and in every step.
LEMMA InitLemma == Init => IInv
  <1> SUFFICES ASSUME Init PROVE IInv
    OBVIOUS
  <1> USE DEF Init
  <1>1. TypeOK
    BY UploadAssumption DEF TypeOK, Slot
  <1>2. ListsTypeOK /\ ListsInv /\ SlotsInv
    <2>1. inFlight = <<>> /\ Range(inFlight) = {} /\ Pending = {}
      BY DEF Pending, Recording, Range
    <2>2. renderCmdLists \in [Slot -> Seq(Command)]
      OBVIOUS
    <2>3. QED
      BY <2>1, <2>2 DEF ListsTypeOK, ListsInv, SlotsInv
  <1>3. QueuesInv /\ SetsReferToTheirOwn
    BY DEF QueuesInv, SetsReferToTheirOwn, Set
  <1>4. BuffersInv
    BY DEF BuffersInv
  <1>5. Pending = {} /\ \A s, d : ~ Holds(s, d)
    BY DEF Pending, Recording, Range, Holds
  <1>6. \A d \in Destination : ~ InQueue(d) /\ ~ Recorded(d) /\ ~ Arrived(d)
    BY <1>5 DEF InQueue, Recorded, Arrived, Range
  <1>7. PlacesInv
    BY <1>5, <1>6 DEF PlacesInv
  <1>8. LayoutsInv /\ BytesInv
    BY <1>5, <1>6 DEF LayoutsInv, BytesInv
  <1>9. ReadyInv
    BY DEF ReadyInv
  <1>10. DrawsInv
    BY DEF DrawsInv
  <1>11. DrawnIsReady /\ BytesArrive
    BY DEF DrawnIsReady, BytesArrive
  <1>12. QED
    BY <1>1, <1>2, <1>3, <1>4, <1>7, <1>8, <1>9, <1>10, <1>11 DEF IInv

LEMMA StepLemma == IInv /\ [Next]_vars => IInv'
  <1> SUFFICES ASSUME IInv, [Next]_vars PROVE IInv'
    OBVIOUS
  <1>1. QueuesInv' /\ SetsReferToTheirOwn'
    BY QueuesStep, SetsStep DEF IInv
  <1>2. QED
    BY <1>1, TypeStep, ListsTypeStep, SlotsStep, ListsStep, BuffersStep, PlacesStep,
       LayoutsStep, ReadyStep, DrawsStep, BytesStep, DrawnStep, ArriveStep DEF IInv

LEMMA Invariant == Spec => []IInv
  BY InitLemma, StepLemma, PTL DEF Spec

\* In the queue, in one list, and in place.
LEMMA CountLemma ==
    ASSUME IInv, NEW d \in Destination
    PROVE  /\ Cardinality({i \in DOMAIN stageData : stageData[i] = d}) = IF InQueue(d) THEN 1 ELSE 0
           /\ Cardinality(UNION {{s} \X CopiesTo(s, d) : s \in Pending})
                = IF Recorded(d) THEN 1 ELSE 0
  <1>1. Cardinality({i \in DOMAIN stageData : stageData[i] = d}) = IF InQueue(d) THEN 1 ELSE 0
    <2>1. CASE InQueue(d)
      <3>1. PICK k \in DOMAIN stageData : stageData[k] = d
        BY <2>1 DEF InQueue, Range
      <3>2. {i \in DOMAIN stageData : stageData[i] = d} = {k}
        BY <3>1 DEF IInv, PlacesInv
      <3>3. QED
        BY <2>1, <3>2, FS_Singleton
    <2>2. CASE ~ InQueue(d)
      <3>1. {i \in DOMAIN stageData : stageData[i] = d} = {}
        BY <2>2 DEF InQueue, Range
      <3>2. QED
        BY <2>2, <3>1, FS_EmptySet
    <2>3. QED
      BY <2>1, <2>2
  <1> DEFINE all == UNION {{s} \X CopiesTo(s, d) : s \in Pending}
  <1>2. \A s \in Pending : /\ s \in Slot /\ renderCmdLists[s] \in Seq(Command)
                           /\ Shape(renderCmdLists[s])
    BY InSlot DEF IInv, ListsInv
  <1>3. Cardinality(all) = IF Recorded(d) THEN 1 ELSE 0
    <2>1. CASE Recorded(d)
      <3>1. PICK s \in Slot : s \in Pending /\ Copied(renderCmdLists[s], d)
        BY <2>1 DEF Recorded, Holds
      <3>2. PICK i \in CopiesTo(s, d) : TRUE
        BY <3>1 DEF Copied, CopiesTo
      <3>3. ASSUME NEW t \in Pending, NEW j \in CopiesTo(t, d) PROVE t = s /\ j = i
        <4>1. Holds(s, d) /\ Holds(t, d) /\ t \in Slot
          BY <1>2, <3>1, <3>3 DEF Holds, Copied, CopiesTo
        <4>2. t = s
          BY <4>1 DEF IInv, PlacesInv
        <4>3. \A a, b \in CopiesTo(s, d) : a = b
          BY <1>2, <3>1, ShapeFacts DEF CopiesTo
        <4>4. QED
          BY <3>2, <3>3, <4>2, <4>3
      <3>4. all = {<<s, i>>}
        BY <3>1, <3>2, <3>3
      <3> HIDE DEF all
      <3>5. QED
        BY <2>1, <3>4, FS_Singleton
    <2>2. CASE ~ Recorded(d)
      <3>1. \A s \in Pending : CopiesTo(s, d) = {}
        BY <1>2, <2>2 DEF Recorded, Holds, Copied, CopiesTo
      <3>2. all = {}
        BY <3>1
      <3> HIDE DEF all
      <3>3. QED
        BY <2>2, <3>2, FS_EmptySet
    <2>3. QED
      BY <2>1, <2>2
  <1>4. QED
    BY <1>1, <1>3

\* An upload is counted once.
LEMMA OnceLemma == IInv => UploadedOnce
  <1> SUFFICES ASSUME IInv, pc # "done", NEW d \in Destination
               PROVE  Times(d) <= 1 /\ (d[1] \in models => Times(d) = 1)
    BY DEF UploadedOnce
  <1>1. Times(d) = (IF InQueue(d) THEN 1 ELSE 0) + (IF Recorded(d) THEN 1 ELSE 0)
                   + (IF Arrived(d) THEN 1 ELSE 0)
    BY CountLemma DEF Times, Arrived
  <1>2. /\ InQueue(d) => ~ Recorded(d) /\ ~ Arrived(d)
        /\ Recorded(d) => ~ Arrived(d)
        /\ d[1] \in models => InQueue(d) \/ Recorded(d) \/ Arrived(d)
    BY DEF IInv, PlacesInv
  <1>3. QED
    BY <1>1, <1>2

\* What SlotBufferLive says follows from the invariant.
LEMMA LiveLemma == IInv => SlotBufferLive
  <1> SUFFICES ASSUME IInv PROVE SlotBufferLive
    OBVIOUS
  <1>1. stagingBuffers \in [Slot -> 0 .. Len(memory)]
    BY DEF IInv, TypeOK
  <1>2. ASSUME pc # "done", NEW s \in Slot \ broken, stagingBufferSizes[s] # 0
        PROVE  /\ stagingBuffers[s] \in live
               /\ Len(memory[stagingBuffers[s]]) = stagingBufferSizes[s]
    BY <1>2 DEF IInv, BuffersInv
  <1>3. live \subseteq (IF pc = "done" THEN {} ELSE Range(stagingBuffers))
    BY <1>1 DEF IInv, BuffersInv, Range
  <1>4. QED
    BY <1>2, <1>3 DEF SlotBufferLive

----------------------------------------------------------------------------
\* Every variable keeps its type: in particular every staging buffer, content and
\* list, through growing, filling and executing.
THEOREM TypeCorrect == Spec => []TypeOK
  <1>1. IInv => TypeOK
    BY DEF IInv
  <1>2. QED
    BY Invariant, <1>1, PTL

\* Whatever fails, an upload of a model that exists is in one place: the queue, a
\* list that is still to be executed, or its destination.
THEOREM UploadedOnceCorrect == Spec => []UploadedOnce
  BY Invariant, OnceLemma, PTL

\* The copies find the bytes where uploadMemory put them, for queues and lengths of
\* any size: what arrives is all of the destination, in order, and of no other.
THEOREM BytesArriveCorrect == Spec => []BytesArrive
  <1>1. IInv => BytesArrive
    BY DEF IInv
  <1>2. QED
    BY Invariant, <1>1, PTL

\* A model is drawn after its data arrived, was made visible and its sets were
\* written, unless it was queued when a flush was given up.
THEOREM DrawnIsReadyCorrect == Spec => []DrawnIsReady
  <1>1. IInv => DrawnIsReady
    BY DEF IInv
  <1>2. QED
    BY Invariant, <1>1, PTL

\* The staging buffer a slot remembers exists, with the size remembered, and no
\* other does: growing leaks nothing, and a slot whose buffer could not be made is
\* the only one without.
THEOREM SlotBufferLiveCorrect == Spec => []SlotBufferLive
  BY Invariant, LiveLemma, PTL

\* However many writes of the two kinds are queued, over however many flushes
\* that were given up, a set refers to what was meant for it.
THEOREM SetsReferToTheirOwnCorrect == Spec => []SetsReferToTheirOwn
  <1>1. IInv => SetsReferToTheirOwn
    BY DEF IInv
  <1>2. QED
    BY Invariant, <1>1, PTL
=============================================================================
