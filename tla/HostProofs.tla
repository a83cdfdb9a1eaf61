----------------------------- MODULE HostProofs -----------------------------
(***************************************************************************)
(* Proofs about what the host computes before a launch: the ranges of an   *)
(* NVLS multicast object, and the slices that a plan is executed with.     *)
(***************************************************************************)
EXTENDS NvlsConnection, PlanSizes, ModArith, WellFoundedInduction, TLAPS

-----------------------------------------------------------------------------
(***************************************************************************)
(* The allocator of an NVLS connection, for every size of the multicast    *)
(* object and every sequence of bindings, failed bindings and releases.    *)
(***************************************************************************)

\* The inductive invariant: the ranges tile the object, and free ranges do not
\* touch, without which freeRange() could miss the second neighbour.
NvlsInv == NvlsTypeOK /\ RangesPartition /\ FreeRangesJoined

\* The parts of RangesPartition, for any set of ranges.
Inside(S) == \A f \in S : End(f) <= BufferSize
Disjoint(S) == \A f, g \in S : f # g => Apart(f, g)
Covering(S) == \A x \in 0 .. BufferSize - 1 : \E f \in S : f.offset <= x /\ x < End(f)
Tiling(S) == S \subseteq Ranges /\ Inside(S) /\ Disjoint(S) /\ Covering(S)

\* A set of natural numbers that is not empty has a least element.
LEMMA NatMinimum ==
  ASSUME NEW T, T \subseteq Nat, T # {}
  PROVE  \E x \in T : \A y \in T : x <= y
<1> DEFINE less == {ss \in Nat \X Nat : ss[1] < ss[2]}
<1>1. IsWellFoundedOn(less, Nat)
  BY NatLessThanWellFounded DEF OpToRel
<1>2. PICK x \in T : \A y \in T : ~ (<<y, x>> \in less)
  <2> HIDE DEF less
  <2> QED BY <1>1, WFMin, Zenon
<1>3. \A y \in T : ~ (y < x)
  BY <1>2, ZenonT(40)
<1> QED
  BY <1>3

\* The searches of allocateRange() and freeRange() find the first of the list.
LEMMA FirstExists ==
  ASSUME NEW S, S \subseteq Ranges, S # {}
  PROVE  First(S) \in S /\ \A g \in S : First(S).offset <= g.offset
<1> DEFINE offsets == {f.offset : f \in S}
<1>1. offsets \subseteq Nat /\ offsets # {}
  BY DEF Ranges
<1>2. PICK x \in offsets : \A y \in offsets : x <= y
  <2> HIDE DEF offsets
  <2> QED BY <1>1, NatMinimum, ZenonT(40)
<1>3. \E f \in S : IsFirst(f, S)
  BY <1>2 DEF IsFirst
<1> QED
  BY <1>3 DEF First, IsFirst

\* Cutting a range in two keeps the tiling.
LEMMA CutTiling ==
  ASSUME NEW S, Tiling(S), NEW f \in S, NEW n \in Nat \ {0}, f.size >= n
  PROVE  Tiling((S \ {f}) \cup Rest(f, n) \cup {RangeOf(f.offset, n)})
<1> DEFINE head == RangeOf(f.offset, n)
           new == (S \ {f}) \cup Rest(f, n) \cup {head}
<1>1. f \in Ranges /\ head \in Ranges /\ End(head) = f.offset + n /\ head.offset = f.offset
  BY DEF Tiling, RangeOf, Ranges, End
<1>2. CASE f.size = n
  <2>1. head = f
    BY <1>1, <1>2 DEF Ranges, RangeOf
  <2> QED BY <2>1, <1>2 DEF Rest
<1>3. CASE f.size # n
  <2> DEFINE tail == RangeOf(f.offset + n, f.size - n)
  <2>1. /\ tail \in Ranges /\ tail.offset = f.offset + n /\ End(tail) = End(f)
        /\ Rest(f, n) = {tail}
    BY <1>1, <1>3 DEF Rest, RangeOf, Ranges, End
  <2> HIDE DEF head, tail
  <2>2. new \subseteq Ranges /\ Inside(new)
    BY <1>1, <2>1, NvlsAssumption DEF Tiling, Inside, Ranges, End
  <2>3. Disjoint(new)
    BY <1>1, <2>1 DEF Tiling, Disjoint, Apart, Ranges, End
  <2>4. Covering(new)
    <3> SUFFICES ASSUME NEW x \in 0 .. BufferSize - 1
                 PROVE  \E g \in new : g.offset <= x /\ x < End(g)
      BY DEF Covering
    <3>1. PICK g \in S : g.offset <= x /\ x < End(g)
      BY DEF Tiling, Covering
    <3> QED
      BY <1>1, <2>1, <3>1 DEF Ranges, End
  <2> QED BY <2>2, <2>3, <2>4 DEF Tiling, head
<1> QED
  BY <1>2, <1>3

\* Joining two ranges that touch keeps the tiling.
LEMMA JoinTiling ==
  ASSUME NEW S, Tiling(S), NEW a \in S, NEW f \in S, End(f) = a.offset
  PROVE  Tiling((S \ {a, f}) \cup {RangeOf(f.offset, f.size + a.size)})
<1> DEFINE joined == RangeOf(f.offset, f.size + a.size)
           new == (S \ {a, f}) \cup {joined}
<1>1. /\ a \in Ranges /\ f \in Ranges /\ joined \in Ranges
      /\ joined.offset = f.offset /\ End(joined) = End(a)
  BY DEF Tiling, RangeOf, Ranges, End
<1> HIDE DEF joined
<1>2. new \subseteq Ranges /\ Inside(new)
  BY <1>1 DEF Tiling, Inside
<1>3. Disjoint(new)
  BY <1>1 DEF Tiling, Disjoint, Apart, Ranges, End
<1>4. Covering(new)
  <2> SUFFICES ASSUME NEW x \in 0 .. BufferSize - 1
               PROVE  \E g \in new : g.offset <= x /\ x < End(g)
    BY DEF Covering
  <2>1. PICK g \in S : g.offset <= x /\ x < End(g)
    BY DEF Tiling, Covering
  <2> QED
    BY <1>1, <2>1 DEF Ranges, End
<1> QED
  BY <1>2, <1>3, <1>4 DEF Tiling, joined

\* The invariant in terms of Tiling.
LEMMA InvIsTiling ==
  NvlsInv <=> /\ Tiling(freeRanges \cup allocatedRanges)
              /\ freeRanges \cap allocatedRanges = {}
              /\ channels \subseteq allocatedRanges
              /\ FreeRangesJoined
<1>1. NvlsTypeOK <=> /\ freeRanges \cup allocatedRanges \subseteq Ranges
                     /\ channels \subseteq allocatedRanges
  BY DEF NvlsTypeOK
<1> QED
  BY <1>1 DEF NvlsInv, RangesPartition, Tiling, Inside, Disjoint, Covering

\* A memory of at least one byte takes at least one unit.
LEMMA UnitsPositive ==
  ASSUME NEW bytes \in 1 .. MaxBytes
  PROVE  Units(bytes) \in Nat \ {0}
<1> DEFINE x == bytes + Granularity - 1
<1>1. x \in Nat /\ x >= Granularity /\ Granularity \in Nat \ {0}
  BY NvlsAssumption
<1> HIDE DEF x
<1>2. x \div Granularity \in Nat \ {0}
  BY <1>1
<1> QED
  BY <1>2 DEF Units, x

\* allocateRange() keeps the invariant, and gives a range that was free.
LEMMA AllocateKeepsInv ==
  ASSUME NvlsInv, NEW n \in Nat \ {0}, Fitting(n) # {}, AllocateRange(n)
  PROVE  /\ Tiling((freeRanges \cup allocatedRanges)')
         /\ (freeRanges \cap allocatedRanges)' = {}
         /\ FreeRangesJoined'
<1> DEFINE f == First(Fitting(n))
           S == freeRanges \cup allocatedRanges
           head == RangeOf(f.offset, n)
<1>1. f \in freeRanges /\ f.size >= n /\ f \in Ranges
  BY FirstExists DEF Fitting, NvlsInv, NvlsTypeOK
<1>2. Tiling(S) /\ freeRanges \cap allocatedRanges = {} /\ FreeRangesJoined
  BY InvIsTiling
<1>3. /\ freeRanges' = (freeRanges \ {f}) \cup Rest(f, n)
      /\ allocatedRanges' = allocatedRanges \cup {head}
  BY DEF AllocateRange
<1>4. head \in Ranges /\ head.offset = f.offset /\ head.size = n
  BY <1>1 DEF RangeOf, Ranges
<1> HIDE DEF f, head
<1>5. (freeRanges \cup allocatedRanges)' = (S \ {f}) \cup Rest(f, n) \cup {head}
  BY <1>1, <1>2, <1>3
<1>6. Tiling((freeRanges \cup allocatedRanges)')
  BY <1>1, <1>2, <1>5, CutTiling DEF head
<1>7. ASSUME NEW r \in Rest(f, n)
      PROVE  r \in Ranges /\ r.offset = f.offset + n /\ End(r) = End(f) /\ n < f.size
  BY <1>1, <1>7 DEF Rest, RangeOf, Ranges, End
<1>8. \A g \in S : g # f => Apart(g, f) /\ g \in Ranges
  BY <1>1, <1>2 DEF Tiling, Disjoint
<1>9. (freeRanges \cap allocatedRanges)' = {}
  <2>1. ASSUME NEW r \in Rest(f, n) PROVE r \notin allocatedRanges /\ r # head
    BY <1>1, <1>2, <1>4, <1>7, <1>8, <2>1 DEF Apart, End, Ranges
  <2>2. head \notin freeRanges \ {f}
    BY <1>1, <1>4, <1>8 DEF Apart, End, Ranges
  <2> QED BY <1>2, <1>3, <2>1, <2>2
<1>10. FreeRangesJoined'
  <2> SUFFICES ASSUME NEW g \in freeRanges', NEW h \in freeRanges'
               PROVE  End(g) # h.offset
    BY DEF FreeRangesJoined, End
  <2>1. CASE g \in Rest(f, n) /\ h \in Rest(f, n)
    BY <2>1, <1>1, <1>7 DEF End, Ranges
  <2>2. CASE g \in Rest(f, n) /\ h \notin Rest(f, n)
    BY <2>2, <1>1, <1>2, <1>3, <1>7 DEF FreeRangesJoined
  <2>3. CASE g \notin Rest(f, n) /\ h \in Rest(f, n)
    <3>1. g \in Ranges /\ Apart(g, f)
      BY <2>3, <1>3, <1>8
    <3> QED
      BY <2>3, <1>1, <1>7, <3>1 DEF Apart, End, Ranges
  <2>4. CASE g \notin Rest(f, n) /\ h \notin Rest(f, n)
    BY <2>4, <1>2, <1>3 DEF FreeRangesJoined
  <2> QED BY <2>1, <2>2, <2>3, <2>4
<1> QED
  BY <1>6, <1>9, <1>10

\* freeRange() keeps the invariant: the range returned is joined with each free
\* neighbour it touches.
LEMMA JoinKeepsInv ==
  ASSUME NvlsInv, NEW a \in allocatedRanges
  PROVE  /\ Tiling(Joined(a) \cup (allocatedRanges \ {a}))
         /\ Joined(a) \cap (allocatedRanges \ {a}) = {}
         /\ \A g, h \in Joined(a) : End(g) # h.offset
<1> DEFINE S == freeRanges \cup allocatedRanges
           f == First(NotBefore(a))
<1>1. /\ Tiling(S) /\ freeRanges \cap allocatedRanges = {}
      /\ \A g, h \in freeRanges : End(g) # h.offset
      /\ a \in S /\ a \notin freeRanges /\ a \in Ranges
      /\ freeRanges \subseteq Ranges /\ allocatedRanges \subseteq Ranges
  BY InvIsTiling DEF FreeRangesJoined, Tiling
<1>2. \A g, h \in S : g # h => Apart(g, h)
  BY <1>1 DEF Tiling, Disjoint
<1>3. CASE NotBefore(a) = {}
  <2>1. Joined(a) = freeRanges \cup {a}
    BY <1>3 DEF Joined
  <2>2. \A g \in freeRanges : End(g) < a.offset
    BY <1>1, <1>3 DEF NotBefore, End, Ranges
  <2>3. Joined(a) \cup (allocatedRanges \ {a}) = S
    BY <2>1
  <2>4. \A g, h \in Joined(a) : End(g) # h.offset
    BY <2>1, <2>2, <1>1 DEF End, Ranges
  <2> QED BY <1>1, <2>1, <2>3, <2>4
<1>4. CASE NotBefore(a) # {}
  <2>1. /\ f \in freeRanges /\ f \in Ranges /\ f # a /\ f \in S
        /\ End(f) >= a.offset
        /\ \A g \in freeRanges : End(g) >= a.offset => f.offset <= g.offset
    <3>1. NotBefore(a) \subseteq Ranges
      BY <1>1 DEF NotBefore
    <3>2. f \in NotBefore(a) /\ \A g \in NotBefore(a) : f.offset <= g.offset
      BY <1>4, <3>1, FirstExists
    <3> QED BY <3>2, <1>1, ZenonT(40) DEF NotBefore
  <2> HIDE DEF f
  <2>2. CASE End(f) = a.offset
    <3> DEFINE fa == RangeOf(f.offset, f.size + a.size)
               S1 == (S \ {a, f}) \cup {fa}
    <3>1. Joined(a) = JoinedWithBoth(a, f)
      BY <1>4, <2>2 DEF Joined, f
    <3>2. Tiling(S1)
      BY <1>1, <2>1, <2>2, JoinTiling
    <3>3. fa \in Ranges /\ fa.offset = f.offset /\ End(fa) = End(a)
      BY <1>1, <2>1, <2>2 DEF RangeOf, Ranges, End
    <3> HIDE DEF fa
    <3>4. fa \notin freeRanges \ {f} /\ fa \notin allocatedRanges
      BY <1>1, <1>2, <2>1, <2>2, <3>3 DEF Apart, End, Ranges
    <3> DEFINE g == First(After(f))
    <3>5. CASE After(f) # {} /\ End(f) + a.size = g.offset
      <4>1. g \in freeRanges /\ g \in Ranges /\ g.offset > f.offset /\ g # f /\ g # a
        <5>1. After(f) \subseteq Ranges
          BY <1>1 DEF After
        <5> QED BY <3>5, <5>1, FirstExists, <1>1, <2>1 DEF After, Ranges
      <4> DEFINE fag == RangeOf(f.offset, f.size + a.size + g.size)
      <4>2. Joined(a) = (freeRanges \ {f, g}) \cup {fag}
        BY <3>1, <3>5 DEF JoinedWithBoth
      <4> HIDE DEF g
      <4>3. fag = RangeOf(fa.offset, fa.size + g.size) /\ End(fa) = g.offset
        BY <1>1, <2>1, <2>2, <3>5, <4>1 DEF RangeOf, End, Ranges, fa
      <4>4. fag.offset = f.offset /\ End(fag) = End(g) /\ fag \in Ranges
        BY <1>1, <2>1, <2>2, <3>5, <4>1 DEF RangeOf, End, Ranges
      <4> HIDE DEF fag
      <4>5. g \in S1 /\ fa \in S1
        BY <4>1
      <4>6. Tiling((S1 \ {g, fa}) \cup {fag})
        BY <3>2, <4>3, <4>5, JoinTiling
      <4>7. fag \notin allocatedRanges
        BY <1>1, <1>2, <2>1, <4>1, <4>4, <2>2 DEF Apart, End, Ranges
      <4>8. Joined(a) \cup (allocatedRanges \ {a}) = (S1 \ {g, fa}) \cup {fag}
        BY <1>1, <2>1, <3>4, <4>1, <4>2
      <4>9. \A h, k \in Joined(a) : End(h) # k.offset
        BY <1>1, <2>1, <4>1, <4>2, <4>4 DEF End, Ranges
      <4> QED BY <1>1, <4>2, <4>6, <4>7, <4>8, <4>9
    <3>6. CASE ~ (After(f) # {} /\ End(f) + a.size = g.offset)
      <4>1. Joined(a) = (freeRanges \ {f}) \cup {fa}
        BY <3>1, <3>6 DEF JoinedWithBoth, fa
      <4>2. \A h \in freeRanges \ {f} : End(a) # h.offset
        <5> SUFFICES ASSUME NEW h \in freeRanges, h # f, End(a) = h.offset
                     PROVE  FALSE
          OBVIOUS
        <5>1. h \in After(f) /\ h \in Ranges
          BY <1>1, <2>1, <2>2 DEF After, End, Ranges
        <5>2. After(f) \subseteq Ranges
          BY <1>1 DEF After
        <5>3. g \in After(f) /\ g.offset <= h.offset
          BY <5>1, <5>2, FirstExists
        <5> HIDE DEF g
        <5>4. g \in freeRanges /\ g.offset > f.offset /\ g \in Ranges /\ g # f /\ g # a
          BY <5>2, <5>3, <1>1, <2>1 DEF After, Ranges
        <5>5. g.offset >= End(a)
          BY <5>4, <1>1, <1>2, <2>1, <2>2 DEF Apart, End, Ranges
        <5>6. End(f) + a.size = End(a)
          BY <2>2 DEF End
        <5> QED BY <5>1, <5>3, <5>4, <5>5, <5>6, <3>6 DEF End, Ranges
      <4>3. Joined(a) \cup (allocatedRanges \ {a}) = S1
        BY <1>1, <2>1, <4>1
      <4>4. \A h, k \in Joined(a) : End(h) # k.offset
        BY <1>1, <2>1, <2>2, <3>3, <4>1, <4>2 DEF End, Ranges
      <4> QED BY <1>1, <3>2, <3>4, <4>1, <4>3, <4>4
    <3> QED BY <3>5, <3>6
  <2>3. CASE End(f) # a.offset /\ f.offset = End(a)
    <3> DEFINE af == RangeOf(a.offset, a.size + f.size)
               S1 == (S \ {a, f}) \cup {af}
    <3>1. Joined(a) = (freeRanges \ {f}) \cup {af}
      BY <1>4, <2>3 DEF Joined, f
    <3>2. Tiling(S1)
      <4>1. End(a) = f.offset /\ {a, f} = {f, a}
        BY <2>3
      <4>2. Tiling((S \ {f, a}) \cup {RangeOf(a.offset, a.size + f.size)})
        BY <1>1, <2>1, <4>1, JoinTiling
      <4> QED BY <4>1, <4>2
    <3>3. af \in Ranges /\ af.offset = a.offset /\ End(af) = End(f)
      BY <1>1, <2>1, <2>3 DEF RangeOf, Ranges, End
    <3> HIDE DEF af
    <3>4. af \notin freeRanges /\ af \notin allocatedRanges
      BY <1>1, <1>2, <2>1, <2>3, <3>3 DEF Apart, End, Ranges
    <3>5. Joined(a) \cup (allocatedRanges \ {a}) = S1
      BY <1>1, <2>1, <3>1
    <3>6. \A h \in freeRanges \ {f} : End(h) # a.offset
      BY <1>1, <2>1, <2>3 DEF End, Ranges
    <3>7. \A h, k \in Joined(a) : End(h) # k.offset
      BY <1>1, <2>1, <3>1, <3>3, <3>6 DEF End, Ranges
    <3> QED BY <1>1, <3>1, <3>2, <3>4, <3>5, <3>7
  <2>4. CASE End(f) # a.offset /\ f.offset # End(a)
    <3>1. Joined(a) = freeRanges \cup {a}
      BY <1>4, <2>4 DEF Joined, f
    <3>2. \A h \in freeRanges : End(h) # a.offset /\ End(a) # h.offset
      BY <1>1, <1>2, <2>1, <2>4 DEF Apart, End, Ranges
    <3>3. Joined(a) \cup (allocatedRanges \ {a}) = S
      BY <3>1
    <3>4. \A h, k \in Joined(a) : End(h) # k.offset
      BY <1>1, <3>1, <3>2 DEF End, Ranges
    <3> QED BY <1>1, <3>1, <3>3, <3>4
  <2> QED BY <2>2, <2>3, <2>4
<1> QED
  BY <1>3, <1>4

\* A new connection has one free range, the whole object.
LEMMA NvlsInitInv == NvlsInit => NvlsInv
<1> SUFFICES ASSUME NvlsInit PROVE NvlsInv
  OBVIOUS
<1> DEFINE whole == RangeOf(0, BufferSize)
<1>1. whole \in Ranges /\ whole.offset = 0 /\ End(whole) = BufferSize
  BY NvlsAssumption DEF RangeOf, Ranges, End
<1>2. freeRanges = {whole} /\ allocatedRanges = {} /\ channels = {}
  BY DEF NvlsInit
<1> HIDE DEF whole
<1> QED
  BY <1>1, <1>2, NvlsAssumption DEF NvlsInv, NvlsTypeOK, RangesPartition, FreeRangesJoined

\* Every binding, failed binding and release keeps the invariant.
LEMMA NvlsNextInv == NvlsInv /\ [NvlsNext]_nvlsVars => NvlsInv'
<1> SUFFICES ASSUME NvlsInv, [NvlsNext]_nvlsVars PROVE NvlsInv'
  OBVIOUS
<1>0. ASSUME Tiling((freeRanges \cup allocatedRanges)'), (freeRanges \cap allocatedRanges)' = {},
             channels' \subseteq allocatedRanges', FreeRangesJoined'
      PROVE  NvlsInv'
  <2>1. NvlsTypeOK'
    BY <1>0 DEF Tiling, NvlsTypeOK
  <2>2. RangesPartition'
    BY <1>0 DEF Tiling, Inside, Disjoint, Covering, RangesPartition, Apart, End
  <2> QED BY <1>0, <2>1, <2>2 DEF NvlsInv
<1>1. ASSUME NEW bytes \in 1 .. MaxBytes, Bind(Units(bytes)) \/ BindFails(Units(bytes))
      PROVE  NvlsInv'
  <2> DEFINE n == Units(bytes)
  <2>1. n \in Nat \ {0} /\ Fitting(n) # {} /\ AllocateRange(n)
    BY <1>1, UnitsPositive DEF Bind, BindFails
  <2>2. /\ Tiling((freeRanges \cup allocatedRanges)')
        /\ (freeRanges \cap allocatedRanges)' = {}
        /\ FreeRangesJoined'
    BY <2>1, AllocateKeepsInv
  <2>3. channels' \subseteq allocatedRanges'
    BY <1>1 DEF Bind, BindFails, AllocateRange, NvlsInv, NvlsTypeOK
  <2> QED BY <1>0, <2>2, <2>3
<1>2. ASSUME NEW a \in channels, Unbind(a)
      PROVE  NvlsInv'
  <2>1. /\ a \in allocatedRanges /\ channels' = channels \ {a}
        /\ allocatedRanges' = allocatedRanges \ {a} /\ freeRanges' = Joined(a)
    BY <1>2 DEF Unbind, NvlsInv, NvlsTypeOK
  <2>2. /\ Tiling((freeRanges \cup allocatedRanges)')
        /\ (freeRanges \cap allocatedRanges)' = {}
        /\ \A g, h \in freeRanges' : End(g) # h.offset
    BY <2>1, JoinKeepsInv
  <2>3. FreeRangesJoined'
    BY <2>2 DEF FreeRangesJoined, End
  <2>4. channels' \subseteq allocatedRanges'
    BY <2>1 DEF NvlsInv, NvlsTypeOK
  <2> QED BY <1>0, <2>2, <2>3, <2>4
<1>3. CASE UNCHANGED nvlsVars
  BY <1>3 DEF nvlsVars, NvlsInv, NvlsTypeOK, RangesPartition, FreeRangesJoined
<1> QED
  BY <1>1, <1>2, <1>3 DEF NvlsNext

\* With nothing allocated the free ranges are one range: the range that covers
\* offset 0 reaches the end, or another one would touch it.
LEMMA InvImpliesWhole == NvlsInv => WholeWhenUnbound
<1> SUFFICES ASSUME NvlsInv, allocatedRanges = {}
             PROVE  freeRanges = {RangeOf(0, BufferSize)}
  BY DEF WholeWhenUnbound
<1>1. Tiling(freeRanges) /\ freeRanges \subseteq Ranges /\ FreeRangesJoined
  <2>1. freeRanges \cup allocatedRanges = freeRanges
    OBVIOUS
  <2> QED BY InvIsTiling, <2>1 DEF Tiling
<1>2. PICK f \in freeRanges : f.offset = 0
  <2>1. 0 \in 0 .. BufferSize - 1
    BY NvlsAssumption
  <2>2. PICK f \in freeRanges : f.offset <= 0 /\ 0 < End(f)
    BY <1>1, <2>1 DEF Tiling, Covering
  <2> QED BY <1>1, <2>2 DEF Ranges
<1>3. f \in Ranges /\ End(f) \in Nat /\ End(f) <= BufferSize
  BY <1>1 DEF Tiling, Inside, Ranges, End
<1>4. End(f) = BufferSize
  <2> SUFFICES ASSUME End(f) < BufferSize PROVE FALSE
    BY <1>3, NvlsAssumption
  <2>1. PICK g \in freeRanges : g.offset <= End(f) /\ End(f) < End(g)
    BY <1>1, <1>3, NvlsAssumption DEF Tiling, Covering
  <2>2. g # f /\ g \in Ranges /\ Apart(g, f)
    BY <1>1, <1>3, <2>1 DEF Tiling, Disjoint
  <2> QED BY <1>1, <1>2, <1>3, <2>1, <2>2 DEF Apart, End, Ranges, FreeRangesJoined
<1>5. f = RangeOf(0, BufferSize)
  BY <1>2, <1>3, <1>4 DEF RangeOf, Ranges, End
<1>6. ASSUME NEW g \in freeRanges, g # f PROVE FALSE
  <2>1. g \in Ranges /\ Apart(g, f) /\ End(g) <= BufferSize
    BY <1>1, <1>6 DEF Tiling, Disjoint, Inside
  <2> QED BY <1>2, <1>4, <2>1, NvlsAssumption DEF Apart, End, Ranges
<1> QED
  BY <1>2, <1>5, <1>6

\* Whatever order switch channels are created and destroyed in, and also when
\* mapMulticast() throws, the free and allocated ranges tile the multicast object
\* and free ranges never touch.
THEOREM RangesTheorem == NvlsSpec => [](RangesPartition /\ FreeRangesJoined)
<1>1. NvlsInv => RangesPartition /\ FreeRangesJoined
  BY DEF NvlsInv
<1> QED
  BY NvlsInitInv, NvlsNextInv, <1>1, PTL DEF NvlsSpec

\* After all channels are destroyed the whole object can be bound again, unless a
\* binding has failed.
THEOREM WholeTheorem == NvlsSpec => []WholeWhenUnbound
<1> QED
  BY NvlsInitInv, NvlsNextInv, InvImpliesWhole, PTL DEF NvlsSpec

-----------------------------------------------------------------------------
(***************************************************************************)
(* The slices of an operation fill the range of its chunks, lie in the     *)
(* scratch buffer that is allocated, and are covered by the iterations of  *)
(* a pipeline, for every plan, message and size of the group.              *)
(***************************************************************************)

-----------------------------------------------------------------------------
(***************************************************************************)
(* Arithmetic.                                                             *)
(***************************************************************************)

\* The remainder of a number below the divisor is the number.
LEMMA ModSmall ==
  ASSUME NEW n \in Nat \ {0}, NEW p \in 0 .. n - 1
  PROVE  p % n = p
BY ModUnique, p = (n * 0) + p

\* A multiple is divided without remainder.
LEMMA DivExact ==
  ASSUME NEW a \in Nat \ {0}, NEW b \in Nat
  PROVE  (b * a) \div a = b
<1> DEFINE p == b * a
<1>1. p \in Nat
  OBVIOUS
<1>2. p = (a * (p \div a)) + (p % a) /\ p \div a \in Int /\ p % a \in 0 .. a - 1
  BY <1>1, DivMod, ZenonT(40)
<1>3. p % a = 0
  BY <1>1, ModUnique, p = (a * b) + 0
<1> DEFINE q == p \div a
<1>4. a * (q - b) = 0 /\ q \in Int
  BY <1>2, <1>3
<1> HIDE DEF q
<1>5. q - b = 0
  BY <1>4, SmallMultiple
<1>. QED
  BY <1>4, <1>5 DEF q

\* What has no remainder is a multiple of the quotient.
LEMMA ModZero ==
  ASSUME NEW n \in Nat \ {0}, NEW p \in Nat, p % n = 0
  PROVE  p = n * (p \div n) /\ p \div n \in Nat
<1> DEFINE q == p \div n
<1>1. p = n * q /\ q \in Int
  BY DivMod
<1> HIDE DEF q
<1>2. q >= 0
  <2>1. SUFFICES ASSUME q <= -1 PROVE FALSE
    BY <1>1
  <2>2. n * q <= -n
    BY <1>1, <2>1
  <2>. QED
    BY <1>1, <2>2
<1>. QED
  BY <1>1, <1>2 DEF q

\* Products keep the order.
LEMMA TimesMonotone ==
  ASSUME NEW a \in Nat, NEW x \in Int, NEW y \in Int, x <= y
  PROVE  x * a <= y * a
<1>1. (y - x) * a >= 0
  OBVIOUS
<1>. QED
  BY <1>1

\* The quotient and the remainder used by Elements.
LEMMA Quotient ==
  ASSUME NEW n \in Nat \ {0}, NEW g \in Nat \ {0}
  PROVE  n = (g * (n \div g)) + (n % g) /\ n \div g \in Nat /\ n % g \in 0 .. g - 1
<1> DEFINE m == n \div g
<1>1. n = (g * m) + (n % g) /\ m \in Int /\ n % g \in 0 .. g - 1
  BY DivMod
<1> HIDE DEF m
<1>2. m >= 0
  <2>1. SUFFICES ASSUME m <= -1 PROVE FALSE
    BY <1>1
  <2>2. g * m <= -g
    BY <1>1, <2>1
  <2>. QED
    BY <1>1, <2>2
<1>. QED
  BY <1>1, <1>2 DEF m

\* The quotient of naturals is a natural.
LEMMA NatQuotient ==
  ASSUME NEW g \in Nat \ {0}, NEW n \in Nat
  PROVE  n \div g \in Nat
<1>1. CASE n = 0
  <2>1. (0 * g) \div g = 0
    BY DivExact
  <2>. QED
    BY <1>1, <2>1
<1>2. CASE n # 0
  BY <1>2, Quotient
<1>. QED
  BY <1>1, <1>2

-----------------------------------------------------------------------------
(***************************************************************************)
(* Elements(): the index is taken modulo the number of elements, which     *)
(* changes nothing as long as there are at least as many as slices.        *)
(***************************************************************************)

\* A slice before the last begins at its share and at most one more per slice.
LEMMA ElementsBelow ==
  ASSUME NEW n \in Nat \ {0}, NEW g \in Nat \ {0}, g <= n, NEW i \in 0 .. g - 1
  PROVE  Elements(n, i, g) = (i * (n \div g)) + (IF i < n % g THEN i ELSE n % g)
<1>1. i % n = i
  BY ModSmall
<1>. QED
  BY <1>1 DEF Elements

\* The end of the last slice is the number of elements.
LEMMA ElementsEnd ==
  ASSUME NEW n \in Nat \ {0}, NEW g \in Nat \ {0}, g <= n
  PROVE  Elements(n, g, g) = n
<1> DEFINE m == n \div g
           r == n % g
<1>1. n = (g * m) + r /\ m \in Nat /\ r \in 0 .. g - 1
  BY Quotient, ZenonT(40)
<1>2. CASE g < n
  <2>1. g % n = g
    BY <1>2, ModSmall
  <2>2. Elements(n, g, g) = (g * m) + (IF g < r THEN g ELSE r)
    BY <2>1 DEF Elements
  <2> HIDE DEF m, r
  <2>. QED
    BY <1>1, <2>2
<1>3. CASE g = n
  <2>1. n % n = 0
    BY ModUnique, n = (n * 1) + 0
  <2>2. r = 0
    BY <1>3, <2>1
  <2>3. Elements(n, g, g) = (g * m) + (IF 0 < r THEN 0 ELSE r)
    BY <1>3, <2>1 DEF Elements
  <2> HIDE DEF m, r
  <2>. QED
    BY <1>1, <2>2, <2>3
<1>. QED
  BY <1>2, <1>3

\* A slice ends where the next begins, not before its own begin and not past the elements.
LEMMA ElementsStep ==
  ASSUME NEW n \in Nat \ {0}, NEW g \in Nat \ {0}, g <= n, NEW i \in 0 .. g - 1
  PROVE  /\ Elements(n, i, g) \in Nat /\ Elements(n, i + 1, g) \in Nat
         /\ Elements(n, i, g) <= Elements(n, i + 1, g)
         /\ Elements(n, i + 1, g) <= n
<1> DEFINE m == n \div g
           r == n % g
<1>1. n = (g * m) + r /\ m \in Nat /\ r \in 0 .. g - 1
  BY Quotient, ZenonT(40)
<1>2. Elements(n, i, g) = (i * m) + (IF i < r THEN i ELSE r)
  BY ElementsBelow, ZenonT(40)
<1> HIDE DEF m, r
<1>3. i * m \in Nat /\ (i + 1) * m = (i * m) + m /\ g * m \in Nat
  BY <1>1
<1>4. CASE i + 1 = g
  <2>1. Elements(n, i + 1, g) = n
    BY <1>4, ElementsEnd
  <2>2. (i + 1) * m = g * m
    BY <1>4
  <2>3. n = ((i * m) + m) + r
    BY <1>1, <1>3, <2>2
  <2>. QED
    BY <1>1, <1>2, <1>3, <2>1, <2>3
<1>5. CASE i + 1 < g
  <2>. i + 1 \in 0 .. g - 1
    BY <1>5
  <2>1. Elements(n, i + 1, g) = ((i + 1) * m) + (IF i + 1 < r THEN i + 1 ELSE r)
    BY ElementsBelow, Zenon DEF m, r
  <2>2. (i + 1) * m <= g * m
    BY <1>1, <1>5, TimesMonotone
  <2>. QED
    BY <1>1, <1>2, <1>3, <2>1, <2>2
<1>. QED
  BY <1>4, <1>5

\* The first slice begins at zero.
LEMMA ElementsZero ==
  ASSUME NEW n \in Nat \ {0}, NEW g \in Nat \ {0}, g <= n
  PROVE  Elements(n, 0, g) = 0
<1>1. n \div g \in Nat /\ n % g \in 0 .. g - 1
  BY Quotient, ZenonT(40)
<1>2. Elements(n, 0, g) = (0 * (n \div g)) + (IF 0 < n % g THEN 0 ELSE n % g)
  BY ElementsBelow
<1>. QED
  BY <1>1, <1>2

-----------------------------------------------------------------------------
(***************************************************************************)
(* Slices of an operation of a loaded plan.                                *)
(***************************************************************************)

\* In a loaded plan every chunk has the same number q of elements.
LEMMA Chunks ==
  ASSUME NEW p \in Plans, NEW m \in Messages, CheckMessageSize(p, m)
  PROVE  \E q \in Nat \ {0} :
           /\ m.inputSize \div p.inputChunks = q * BufferAlignment
           /\ m.inputSize \div BufferAlignment = p.inputChunks * q
<1> DEFINE e == m.inputSize \div BufferAlignment
           q == e \div p.inputChunks
<1>1. /\ m.inputSize \in Nat \ {0} /\ p.inputChunks \in Nat \ {0} /\ BufferAlignment \in Nat \ {0}
      /\ m.inputSize % BufferAlignment = 0 /\ e % p.inputChunks = 0
  BY SizesAssumption DEF CheckMessageSize
<1>2. m.inputSize = BufferAlignment * e /\ e \in Nat
  BY <1>1, ModZero, ZenonT(40)
<1> HIDE DEF e
<1>3. e = p.inputChunks * q /\ q \in Nat
  BY <1>1, <1>2, ModZero, ZenonT(40)
<1> HIDE DEF q
<1>4. q # 0
  <2>1. SUFFICES ASSUME q = 0 PROVE FALSE
    OBVIOUS
  <2>2. e = 0
    BY <1>1, <1>3, <2>1
  <2>. QED
    BY <1>1, <1>2, <2>2
<1>5. m.inputSize = (q * BufferAlignment) * p.inputChunks
  BY <1>1, <1>2, <1>3
<1>6. m.inputSize \div p.inputChunks = q * BufferAlignment
  <2>1. q * BufferAlignment \in Nat
    BY <1>1, <1>3
  <2>. QED
    BY <1>1, <1>5, <2>1, DivExact
<1>. QED
  BY <1>3, <1>4, <1>6 DEF e

\* The offset of a chunk is its number times the size of a chunk.
LEMMA ChunkOffset ==
  ASSUME NEW p \in Plans, NEW m \in Messages, NEW q \in Nat \ {0}, NEW k \in Nat,
         m.inputSize \div BufferAlignment = p.inputChunks * q
  PROVE  CalcOffset(m.inputSize, k, p.inputChunks) = (k * q) * BufferAlignment
<1> DEFINE c == p.inputChunks
           e == c * q
<1>1. c \in Nat \ {0} /\ BufferAlignment \in Nat \ {0}
  BY SizesAssumption
<1>2. e \in Nat \ {0}
  <2>1. q * c >= 1 * c
    BY <1>1, TimesMonotone
  <2>. QED
    BY <1>1, <2>1
<1>3. e % c = 0
  BY <1>1, <1>2, ModUnique, e = (c * q) + 0
<1>4. e \div c = q
  <2>1. e = q * c
    BY <1>1
  <2>. QED
    BY <1>1, <2>1, DivExact
<1>5. k % e \in 0 .. e - 1
  BY <1>2, DivMod, ZenonT(40)
<1>6. Elements(e, k, c) = k * q
  <2>1. Elements(e, k, c) = (k * (e \div c)) + (IF k % e < e % c THEN k % e ELSE e % c)
    BY DEF Elements
  <2> HIDE DEF e
  <2>2. Elements(e, k, c) = (k * q) + (IF k % e < 0 THEN k % e ELSE 0)
    BY <1>3, <1>4, <2>1
  <2>. QED
    BY <1>2, <1>5, <2>2
<1>. QED
  BY <1>6 DEF CalcOffset

\* Slice i of n elements that lie b bytes into a buffer, when the width is enough.
LEMMA SliceBytes ==
  ASSUME NEW n \in Nat \ {0}, NEW g \in Nat \ {0}, g <= n, NEW i \in 0 .. g - 1,
         NEW b \in Nat, b + (n * BufferAlignment) < Wrap
  PROVE  LET size == n * BufferAlignment IN
         /\ (b + CalcOffset(size, i, g)) % Wrap = b + (Elements(n, i, g) * BufferAlignment)
         /\ CalcSize(size, i, g)
              = (Elements(n, i + 1, g) * BufferAlignment) - (Elements(n, i, g) * BufferAlignment)
<1> DEFINE A == BufferAlignment
           size == n * A
           x == Elements(n, i, g)
           y == Elements(n, i + 1, g)
<1>1. A \in Nat \ {0} /\ Wrap \in Nat \ {0}
  BY SizesAssumption
<1>2. size \div A = n
  BY <1>1, DivExact
<1>3. CalcOffset(size, i, g) = x * A /\ CalcOffset(size, i + 1, g) = y * A
  BY <1>2 DEF CalcOffset
<1>4. x \in Nat /\ y \in Nat /\ x <= y /\ y <= n
  BY ElementsStep, ZenonT(40)
<1> HIDE DEF x, y
<1>5. x * A \in Nat /\ y * A \in Nat /\ x * A <= y * A /\ y * A <= n * A /\ n * A \in Nat
  BY <1>1, <1>4, TimesMonotone
<1>6. (b + (x * A)) % Wrap = b + (x * A)
  <2>1. b + (x * A) \in 0 .. Wrap - 1
    BY <1>1, <1>5
  <2>. QED
    BY <1>1, <2>1, ModSmall
<1>7. ((y * A) - (x * A)) % Wrap = (y * A) - (x * A)
  <2>1. (y * A) - (x * A) \in 0 .. Wrap - 1
    BY <1>1, <1>5
  <2>. QED
    BY <1>1, <2>1, ModSmall
<1>8. CalcSize(size, i, g) = (y * A) - (x * A)
  BY <1>3, <1>7, Zenon DEF CalcSize
<1>9. (b + CalcOffset(size, i, g)) % Wrap = b + (x * A)
  BY <1>3, <1>6
<1>. QED
  BY <1>8, <1>9 DEF x, y

\* The largest chunk of a scratch buffer of fixed size is a number of bytes.
LEMMA MaxScratchChunkType ==
  ASSUME NEW p \in Plans
  PROVE  MaxScratchChunk(p) \in Nat
<1>1. BufferAlignment \in Nat \ {0} /\ PredefinedScratch \in Nat /\ p.scratchChunks \in Nat
  BY SizesAssumption
<1>2. CASE p.scratchChunks = 0
  BY <1>2 DEF MaxScratchChunk
<1>3. CASE p.scratchChunks # 0
  <2> DEFINE half == IF p.double THEN PredefinedScratch \div 2 ELSE PredefinedScratch
             s == (half + p.scratchChunks - 1) \div p.scratchChunks
             u == (s + BufferAlignment - 1) \div BufferAlignment
  <2>1. half \in Nat
    BY <1>1
  <2> HIDE DEF half
  <2>2. half + p.scratchChunks - 1 \in Nat
    BY <1>1, <1>3, <2>1
  <2>3. s \in Nat
    BY <1>1, <1>3, <2>2, NatQuotient
  <2> HIDE DEF s
  <2>4. s + BufferAlignment - 1 \in Nat
    BY <1>1, <2>3
  <2>5. u \in Nat
    BY <1>1, <2>4, NatQuotient
  <2> HIDE DEF u
  <2>6. u * BufferAlignment \in Nat
    BY <1>1, <2>5
  <2>7. MaxScratchChunk(p) = u * BufferAlignment
    BY <1>3 DEF MaxScratchChunk, Aligned, u, s, half
  <2>. QED
    BY <2>6, <2>7
<1>. QED
  BY <1>2, <1>3

-----------------------------------------------------------------------------
\* A loaded plan fits its message, and the slices are those of the operation.
SizesInv ==
  /\ plan \in Plans /\ message \in Messages /\ operation \in Operations
  /\ status = "loaded" => CheckMessageSize(plan, message)
  /\ slices # <<>> =>
       /\ status = "loaded"
       /\ slices = [tbId \in 0..(operation.tbgSize - 1) |-> Slice(operation, tbId)]

\* No slice goes past the range of the operation.
SlicesWithin ==
  slices # <<>> /\ Divisible =>
    /\ RangeEnd \in Nat
    /\ \A tbId \in DOMAIN slices : /\ slices[tbId].offset + slices[tbId].size \in Nat
                                   /\ slices[tbId].offset + slices[tbId].size <= RangeEnd

\* Every slice of a loaded plan is what SliceBytes says, and they fill the operation's range.
LEMMA SlicesFill ==
  SizesInv => SlicesPartition /\ SlicesWithin
<1>1. SUFFICES ASSUME SizesInv, slices # <<>>, Divisible
               PROVE  /\ slices[0].offset = Begin
                      /\ \A tbId \in 1..(operation.tbgSize - 1) :
                           slices[tbId].offset = slices[tbId - 1].offset + slices[tbId - 1].size
                      /\ slices[operation.tbgSize - 1].offset + slices[operation.tbgSize - 1].size = RangeEnd
                      /\ RangeEnd \in Nat
                      /\ \A tbId \in DOMAIN slices :
                           /\ slices[tbId].offset + slices[tbId].size \in Nat
                           /\ slices[tbId].offset + slices[tbId].size <= RangeEnd
  BY DEF SlicesPartition, SlicesWithin
<1>2. PICK q \in Nat \ {0} :
        /\ message.inputSize \div plan.inputChunks = q * BufferAlignment
        /\ message.inputSize \div BufferAlignment = plan.inputChunks * q
  BY <1>1, Chunks DEF SizesInv
<1> DEFINE A == BufferAlignment
           c == operation.chunks
           k == operation.index
           g == operation.tbgSize
           n == c * q
           b == Begin
<1>3. A \in Nat \ {0} /\ Wrap \in Nat \ {0} /\ c \in Nat \ {0} /\ k \in Nat /\ g \in Nat \ {0}
  BY <1>1, SizesAssumption DEF SizesInv
<1>4. \A j \in Nat : CalcOffset(message.inputSize, j, plan.inputChunks) = (j * q) * A
  BY <1>1, <1>2, ChunkOffset DEF SizesInv
<1>5. b \in Nat
  <2>1. MaxScratchChunk(plan) \in Nat
    BY <1>1, MaxScratchChunkType DEF SizesInv
  <2>2. k * MaxScratchChunk(plan) \in Nat /\ (k * q) * A \in Nat
    BY <1>3, <2>1
  <2>3. GetOffset(plan, message, k, operation.buffer)
          \in {k * MaxScratchChunk(plan), CalcOffset(message.inputSize, k, plan.inputChunks)}
    BY DEF GetOffset
  <2>4. operation.constOffset \in Nat
    BY <1>1, SizesAssumption DEF SizesInv
  <2>. QED
    BY <1>3, <1>4, <2>2, <2>3, <2>4 DEF Begin
<1> HIDE DEF b
<1>6. c * (q * A) = n * A /\ n \in Nat
  BY <1>3
<1>7. g * A <= n * A /\ b + (n * A) < Wrap /\ RangeEnd = b + (n * A)
  BY <1>1, <1>2, <1>6 DEF Divisible, RangeEnd, Chunk, b
<1>8. g <= n
  <2>1. SUFFICES ASSUME n + 1 <= g PROVE FALSE
    BY <1>3, <1>6
  <2>2. (n + 1) * A <= g * A
    BY <1>3, <1>6, <2>1, TimesMonotone
  <2>3. (n + 1) * A = (n * A) + A
    BY <1>3, <1>6
  <2>4. n * A \in Nat /\ g * A \in Nat
    BY <1>3, <1>6
  <2> HIDE DEF n, g, A
  <2>. QED
    BY <1>3, <1>7, <2>2, <2>3, <2>4
<1>9. GetBufferSize(plan, message, k, c) = n * A
  <2>1. /\ GetOffset(plan, message, k + c, "none") = ((k + c) * q) * A
        /\ GetOffset(plan, message, k, "none") = (k * q) * A
    BY <1>3, <1>4 DEF GetOffset
  <2>2. (((k + c) * q) * A) - ((k * q) * A) = n * A
    BY <1>3
  <2>3. n * A \in 0 .. Wrap - 1
    BY <1>3, <1>5, <1>6, <1>7
  <2>4. (n * A) % Wrap = n * A
    BY <1>3, <2>3, ModSmall
  <2>. QED
    BY <2>1, <2>2, <2>4 DEF GetBufferSize
<1> DEFINE E(i) == Elements(n, i, g) * A
<1>10. \A i \in 0 .. g - 1 : slices[i].offset = b + E(i) /\ slices[i].size = E(i + 1) - E(i)
  <2>1. TAKE i \in 0 .. g - 1
  <2>2. slices[i] = Slice(operation, i)
    BY <1>1 DEF SizesInv
  <2>3. /\ slices[i].offset = (b + CalcOffset(n * A, i, g)) % Wrap
        /\ slices[i].size = CalcSize(n * A, i, g)
    BY <1>9, <2>2 DEF Slice, Begin, b
  <2>4. n \in Nat \ {0}
    BY <1>3, <1>6, <1>8
  <2> HIDE DEF n, g
  <2>. QED
    BY <1>3, <1>5, <1>7, <1>8, <2>3, <2>4, SliceBytes
<1>11. n \in Nat \ {0}
  BY <1>3, <1>6, <1>8
<1> HIDE DEF n, g, A
<1>12. \A i \in 0 .. g - 1 : E(i) \in Nat /\ E(i + 1) \in Nat /\ E(i + 1) <= n * A
  <2>1. TAKE i \in 0 .. g - 1
  <2> DEFINE x == Elements(n, i, g)
             y == Elements(n, i + 1, g)
  <2>2. x \in Nat /\ y \in Nat /\ y <= n
    BY <1>3, <1>8, <1>11, ElementsStep
  <2> HIDE DEF x, y
  <2>3. x * A \in Nat /\ y * A \in Nat /\ y * A <= n * A
    BY <1>3, <1>11, <2>2, TimesMonotone
  <2>. QED
    BY <2>3 DEF x, y
<1>13. E(0) = 0 /\ E(g) = n * A
  BY <1>3, <1>8, <1>11, ElementsZero, ElementsEnd
<1> HIDE DEF E
<1>14. slices[0].offset = Begin
  BY <1>3, <1>5, <1>10, <1>13 DEF b
<1>15. ASSUME NEW t \in 1 .. g - 1
       PROVE  slices[t].offset = slices[t - 1].offset + slices[t - 1].size
  <2>1. t - 1 \in 0 .. g - 1 /\ (t - 1) + 1 = t /\ t \in 0 .. g - 1
    BY <1>3
  <2>2. /\ slices[t].offset = b + E(t)
        /\ slices[t - 1].offset = b + E(t - 1) /\ slices[t - 1].size = E(t) - E(t - 1)
    BY <1>10, <2>1
  <2>3. E(t) \in Nat /\ E(t - 1) \in Nat
    BY <1>12, <2>1
  <2>. QED
    BY <1>5, <2>2, <2>3
<1>16. slices[g - 1].offset + slices[g - 1].size = RangeEnd
  <2>1. g - 1 \in 0 .. g - 1 /\ (g - 1) + 1 = g
    BY <1>3
  <2>2. slices[g - 1].offset = b + E(g - 1) /\ slices[g - 1].size = E(g) - E(g - 1)
    BY <1>10, <2>1
  <2>3. E(g) \in Nat /\ E(g - 1) \in Nat
    BY <1>12, <2>1
  <2>. QED
    BY <1>5, <1>7, <1>13, <2>2, <2>3
<1>17. DOMAIN slices = 0 .. g - 1 /\ n * A \in Nat
  BY <1>1, <1>3, <1>11 DEF SizesInv, g
<1>18. ASSUME NEW t \in DOMAIN slices
       PROVE  slices[t].offset + slices[t].size \in Nat /\ slices[t].offset + slices[t].size <= RangeEnd
  <2>1. slices[t].offset = b + E(t) /\ slices[t].size = E(t + 1) - E(t)
    BY <1>10, <1>17
  <2>2. E(t) \in Nat /\ E(t + 1) \in Nat /\ E(t + 1) <= n * A
    BY <1>12, <1>17
  <2>. QED
    BY <1>5, <1>7, <1>17, <2>1, <2>2
<1>19. RangeEnd \in Nat
  BY <1>5, <1>7, <1>17
<1>. QED
  BY <1>14, <1>15, <1>16, <1>18, <1>19 DEF g

\* A loaded plan stays so, with the slices of its operation.
LEMMA SizesStep ==
  ASSUME SizesInv, [SizesNext]_sizesVars
  PROVE  SizesInv'
<1>1. CASE LoadExecutionPlan
  BY <1>1 DEF SizesInv, LoadExecutionPlan
<1>2. CASE SetupOperation
  BY <1>2 DEF SizesInv, SetupOperation, Slice
<1>3. CASE UNCHANGED sizesVars
  BY <1>3 DEF SizesInv, sizesVars, Slice
<1>. QED
  BY <1>1, <1>2, <1>3 DEF SizesNext

\* setupOperation() cuts every operation of a plan that passed checkMessageSize() into
\* slices without gap or overlap, for every plan, message, group size and width.
THEOREM SlicesTheorem == SizesSpec => []SlicesPartition
<1>1. SizesInit => SizesInv
  BY DEF SizesInit, SizesInv
<1>2. SizesInv /\ [SizesNext]_sizesVars => SizesInv'
  BY SizesStep
<1>. QED
  BY <1>1, <1>2, SlicesFill, PTL DEF SizesSpec

-----------------------------------------------------------------------------
(***************************************************************************)
(* The scratch buffer and the iterations.                                  *)
(***************************************************************************)

\* Rounding up a multiple changes nothing.
LEMMA CeilExact ==
  ASSUME NEW a \in Nat \ {0}, NEW b \in Nat
  PROVE  ((b * a) + a - 1) \div a = b
<1> DEFINE p == (b * a) + a - 1
           q == p \div a
<1>1. p \in Nat
  <2>1. b * a \in Nat
    OBVIOUS
  <2>. QED
    BY <2>1
<1>2. p = (a * q) + (p % a) /\ q \in Int /\ p % a \in 0 .. a - 1
  BY <1>1, DivMod
<1> HIDE DEF q
<1>3. a * (q - b) = (a - 1) - (p % a)
  BY <1>2
<1>4. a * (q - b) \in 0 .. a - 1
  BY <1>2, <1>3
<1>5. q - b = 0
  BY <1>2, <1>4, SmallMultiple
<1>. QED
  BY <1>2, <1>5 DEF q

\* Rounding up reaches the number and stays less than one unit above it.
LEMMA CeilBounds ==
  ASSUME NEW a \in Nat \ {0}, NEW x \in Nat
  PROVE  LET n == ((x + a - 1) \div a) * a IN n >= x /\ n - a < x
<1> DEFINE p == x + a - 1
           q == p \div a
<1>1. p \in Nat
  OBVIOUS
<1>2. p = (a * q) + (p % a) /\ q \in Int /\ p % a \in 0 .. a - 1
  BY <1>1, DivMod
<1> HIDE DEF q
<1>3. q * a = p - (p % a)
  BY <1>2
<1>4. q * a >= x /\ (q * a) - a < x
  BY <1>2, <1>3
<1>. QED
  BY <1>4 DEF q

\* calScratchBufferSize() of a loaded plan is exactly what its chunks need: nothing is
\* lost by rounding to a chunk and to the alignment.
LEMMA ScratchExact ==
  ASSUME NEW p \in Plans, NEW m \in Messages, NEW q \in Nat \ {0}, ~p.reuse,
         m.inputSize = (q * BufferAlignment) * p.inputChunks
  PROVE  CalScratchBufferSize(p, m) =
           ((q * p.scratchChunks) * ((IF p.packet THEN 2 ELSE 1) * (IF p.double THEN 2 ELSE 1))) * BufferAlignment
<1> DEFINE A == BufferAlignment
           c == p.inputChunks
           z == p.scratchChunks
           times == (IF p.packet THEN 2 ELSE 1) * (IF p.double THEN 2 ELSE 1)
           y == (q * z) * times
<1>1. A \in Nat \ {0} /\ c \in Nat \ {0} /\ z \in Nat
  BY SizesAssumption
<1>2. times \in Nat
  OBVIOUS
<1> HIDE DEF times
<1>3. q * A \in Nat /\ y \in Nat
  BY <1>1, <1>2
<1>4. (m.inputSize + c - 1) \div c = q * A
  BY <1>1, <1>3, CeilExact
<1>5. (q * A) * z * times = y * A
  BY <1>1, <1>2
<1>6. CalScratchBufferSize(p, m) = Aligned((q * A) * z * times)
  BY <1>4 DEF CalScratchBufferSize, times
<1> HIDE DEF y
<1>7. ((y * A) + A - 1) \div A = y
  BY <1>1, <1>3, CeilExact
<1>8. Aligned(y * A) = y * A
  BY <1>7 DEF Aligned
<1>. QED
  BY <1>5, <1>6, <1>8 DEF y, times

\* What the slices of an operation need in a scratch buffer fits in it.
LEMMA ScratchFits ==
  ASSUME SizesInv, slices # <<>>, Divisible, ~plan.reuse, operation.buffer = "scratch", operation.constOffset = 0,
         operation.index + operation.chunks <= plan.scratchChunks, NEW tbId \in DOMAIN slices
  PROVE  LET scratch == CalScratchBufferSize(plan, message) IN
         (slices[tbId].offset + slices[tbId].size) * (IF plan.packet THEN 2 ELSE 1)
           <= (IF plan.double THEN scratch \div 2 ELSE scratch)
<1> DEFINE A == BufferAlignment
           c == operation.chunks
           k == operation.index
           z == plan.scratchChunks
           f == IF plan.packet THEN 2 ELSE 1
           d == IF plan.double THEN 2 ELSE 1
           end == slices[tbId].offset + slices[tbId].size
           scratch == CalScratchBufferSize(plan, message)
<1>1. plan \in Plans /\ message \in Messages /\ operation \in Operations /\ CheckMessageSize(plan, message)
  BY DEF SizesInv
<1>2. /\ A \in Nat \ {0} /\ c \in Nat \ {0} /\ k \in Nat /\ z \in Nat /\ plan.inputChunks \in Nat \ {0}
      /\ message.inputSize \in Nat \ {0} /\ k + c <= z
  BY <1>1, SizesAssumption
<1>3. PICK q \in Nat \ {0} :
        /\ message.inputSize \div plan.inputChunks = q * A
        /\ message.inputSize \div A = plan.inputChunks * q
  BY <1>1, Chunks
<1>4. message.inputSize = (q * A) * plan.inputChunks
  <2>1. message.inputSize % A = 0
    BY <1>1 DEF CheckMessageSize
  <2>2. message.inputSize = A * (message.inputSize \div A)
    BY <2>1, <1>2, ModZero, ZenonT(40)
  <2>3. message.inputSize = A * (plan.inputChunks * q)
    BY <2>2, <1>3
  <2>. QED
    BY <2>3, <1>2
<1>5. RangeEnd = ((k + c) * q) * A
  <2>1. CalcOffset(message.inputSize, k, plan.inputChunks) = (k * q) * A
    <3>1. /\ plan \in Plans /\ message \in Messages /\ k \in Nat
          /\ message.inputSize \div BufferAlignment = plan.inputChunks * q
      BY <1>1, <1>2, <1>3
    <3> HIDE DEF k
    <3>. QED
      BY <3>1, ChunkOffset, ZenonT(40)
  <2>2. Begin = (k * q) * A
    <3>1. GetOffset(plan, message, k, operation.buffer) = (k * q) * A
      BY <2>1 DEF GetOffset
    <3>2. (k * q) * A \in Nat
      BY <1>2
    <3>. QED
      BY <3>1, <3>2 DEF Begin
  <2>3. ((k * q) * A) + (c * (q * A)) = ((k + c) * q) * A
    BY <1>2
  <2>. QED
    BY <2>2, <2>3, <1>3 DEF RangeEnd, Chunk
<1>6. end \in Nat /\ end <= ((k + c) * q) * A
  <2>1. end \in Nat /\ end <= RangeEnd
    BY SlicesFill DEF SlicesWithin
  <2>. QED
    BY <2>1, <1>5
<1>7. PICK v \in Nat : v = (q * z) * A
  <2>1. (q * z) * A \in Nat
    BY <1>2
  <2>. QED
    BY <2>1
<1>8. end <= v
  <2>1. (k + c) * q <= z * q
    BY <1>2, TimesMonotone
  <2>2. ((k + c) * q) * A <= (z * q) * A
    <3>1. (k + c) * q \in Int /\ z * q \in Int
      BY <1>2
    <3>. QED
      BY <3>1, <2>1, <1>2, TimesMonotone
  <2>3. (z * q) * A = v /\ ((k + c) * q) * A \in Int
    BY <1>2, <1>7
  <2>. QED
    BY <2>2, <2>3, <1>6
<1>9. scratch = v * (f * d)
  <2>1. scratch = ((q * z) * (f * d)) * A
    BY <1>1, <1>4, ScratchExact
  <2>2. f \in Nat /\ d \in Nat
    OBVIOUS
  <2> HIDE DEF f, d, scratch
  <2>3. ((q * z) * (f * d)) * A = ((q * z) * A) * (f * d)
    BY <2>2, <1>2
  <2>. QED
    BY <2>1, <2>3, <1>7
<1> HIDE DEF end
<1>10. end * f <= v * f
  BY <1>6, <1>7, <1>8
<1>11. (IF plan.double THEN scratch \div 2 ELSE scratch) = v * f
  <2>1. CASE plan.double
    <3>1. scratch = (v * f) * 2 /\ v * f \in Nat
      BY <2>1, <1>7, <1>9
    <3>2. ((v * f) * 2) \div 2 = v * f
      BY <3>1, DivExact
    <3>. QED
      BY <3>1, <3>2, <2>1
  <2>2. CASE ~plan.double
    BY <2>2, <1>7, <1>9
  <2>. QED
    BY <2>1, <2>2
<1>. QED
  BY <1>10, <1>11 DEF end

\* The iterations of a pipelined operation cover its chunks, the last one in part.
LEMMA IterationsFit ==
  ASSUME SizesInv, slices # <<>>
  PROVE  LET n == NIterations(plan, message, operation) * operation.unitSize
         IN n >= operation.chunks * Chunk /\ n - operation.unitSize < operation.chunks * Chunk
<1> DEFINE A == BufferAlignment
           c == operation.chunks
           u == operation.unitSize
           i == plan.inputChunks
<1>1. plan \in Plans /\ message \in Messages /\ operation \in Operations /\ CheckMessageSize(plan, message)
  BY DEF SizesInv
<1>2. A \in Nat \ {0} /\ c \in Nat \ {0} /\ u \in Nat \ {0} /\ i \in Nat \ {0}
  BY <1>1, SizesAssumption
<1>3. PICK q \in Nat \ {0} : message.inputSize \div i = q * A /\ message.inputSize \div A = i * q
  BY <1>1, Chunks
<1>4. UpperBoundChunkSize(plan, message) = q * A
  <2>1. i * q = q * i
    BY <1>2
  <2>2. ((q * i) + i - 1) \div i = q
    BY <1>2, CeilExact, ZenonT(40)
  <2>. QED
    BY <2>1, <2>2, <1>3 DEF UpperBoundChunkSize
<1>5. PICK x \in Nat : x = c * (q * A)
  <2>1. c * (q * A) \in Nat
    BY <1>2
  <2>. QED
    BY <2>1
<1>6. NIterations(plan, message, operation) = (x + u - 1) \div u /\ c * Chunk = x
  BY <1>3, <1>4, <1>5 DEF NIterations, Chunk
<1>. QED
  BY <1>2, <1>6, CeilBounds

\* What an operation of a loaded plan touches in the scratch buffer lies in the size that
\* calScratchBufferSize() allocates, and its iterations cover its chunks and none is empty,
\* for every plan, message, group size, unit size and width.
THEOREM FitsTheorem == SizesSpec => []OperationFits
<1>1. SizesInit => SizesInv
  BY DEF SizesInit, SizesInv
<1>2. SizesInv /\ [SizesNext]_sizesVars => SizesInv'
  BY SizesStep
<1>3. SizesInv => OperationFits
  BY ScratchFits, IterationsFit DEF OperationFits
<1>. QED
  BY <1>1, <1>2, <1>3, PTL DEF SizesSpec
=============================================================================
