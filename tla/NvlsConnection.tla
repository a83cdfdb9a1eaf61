--------------------------- MODULE NvlsConnection --------------------------
(***************************************************************************)
(* NvlsConnection (src/core/switch_channel.cc) on one rank: the ranges of a*)
(* multicast object that memories are bound to.  freeRanges_ is a list in  *)
(* the order of the offsets, which is the set of its elements here; offsets*)
(* and sizes are in units of the minimum granularity, minMcGran_.          *)
(***************************************************************************)
EXTENDS Integers, FiniteSets

CONSTANTS
  BufferSize,   \* the size of the multicast object
  MaxBytes,     \* bound on the size of a memory, in bytes
  Granularity   \* minMcGran_, in bytes

ASSUME NvlsAssumption ==
  /\ BufferSize \in Nat \ {0}
  /\ Granularity \in Nat \ {0}
  /\ MaxBytes \in Nat

VARIABLES
  freeRanges, allocatedRanges,
  channels      \* the ranges of the switch channels that exist

nvlsVars == <<freeRanges, allocatedRanges, channels>>

RangeOf(offset, size) == [offset |-> offset, size |-> size]
End(f) == f.offset + f.size

\* The first of the list.
IsFirst(f, S) == f \in S /\ \A g \in S : f.offset <= g.offset
First(S) == CHOOSE f \in S : IsFirst(f, S)

NvlsInit ==
  /\ freeRanges = {RangeOf(0, BufferSize)}
  /\ allocatedRanges = {}
  /\ channels = {}

\* Mutant: the size of the range is not reduced.
RestKeepsSize(f, n) == IF f.size = n THEN {} ELSE {RangeOf(f.offset + n, f.size)}

\* What is left of a free range when its first n units are allocated.
Rest(f, n) == IF f.size = n THEN {} ELSE {RangeOf(f.offset + n, f.size - n)}

Fitting(n) == {f \in freeRanges : f.size >= n}

\* allocateRange(): the first free range that is large enough.
AllocateRange(n) ==
  LET f == First(Fitting(n)) IN
  /\ freeRanges' = (freeRanges \ {f}) \cup Rest(f, n)
  /\ allocatedRanges' = allocatedRanges \cup {RangeOf(f.offset, n)}

\* bindMemory() rounds the size up.
Units(bytes) == (bytes + Granularity - 1) \div Granularity

\* bindAllocatedMemory(): an exception if no range is large enough.
Bind(n) ==
  /\ Fitting(n) # {}
  /\ AllocateRange(n)
  /\ channels' = channels \cup {RangeOf(First(Fitting(n)).offset, n)}

\* mapMulticast() throws: the range stays allocated, and no channel has it.
BindFails(n) ==
  /\ Fitting(n) # {}
  /\ AllocateRange(n)
  /\ UNCHANGED channels

\* Free ranges that end at or after the range: none, or the first may touch it.
NotBefore(a) == {f \in freeRanges : End(f) >= a.offset}
After(f) == {g \in freeRanges : g.offset > f.offset}

\* The range is joined with the one before it, and with the next if they touch.
JoinedWithBoth(a, f) ==
  LET g == First(After(f))
      touches == After(f) # {} /\ End(f) + a.size = g.offset
  IN IF touches THEN (freeRanges \ {f, g}) \cup {RangeOf(f.offset, f.size + a.size + g.size)}
     ELSE (freeRanges \ {f}) \cup {RangeOf(f.offset, f.size + a.size)}

\* freeRange()
Joined(a) ==
  LET f == First(NotBefore(a)) IN
  IF NotBefore(a) = {} THEN freeRanges \cup {a}
  ELSE IF End(f) = a.offset THEN JoinedWithBoth(a, f)
  ELSE IF f.offset = End(a) THEN (freeRanges \ {f}) \cup {RangeOf(a.offset, a.size + f.size)}
  ELSE freeRanges \cup {a}

\* A switch channel is destroyed.
Unbind(a) ==
  /\ a \in channels
  /\ channels' = channels \ {a}
  /\ allocatedRanges' = allocatedRanges \ {a}
  /\ freeRanges' = Joined(a)

NvlsNext ==
  \/ \E bytes \in 1 .. MaxBytes : Bind(Units(bytes)) \/ BindFails(Units(bytes))
  \/ \E a \in channels : Unbind(a)

NvlsSpec == NvlsInit /\ [][NvlsNext]_nvlsVars

-----------------------------------------------------------------------------
Ranges == [offset : Nat, size : Nat \ {0}]

NvlsTypeOK ==
  /\ freeRanges \subseteq Ranges
  /\ allocatedRanges \subseteq Ranges
  /\ channels \subseteq allocatedRanges

Apart(f, g) == End(f) <= g.offset \/ End(g) <= f.offset

\* The free and the allocated ranges are within the multicast object and no two
\* of them overlap: two memories are never bound to the same part of it, in
\* whatever order channels are created and destroyed, and no unit is lost.
RangesPartition ==
  LET all == freeRanges \cup allocatedRanges IN
  /\ freeRanges \cap allocatedRanges = {}
  /\ \A f \in all : End(f) <= BufferSize
  /\ \A f, g \in all : f # g => Apart(f, g)
  /\ \A x \in 0 .. BufferSize - 1 : \E f \in all : f.offset <= x /\ x < End(f)

\* No two free ranges touch: freeRange() joins what it returns with both
\* neighbours, so a memory that fits between two allocated ranges can be bound.
FreeRangesJoined == \A f, g \in freeRanges : End(f) # g.offset

\* When every channel is destroyed and no binding has failed, the whole object
\* can be bound again.
WholeWhenUnbound == allocatedRanges = {} => freeRanges = {RangeOf(0, BufferSize)}
=============================================================================
