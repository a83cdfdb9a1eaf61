------------------------- MODULE RsAgPipelineProofs -------------------------
(***************************************************************************)
(* What the REDUCE and RECV blocks of the pipelined allreduce read is of   *)
(* their own iteration, for any number of ranks, REDUCE blocks, stages,    *)
(* iterations and launches.                                                *)
(*                                                                         *)
(* The argument counts, over all launches, the iterations that each block  *)
(* has acquired, signaled, waited for, written and completed.  A launch    *)
(* changes none of these counts.                                           *)
(***************************************************************************)
EXTENDS RsAgPipeline, ModArith, TLAPS

\* The iterations before launch k.
Base(k) == (k - 1) * NIters

\* The iterations block b of rank r has completed ...
Completed(r, b) == IF launched[r] = 0 THEN 0 ELSE Base(launched[r]) + iter[r][b]

\* ... and, counting the one it is in: acquired, sent the signal of, waited for, written.
Count(r, b, labels) == Completed(r, b) + (IF blockPc[r][b] \in labels THEN 1 ELSE 0)
Acquired(r, b) == Count(r, b, {"write", "signal", "wait", "work", "release"})
Sent(r, b) == Count(r, b, {"wait", "work", "release"})
Waited(r, b) == Count(r, b, {"work", "release"})
WrittenTo(r, b) == Count(r, b, {"release"})

Signalers == Reducers \cup {"recv"}

Labels(b) ==
  IF b = "put" THEN {"set", "acquire", "write", "release", "done"}
  ELSE IF b = "recv" THEN {"acquire", "signal", "wait", "work", "done"}
  ELSE {"acquire", "signal", "wait", "work", "release", "done"}

AllLabels == {"set", "acquire", "write", "signal", "wait", "work", "release", "done"}

Cells == [PipelineRanks -> [Slots -> [PipelineRanks -> [Reducers -> Int]]]]

\* Where the blocks are.
ControlOK ==
  /\ launched \in [PipelineRanks -> Nat]
  /\ blockPc \in [PipelineRanks -> [BlockRoles -> AllLabels]]
  /\ iter \in [PipelineRanks -> [BlockRoles -> Nat]]
  /\ \A r \in PipelineRanks, b \in BlockRoles :
       /\ blockPc[r][b] \in Labels(b) /\ iter[r][b] <= NIters
       /\ IF launched[r] = 0 THEN blockPc[r][b] = "done" /\ iter[r][b] = 0
          ELSE /\ blockPc[r][b] = "done" <=> iter[r][b] = NIters
               /\ blockPc[r][b] = "set" => iter[r][b] = 0

DataOK ==
  /\ semaphoreForSend \in [PipelineRanks -> Int]
  /\ semaphoreForReduce \in [PipelineRanks -> [Reducers -> Int]]
  /\ semaphoreForRecv \in [PipelineRanks -> [Reducers -> Int]]
  /\ signaled \in [PipelineRanks -> [BlockRoles -> Int]]
  /\ scatter \in Cells /\ gather \in Cells

\* The device semaphores count what one block of the rank is ahead of another.
SemaphoresOK ==
  \A r \in PipelineRanks :
    /\ \A s \in Reducers :
         /\ semaphoreForReduce[r][s] = Completed(r, "put") - Acquired(r, s)
         /\ semaphoreForRecv[r][s] = Completed(r, s) - Acquired(r, "recv")
         /\ Acquired(r, s) <= Completed(r, "put") /\ Acquired(r, "recv") <= Completed(r, s)
    /\ Acquired(r, "put") <= Completed(r, "recv") + PipelineDepth
    /\ launched[r] # 0 /\ blockPc[r]["put"] # "set" =>
         semaphoreForSend[r] = PipelineDepth + Completed(r, "recv") - Acquired(r, "put")

\* A block that has waited for an iteration has the signal of its counterparts for it.
SignalsOK ==
  \A r \in PipelineRanks, b \in Signalers :
    /\ signaled[r][b] = Sent(r, b)
    /\ \A p \in PipelineRanks \ {r} : Waited(p, b) <= Sent(r, b)

\* Of w iterations written, the one of index j in launch k is still in its slot: it is
\* among the last PipelineDepth, and none of launch k + 1 is written.
Kept(w, k, j) ==
  /\ w <= Base(k) + NIters
  /\ Base(k) + j + 1 <= w /\ w < Base(k) + j + 1 + PipelineDepth

CellsOK ==
  \A p \in PipelineRanks : \A q \in PipelineRanks \ {p}, s \in Reducers, k \in Nat \ {0}, j \in 0 .. NIters - 1 :
    /\ Kept(WrittenTo(p, "put"), k, j) => scatter[q][j % PipelineDepth][p][s] = Base(k) + j + 1
    /\ Kept(WrittenTo(p, s), k, j) => gather[q][j % PipelineDepth][p][s] = Base(k) + j + 1

Inv == ControlOK /\ DataOK /\ SemaphoresOK /\ SignalsOK /\ CellsOK

-----------------------------------------------------------------------------
(***************************************************************************)
(* The counts.                                                             *)
(***************************************************************************)

\* Iterations are numbered from launch to launch.
LEMMA BaseType ==
  ASSUME NEW k \in Int
  PROVE  Base(k) \in Int
BY PipelineAssumption DEF Base

\* A launch has NIters iterations.
LEMMA BaseNext ==
  ASSUME NEW k \in Int
  PROVE  Base(k + 1) = Base(k) + NIters /\ Base(1) = 0
BY PipelineAssumption DEF Base

\* A later launch begins after the end of an earlier one.
LEMMA BaseGrows ==
  ASSUME NEW k \in Int, NEW m \in Int, k < m
  PROVE  Base(k) + NIters <= Base(m)
<1>1. NIters \in Nat \ {0}
  BY PipelineAssumption
<1>2. PICK d \in Nat : m = k + 1 + d
  <2>1. m - k - 1 \in Nat /\ m = k + 1 + (m - k - 1)
    OBVIOUS
  <2>. QED
    BY <2>1
<1>3. d * NIters \in Nat
  BY <1>1
<1>4. Base(m) = Base(k) + NIters + d * NIters
  BY <1>1, <1>2 DEF Base
<1>5. Base(k) \in Int
  BY BaseType
<1>. QED
  BY <1>1, <1>3, <1>4, <1>5

\* The counts are numbers, and within the launch the rank is in.
LEMMA Bounds ==
  ASSUME ControlOK, NEW r \in PipelineRanks, NEW b \in BlockRoles
  PROVE  /\ Completed(r, b) \in Int /\ launched[r] \in Nat
         /\ Base(launched[r]) <= Completed(r, b) \/ launched[r] = 0
         /\ Completed(r, b) <= Base(launched[r]) + NIters
         /\ launched[r] = 0 => Completed(r, b) = 0 /\ blockPc[r][b] = "done"
         /\ blockPc[r][b] # "done" => /\ Completed(r, b) = Base(launched[r]) + iter[r][b] /\ launched[r] # 0
                                 /\ Now(r, b) = Completed(r, b) + 1 /\ iter[r][b] \in 0 .. NIters - 1
<1>1. NIters \in Nat \ {0} /\ launched[r] \in Nat /\ iter[r][b] \in Nat /\ iter[r][b] <= NIters
  BY PipelineAssumption DEF ControlOK
<1>2. Base(launched[r]) \in Int /\ Base(0) + NIters = 0
  <2>1. Base(launched[r]) \in Int
    BY <1>1, BaseType
  <2>2. Base(0) + NIters = 0
    BY <1>1 DEF Base
  <2>. QED
    BY <2>1, <2>2
<1>3. launched[r] = 0 => blockPc[r][b] = "done" /\ iter[r][b] = 0
  BY DEF ControlOK
<1>4. launched[r] # 0 => (blockPc[r][b] = "done" <=> iter[r][b] = NIters)
  BY DEF ControlOK
<1>5. Now(r, b) = Base(launched[r]) + iter[r][b] + 1
  BY DEF Now, Base
<1>6. CASE launched[r] = 0
  BY <1>1, <1>2, <1>3, <1>6 DEF Completed
<1>7. CASE launched[r] # 0
  BY <1>1, <1>2, <1>4, <1>5, <1>7 DEF Completed
<1>. QED
  BY <1>6, <1>7

\* A step that moves block b of rank r on within its iteration.
LEMMA GotoStep ==
  ASSUME ControlOK, NEW r \in PipelineRanks, NEW b \in BlockRoles, NEW l \in Labels(b) \ {"done", "set"},
         blockPc[r][b] # "done", Goto(r, b, l), launched' = launched, iter' = iter
  PROVE  /\ ControlOK'
         /\ blockPc'[r][b] = l
         /\ \A q \in PipelineRanks, c \in BlockRoles : /\ Completed(q, c)' = Completed(q, c)
                                                       /\ q # r \/ c # b => blockPc'[q][c] = blockPc[q][c]
<1>1. l \in AllLabels
  BY DEF Labels, AllLabels
<1>2. blockPc \in [PipelineRanks -> [BlockRoles -> AllLabels]] /\ blockPc' = [blockPc EXCEPT ![r][b] = l]
  BY DEF ControlOK, Goto
<1>3. blockPc' \in [PipelineRanks -> [BlockRoles -> AllLabels]]
  BY <1>1, <1>2
<1>4. /\ blockPc'[r][b] = l
      /\ \A q \in PipelineRanks, c \in BlockRoles : q # r \/ c # b => blockPc'[q][c] = blockPc[q][c]
  BY <1>2
<1>5. launched[r] # 0 /\ iter[r][b] # NIters
  BY Bounds DEF ControlOK
<1>6. ControlOK'
  BY <1>3, <1>4, <1>5 DEF ControlOK
<1>7. \A q \in PipelineRanks, c \in BlockRoles : Completed(q, c)' = Completed(q, c)
  BY DEF Completed
<1>. QED
  BY <1>4, <1>6, <1>7

\* A step that ends the iteration of block b of rank r.
LEMMA IterStep ==
  ASSUME ControlOK, NEW r \in PipelineRanks, NEW b \in BlockRoles,
         blockPc[r][b] # "done", NextIter(r, b), launched' = launched
  PROVE  /\ ControlOK'
         /\ blockPc'[r][b] \in {"acquire", "done"}
         /\ \A q \in PipelineRanks, c \in BlockRoles :
              /\ Completed(q, c)' = IF q = r /\ c = b THEN Completed(q, c) + 1 ELSE Completed(q, c)
              /\ q # r \/ c # b => blockPc'[q][c] = blockPc[q][c]
<1>1. PICK l \in {"acquire", "done"} : l = (IF iter[r][b] + 1 < NIters THEN "acquire" ELSE "done")
  OBVIOUS
<1>2. /\ iter \in [PipelineRanks -> [BlockRoles -> Nat]] /\ iter' = [iter EXCEPT ![r][b] = @ + 1]
      /\ blockPc \in [PipelineRanks -> [BlockRoles -> AllLabels]] /\ blockPc' = [blockPc EXCEPT ![r][b] = l]
      /\ l \in AllLabels /\ l \in Labels(b) /\ NIters \in Nat \ {0}
  BY <1>1, PipelineAssumption DEF ControlOK, NextIter, Goto, AllLabels, Labels
<1>3. blockPc' \in [PipelineRanks -> [BlockRoles -> AllLabels]] /\ iter' \in [PipelineRanks -> [BlockRoles -> Nat]]
  BY <1>2
<1>4. /\ blockPc'[r][b] = l /\ iter'[r][b] = iter[r][b] + 1
      /\ \A q \in PipelineRanks, c \in BlockRoles : q # r \/ c # b => blockPc'[q][c] = blockPc[q][c] /\ iter'[q][c] = iter[q][c]
  BY <1>2
<1>5. launched[r] # 0 /\ iter[r][b] \in 0 .. NIters - 1 /\ Completed(r, b) = Base(launched[r]) + iter[r][b]
  BY Bounds
<1>6. ControlOK'
  <2>1. ASSUME NEW q \in PipelineRanks, NEW c \in BlockRoles
        PROVE  /\ blockPc'[q][c] \in Labels(c) /\ iter'[q][c] <= NIters
               /\ IF launched[q] = 0 THEN blockPc'[q][c] = "done" /\ iter'[q][c] = 0
                  ELSE /\ blockPc'[q][c] = "done" <=> iter'[q][c] = NIters
                       /\ blockPc'[q][c] = "set" => iter'[q][c] = 0
    <3>1. CASE q = r /\ c = b
      BY <3>1, <1>1, <1>2, <1>4, <1>5
    <3>2. CASE q # r \/ c # b
      BY <3>2, <1>4 DEF ControlOK
    <3>. QED
      BY <3>1, <3>2
  <2>. QED
    BY <2>1, <1>3 DEF ControlOK
<1>7. ASSUME NEW q \in PipelineRanks, NEW c \in BlockRoles
      PROVE  Completed(q, c)' = IF q = r /\ c = b THEN Completed(q, c) + 1 ELSE Completed(q, c)
  <2>1. CASE q = r /\ c = b
    <3>1. Base(launched[r]) \in Int
      BY BaseType DEF ControlOK
    <3>. QED
      BY <3>1, <2>1, <1>4, <1>5 DEF Completed, Base
  <2>2. CASE q # r \/ c # b
    BY <2>2, <1>4 DEF Completed, Base
  <2>. QED
    BY <2>1, <2>2
<1>. QED
  BY <1>1, <1>4, <1>6, <1>7

\* A launch changes no count.
LEMMA LaunchStep ==
  ASSUME ControlOK, NEW r \in PipelineRanks, Launch(r)
  PROVE  /\ ControlOK'
         /\ \A b \in BlockRoles : blockPc[r][b] = "done" /\ blockPc'[r][b] = IF b = "put" THEN "set" ELSE "acquire"
         /\ \A q \in PipelineRanks, c \in BlockRoles : /\ Completed(q, c)' = Completed(q, c)
                                                       /\ q # r => blockPc'[q][c] = blockPc[q][c]
<1>1. /\ launched' = [launched EXCEPT ![r] = @ + 1] /\ \A b \in BlockRoles : blockPc[r][b] = "done"
      /\ blockPc' = [blockPc EXCEPT ![r] = [b \in BlockRoles |-> IF b = "put" THEN "set" ELSE "acquire"]]
      /\ iter' = [iter EXCEPT ![r] = [b \in BlockRoles |-> 0]]
      /\ launched \in [PipelineRanks -> Nat] /\ blockPc \in [PipelineRanks -> [BlockRoles -> AllLabels]]
      /\ iter \in [PipelineRanks -> [BlockRoles -> Nat]] /\ NIters \in Nat \ {0}
  BY PipelineAssumption DEF Launch, ControlOK
<1>2. [b \in BlockRoles |-> IF b = "put" THEN "set" ELSE "acquire"] \in [BlockRoles -> AllLabels]
  BY DEF AllLabels
<1>3. [b \in BlockRoles |-> 0] \in [BlockRoles -> Nat]
  OBVIOUS
<1>4. /\ launched' \in [PipelineRanks -> Nat] /\ blockPc' \in [PipelineRanks -> [BlockRoles -> AllLabels]]
      /\ iter' \in [PipelineRanks -> [BlockRoles -> Nat]]
  BY <1>1, <1>2, <1>3
<1>5. /\ launched'[r] = launched[r] + 1
      /\ \A b \in BlockRoles : blockPc'[r][b] = (IF b = "put" THEN "set" ELSE "acquire") /\ iter'[r][b] = 0
      /\ \A q \in PipelineRanks : q # r => launched'[q] = launched[q] /\ blockPc'[q] = blockPc[q] /\ iter'[q] = iter[q]
  BY <1>1
<1>6. ControlOK'
  <2>1. ASSUME NEW q \in PipelineRanks, NEW c \in BlockRoles
        PROVE  /\ blockPc'[q][c] \in Labels(c) /\ iter'[q][c] <= NIters
               /\ IF launched'[q] = 0 THEN blockPc'[q][c] = "done" /\ iter'[q][c] = 0
                  ELSE /\ blockPc'[q][c] = "done" <=> iter'[q][c] = NIters
                       /\ blockPc'[q][c] = "set" => iter'[q][c] = 0
    <3>1. CASE q = r
      BY <3>1, <1>1, <1>5 DEF Labels
    <3>2. CASE q # r
      BY <3>2, <1>5 DEF ControlOK
    <3>. QED
      BY <3>1, <3>2
  <2>. QED
    BY <2>1, <1>4 DEF ControlOK
<1>7. ASSUME NEW q \in PipelineRanks, NEW c \in BlockRoles PROVE Completed(q, c)' = Completed(q, c)
  <2>1. CASE q = r
    <3>1. Completed(r, c)' = Base(launched[r] + 1) /\ launched[r] \in Nat
      <4>1. launched[r] \in Nat /\ launched[r] + 1 # 0
        BY <1>1
      <4>2. Base(launched[r] + 1) \in Int
        BY <4>1, BaseType
      <4>. QED
        BY <4>1, <4>2, <1>5 DEF Completed, Base
    <3>2. CASE launched[r] = 0
      <4>1. launched[r] + 1 = 1
        BY <3>2
      <4>. QED
        BY <4>1, <3>1, <3>2, <2>1, BaseNext, Bounds
    <3>3. CASE launched[r] # 0
      <4>1. iter[r][c] = NIters
        BY <3>3, <1>1 DEF ControlOK
      <4>. QED
        BY <4>1, <3>1, <3>3, <2>1, BaseNext DEF Completed
    <3>. QED
      BY <3>2, <3>3
  <2>2. CASE q # r
    BY <2>2, <1>5 DEF Completed, Base
  <2>. QED
    BY <2>1, <2>2
<1>. QED
  BY <1>1, <1>5, <1>6, <1>7

-----------------------------------------------------------------------------
(***************************************************************************)
(* The cells.                                                              *)
(***************************************************************************)

\* A step that writes no cell keeps what the cells hold.
LEMMA CellsFrame ==
  ASSUME CellsOK, UNCHANGED <<scatter, gather>>,
         \A p \in PipelineRanks, b \in {"put"} \cup Reducers : WrittenTo(p, b)' = WrittenTo(p, b)
  PROVE  CellsOK'
<1> SUFFICES ASSUME NEW p \in PipelineRanks, NEW q \in PipelineRanks \ {p}, NEW s \in Reducers, NEW k \in Nat \ {0},
                    NEW j \in 0 .. NIters - 1
             PROVE  /\ Kept(WrittenTo(p, "put"), k, j)' => scatter[q][j % PipelineDepth][p][s] = Base(k) + j + 1
                    /\ Kept(WrittenTo(p, s), k, j)' => gather[q][j % PipelineDepth][p][s] = Base(k) + j + 1
  BY DEF CellsOK, Base
<1>1. /\ Kept(WrittenTo(p, "put"), k, j)' = Kept(WrittenTo(p, "put"), k, j)
      /\ Kept(WrittenTo(p, s), k, j)' = Kept(WrittenTo(p, s), k, j)
  BY ZenonT(40) DEF Kept, Base
<1>. QED
  BY <1>1 DEF CellsOK

\* Iterations lie in one launch.
LEMMA OneLaunch ==
  ASSUME NEW k \in Int, NEW m \in Int, NEW w \in Int,
         Base(k) <= w, w < Base(k) + NIters, Base(m) <= w, w < Base(m) + NIters
  PROVE  k = m
<1>1. /\ Base(k) \in Int /\ Base(m) \in Int /\ NIters \in Int
      /\ k < m => Base(k) + NIters <= Base(m)
      /\ m < k => Base(m) + NIters <= Base(k)
  BY BaseType, BaseGrows, PipelineAssumption
<1>. QED
  BY <1>1

\* Writing the iteration of index t of launch m, the next after w, to its slot: what is
\* kept then is that iteration, or was kept before and is in another slot.
LEMMA WriteKeeps ==
  ASSUME NEW m \in Int, NEW t \in 0 .. NIters - 1, NEW w, w = Base(m) + t,
         NEW k \in Nat \ {0}, NEW j \in 0 .. NIters - 1, Kept(w + 1, k, j)
  PROVE  \/ k = m /\ j = t /\ Base(k) + j + 1 = w + 1
         \/ Kept(w, k, j) /\ j % PipelineDepth # t % PipelineDepth
<1>1. /\ Base(k) \in Int /\ Base(m) \in Int /\ NIters \in Nat \ {0} /\ PipelineDepth \in Nat \ {0}
      /\ w \in Int /\ j \in Nat /\ t \in Nat /\ j < NIters /\ t < NIters
  BY BaseType, PipelineAssumption
<1>2. w + 1 <= Base(k) + NIters /\ Base(k) + j + 1 <= w + 1 /\ w + 1 < Base(k) + j + 1 + PipelineDepth
  BY DEF Kept
<1>3. k = m
  <2>1. Base(k) <= w /\ w < Base(k) + NIters /\ Base(m) <= w /\ w < Base(m) + NIters
    BY <1>1, <1>2
  <2>. QED
    BY <2>1, <1>1, OneLaunch
<1>4. CASE j = t
  BY <1>1, <1>3, <1>4
<1>5. CASE j # t
  <2>1. j < t /\ t - j < PipelineDepth
    BY <1>1, <1>2, <1>3, <1>5
  <2>2. j % PipelineDepth # t % PipelineDepth
    <3>1. j <= t /\ t < j + PipelineDepth
      BY <2>1, <1>1
    <3>. QED
      BY <3>1, <1>1, <1>5, ModInjective, ZenonT(40)
  <2>3. Kept(w, k, j)
    BY <2>1, <1>1, <1>2, <1>3 DEF Kept
  <2>. QED
    BY <2>2, <2>3
<1>. QED
  BY <1>4, <1>5

\* What REDUCE and RECV blocks read while they work is kept: the counts of the two
\* ranks are tied in both directions.
LEMMA ReadsKept ==
  ASSUME ControlOK, SemaphoresOK, SignalsOK,
         NEW r \in PipelineRanks, NEW p \in PipelineRanks \ {r}, NEW s \in Reducers
  PROVE  /\ blockPc[r][s] = "work" => Kept(WrittenTo(p, "put"), launched[r], iter[r][s])
         /\ blockPc[r]["recv"] = "work" => Kept(WrittenTo(p, s), launched[r], iter[r]["recv"])
<1>1. /\ "put" \in BlockRoles /\ "recv" \in BlockRoles /\ s \in BlockRoles /\ s \in Signalers /\ "recv" \in Signalers
      /\ PipelineDepth \in Nat \ {0} /\ NIters \in Nat \ {0}
  BY PipelineAssumption DEF BlockRoles, Signalers
<1>2. /\ \A q \in PipelineRanks, b \in BlockRoles : Completed(q, b) \in Int /\ launched[q] \in Nat
      /\ \A q \in PipelineRanks, b \in BlockRoles : Completed(q, b) <= Base(launched[q]) + NIters /\ Base(launched[q]) \in Int
  BY Bounds, BaseType
<1>3. ASSUME NEW q \in PipelineRanks
      PROVE  /\ Acquired(q, s) <= Completed(q, "put") /\ Acquired(q, "recv") <= Completed(q, s)
             /\ Acquired(q, "put") <= Completed(q, "recv") + PipelineDepth
  BY DEF SemaphoresOK
<1>4. /\ Waited(r, s) <= Sent(p, s) /\ Waited(p, s) <= Sent(r, s)
      /\ Waited(r, "recv") <= Sent(p, "recv") /\ Waited(p, "recv") <= Sent(r, "recv")
  BY <1>1 DEF SignalsOK
<1>5. ASSUME NEW q \in PipelineRanks, NEW b \in BlockRoles
      PROVE  /\ Completed(q, b) <= WrittenTo(q, b) /\ WrittenTo(q, b) <= Waited(q, b)
             /\ Waited(q, b) <= Sent(q, b) /\ Sent(q, b) <= Acquired(q, b)
             /\ {WrittenTo(q, b), Waited(q, b), Sent(q, b), Acquired(q, b)} \subseteq Int
  BY <1>2 DEF WrittenTo, Waited, Sent, Acquired, Count
<1>6. ASSUME NEW b \in BlockRoles, blockPc[r][b] = "work"
      PROVE  /\ Completed(r, b) = Base(launched[r]) + iter[r][b] /\ iter[r][b] \in 0 .. NIters - 1
             /\ Waited(r, b) = Completed(r, b) + 1
  BY <1>6, Bounds DEF Waited, Count
<1>7. ASSUME blockPc[r][s] = "work" PROVE Kept(WrittenTo(p, "put"), launched[r], iter[r][s])
  <2> DEFINE w == WrittenTo(p, "put")
             n == Base(launched[r]) + iter[r][s] + 1
  <2>1. n = Waited(r, s) /\ n \in Int
    BY <1>1, <1>2, <1>6, <1>7
  <2>2. n <= w
    BY <2>1, <1>1, <1>2, <1>3, <1>4, <1>5
  <2>3. Completed(p, "recv") <= n - 1
    <3>1. Completed(p, "recv") <= Acquired(r, "recv")
      BY <1>1, <1>2, <1>4, <1>5
    <3>2. Acquired(r, "recv") <= Completed(r, s)
      BY <1>3
    <3>3. Completed(r, s) = n - 1
      BY <1>1, <1>2, <1>6, <1>7
    <3>. QED
      BY <3>1, <3>2, <3>3, <1>1, <1>2, <1>5
  <2>4. w < n + PipelineDepth
    BY <2>1, <2>3, <1>1, <1>2, <1>3, <1>5
  <2>5. w <= Base(launched[r]) + NIters
    <3>1. ~(launched[r] < launched[p])
      <4>1. SUFFICES ASSUME launched[r] < launched[p] PROVE FALSE
        OBVIOUS
      <4>2. Base(launched[r]) + NIters <= Base(launched[p]) /\ Base(launched[p]) <= Completed(p, "recv")
        BY <4>1, <1>1, <1>2, BaseGrows, Bounds
      <4>. QED
        BY <4>2, <2>3, <1>1, <1>2, <1>6, <1>7
    <3>2. Base(launched[p]) <= Base(launched[r])
      <4>1. CASE launched[p] = launched[r]
        BY <4>1, <1>1, <1>2
      <4>2. CASE launched[p] < launched[r]
        BY <4>2, <1>1, <1>2, BaseGrows
      <4>. QED
        BY <4>1, <4>2, <3>1, <1>1, <1>2
    <3>3. w <= Base(launched[p]) + NIters
      <4>1. CASE blockPc[p]["put"] = "done"
        BY <4>1, <1>1, <1>2 DEF WrittenTo, Count
      <4>2. CASE blockPc[p]["put"] # "done"
        BY <4>2, <1>1, <1>2, Bounds DEF WrittenTo, Count
      <4>. QED
        BY <4>1, <4>2
    <3>. QED
      BY <3>2, <3>3, <1>1, <1>2, <1>5
  <2>. QED
    BY <2>2, <2>4, <2>5 DEF Kept
<1>8. ASSUME blockPc[r]["recv"] = "work" PROVE Kept(WrittenTo(p, s), launched[r], iter[r]["recv"])
  <2> DEFINE w == WrittenTo(p, s)
             n == Base(launched[r]) + iter[r]["recv"] + 1
  <2>1. n = Waited(r, "recv") /\ n \in Int /\ Completed(r, "recv") = n - 1
    BY <1>1, <1>2, <1>6, <1>8
  <2>2. n <= w
    BY <2>1, <1>1, <1>2, <1>3, <1>4, <1>5
  <2>3. w <= Completed(r, "put")
    BY <1>1, <1>2, <1>3, <1>4, <1>5
  <2>4. w < n + PipelineDepth
    BY <2>1, <2>3, <1>1, <1>2, <1>3, <1>5
  <2>5. w <= Base(launched[r]) + NIters
    BY <2>3, <1>1, <1>2, <1>5
  <2>. QED
    BY <2>2, <2>4, <2>5 DEF Kept
<1>. QED
  BY <1>7, <1>8

\* The invariant implies the property.
LEMMA ReadsOwn ==
  ASSUME Inv
  PROVE  ReadsOwnIteration
<1>1. ControlOK /\ SemaphoresOK /\ SignalsOK /\ CellsOK
  BY DEF Inv
<1>2. ASSUME NEW r \in PipelineRanks, NEW s \in Reducers, blockPc[r][s] = "work", NEW p \in PipelineRanks \ {r}
      PROVE  scatter[r][Slot(r, s)][p][s] = Now(r, s)
  <2>1. Kept(WrittenTo(p, "put"), launched[r], iter[r][s])
    BY <1>1, <1>2, ReadsKept
  <2>2. /\ launched[r] \in Nat \ {0} /\ iter[r][s] \in 0 .. NIters - 1
        /\ Now(r, s) = Base(launched[r]) + iter[r][s] + 1
    BY <1>1, <1>2, Bounds, ZenonT(40) DEF BlockRoles
  <2>3. r \in PipelineRanks \ {p} /\ p \in PipelineRanks
    BY <1>2
  <2>4. scatter[r][iter[r][s] % PipelineDepth][p][s] = Base(launched[r]) + iter[r][s] + 1
    BY <2>1, <2>2, <2>3, <1>1 DEF CellsOK
  <2>. QED
    BY <2>2, <2>4 DEF Slot
<1>3. ASSUME NEW r \in PipelineRanks, blockPc[r]["recv"] = "work", NEW p \in PipelineRanks \ {r}, NEW s \in Reducers
      PROVE  gather[r][Slot(r, "recv")][p][s] = Now(r, "recv")
  <2>1. Kept(WrittenTo(p, s), launched[r], iter[r]["recv"])
    BY <1>1, <1>3, ReadsKept
  <2>2. /\ launched[r] \in Nat \ {0} /\ iter[r]["recv"] \in 0 .. NIters - 1
        /\ Now(r, "recv") = Base(launched[r]) + iter[r]["recv"] + 1
    BY <1>1, <1>3, Bounds DEF BlockRoles
  <2>3. r \in PipelineRanks \ {p} /\ p \in PipelineRanks
    BY <1>3
  <2>4. gather[r][iter[r]["recv"] % PipelineDepth][p][s] = Base(launched[r]) + iter[r]["recv"] + 1
    BY <2>1, <2>2, <2>3, <1>1 DEF CellsOK
  <2>. QED
    BY <2>2, <2>4 DEF Slot
<1>. QED
  BY <1>2, <1>3 DEF ReadsOwnIteration, ReduceReadsOwnIteration, RecvReadsOwnIteration

-----------------------------------------------------------------------------
(***************************************************************************)
(* The steps.                                                              *)
(***************************************************************************)

\* How a step changes the counts of block b of rank r; those of the others stay.
Counts(r, b, completed, acquired, sent, waited, written) ==
  \A q \in PipelineRanks, c \in BlockRoles :
    /\ Completed(q, c)' = Completed(q, c) + (IF q = r /\ c = b THEN completed ELSE 0)
    /\ Acquired(q, c)' = Acquired(q, c) + (IF q = r /\ c = b THEN acquired ELSE 0)
    /\ Sent(q, c)' = Sent(q, c) + (IF q = r /\ c = b THEN sent ELSE 0)
    /\ Waited(q, c)' = Waited(q, c) + (IF q = r /\ c = b THEN waited ELSE 0)
    /\ WrittenTo(q, c)' = WrittenTo(q, c) + (IF q = r /\ c = b THEN written ELSE 0)

\* The types of the counts.
LEMMA CountsType ==
  ASSUME ControlOK
  PROVE  /\ PipelineDepth \in Nat \ {0} /\ NIters \in Nat \ {0}
         /\ "put" \in BlockRoles /\ "recv" \in BlockRoles /\ Signalers \subseteq BlockRoles
         /\ Reducers \subseteq Signalers /\ "recv" \in Signalers /\ "put" \notin Signalers
         /\ "recv" \notin Reducers /\ "put" \notin Reducers /\ Reducers # {}
         /\ \A q \in PipelineRanks, c \in BlockRoles :
              /\ Completed(q, c) \in Int /\ Acquired(q, c) \in Int /\ Sent(q, c) \in Int
              /\ Waited(q, c) \in Int /\ WrittenTo(q, c) \in Int
<1>1. \A q \in PipelineRanks, c \in BlockRoles : Completed(q, c) \in Int
  BY Bounds
<1>2. \A q \in PipelineRanks, c \in BlockRoles :
              /\ Completed(q, c) \in Int /\ Acquired(q, c) \in Int /\ Sent(q, c) \in Int
              /\ Waited(q, c) \in Int /\ WrittenTo(q, c) \in Int
  BY <1>1 DEF Acquired, Sent, Waited, WrittenTo, Count
<1>3. /\ PipelineDepth \in Nat \ {0} /\ NIters \in Nat \ {0}
      /\ "put" \in BlockRoles /\ "recv" \in BlockRoles /\ Signalers \subseteq BlockRoles
      /\ Reducers \subseteq Signalers /\ "recv" \in Signalers /\ "put" \notin Signalers
      /\ "recv" \notin Reducers /\ "put" \notin Reducers /\ Reducers # {}
  BY PipelineAssumption DEF BlockRoles, Signalers
<1>. QED
  BY <1>2, <1>3

\* The counts after a step within an iteration.
LEMMA GotoCounts ==
  ASSUME ControlOK, NEW r \in PipelineRanks, NEW b \in BlockRoles, NEW l \in Labels(b) \ {"done", "set"},
         blockPc[r][b] # "done", Goto(r, b, l), launched' = launched, iter' = iter
  PROVE  /\ ControlOK' /\ blockPc'[r][b] = l
         /\ \A q \in PipelineRanks, c \in BlockRoles : q # r \/ c # b => blockPc'[q][c] = blockPc[q][c]
         /\ blockPc[r][b] \in {"acquire"} /\ l \in {"write", "signal"} => Counts(r, b, 0, 1, 0, 0, 0)
         /\ blockPc[r][b] = "signal" /\ l = "wait" => Counts(r, b, 0, 0, 1, 0, 0)
         /\ blockPc[r][b] = "wait" /\ l = "work" => Counts(r, b, 0, 0, 0, 1, 0)
         /\ blockPc[r][b] = "work" /\ l = "release" => Counts(r, b, 0, 0, 0, 0, 1)
         /\ blockPc[r][b] = "write" /\ l = "release" => Counts(r, b, 0, 0, 1, 1, 1)
         /\ blockPc[r][b] = "set" /\ l = "acquire" => Counts(r, b, 0, 0, 0, 0, 0)
<1>1. /\ ControlOK' /\ blockPc'[r][b] = l
      /\ \A q \in PipelineRanks, c \in BlockRoles : /\ Completed(q, c)' = Completed(q, c)
                                                    /\ q # r \/ c # b => blockPc'[q][c] = blockPc[q][c]
  BY GotoStep
<1>2. \A q \in PipelineRanks, c \in BlockRoles : Completed(q, c) \in Int
  BY CountsType
<1>3. CASE blockPc[r][b] = "acquire" /\ l \in {"write", "signal"}
  BY <1>1, <1>2, <1>3, SMTT(40) DEF Counts, Count, Acquired, Sent, Waited, WrittenTo
<1>4. CASE blockPc[r][b] = "signal" /\ l = "wait"
  BY <1>1, <1>2, <1>4 DEF Counts, Count, Acquired, Sent, Waited, WrittenTo
<1>5. CASE blockPc[r][b] = "wait" /\ l = "work"
  BY <1>1, <1>2, <1>5 DEF Counts, Count, Acquired, Sent, Waited, WrittenTo
<1>6. CASE blockPc[r][b] = "work" /\ l = "release"
  BY <1>1, <1>2, <1>6 DEF Counts, Count, Acquired, Sent, Waited, WrittenTo
<1>7. CASE blockPc[r][b] = "write" /\ l = "release"
  BY <1>1, <1>2, <1>7 DEF Counts, Count, Acquired, Sent, Waited, WrittenTo
<1>8. CASE blockPc[r][b] = "set" /\ l = "acquire"
  BY <1>1, <1>2, <1>8 DEF Counts, Count, Acquired, Sent, Waited, WrittenTo
<1>. QED
  BY <1>1, <1>3, <1>4, <1>5, <1>6, <1>7, <1>8

\* The counts after the end of an iteration: a PUT and a REDUCE block come from
\* "release", a RECV block from "work".
LEMMA IterCounts ==
  ASSUME ControlOK, NEW r \in PipelineRanks, NEW b \in BlockRoles,
         NextIter(r, b), launched' = launched
  PROVE  /\ blockPc[r][b] # "done" => ControlOK' /\ \A q \in PipelineRanks : q # r \/ b # "put" => blockPc'[q]["put"] = blockPc[q]["put"]
         /\ blockPc[r][b] \in {"work", "release"} => blockPc'[r][b] \in {"acquire", "done"}
         /\ blockPc[r][b] = "release" => Counts(r, b, 1, 0, 0, 0, 0)
         /\ blockPc[r][b] = "work" => Counts(r, b, 1, 0, 0, 0, 1)
<1>1. CASE blockPc[r][b] = "done"
  BY <1>1
<1>2. CASE blockPc[r][b] # "done"
  <2>1. /\ ControlOK' /\ blockPc'[r][b] \in {"acquire", "done"}
        /\ \A q \in PipelineRanks, c \in BlockRoles :
              /\ Completed(q, c)' = IF q = r /\ c = b THEN Completed(q, c) + 1 ELSE Completed(q, c)
              /\ q # r \/ c # b => blockPc'[q][c] = blockPc[q][c]
    BY <1>2, IterStep
  <2>2. "put" \in BlockRoles /\ \A q \in PipelineRanks, c \in BlockRoles : Completed(q, c) \in Int
    BY CountsType
  <2>3. CASE blockPc[r][b] = "release"
    BY <2>1, <2>2, <2>3 DEF Counts, Count, Acquired, Sent, Waited, WrittenTo
  <2>4. CASE blockPc[r][b] = "work"
    BY <2>1, <2>2, <2>4 DEF Counts, Count, Acquired, Sent, Waited, WrittenTo
  <2>. QED
    BY <2>1, <2>2, <2>3, <2>4
<1>. QED
  BY <1>1, <1>2

\* A launch keeps the invariant.
LEMMA InvLaunch ==
  ASSUME Inv, NEW r \in PipelineRanks, Launch(r)
  PROVE  Inv'
<1>0. ControlOK /\ DataOK /\ SemaphoresOK /\ SignalsOK /\ CellsOK
  BY DEF Inv
<1>1. /\ ControlOK'
      /\ \A b \in BlockRoles : blockPc[r][b] = "done" /\ blockPc'[r][b] = IF b = "put" THEN "set" ELSE "acquire"
      /\ \A q \in PipelineRanks, c \in BlockRoles : Completed(q, c)' = Completed(q, c) /\ (q # r => blockPc'[q][c] = blockPc[q][c])
  BY <1>0, LaunchStep
<1>2. /\ semaphoreForSend' = semaphoreForSend /\ semaphoreForReduce' = semaphoreForReduce
      /\ semaphoreForRecv' = semaphoreForRecv /\ signaled' = signaled /\ scatter' = scatter /\ gather' = gather
      /\ \A q \in PipelineRanks : q # r => launched'[q] = launched[q]
  BY <1>0 DEF Launch, ControlOK
<1>3. /\ "put" \in BlockRoles /\ "recv" \in BlockRoles /\ Signalers \subseteq BlockRoles /\ Reducers \subseteq BlockRoles
  BY DEF BlockRoles, Signalers
<1>4. ASSUME NEW q \in PipelineRanks, NEW c \in BlockRoles
      PROVE  /\ Completed(q, c)' = Completed(q, c) /\ Acquired(q, c)' = Acquired(q, c) /\ Sent(q, c)' = Sent(q, c)
             /\ Waited(q, c)' = Waited(q, c) /\ WrittenTo(q, c)' = WrittenTo(q, c)
  BY <1>1 DEF Count, Acquired, Sent, Waited, WrittenTo
<1>5. DataOK'
  BY <1>0, <1>2 DEF DataOK, Cells, Slots
<1>6. SemaphoresOK'
  BY <1>0, <1>1, <1>2, <1>3, <1>4 DEF SemaphoresOK
<1>7. SignalsOK'
  BY <1>0, <1>2, <1>3, <1>4 DEF SignalsOK
<1>8. CellsOK'
  BY <1>0, <1>2, <1>3, <1>4, CellsFrame
<1>. QED
  BY <1>1, <1>5, <1>6, <1>7, <1>8 DEF Inv

\* A step that touches no signal keeps what the signals say, unless it waits.
LEMMA SignalsFrame ==
  ASSUME ControlOK, SignalsOK, signaled' = signaled, NEW r, NEW b, NEW completed, NEW acquired,
         NEW sent, NEW waited, NEW written,
         Counts(r, b, completed, acquired, sent, waited, written), b = "put" \/ (sent = 0 /\ waited = 0)
  PROVE  SignalsOK'
<1>1. ASSUME NEW q \in PipelineRanks, NEW c \in Signalers PROVE Sent(q, c)' = Sent(q, c) /\ Waited(q, c)' = Waited(q, c)
  BY CountsType DEF Counts
<1>. QED
  BY <1>1 DEF SignalsOK

\* A step that writes no cell keeps what is written.
LEMMA WrittenFrame ==
  ASSUME ControlOK, CellsOK, UNCHANGED <<scatter, gather>>, NEW r, NEW b, NEW completed, NEW acquired,
         NEW sent, NEW waited, NEW written,
         Counts(r, b, completed, acquired, sent, waited, written), b = "recv" \/ written = 0
  PROVE  CellsOK'
<1>1. ASSUME NEW q \in PipelineRanks, NEW c \in {"put"} \cup Reducers PROVE WrittenTo(q, c)' = WrittenTo(q, c)
  BY CountsType DEF Counts
<1>. QED
  BY <1>1, CellsFrame

\* A step that moves neither a semaphore nor what the semaphores count.
LEMMA SemaphoresFrame ==
  ASSUME ControlOK, SemaphoresOK,
         UNCHANGED <<launched, semaphoreForSend, semaphoreForReduce, semaphoreForRecv>>, NEW r, NEW b,
         NEW sent, NEW waited, NEW written, Counts(r, b, 0, 0, sent, waited, written),
         \A q \in PipelineRanks : blockPc'[q]["put"] = "set" <=> blockPc[q]["put"] = "set"
  PROVE  SemaphoresOK'
<1>1. ASSUME NEW q \in PipelineRanks, NEW c \in BlockRoles
      PROVE Completed(q, c)' = Completed(q, c) /\ Acquired(q, c)' = Acquired(q, c)
  BY CountsType DEF Counts
<1>2. "put" \in BlockRoles /\ "recv" \in BlockRoles /\ Reducers \subseteq BlockRoles
  BY DEF BlockRoles
<1>. QED
  BY <1>1, <1>2 DEF SemaphoresOK

\* The PUT block sets its semaphore: nothing of the launch is under way yet.
LEMMA InvPutSet ==
  ASSUME Inv, NEW r \in PipelineRanks, PutSet(r)
  PROVE  Inv'
<1>0. ControlOK /\ DataOK /\ SemaphoresOK /\ SignalsOK /\ CellsOK
  BY DEF Inv
<1>1. /\ blockPc[r]["put"] = "set" /\ Goto(r, "put", "acquire") /\ launched' = launched /\ iter' = iter
      /\ semaphoreForSend' = [semaphoreForSend EXCEPT ![r] = PipelineDepth]
      /\ semaphoreForReduce' = semaphoreForReduce /\ semaphoreForRecv' = semaphoreForRecv
      /\ signaled' = signaled /\ scatter' = scatter /\ gather' = gather
  BY DEF PutSet
<1>2. /\ ControlOK' /\ blockPc'[r]["put"] = "acquire" /\ Counts(r, "put", 0, 0, 0, 0, 0)
      /\ \A q \in PipelineRanks : q # r => blockPc'[q]["put"] = blockPc[q]["put"]
  BY <1>0, <1>1, GotoCounts, CountsType DEF Labels
<1>3. semaphoreForSend \in [PipelineRanks -> Int] /\ PipelineDepth \in Int
  BY <1>0, PipelineAssumption DEF DataOK
<1>4. /\ semaphoreForSend' \in [PipelineRanks -> Int] /\ semaphoreForSend'[r] = PipelineDepth
      /\ \A q \in PipelineRanks : q # r => semaphoreForSend'[q] = semaphoreForSend[q]
  BY <1>1, <1>3
<1>5. DataOK'
  BY <1>0, <1>1, <1>4 DEF DataOK, Cells, Slots
<1>6. ASSUME NEW q \in PipelineRanks, NEW c \in BlockRoles
      PROVE  Completed(q, c)' = Completed(q, c) /\ Acquired(q, c)' = Acquired(q, c)
  BY <1>0, <1>2, CountsType DEF Counts
<1>7. Acquired(r, "put") = Completed(r, "recv")
  <2>1. Acquired(r, "put") = Completed(r, "put") /\ Completed(r, "put") <= Completed(r, "recv")
    <3>1. iter[r]["put"] = 0 /\ launched[r] # 0
      BY <1>0, <1>1, CountsType DEF ControlOK
    <3>2. Completed(r, "put") = Base(launched[r]) + 0
      BY <3>1 DEF Completed
    <3>3. Base(launched[r]) <= Completed(r, "recv") /\ Base(launched[r]) \in Int
      BY <3>1, <1>0, Bounds, BaseType, CountsType
    <3>. QED
      BY <3>2, <3>3, <1>1, <1>0, CountsType DEF Acquired, Count
  <2>2. PICK s \in Reducers : TRUE
    BY PipelineAssumption
  <2>3. Acquired(r, s) <= Completed(r, "put") /\ Acquired(r, "recv") <= Completed(r, s)
    BY <1>0 DEF SemaphoresOK
  <2>4. Completed(r, "recv") <= Acquired(r, "recv") /\ Completed(r, s) <= Acquired(r, s) /\ s \in BlockRoles
    BY <1>0, CountsType DEF Acquired, Count
  <2>. QED
    BY <2>1, <2>3, <2>4, <1>0, CountsType
<1>8. SemaphoresOK'
  <2> SUFFICES ASSUME NEW q \in PipelineRanks
               PROVE  /\ \A s \in Reducers :
                           /\ semaphoreForReduce[q][s] = Completed(q, "put")' - Acquired(q, s)'
                           /\ semaphoreForRecv[q][s] = Completed(q, s)' - Acquired(q, "recv")'
                           /\ Acquired(q, s)' <= Completed(q, "put")' /\ Acquired(q, "recv")' <= Completed(q, s)'
                      /\ Acquired(q, "put")' <= Completed(q, "recv")' + PipelineDepth
                      /\ launched[q] # 0 /\ blockPc'[q]["put"] # "set" =>
                           semaphoreForSend'[q] = PipelineDepth + Completed(q, "recv")' - Acquired(q, "put")'
    BY <1>1 DEF SemaphoresOK
  <2>1. CASE q = r
    BY <2>1, <1>0, <1>3, <1>4, <1>6, <1>7, CountsType DEF SemaphoresOK
  <2>2. CASE q # r
    BY <2>2, <1>0, <1>2, <1>4, <1>6, CountsType DEF SemaphoresOK
  <2>. QED
    BY <2>1, <2>2
<1>9. SignalsOK'
  BY <1>0, <1>1, <1>2, SignalsFrame
<1>10. CellsOK'
  BY <1>0, <1>1, <1>2, WrittenFrame
<1>. QED
  BY <1>2, <1>5, <1>8, <1>9, <1>10 DEF Inv

\* The PUT block acquires a stage.
LEMMA InvPutAcquire ==
  ASSUME Inv, NEW r \in PipelineRanks, PutAcquire(r)
  PROVE  Inv'
<1>0. ControlOK /\ DataOK /\ SemaphoresOK /\ SignalsOK /\ CellsOK
  BY DEF Inv
<1>1. /\ blockPc[r]["put"] = "acquire" /\ Goto(r, "put", "write") /\ launched' = launched /\ iter' = iter
      /\ semaphoreForSend[r] > 0 /\ semaphoreForSend' = [semaphoreForSend EXCEPT ![r] = @ - 1]
      /\ semaphoreForReduce' = semaphoreForReduce /\ semaphoreForRecv' = semaphoreForRecv
      /\ signaled' = signaled /\ scatter' = scatter /\ gather' = gather
  BY DEF PutAcquire
<1>2. /\ ControlOK' /\ blockPc'[r]["put"] = "write" /\ Counts(r, "put", 0, 1, 0, 0, 0)
      /\ \A q \in PipelineRanks : q # r => blockPc'[q]["put"] = blockPc[q]["put"]
  BY <1>0, <1>1, GotoCounts, CountsType DEF Labels
<1>3. semaphoreForSend \in [PipelineRanks -> Int]
  BY <1>0 DEF DataOK
<1>4. /\ semaphoreForSend' \in [PipelineRanks -> Int] /\ semaphoreForSend'[r] = semaphoreForSend[r] - 1
      /\ \A q \in PipelineRanks : q # r => semaphoreForSend'[q] = semaphoreForSend[q]
  BY <1>1, <1>3
<1>5. DataOK'
  BY <1>0, <1>1, <1>4 DEF DataOK, Cells, Slots
<1>6. ASSUME NEW q \in PipelineRanks, NEW c \in BlockRoles
      PROVE  /\ Completed(q, c)' = Completed(q, c)
             /\ Acquired(q, c)' = IF q = r /\ c = "put" THEN Acquired(q, c) + 1 ELSE Acquired(q, c)
  BY <1>0, <1>2, CountsType DEF Counts
<1>7. launched[r] # 0
  BY <1>0, <1>1, CountsType DEF ControlOK
<1>8. SemaphoresOK'
  <2> SUFFICES ASSUME NEW q \in PipelineRanks
               PROVE  /\ \A s \in Reducers :
                           /\ semaphoreForReduce[q][s] = Completed(q, "put")' - Acquired(q, s)'
                           /\ semaphoreForRecv[q][s] = Completed(q, s)' - Acquired(q, "recv")'
                           /\ Acquired(q, s)' <= Completed(q, "put")' /\ Acquired(q, "recv")' <= Completed(q, s)'
                      /\ Acquired(q, "put")' <= Completed(q, "recv")' + PipelineDepth
                      /\ launched[q] # 0 /\ blockPc'[q]["put"] # "set" =>
                           semaphoreForSend'[q] = PipelineDepth + Completed(q, "recv")' - Acquired(q, "put")'
    BY <1>1 DEF SemaphoresOK
  <2>1. CASE q = r
    BY <2>1, <1>0, <1>1, <1>3, <1>4, <1>6, <1>7, CountsType DEF SemaphoresOK
  <2>2. CASE q # r
    BY <2>2, <1>0, <1>2, <1>4, <1>6, CountsType DEF SemaphoresOK
  <2>. QED
    BY <2>1, <2>2
<1>9. SignalsOK'
  BY <1>0, <1>1, <1>2, SignalsFrame
<1>10. CellsOK'
  BY <1>0, <1>1, <1>2, WrittenFrame
<1>. QED
  BY <1>2, <1>5, <1>8, <1>9, <1>10 DEF Inv

\* The PUT block hands an iteration to its REDUCE blocks.
LEMMA InvPutRelease ==
  ASSUME Inv, NEW r \in PipelineRanks, PutRelease(r)
  PROVE  Inv'
<1>0. ControlOK /\ DataOK /\ SemaphoresOK /\ SignalsOK /\ CellsOK
  BY DEF Inv
<1>1. /\ blockPc[r]["put"] = "release" /\ NextIter(r, "put") /\ launched' = launched
      /\ semaphoreForReduce' = [semaphoreForReduce EXCEPT ![r] = [s \in Reducers |-> @[s] + 1]]
      /\ semaphoreForSend' = semaphoreForSend /\ semaphoreForRecv' = semaphoreForRecv
      /\ signaled' = signaled /\ scatter' = scatter /\ gather' = gather
  BY DEF PutRelease
<1>2. /\ ControlOK' /\ blockPc'[r]["put"] # "set" /\ Counts(r, "put", 1, 0, 0, 0, 0)
      /\ \A q \in PipelineRanks : q # r => blockPc'[q]["put"] = blockPc[q]["put"]
  BY <1>0, <1>1, IterCounts, CountsType
<1>3. semaphoreForReduce \in [PipelineRanks -> [Reducers -> Int]]
  BY <1>0 DEF DataOK
<1>4. /\ semaphoreForReduce' \in [PipelineRanks -> [Reducers -> Int]]
      /\ \A q \in PipelineRanks, s \in Reducers :
           semaphoreForReduce'[q][s] = IF q = r THEN semaphoreForReduce[q][s] + 1 ELSE semaphoreForReduce[q][s]
  BY <1>1, <1>3
<1>5. DataOK'
  BY <1>0, <1>1, <1>4 DEF DataOK, Cells, Slots
<1>6. ASSUME NEW q \in PipelineRanks, NEW c \in BlockRoles
      PROVE  /\ Completed(q, c)' = IF q = r /\ c = "put" THEN Completed(q, c) + 1 ELSE Completed(q, c)
             /\ Acquired(q, c)' = Acquired(q, c)
  BY <1>0, <1>2, CountsType DEF Counts
<1>7. SemaphoresOK'
  <2> SUFFICES ASSUME NEW q \in PipelineRanks
               PROVE  /\ \A s \in Reducers :
                           /\ semaphoreForReduce'[q][s] = Completed(q, "put")' - Acquired(q, s)'
                           /\ semaphoreForRecv[q][s] = Completed(q, s)' - Acquired(q, "recv")'
                           /\ Acquired(q, s)' <= Completed(q, "put")' /\ Acquired(q, "recv")' <= Completed(q, s)'
                      /\ Acquired(q, "put")' <= Completed(q, "recv")' + PipelineDepth
                      /\ launched[q] # 0 /\ blockPc'[q]["put"] # "set" =>
                           semaphoreForSend[q] = PipelineDepth + Completed(q, "recv")' - Acquired(q, "put")'
    BY <1>1, SMTT(40) DEF SemaphoresOK
  <2>1. CASE q = r
    BY <2>1, <1>0, <1>1, <1>3, <1>4, <1>6, CountsType DEF SemaphoresOK
  <2>2. CASE q # r
    BY <2>2, <1>0, <1>2, <1>4, <1>6, CountsType DEF SemaphoresOK
  <2>. QED
    BY <2>1, <2>2
<1>8. SignalsOK'
  BY <1>0, <1>1, <1>2, SignalsFrame
<1>9. CellsOK'
  BY <1>0, <1>1, <1>2, WrittenFrame
<1>. QED
  BY <1>2, <1>5, <1>7, <1>8, <1>9 DEF Inv

\* A REDUCE block takes over an iteration.
LEMMA InvReduceAcquire ==
  ASSUME Inv, NEW r \in PipelineRanks, NEW b \in Reducers, ReduceAcquire(r, b)
  PROVE  Inv'
<1>0. ControlOK /\ DataOK /\ SemaphoresOK /\ SignalsOK /\ CellsOK
  BY DEF Inv
<1>1. /\ blockPc[r][b] = "acquire" /\ Goto(r, b, "signal") /\ launched' = launched /\ iter' = iter
      /\ semaphoreForReduce[r][b] > 0 /\ semaphoreForReduce' = [semaphoreForReduce EXCEPT ![r][b] = @ - 1]
      /\ semaphoreForSend' = semaphoreForSend /\ semaphoreForRecv' = semaphoreForRecv
      /\ signaled' = signaled /\ scatter' = scatter /\ gather' = gather
  BY DEF ReduceAcquire
<1>2. /\ ControlOK' /\ Counts(r, b, 0, 1, 0, 0, 0) /\ b \in BlockRoles /\ b # "put" /\ b # "recv"
      /\ \A q \in PipelineRanks : blockPc'[q]["put"] = blockPc[q]["put"]
  BY <1>0, <1>1, GotoCounts, CountsType DEF Labels
<1>3. semaphoreForReduce \in [PipelineRanks -> [Reducers -> Int]]
  BY <1>0 DEF DataOK
<1>4. /\ semaphoreForReduce' \in [PipelineRanks -> [Reducers -> Int]]
      /\ \A q \in PipelineRanks, s \in Reducers :
           semaphoreForReduce'[q][s] = IF q = r /\ s = b THEN semaphoreForReduce[q][s] - 1 ELSE semaphoreForReduce[q][s]
  BY <1>1, <1>3
<1>5. DataOK'
  BY <1>0, <1>1, <1>4, SMTT(40) DEF DataOK, Cells, Slots
<1>6. ASSUME NEW q \in PipelineRanks, NEW c \in BlockRoles
      PROVE  /\ Completed(q, c)' = Completed(q, c)
             /\ Acquired(q, c)' = IF q = r /\ c = b THEN Acquired(q, c) + 1 ELSE Acquired(q, c)
  BY <1>0, <1>2, CountsType DEF Counts
<1>7. SemaphoresOK'
  <2> SUFFICES ASSUME NEW q \in PipelineRanks
               PROVE  /\ \A s \in Reducers :
                           /\ semaphoreForReduce'[q][s] = Completed(q, "put")' - Acquired(q, s)'
                           /\ semaphoreForRecv[q][s] = Completed(q, s)' - Acquired(q, "recv")'
                           /\ Acquired(q, s)' <= Completed(q, "put")' /\ Acquired(q, "recv")' <= Completed(q, s)'
                      /\ Acquired(q, "put")' <= Completed(q, "recv")' + PipelineDepth
                      /\ launched[q] # 0 /\ blockPc'[q]["put"] # "set" =>
                           semaphoreForSend[q] = PipelineDepth + Completed(q, "recv")' - Acquired(q, "put")'
    BY <1>1 DEF SemaphoresOK
  <2>1. ASSUME NEW s \in Reducers
        PROVE  /\ semaphoreForReduce'[q][s] = Completed(q, "put")' - Acquired(q, s)'
               /\ Acquired(q, s)' <= Completed(q, "put")'
    BY <1>0, <1>1, <1>3, <1>4, <1>6, CountsType DEF SemaphoresOK
  <2>. QED
    BY <2>1, <1>0, <1>2, <1>6, CountsType DEF SemaphoresOK
<1>8. SignalsOK'
  BY <1>0, <1>1, <1>2, SignalsFrame
<1>9. CellsOK'
  BY <1>0, <1>1, <1>2, WrittenFrame
<1>. QED
  BY <1>2, <1>5, <1>7, <1>8, <1>9 DEF Inv

\* A REDUCE block hands an iteration to the RECV block.
LEMMA InvReduceRelease ==
  ASSUME Inv, NEW r \in PipelineRanks, NEW b \in Reducers, ReduceRelease(r, b)
  PROVE  Inv'
<1>0. ControlOK /\ DataOK /\ SemaphoresOK /\ SignalsOK /\ CellsOK
  BY DEF Inv
<1>1. /\ blockPc[r][b] = "release" /\ NextIter(r, b) /\ launched' = launched
      /\ semaphoreForRecv' = [semaphoreForRecv EXCEPT ![r][b] = @ + 1]
      /\ semaphoreForSend' = semaphoreForSend /\ semaphoreForReduce' = semaphoreForReduce
      /\ signaled' = signaled /\ scatter' = scatter /\ gather' = gather
  BY DEF ReduceRelease
<1>2. /\ ControlOK' /\ Counts(r, b, 1, 0, 0, 0, 0) /\ b \in BlockRoles /\ b # "put" /\ b # "recv"
      /\ \A q \in PipelineRanks : blockPc'[q]["put"] = blockPc[q]["put"]
  BY <1>0, <1>1, IterCounts, CountsType
<1>3. semaphoreForRecv \in [PipelineRanks -> [Reducers -> Int]]
  BY <1>0 DEF DataOK
<1>4. /\ semaphoreForRecv' \in [PipelineRanks -> [Reducers -> Int]]
      /\ \A q \in PipelineRanks, s \in Reducers :
           semaphoreForRecv'[q][s] = IF q = r /\ s = b THEN semaphoreForRecv[q][s] + 1 ELSE semaphoreForRecv[q][s]
  BY <1>1, <1>3
<1>5. DataOK'
  BY <1>0, <1>1, <1>4 DEF DataOK, Cells, Slots
<1>6. ASSUME NEW q \in PipelineRanks, NEW c \in BlockRoles
      PROVE  /\ Completed(q, c)' = IF q = r /\ c = b THEN Completed(q, c) + 1 ELSE Completed(q, c)
             /\ Acquired(q, c)' = Acquired(q, c)
  BY <1>0, <1>2, CountsType DEF Counts
<1>7. SemaphoresOK'
  <2> SUFFICES ASSUME NEW q \in PipelineRanks
               PROVE  /\ \A s \in Reducers :
                           /\ semaphoreForReduce[q][s] = Completed(q, "put")' - Acquired(q, s)'
                           /\ semaphoreForRecv'[q][s] = Completed(q, s)' - Acquired(q, "recv")'
                           /\ Acquired(q, s)' <= Completed(q, "put")' /\ Acquired(q, "recv")' <= Completed(q, s)'
                      /\ Acquired(q, "put")' <= Completed(q, "recv")' + PipelineDepth
                      /\ launched[q] # 0 /\ blockPc'[q]["put"] # "set" =>
                           semaphoreForSend[q] = PipelineDepth + Completed(q, "recv")' - Acquired(q, "put")'
    BY <1>1 DEF SemaphoresOK
  <2>1. ASSUME NEW s \in Reducers
        PROVE  /\ semaphoreForRecv'[q][s] = Completed(q, s)' - Acquired(q, "recv")'
               /\ Acquired(q, "recv")' <= Completed(q, s)'
    BY <1>0, <1>3, <1>4, <1>6, CountsType DEF SemaphoresOK
  <2>. QED
    BY <2>1, <1>0, <1>2, <1>6, CountsType DEF SemaphoresOK
<1>8. SignalsOK'
  BY <1>0, <1>1, <1>2, SignalsFrame
<1>9. CellsOK'
  BY <1>0, <1>1, <1>2, WrittenFrame
<1>. QED
  BY <1>2, <1>5, <1>7, <1>8, <1>9 DEF Inv

\* The RECV block takes over an iteration that all REDUCE blocks have released.
LEMMA InvRecvAcquire ==
  ASSUME Inv, NEW r \in PipelineRanks, RecvAcquire(r)
  PROVE  Inv'
<1>0. ControlOK /\ DataOK /\ SemaphoresOK /\ SignalsOK /\ CellsOK
  BY DEF Inv
<1>1. /\ blockPc[r]["recv"] = "acquire" /\ Goto(r, "recv", "signal") /\ launched' = launched /\ iter' = iter
      /\ \A s \in Reducers : semaphoreForRecv[r][s] > 0
      /\ semaphoreForRecv' = [semaphoreForRecv EXCEPT ![r] = [s \in Reducers |-> @[s] - 1]]
      /\ semaphoreForSend' = semaphoreForSend /\ semaphoreForReduce' = semaphoreForReduce
      /\ signaled' = signaled /\ scatter' = scatter /\ gather' = gather
  BY DEF RecvAcquire
<1>2. /\ ControlOK' /\ Counts(r, "recv", 0, 1, 0, 0, 0)
      /\ \A q \in PipelineRanks : blockPc'[q]["put"] = blockPc[q]["put"]
  BY <1>0, <1>1, GotoCounts, CountsType DEF Labels
<1>3. semaphoreForRecv \in [PipelineRanks -> [Reducers -> Int]]
  BY <1>0 DEF DataOK
<1>4. /\ semaphoreForRecv' \in [PipelineRanks -> [Reducers -> Int]]
      /\ \A q \in PipelineRanks, s \in Reducers :
           semaphoreForRecv'[q][s] = IF q = r THEN semaphoreForRecv[q][s] - 1 ELSE semaphoreForRecv[q][s]
  BY <1>1, <1>3
<1>5. DataOK'
  BY <1>0, <1>1, <1>4 DEF DataOK, Cells, Slots
<1>6. ASSUME NEW q \in PipelineRanks, NEW c \in BlockRoles
      PROVE  /\ Completed(q, c)' = Completed(q, c)
             /\ Acquired(q, c)' = IF q = r /\ c = "recv" THEN Acquired(q, c) + 1 ELSE Acquired(q, c)
  BY <1>0, <1>2, CountsType DEF Counts
<1>7. SemaphoresOK'
  <2> SUFFICES ASSUME NEW q \in PipelineRanks
               PROVE  /\ \A s \in Reducers :
                           /\ semaphoreForReduce[q][s] = Completed(q, "put")' - Acquired(q, s)'
                           /\ semaphoreForRecv'[q][s] = Completed(q, s)' - Acquired(q, "recv")'
                           /\ Acquired(q, s)' <= Completed(q, "put")' /\ Acquired(q, "recv")' <= Completed(q, s)'
                      /\ Acquired(q, "put")' <= Completed(q, "recv")' + PipelineDepth
                      /\ launched[q] # 0 /\ blockPc'[q]["put"] # "set" =>
                           semaphoreForSend[q] = PipelineDepth + Completed(q, "recv")' - Acquired(q, "put")'
    BY <1>1 DEF SemaphoresOK
  <2>1. ASSUME NEW s \in Reducers
        PROVE  /\ semaphoreForRecv'[q][s] = Completed(q, s)' - Acquired(q, "recv")'
               /\ Acquired(q, "recv")' <= Completed(q, s)'
    BY <1>0, <1>1, <1>3, <1>4, <1>6, CountsType DEF SemaphoresOK
  <2>. QED
    BY <2>1, <1>0, <1>2, <1>6, CountsType DEF SemaphoresOK
<1>8. SignalsOK'
  BY <1>0, <1>1, <1>2, SignalsFrame
<1>9. CellsOK'
  BY <1>0, <1>1, <1>2, WrittenFrame
<1>. QED
  BY <1>2, <1>5, <1>7, <1>8, <1>9 DEF Inv

\* The RECV block frees a stage.
LEMMA InvRecvRelease ==
  ASSUME Inv, NEW r \in PipelineRanks, RecvRelease(r)
  PROVE  Inv'
<1>0. ControlOK /\ DataOK /\ SemaphoresOK /\ SignalsOK /\ CellsOK
  BY DEF Inv
<1>1. /\ blockPc[r]["recv"] = "work" /\ NextIter(r, "recv") /\ launched' = launched
      /\ semaphoreForSend' = [semaphoreForSend EXCEPT ![r] = @ + 1]
      /\ semaphoreForReduce' = semaphoreForReduce /\ semaphoreForRecv' = semaphoreForRecv
      /\ signaled' = signaled /\ scatter' = scatter /\ gather' = gather
  BY DEF RecvRelease
<1>2. /\ ControlOK' /\ Counts(r, "recv", 1, 0, 0, 0, 1)
      /\ \A q \in PipelineRanks : blockPc'[q]["put"] = blockPc[q]["put"]
  BY <1>0, <1>1, IterCounts, CountsType
<1>3. semaphoreForSend \in [PipelineRanks -> Int]
  BY <1>0 DEF DataOK
<1>4. /\ semaphoreForSend' \in [PipelineRanks -> Int]
      /\ \A q \in PipelineRanks : semaphoreForSend'[q] = IF q = r THEN semaphoreForSend[q] + 1 ELSE semaphoreForSend[q]
  BY <1>1, <1>3
<1>5. DataOK'
  BY <1>0, <1>1, <1>4 DEF DataOK, Cells, Slots
<1>6. ASSUME NEW q \in PipelineRanks, NEW c \in BlockRoles
      PROVE  /\ Completed(q, c)' = IF q = r /\ c = "recv" THEN Completed(q, c) + 1 ELSE Completed(q, c)
             /\ Acquired(q, c)' = Acquired(q, c)
  BY <1>0, <1>2, CountsType DEF Counts
<1>7. SemaphoresOK'
  <2> SUFFICES ASSUME NEW q \in PipelineRanks
               PROVE  /\ \A s \in Reducers :
                           /\ semaphoreForReduce[q][s] = Completed(q, "put")' - Acquired(q, s)'
                           /\ semaphoreForRecv[q][s] = Completed(q, s)' - Acquired(q, "recv")'
                           /\ Acquired(q, s)' <= Completed(q, "put")' /\ Acquired(q, "recv")' <= Completed(q, s)'
                      /\ Acquired(q, "put")' <= Completed(q, "recv")' + PipelineDepth
                      /\ launched[q] # 0 /\ blockPc'[q]["put"] # "set" =>
                           semaphoreForSend'[q] = PipelineDepth + Completed(q, "recv")' - Acquired(q, "put")'
    BY <1>1 DEF SemaphoresOK
  <2>1. CASE q = r
    BY <2>1, <1>0, <1>2, <1>3, <1>4, <1>6, CountsType DEF SemaphoresOK
  <2>2. CASE q # r
    BY <2>2, <1>0, <1>2, <1>4, <1>6, CountsType DEF SemaphoresOK
  <2>. QED
    BY <2>1, <2>2
<1>8. SignalsOK'
  BY <1>0, <1>1, <1>2, SignalsFrame
<1>9. CellsOK'
  BY <1>0, <1>1, <1>2, WrittenFrame
<1>. QED
  BY <1>2, <1>5, <1>7, <1>8, <1>9 DEF Inv

\* A block signals its counterparts.
LEMMA InvSignal ==
  ASSUME Inv, NEW r \in PipelineRanks, NEW b \in Signalers, Signal(r, b)
  PROVE  Inv'
<1>0. ControlOK /\ DataOK /\ SemaphoresOK /\ SignalsOK /\ CellsOK
  BY DEF Inv
<1>1. /\ blockPc[r][b] = "signal" /\ Goto(r, b, "wait") /\ launched' = launched /\ iter' = iter
      /\ signaled' = [signaled EXCEPT ![r][b] = @ + 1]
      /\ semaphoreForSend' = semaphoreForSend /\ semaphoreForReduce' = semaphoreForReduce
      /\ semaphoreForRecv' = semaphoreForRecv /\ scatter' = scatter /\ gather' = gather
  BY DEF Signal
<1>2. /\ ControlOK' /\ Counts(r, b, 0, 0, 1, 0, 0) /\ b \in BlockRoles
      /\ \A q \in PipelineRanks : blockPc'[q]["put"] = blockPc[q]["put"]
  BY <1>0, <1>1, GotoCounts, CountsType DEF Labels
<1>3. signaled \in [PipelineRanks -> [BlockRoles -> Int]]
  BY <1>0 DEF DataOK
<1>4. /\ signaled' \in [PipelineRanks -> [BlockRoles -> Int]]
      /\ \A q \in PipelineRanks, c \in BlockRoles :
           signaled'[q][c] = IF q = r /\ c = b THEN signaled[q][c] + 1 ELSE signaled[q][c]
  BY <1>1, <1>2, <1>3
<1>5. DataOK'
  BY <1>0, <1>1, <1>4 DEF DataOK, Cells, Slots
<1>6. SemaphoresOK'
  BY <1>0, <1>1, <1>2, SemaphoresFrame
<1>7. ASSUME NEW q \in PipelineRanks, NEW c \in Signalers
      PROVE  /\ Waited(q, c)' = Waited(q, c)
             /\ Sent(q, c)' = IF q = r /\ c = b THEN Sent(q, c) + 1 ELSE Sent(q, c)
  BY <1>0, <1>2, CountsType DEF Counts
<1>8. SignalsOK'
  <2> SUFFICES ASSUME NEW q \in PipelineRanks, NEW c \in Signalers
               PROVE  /\ signaled'[q][c] = Sent(q, c)'
                      /\ \A p \in PipelineRanks \ {q} : Waited(p, c)' <= Sent(q, c)'
    BY DEF SignalsOK
  <2>1. c \in BlockRoles /\ Sent(q, c) \in Int /\ \A p \in PipelineRanks : Waited(p, c) \in Int
    BY <1>0, CountsType
  <2>2. signaled[q][c] = Sent(q, c) /\ \A p \in PipelineRanks \ {q} : Waited(p, c) <= Sent(q, c)
    BY <1>0 DEF SignalsOK
  <2>. QED
    BY <2>1, <2>2, <1>4, <1>7
<1>9. CellsOK'
  BY <1>0, <1>1, <1>2, WrittenFrame
<1>. QED
  BY <1>2, <1>5, <1>6, <1>8, <1>9 DEF Inv

\* A block has the signals of its counterparts.
LEMMA InvWait ==
  ASSUME Inv, NEW r \in PipelineRanks, NEW b \in Signalers, Wait(r, b)
  PROVE  Inv'
<1>0. ControlOK /\ DataOK /\ SemaphoresOK /\ SignalsOK /\ CellsOK
  BY DEF Inv
<1>1. /\ blockPc[r][b] = "wait" /\ Goto(r, b, "work") /\ launched' = launched /\ iter' = iter
      /\ \A p \in PipelineRanks \ {r} : signaled[p][b] >= Now(r, b)
      /\ signaled' = signaled
      /\ semaphoreForSend' = semaphoreForSend /\ semaphoreForReduce' = semaphoreForReduce
      /\ semaphoreForRecv' = semaphoreForRecv /\ scatter' = scatter /\ gather' = gather
  BY DEF Wait
<1>2. /\ ControlOK' /\ Counts(r, b, 0, 0, 0, 1, 0) /\ b \in BlockRoles
      /\ \A q \in PipelineRanks : blockPc'[q]["put"] = blockPc[q]["put"]
  BY <1>0, <1>1, GotoCounts, CountsType DEF Labels
<1>3. DataOK'
  BY <1>0, <1>1, SMTT(40) DEF DataOK, Cells, Slots
<1>4. SemaphoresOK'
  BY <1>0, <1>1, <1>2, SemaphoresFrame
<1>5. ASSUME NEW q \in PipelineRanks, NEW c \in Signalers
      PROVE  /\ Waited(q, c)' = IF q = r /\ c = b THEN Waited(q, c) + 1 ELSE Waited(q, c)
             /\ Sent(q, c)' = Sent(q, c)
  BY <1>0, <1>2, CountsType DEF Counts
<1>6. Waited(r, b) + 1 = Now(r, b)
  BY <1>0, <1>1, <1>2, Bounds DEF Waited, Count
<1>7. SignalsOK'
  <2> SUFFICES ASSUME NEW q \in PipelineRanks, NEW c \in Signalers
               PROVE  /\ signaled[q][c] = Sent(q, c)'
                      /\ \A p \in PipelineRanks \ {q} : Waited(p, c)' <= Sent(q, c)'
    BY <1>1 DEF SignalsOK
  <2>1. signaled[q][c] = Sent(q, c) /\ \A p \in PipelineRanks \ {q} : Waited(p, c) <= Sent(q, c)
    BY <1>0 DEF SignalsOK
  <2>2. ASSUME NEW p \in PipelineRanks \ {q} PROVE Waited(p, c)' <= Sent(q, c)'
    <3>1. CASE p = r /\ c = b
      <4>1. signaled[q][b] >= Now(r, b)
        BY <3>1, <1>1
      <4>2. Waited(r, b) \in Int /\ Sent(q, b) \in Int
        BY <1>0, <1>2, CountsType
      <4>. QED
        BY <4>1, <4>2, <3>1, <2>1, <1>5, <1>6
    <3>2. CASE ~(p = r /\ c = b)
      BY <3>2, <2>1, <1>5
    <3>. QED
      BY <3>1, <3>2
  <2>. QED
    BY <2>1, <2>2, <1>5
<1>8. CellsOK'
  BY <1>0, <1>1, <1>2, WrittenFrame
<1>. QED
  BY <1>2, <1>3, <1>4, <1>7, <1>8 DEF Inv

\* The PUT block writes its iteration to the scratch buffers of the peers.
LEMMA InvPutWrite ==
  ASSUME Inv, NEW r \in PipelineRanks, PutWrite(r)
  PROVE  Inv'
<1>0. ControlOK /\ DataOK /\ SemaphoresOK /\ SignalsOK /\ CellsOK
  BY DEF Inv
<1>1. /\ blockPc[r]["put"] = "write" /\ Goto(r, "put", "release") /\ launched' = launched /\ iter' = iter
      /\ scatter' = [q \in PipelineRanks |-> IF q = r THEN scatter[q] ELSE
                       [scatter[q] EXCEPT ![Slot(r, "put")][r] = [s \in Reducers |-> Now(r, "put")]]]
      /\ semaphoreForSend' = semaphoreForSend /\ semaphoreForReduce' = semaphoreForReduce
      /\ semaphoreForRecv' = semaphoreForRecv /\ signaled' = signaled /\ gather' = gather
  BY DEF PutWrite
<1>2. /\ ControlOK' /\ Counts(r, "put", 0, 0, 1, 1, 1)
      /\ \A q \in PipelineRanks : blockPc'[q]["put"] = "set" <=> blockPc[q]["put"] = "set"
  <2>1. "release" \in Labels("put") \ {"done", "set"}
    BY SMTT(40) DEF Labels
  <2>2. /\ ControlOK' /\ blockPc'[r]["put"] = "release" /\ Counts(r, "put", 0, 0, 1, 1, 1)
        /\ \A q \in PipelineRanks : q # r => blockPc'[q]["put"] = blockPc[q]["put"]
    BY <2>1, <1>0, <1>1, GotoCounts, CountsType
  <2>. QED
    BY <2>2, <1>1
<1>3. PICK m \in Nat \ {0}, t \in 0 .. NIters - 1 :
        /\ m = launched[r] /\ t = iter[r]["put"] /\ WrittenTo(r, "put") = Base(m) + t /\ Now(r, "put") = Base(m) + t + 1
        /\ Base(m) \in Int
  <2>1. /\ launched[r] \in Nat \ {0} /\ iter[r]["put"] \in 0 .. NIters - 1 /\ Base(launched[r]) \in Int
        /\ Completed(r, "put") = Base(launched[r]) + iter[r]["put"] /\ Now(r, "put") = Completed(r, "put") + 1
    BY <1>0, <1>1, Bounds, BaseType, CountsType
  <2>2. WrittenTo(r, "put") = Completed(r, "put")
    BY <2>1, <1>1 DEF WrittenTo, Count
  <2>. QED
    BY <2>1, <2>2
<1>4. PICK z \in Slots : z = t % PipelineDepth /\ z = Slot(r, "put")
  BY <1>3, PipelineAssumption DEF Slot, Slots
<1>5. scatter \in Cells /\ Now(r, "put") \in Int
  BY <1>0, <1>3 DEF DataOK
<1>6. [s \in Reducers |-> Now(r, "put")] \in [Reducers -> Int]
  BY <1>5
<1>7. /\ scatter' \in Cells
      /\ \A q \in PipelineRanks \ {r}, s \in Reducers : scatter'[q][z][r][s] = Now(r, "put")
      /\ \A q \in PipelineRanks, x \in Slots, p \in PipelineRanks : p # r \/ x # z => scatter'[q][x][p] = scatter[q][x][p]
  BY <1>1, <1>4, <1>5, <1>6, SMTT(40) DEF Cells
<1>8. DataOK'
  <2>1. gather' \in Cells' /\ scatter' \in Cells'
    BY <1>0, <1>1, <1>7 DEF DataOK, Cells, Slots
  <2>. QED
    BY <2>1, <1>0, <1>1 DEF DataOK
<1>9. SemaphoresOK'
  BY <1>0, <1>1, <1>2, SemaphoresFrame
<1>10. SignalsOK'
  BY <1>0, <1>1, <1>2, SignalsFrame, SMTT(40)
<1>11. CellsOK'
  <2> SUFFICES ASSUME NEW p \in PipelineRanks, NEW q \in PipelineRanks \ {p}, NEW s \in Reducers, NEW k \in Nat \ {0},
                      NEW j \in 0 .. NIters - 1
               PROVE  /\ Kept(WrittenTo(p, "put"), k, j)' => scatter'[q][j % PipelineDepth][p][s] = Base(k) + j + 1
                      /\ Kept(WrittenTo(p, s), k, j)' => gather'[q][j % PipelineDepth][p][s] = Base(k) + j + 1
    BY ZenonT(40) DEF CellsOK
  <2>1. /\ WrittenTo(p, s)' = WrittenTo(p, s)
        /\ WrittenTo(p, "put")' = IF p = r THEN WrittenTo(p, "put") + 1 ELSE WrittenTo(p, "put")
    BY <1>0, <1>2, CountsType DEF Counts
  <2>2. /\ Kept(WrittenTo(p, s), k, j)' = Kept(WrittenTo(p, s), k, j)
        /\ Kept(WrittenTo(p, "put"), k, j)' = Kept(IF p = r THEN WrittenTo(p, "put") + 1 ELSE WrittenTo(p, "put"), k, j)
    BY <2>1 DEF Kept, Base
  <2>3. j % PipelineDepth \in Slots
    BY PipelineAssumption DEF Slots
  <2>4. ASSUME p = r, Kept(WrittenTo(p, "put") + 1, k, j)
        PROVE  scatter'[q][j % PipelineDepth][p][s] = Base(k) + j + 1
    <3>1. PICK w : w = Base(m) + t
      OBVIOUS
    <3>2. Kept(w + 1, k, j)
      BY <3>1, <2>4, <1>3
    <3>3. \/ k = m /\ j = t /\ Base(k) + j + 1 = w + 1
          \/ Kept(w, k, j) /\ j % PipelineDepth # t % PipelineDepth
      BY <3>1, <3>2, WriteKeeps
    <3>4. CASE k = m /\ j = t
      BY <3>4, <2>4, <1>3, <1>4, <1>7
    <3>5. CASE Kept(w, k, j) /\ j % PipelineDepth # t % PipelineDepth
      <4>1. scatter[q][j % PipelineDepth][p][s] = Base(k) + j + 1
        BY <3>1, <3>5, <2>4, <1>0, <1>3 DEF CellsOK
      <4>. QED
        BY <4>1, <3>5, <2>3, <1>4, <1>7, SMTT(40)
    <3>. QED
      BY <3>3, <3>4, <3>5
  <2>5. ASSUME p # r, Kept(WrittenTo(p, "put"), k, j)
        PROVE  scatter'[q][j % PipelineDepth][p][s] = Base(k) + j + 1
    <3>1. scatter[q][j % PipelineDepth][p][s] = Base(k) + j + 1
      BY <2>5, <1>0 DEF CellsOK
    <3>. QED
      BY <3>1, <2>3, <2>5, <1>7, SMTT(40)
  <2>6. Kept(WrittenTo(p, s), k, j) => gather[q][j % PipelineDepth][p][s] = Base(k) + j + 1
    BY <1>0, ZenonT(40) DEF CellsOK
  <2>. QED
    BY <2>2, <2>4, <2>5, <2>6, <1>1
<1>. QED
  BY <1>2, <1>8, <1>9, <1>10, <1>11 DEF Inv

\* A REDUCE block writes its result to the scratch buffers of the peers.
LEMMA InvReduceWrite ==
  ASSUME Inv, NEW r \in PipelineRanks, NEW b \in Reducers, ReduceWrite(r, b)
  PROVE  Inv'
<1>0. ControlOK /\ DataOK /\ SemaphoresOK /\ SignalsOK /\ CellsOK /\ b \in BlockRoles /\ b # "put" /\ b # "recv"
  BY CountsType DEF Inv
<1>1. /\ blockPc[r][b] = "work" /\ Goto(r, b, "release") /\ launched' = launched /\ iter' = iter
      /\ gather' = [q \in PipelineRanks |-> IF q = r THEN gather[q]
                      ELSE [gather[q] EXCEPT ![Slot(r, b)][r][b] = Now(r, b)]]
      /\ semaphoreForSend' = semaphoreForSend /\ semaphoreForReduce' = semaphoreForReduce
      /\ semaphoreForRecv' = semaphoreForRecv /\ signaled' = signaled /\ scatter' = scatter
  BY DEF ReduceWrite
<1>2. /\ ControlOK' /\ Counts(r, b, 0, 0, 0, 0, 1)
      /\ \A q \in PipelineRanks : blockPc'[q]["put"] = blockPc[q]["put"]
  BY <1>0, <1>1, GotoCounts, CountsType DEF Labels
<1>3. PICK m \in Nat \ {0}, t \in 0 .. NIters - 1 :
        /\ m = launched[r] /\ t = iter[r][b] /\ WrittenTo(r, b) = Base(m) + t /\ Now(r, b) = Base(m) + t + 1
        /\ Base(m) \in Int
  <2>1. /\ launched[r] \in Nat \ {0} /\ iter[r][b] \in 0 .. NIters - 1 /\ Base(launched[r]) \in Int
        /\ Completed(r, b) = Base(launched[r]) + iter[r][b] /\ Now(r, b) = Completed(r, b) + 1
    <3>1. /\ launched[r] \in Nat \ {0} /\ iter[r][b] \in 0 .. NIters - 1
          /\ Completed(r, b) = Base(launched[r]) + iter[r][b] /\ Now(r, b) = Completed(r, b) + 1
      BY <1>0, <1>1, Bounds, SMTT(40)
    <3>2. Base(launched[r]) \in Int
      BY <3>1, BaseType, SMTT(40)
    <3>. QED
      BY <3>1, <3>2
  <2>2. WrittenTo(r, b) = Completed(r, b)
    BY <2>1, <1>1 DEF WrittenTo, Count
  <2>. QED
    BY <2>1, <2>2, SMTT(40)
<1>4. PICK z \in Slots : z = t % PipelineDepth /\ z = Slot(r, b)
  BY <1>3, PipelineAssumption DEF Slot, Slots
<1>5. gather \in Cells /\ Now(r, b) \in Int
  BY <1>0, <1>3 DEF DataOK
<1>6. /\ gather' \in Cells
      /\ \A q \in PipelineRanks \ {r} : gather'[q][z][r][b] = Now(r, b)
      /\ \A q \in PipelineRanks, x \in Slots, p \in PipelineRanks, s \in Reducers :
           p # r \/ x # z \/ s # b => gather'[q][x][p][s] = gather[q][x][p][s]
  BY <1>1, <1>4, <1>5 DEF Cells
<1>7. DataOK'
  <2>1. gather' \in Cells' /\ scatter' \in Cells'
    BY <1>0, <1>1, <1>6, ZenonT(40) DEF DataOK, Cells, Slots
  <2>. QED
    BY <2>1, <1>0, <1>1 DEF DataOK
<1>8. SemaphoresOK'
  BY <1>0, <1>1, <1>2, SemaphoresFrame, ZenonT(40)
<1>9. SignalsOK'
  BY <1>0, <1>1, <1>2, SignalsFrame, SMTT(40)
<1>10. CellsOK'
  <2> SUFFICES ASSUME NEW p \in PipelineRanks, NEW q \in PipelineRanks \ {p}, NEW s \in Reducers, NEW k \in Nat \ {0},
                      NEW j \in 0 .. NIters - 1
               PROVE  /\ Kept(WrittenTo(p, "put"), k, j)' => scatter'[q][j % PipelineDepth][p][s] = Base(k) + j + 1
                      /\ Kept(WrittenTo(p, s), k, j)' => gather'[q][j % PipelineDepth][p][s] = Base(k) + j + 1
    BY ZenonT(40) DEF CellsOK
  <2>1. /\ WrittenTo(p, "put")' = WrittenTo(p, "put")
        /\ WrittenTo(p, s)' = IF p = r /\ s = b THEN WrittenTo(p, s) + 1 ELSE WrittenTo(p, s)
    BY <1>0, <1>2, CountsType DEF Counts
  <2>2. /\ Kept(WrittenTo(p, "put"), k, j)' = Kept(WrittenTo(p, "put"), k, j)
        /\ Kept(WrittenTo(p, s), k, j)' = Kept(IF p = r /\ s = b THEN WrittenTo(p, s) + 1 ELSE WrittenTo(p, s), k, j)
    BY <2>1 DEF Kept, Base
  <2>3. j % PipelineDepth \in Slots
    BY PipelineAssumption DEF Slots
  <2>4. ASSUME p = r, s = b, Kept(WrittenTo(p, s) + 1, k, j)
        PROVE  gather'[q][j % PipelineDepth][p][s] = Base(k) + j + 1
    <3>1. PICK w : w = Base(m) + t
      OBVIOUS
    <3>2. Kept(w + 1, k, j)
      BY <3>1, <2>4, <1>3
    <3>3. \/ k = m /\ j = t /\ Base(k) + j + 1 = w + 1
          \/ Kept(w, k, j) /\ j % PipelineDepth # t % PipelineDepth
      BY <3>1, <3>2, WriteKeeps, SMTT(40)
    <3>4. CASE k = m /\ j = t
      BY <3>4, <2>4, <1>3, <1>4, <1>6
    <3>5. CASE Kept(w, k, j) /\ j % PipelineDepth # t % PipelineDepth
      <4>1. gather[q][j % PipelineDepth][p][s] = Base(k) + j + 1
        BY <3>1, <3>5, <2>4, <1>0, <1>3 DEF CellsOK
      <4>. QED
        BY <4>1, <3>5, <2>3, <1>4, <1>6, SMTT(40)
    <3>. QED
      BY <3>3, <3>4, <3>5
  <2>5. ASSUME p # r \/ s # b, Kept(WrittenTo(p, s), k, j)
        PROVE  gather'[q][j % PipelineDepth][p][s] = Base(k) + j + 1
    <3>1. gather[q][j % PipelineDepth][p][s] = Base(k) + j + 1
      BY <2>5, <1>0 DEF CellsOK
    <3>. QED
      BY <3>1, <2>3, <2>5, <1>6, SMTT(40)
  <2>6. Kept(WrittenTo(p, "put"), k, j) => scatter[q][j % PipelineDepth][p][s] = Base(k) + j + 1
    BY <1>0, ZenonT(40) DEF CellsOK
  <2>. QED
    BY <2>2, <2>4, <2>5, <2>6, <1>1
<1>. QED
  BY <1>2, <1>7, <1>8, <1>9, <1>10 DEF Inv

\* Initially no rank has launched, and nothing is counted.
LEMMA InvInit == ASSUME PipelineInit PROVE Inv
<1>1. /\ launched = [r \in PipelineRanks |-> 0] /\ blockPc = [r \in PipelineRanks |-> [b \in BlockRoles |-> "done"]]
      /\ iter = [r \in PipelineRanks |-> [b \in BlockRoles |-> 0]]
      /\ semaphoreForSend = [r \in PipelineRanks |-> 0]
      /\ semaphoreForReduce = [r \in PipelineRanks |-> [s \in Reducers |-> 0]]
      /\ semaphoreForRecv = [r \in PipelineRanks |-> [s \in Reducers |-> 0]]
      /\ signaled = [r \in PipelineRanks |-> [b \in BlockRoles |-> 0]]
      /\ scatter = Empty /\ gather = Empty
  BY DEF PipelineInit
<1>2. NIters \in Nat \ {0} /\ PipelineDepth \in Nat \ {0}
  BY PipelineAssumption
<1>3. ControlOK
  BY <1>1, <1>2 DEF ControlOK, AllLabels, Labels
<1>4. Empty \in Cells
  BY DEF Empty, Cells
<1>5. DataOK
  BY <1>1, <1>4 DEF DataOK
<1>6. ASSUME NEW r \in PipelineRanks, NEW b \in BlockRoles
      PROVE  /\ Completed(r, b) = 0 /\ Acquired(r, b) = 0 /\ Sent(r, b) = 0
             /\ Waited(r, b) = 0 /\ WrittenTo(r, b) = 0
  BY <1>1 DEF Completed, Acquired, Sent, Waited, WrittenTo, Count
<1>7. "put" \in BlockRoles /\ "recv" \in BlockRoles /\ Reducers \subseteq BlockRoles /\ Signalers \subseteq BlockRoles
  BY DEF BlockRoles, Signalers
<1>8. SemaphoresOK
  <2> SUFFICES ASSUME NEW r \in PipelineRanks
               PROVE  /\ \A s \in Reducers :
                           /\ semaphoreForReduce[r][s] = Completed(r, "put") - Acquired(r, s)
                           /\ semaphoreForRecv[r][s] = Completed(r, s) - Acquired(r, "recv")
                           /\ Acquired(r, s) <= Completed(r, "put") /\ Acquired(r, "recv") <= Completed(r, s)
                      /\ Acquired(r, "put") <= Completed(r, "recv") + PipelineDepth
                      /\ launched[r] = 0
    BY DEF SemaphoresOK
  <2>1. ASSUME NEW s \in Reducers PROVE semaphoreForReduce[r][s] = 0 /\ semaphoreForRecv[r][s] = 0 /\ s \in BlockRoles
    BY <1>1, <1>7
  <2>. QED
    BY <2>1, <1>1, <1>2, <1>6, <1>7
<1>9. SignalsOK
  BY <1>1, <1>6, <1>7 DEF SignalsOK
<1>10. ASSUME NEW k \in Nat \ {0}, NEW j \in 0 .. NIters - 1 PROVE ~Kept(0, k, j)
  <2>1. Base(k) \in Nat
    BY <1>2 DEF Base
  <2>. QED
    BY <2>1 DEF Kept
<1>11. CellsOK
  BY <1>6, <1>7, <1>10 DEF CellsOK
<1>. QED
  BY <1>3, <1>5, <1>8, <1>9, <1>11 DEF Inv

\* Every step of every rank keeps the invariant.
LEMMA InvStep == ASSUME Inv, [PipelineNext]_pipelineVars PROVE Inv'
<1>1. ASSUME NEW r \in PipelineRanks, RankStep(r) PROVE Inv'
  <2>1. CASE Launch(r)
    BY <2>1, InvLaunch
  <2>2. CASE PutSet(r) \/ PutAcquire(r) \/ PutWrite(r) \/ PutRelease(r)
    BY <2>2, InvPutSet, InvPutAcquire, InvPutWrite, InvPutRelease
  <2>3. CASE RecvAcquire(r) \/ RecvRelease(r)
    BY <2>3, InvRecvAcquire, InvRecvRelease
  <2>4. ASSUME NEW s \in Reducers, ReduceAcquire(r, s) \/ ReduceWrite(r, s) \/ ReduceRelease(r, s) PROVE Inv'
    BY <2>4, InvReduceAcquire, InvReduceWrite, InvReduceRelease
  <2>5. ASSUME NEW b \in Signalers, Signal(r, b) \/ Wait(r, b) PROVE Inv'
    BY <2>5, InvSignal, InvWait
  <2>. QED
    BY <2>1, <2>2, <2>3, <2>4, <2>5, <1>1 DEF RankStep, Signalers
<1>2. CASE UNCHANGED pipelineVars
  <2>1. /\ launched' = launched /\ blockPc' = blockPc /\ iter' = iter /\ signaled' = signaled /\ scatter' = scatter /\ gather' = gather
        /\ semaphoreForSend' = semaphoreForSend /\ semaphoreForReduce' = semaphoreForReduce
        /\ semaphoreForRecv' = semaphoreForRecv
    BY <1>2 DEF pipelineVars
  <2>2. /\ \A q, c : Completed(q, c)' = Completed(q, c) /\ Acquired(q, c)' = Acquired(q, c) /\ Sent(q, c)' = Sent(q, c)
        /\ \A q, c : Waited(q, c)' = Waited(q, c) /\ WrittenTo(q, c)' = WrittenTo(q, c)
    BY <2>1 DEF Completed, Acquired, Sent, Waited, WrittenTo, Count, Base
  <2>3. ControlOK' /\ DataOK'
    BY <2>1, SMTT(40) DEF Inv, ControlOK, DataOK, Cells, Slots
  <2>4. SemaphoresOK' /\ SignalsOK'
    BY <2>1, <2>2 DEF Inv, SemaphoresOK, SignalsOK
  <2>5. CellsOK'
    BY <2>1, <2>2, CellsFrame DEF Inv
  <2>. QED
    BY <2>3, <2>4, <2>5 DEF Inv
<1>. QED
  BY <1>1, <1>2 DEF PipelineNext

\* ReadsOwnIteration, for any number of ranks, REDUCE blocks, stages, iterations and
\* launches: a stage of the scratch buffer is not overwritten while it is read, and is
\* not read before it is written, also across launches that the ranks start at
\* different times.
THEOREM PipelineReads == PipelineSpec => []ReadsOwnIteration
<1>1. PipelineInit => Inv
  BY InvInit
<1>2. Inv /\ [PipelineNext]_pipelineVars => Inv'
  BY InvStep
<1>3. Inv => ReadsOwnIteration
  BY ReadsOwn
<1>. QED
  BY <1>1, <1>2, <1>3, PTL DEF PipelineSpec
=============================================================================
