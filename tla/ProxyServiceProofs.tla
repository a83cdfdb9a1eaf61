------------------------- MODULE ProxyServiceProofs -------------------------
(***************************************************************************)
(* Data lands before waitFlush() returns, for any number of threads,       *)
(* connections, queues, semaphores and pushes.                             *)
(***************************************************************************)
EXTENDS ProxyService, TLAPS

Ops == [kind : {"write"}, pos : Int] \cup [kind : {"signal"}, sem : Sems, old : Int, val : Int]

\* A write of the data of position i is among the first n operations of queue q.
Written(i, q, n) == \E m \in 1 .. n : sq[q][m].kind = "write" /\ sq[q][m].pos = i

\* Position i holds data for connection c.
IsData(i, c) == ConnOf(pushed[i + 1]) = c /\ "data" \in pushed[i + 1].type

\* The data of position i, on connection c, has landed or will, with what is queued.
OnItsWay(i, c) == i \in landed \/ Written(i, QueueOf[c], Len(sq[QueueOf[c]]))

TypeOK ==
  /\ pushed \in Seq(Triggers) /\ handled \in Seq(Triggers)
  /\ Len(handled) <= Len(pushed) /\ Len(pushed) <= MaxPush
  /\ sq \in [Queues -> Seq(Ops)]
  /\ cq \in [Queues -> Nat] /\ numPosted \in [Queues -> Nat]
  /\ pendingFlushPos \in [Conns -> Int] /\ flushDone \in [Conns -> Int]
  /\ \A c \in Conns : pendingFlushPos[c] # None => pendingFlushPos[c] \in 0 .. Len(handled) - 1
  /\ service \in {"flush", "requestFlush"} => Len(handled) > 0

\* What was handled has landed or is queued.  A QP counts what is queued or completed;
\* a stream that is not dirty is empty, and was when a flush of it was recorded.
QueuesOK ==
  /\ \A c \in Conns, i \in 0 .. Len(handled) - 1 : IsData(i, c) => OnItsWay(i, c)
  /\ \A q \in Queues : IF IbQueue(q) THEN numPosted[q] = Len(sq[q]) + cq[q]
                                     ELSE numPosted[q] = 0 => sq[q] = <<>>
  /\ \A c \in Conns \ Ib, i \in Int : i \in 0 .. pendingFlushPos[c] /\ IsData(i, c) => i \in landed

QInv == TypeOK /\ QueuesOK

TokenTypes == outboundToken \in [Sems -> Nat]

\* No proxy thread runs while the value stopProxy() released its waiters with is in place.
NoStaleSentinel == running => \A c \in Conns : flushDone[c] # Sentinel

\* What a published position stands for, and whom a sentinel releases.
PublishedOK ==
  \A c \in Conns :
    IF flushDone[c] = Sentinel
      THEN \A p \in 0 .. Len(pushed) - 1 : ConnOf(pushed[p + 1]) = c => p \in forced
      ELSE /\ flushDone[c] <= Len(handled)
           /\ \A i \in 0 .. Len(handled) - 1 : i < flushDone[c] /\ IsData(i, c) => i \in landed

WaitersOK ==
  /\ pc \in [Threads -> {"idle", "waitFlush", "flushed"}] /\ pos \in [Threads -> Int]
  /\ \A t \in Threads : pc[t] # "idle" => pos[t] \in 0 .. Len(pushed) - 1

FlushInv == PublishedOK /\ WaitersOK /\ FlushMeansDrained


-----------------------------------------------------------------------------
(***************************************************************************)
(* The queues.                                                             *)
(***************************************************************************)

\* Where a trigger goes.
LEMMA Routes ==
  /\ \A trig \in Triggers : ConnOf(trig) \in Conns /\ trig.sem \in Sems /\ ConnOf(trig) = SemConn[trig.sem]
  /\ \A c \in Conns : QueueOf[c] \in Queues /\ (IbQueue(QueueOf[c]) <=> c \in Ib)
  /\ MaxPush \in Nat
BY ProxyAssumption DEF ConnOf, Triggers, IbQueue

\* A push leaves the earlier positions as they are.
LEMMA PushGrows ==
  ASSUME TypeOK, NEW t, NEW trig \in Triggers, Push(t, trig)
  PROVE  /\ pushed' \in Seq(Triggers) /\ Len(pushed') = Len(pushed) + 1 /\ Len(pushed') <= MaxPush
         /\ \A i \in 0 .. Len(pushed) - 1 : pushed'[i + 1] = pushed[i + 1]
         /\ pushed'[Len(pushed) + 1] = trig
         /\ Len(pushed) \in Nat /\ Len(handled) \in Nat /\ handled' = handled
<1>1. pushed' = Append(pushed, trig) /\ Len(pushed) < MaxPush /\ handled' = handled
  BY DEF Push, Fifo!AbsPush
<1>2. pushed \in Seq(Triggers) /\ handled \in Seq(Triggers) /\ MaxPush \in Nat
  BY Routes DEF TypeOK
<1>. QED
  BY <1>1, <1>2

\* A step that touches no queue keeps the invariant of the queues.
LEMMA QueuesFrame ==
  ASSUME QInv, UNCHANGED <<pushed, handled, sq, cq, numPosted, pendingFlushPos, landed>>,
         flushDone' \in [Conns -> Int],
         service' \in {"flush", "requestFlush"} => Len(handled) > 0
  PROVE  QInv'
<1>1. TypeOK'
  BY DEF QInv, TypeOK
<1>2. QueuesOK'
  BY DEF QInv, QueuesOK, IsData, OnItsWay, Written
<1>. QED
  BY <1>1, <1>2 DEF QInv

\* A push keeps it: what is pushed is not handled yet.
LEMMA QueuesPush ==
  ASSUME QInv, NEW t \in Threads, NEW trig \in Triggers, Push(t, trig)
  PROVE  QInv'
<1>1. TypeOK /\ QueuesOK
  BY DEF QInv
<1>2. /\ sq' = sq /\ cq' = cq /\ numPosted' = numPosted /\ pendingFlushPos' = pendingFlushPos
      /\ landed' = landed /\ flushDone' = flushDone /\ service' = service
  BY DEF Push, proxyVars, queueVars, remoteVars
<1>3. /\ pushed' \in Seq(Triggers) /\ Len(pushed') = Len(pushed) + 1 /\ Len(pushed') <= MaxPush
      /\ \A i \in 0 .. Len(pushed) - 1 : pushed'[i + 1] = pushed[i + 1]
      /\ Len(pushed) \in Nat /\ Len(handled) \in Nat /\ handled' = handled
  BY <1>1, PushGrows
<1>4. TypeOK'
  BY <1>1, <1>2, <1>3 DEF TypeOK
<1>5. ASSUME NEW c \in Conns, NEW i \in 0 .. Len(handled) - 1
      PROVE  IsData(i, c)' = IsData(i, c) /\ OnItsWay(i, c)' = OnItsWay(i, c)
  <2>1. i \in 0 .. Len(pushed) - 1
    BY <1>1, <1>3 DEF TypeOK
  <2>. QED
    BY <2>1, <1>2, <1>3 DEF IsData, OnItsWay, Written
<1>6. ASSUME NEW c \in Conns, NEW i \in 0 .. pendingFlushPos[c]
      PROVE  i \in 0 .. Len(handled) - 1
  <2>1. pendingFlushPos[c] \in Int /\ (pendingFlushPos[c] # -1 => pendingFlushPos[c] \in 0 .. Len(handled) - 1)
    BY <1>1 DEF TypeOK, None
  <2>. QED
    BY <2>1, <1>3
<1>7. QueuesOK'
  <2>1. \A c \in Conns, i \in 0 .. Len(handled') - 1 : IsData(i, c)' => OnItsWay(i, c)'
    BY <1>1, <1>3, <1>5 DEF QueuesOK
  <2>2. \A q \in Queues : IF IbQueue(q) THEN numPosted'[q] = Len(sq'[q]) + cq'[q]
                                        ELSE numPosted'[q] = 0 => sq'[q] = <<>>
    BY <1>1, <1>2 DEF QueuesOK
  <2>3. \A c \in Conns \ Ib, i \in Int : i \in 0 .. pendingFlushPos'[c] /\ IsData(i, c)' => i \in landed'
    BY <1>1, <1>2, <1>5, <1>6 DEF QueuesOK
  <2>. QED
    BY <2>1, <2>2, <2>3 DEF QueuesOK
<1>. QED
  BY <1>4, <1>7 DEF QInv

\* The operation that is performed, and what is behind it.
LEMMA PerformFacts ==
  ASSUME TypeOK, NEW q \in Queues, Perform(q)
  PROVE  /\ sq[q] \in Seq(Ops) /\ sq[q] # <<>> /\ Len(sq[q]) \in Nat \ {0}
         /\ Head(sq[q]) = sq[q][1] /\ sq[q][1] \in Ops
         /\ sq' \in [Queues -> Seq(Ops)]
         /\ Len(sq'[q]) = Len(sq[q]) - 1
         /\ \A n \in 1 .. Len(sq[q]) - 1 : sq'[q][n] = sq[q][n + 1]
         /\ \A r \in Queues \ {q} : sq'[r] = sq[r]
<1>1. sq \in [Queues -> Seq(Ops)] /\ sq[q] \in Seq(Ops) /\ sq[q] # <<>>
  BY DEF TypeOK, Perform
<1>2. sq' = [sq EXCEPT ![q] = Tail(sq[q])]
  BY DEF Perform
<1>3. /\ Len(sq[q]) \in Nat \ {0} /\ Head(sq[q]) = sq[q][1] /\ sq[q][1] \in Ops
      /\ Tail(sq[q]) \in Seq(Ops) /\ Len(Tail(sq[q])) = Len(sq[q]) - 1
      /\ \A n \in 1 .. Len(sq[q]) - 1 : Tail(sq[q])[n] = sq[q][n + 1]
  BY <1>1
<1>4. sq' \in [Queues -> Seq(Ops)] /\ sq'[q] = Tail(sq[q]) /\ \A r \in Queues \ {q} : sq'[r] = sq[r]
  BY <1>1, <1>2, <1>3
<1>. QED
  BY <1>1, <1>3, <1>4

\* What is on its way stays so when an operation is performed.
LEMMA PerformMoves ==
  ASSUME TypeOK, NEW q \in Queues, Perform(q), NEW r \in Queues, NEW n \in Nat, n <= Len(sq[r]),
         NEW i \in Int, i \in landed \/ Written(i, r, n)
  PROVE  i \in landed' \/ Written(i, r, IF r = q THEN n - 1 ELSE n)'
<1>0. landed \subseteq landed'
  BY DEF Perform
<1>1. CASE i \in landed
  BY <1>0, <1>1
<1>2. CASE Written(i, r, n) /\ r # q
  BY <1>2, PerformFacts DEF Written
<1>3. CASE Written(i, r, n) /\ r = q
  <2>1. PICK m \in 1 .. n : sq[q][m].kind = "write" /\ sq[q][m].pos = i
    BY <1>3 DEF Written
  <2>2. CASE m = 1
    <3>1. Head(sq[q]).kind = "write" /\ Head(sq[q]).pos = i
      BY <2>1, <2>2, PerformFacts
    <3>. QED
      BY <3>1 DEF Perform
  <2>3. CASE m # 1
    <3>1. Len(sq[q]) \in Nat /\ m - 1 \in 1 .. Len(sq[q]) - 1 /\ (m - 1) + 1 = m /\ m - 1 \in 1 .. n - 1
      BY <2>1, <2>3, <1>3, PerformFacts
    <3>2. sq'[q][m - 1] = sq[q][m]
      BY <3>1, PerformFacts
    <3>. QED
      BY <3>1, <3>2, <2>1, <1>3 DEF Written
  <2>. QED
    BY <2>2, <2>3
<1>. QED
  BY <1>1, <1>2, <1>3

\* The NIC and the copy engine keep it.
LEMMA QueuesPerform ==
  ASSUME QInv, NEW q \in Queues, Perform(q)
  PROVE  QInv'
<1>1. TypeOK /\ QueuesOK
  BY DEF QInv
<1>2. /\ pushed' = pushed /\ handled' = handled /\ pendingFlushPos' = pendingFlushPos
      /\ flushDone' = flushDone /\ service' = service /\ numPosted' = numPosted
      /\ cq' = [cq EXCEPT ![q] = IF IbQueue(q) THEN @ + 1 ELSE @] /\ landed \subseteq landed'
  BY DEF Perform, threadVars, proxyVars
<1>3. cq' \in [Queues -> Nat] /\ cq'[q] = (IF IbQueue(q) THEN cq[q] + 1 ELSE cq[q]) /\ \A r \in Queues \ {q} : cq'[r] = cq[r]
  BY <1>1, <1>2 DEF TypeOK
<1>4. TypeOK'
  BY <1>1, <1>2, <1>3, PerformFacts DEF TypeOK
<1>5. ASSUME NEW c \in Conns, NEW i \in 0 .. Len(handled) - 1, IsData(i, c) PROVE OnItsWay(i, c)'
  <2> DEFINE r == QueueOf[c]
  <2>1. OnItsWay(i, c) /\ r \in Queues /\ Len(sq[r]) \in Nat /\ i \in Int
    BY <1>1, <1>5, Routes, SMTT(40) DEF QueuesOK, TypeOK
  <2>2. PICK n \in Nat : n = Len(sq[r])
    BY <2>1
  <2>3. n <= Len(sq[r]) /\ (i \in landed \/ Written(i, r, n))
    BY <2>1, <2>2 DEF OnItsWay
  <2>4. i \in landed' \/ Written(i, r, IF r = q THEN n - 1 ELSE n)'
    BY <2>1, <2>3, <1>1, PerformMoves
  <2>5. Len(sq'[r]) = IF r = q THEN n - 1 ELSE n
    BY <2>1, <2>2, <1>1, PerformFacts
  <2>. QED
    BY <2>4, <2>5 DEF OnItsWay, Written
<1>6. ASSUME NEW r \in Queues
      PROVE  IF IbQueue(r) THEN numPosted'[r] = Len(sq'[r]) + cq'[r] ELSE numPosted'[r] = 0 => sq'[r] = <<>>
  <2>1. Len(sq[q]) \in Nat /\ cq[q] \in Nat /\ sq[q] # <<>>
    BY <1>1, PerformFacts DEF TypeOK
  <2>2. CASE r = q
    <3>1. numPosted'[q] = numPosted[q] /\ Len(sq'[q]) = Len(sq[q]) - 1
      BY <1>1, <1>2, PerformFacts
    <3>2. IF IbQueue(q) THEN numPosted[q] = Len(sq[q]) + cq[q] ELSE numPosted[q] # 0
      BY <2>1, <1>1 DEF QueuesOK
    <3>. QED
      BY <3>1, <3>2, <2>1, <2>2, <1>3
  <2>3. CASE r # q
    BY <2>3, <1>1, <1>2, <1>3, PerformFacts DEF QueuesOK
  <2>. QED
    BY <2>2, <2>3
<1>7. QueuesOK'
  <2>1. \A c \in Conns, i \in 0 .. Len(handled') - 1 : IsData(i, c)' => OnItsWay(i, c)'
    BY <1>2, <1>5 DEF IsData
  <2>2. \A c \in Conns \ Ib, i \in Int : i \in 0 .. pendingFlushPos'[c] /\ IsData(i, c)' => i \in landed'
    BY <1>1, <1>2 DEF QueuesOK, IsData
  <2>. QED
    BY <2>1, <2>2, <1>6 DEF QueuesOK
<1>. QED
  BY <1>4, <1>7 DEF QInv

\* The elements of a concatenation.
LEMMA Concatenation ==
  ASSUME NEW u \in Seq(Ops), NEW v \in Seq(Ops), NEW w, w = u \o v
  PROVE  /\ w \in Seq(Ops) /\ Len(w) = Len(u) + Len(v)
         /\ \A n \in 1 .. Len(u) : w[n] = u[n]
         /\ \A n \in 1 .. Len(v) : w[Len(u) + n] = v[n]
OBVIOUS

\* What handleTrigger() posts for the trigger at the tail.
LEMMA PostedOps ==
  ASSUME TypeOK, TokenTypes, NEW trig \in Triggers
  PROVE  LET ops == Posted(trig) IN
         /\ ops \in Seq(Ops) /\ Len(ops) \in 0 .. 2 /\ (ops = <<>> <=> Len(ops) = 0)
         /\ "data" \in trig.type => Len(ops) >= 1 /\ ops[1].kind = "write" /\ ops[1].pos = Len(handled)
         /\ "flag" \in trig.type =>
              /\ Len(ops) >= 1 /\ ops[Len(ops)].kind = "signal" /\ ops[Len(ops)].sem = trig.sem
              /\ ops[Len(ops)].old = outboundToken[trig.sem] /\ ops[Len(ops)].val = outboundToken[trig.sem] + 1
         /\ "data" \in trig.type /\ "flag" \in trig.type => Len(ops) = 2
         /\ \A n \in 1 .. Len(ops) : ops[n].kind = "signal" => "flag" \in trig.type /\ n = Len(ops)
<1> DEFINE write == [kind |-> "write", pos |-> Len(handled)]
           old == outboundToken[trig.sem]
           signal == [kind |-> "signal", sem |-> trig.sem, old |-> old, val |-> old + 1]
           D == "data" \in trig.type
           F == "flag" \in trig.type
<1>1. write \in Ops /\ signal \in Ops
  <2>1. Len(handled) \in Int
    BY DEF TypeOK
  <2>2. old \in Int /\ trig.sem \in Sems
    BY Routes DEF TokenTypes
  <2>3. write \in [kind : {"write"}, pos : Int]
    BY <2>1
  <2>4. signal \in [kind : {"signal"}, sem : Sems, old : Int, val : Int]
    BY <2>2
  <2>. QED
    BY <2>3, <2>4 DEF Ops
<1>2. /\ write.kind = "write" /\ write.pos = Len(handled)
      /\ signal.kind = "signal" /\ signal.sem = trig.sem /\ signal.old = old /\ signal.val = old + 1
  OBVIOUS
<1>3. Posted(trig) = (IF D THEN <<write>> ELSE <<>>) \o (IF F THEN <<signal>> ELSE <<>>)
  BY DEF Posted
<1> HIDE DEF write, signal
<1>4. CASE D /\ F
  <2>1. Posted(trig) = <<write>> \o <<signal>> /\ <<write>> \in Seq(Ops) /\ <<signal>> \in Seq(Ops)
    BY <1>1, <1>3, <1>4
  <2>2. Len(<<write>>) = 1 /\ Len(<<signal>>) = 1 /\ <<write>>[1] = write /\ <<signal>>[1] = signal
    OBVIOUS
  <2>3. /\ Posted(trig) \in Seq(Ops) /\ Len(Posted(trig)) = 2
        /\ Posted(trig)[1] = write /\ Posted(trig)[2] = signal
    <3>0. PICK w : w = <<write>> \o <<signal>>
      BY Zenon
    <3>1. PICK u \in Seq(Ops), v \in Seq(Ops) : u = <<write>> /\ v = <<signal>> /\ w = u \o v
      BY <3>0, <2>1, Zenon
    <3>2. /\ w \in Seq(Ops) /\ Len(w) = Len(u) + Len(v)
          /\ \A n \in 1 .. Len(u) : w[n] = u[n]
          /\ \A n \in 1 .. Len(v) : w[Len(u) + n] = v[n]
      BY <3>1, Concatenation
    <3>3. Len(u) = 1 /\ Len(v) = 1 /\ u[1] = write /\ v[1] = signal /\ Posted(trig) = w
      BY <3>1, <2>1, <2>2
    <3>4. w[1] = u[1] /\ w[2] = v[1] /\ Len(w) = 2
      BY <3>2, <3>3
    <3>. QED
      BY <3>2, <3>3, <3>4, Zenon
  <2>4. PICK ops : ops = Posted(trig)
    OBVIOUS
  <2>5. ops \in Seq(Ops) /\ Len(ops) = 2 /\ ops[1] = write /\ ops[2] = signal
    BY <2>3, <2>4, Zenon
  <2>6. /\ ops[1].kind = "write" /\ ops[1].pos = Len(handled)
        /\ ops[2].kind = "signal" /\ ops[2].sem = trig.sem /\ ops[2].old = old /\ ops[2].val = old + 1
    BY <2>5, <1>2, Zenon
  <2>7. ASSUME NEW n \in 1 .. Len(ops), ops[n].kind = "signal" PROVE n = Len(ops)
    <3>1. n = 1 \/ n = 2
      BY <2>5
    <3>. QED
      BY <3>1, <2>5, <2>6, <2>7
  <2>8. ops # <<>> /\ Len(ops) \in 0 .. 2 /\ Len(ops) >= 1
    BY <2>5
  <2>. QED
    BY <2>4, <2>5, <2>6, <2>7, <2>8, <1>4
<1>5. CASE D /\ ~F
  <2>1. Posted(trig) = <<write>>
    BY <1>1, <1>3, <1>5
  <2>. QED
    BY <2>1, <1>1, <1>2, <1>5
<1>6. CASE ~D /\ F
  <2>1. Posted(trig) = <<signal>>
    BY <1>1, <1>3, <1>6
  <2>. QED
    BY <2>1, <1>1, <1>2, <1>6
<1>7. CASE ~D /\ ~F
  <2>1. Posted(trig) = <<>>
    BY <1>3, <1>7
  <2>. QED
    BY <2>1, <1>7
<1>. QED
  BY <1>4, <1>5, <1>6, <1>7

\* The trigger that is handled next, where it goes and what is posted for it.
IsNext(trig, c, q, ops, h, l) ==
  /\ trig = pushed[Len(handled) + 1] /\ c = ConnOf(trig) /\ q = QueueOf[c] /\ ops = Posted(trig)
  /\ h = Len(handled) /\ l = Len(sq[q])

\* What handling it does to the FIFO and to the queues.
LEMMA HandleFacts ==
  ASSUME TypeOK, TokenTypes, HandleTrigger, NEW trig, NEW c, NEW q, NEW ops, NEW h, NEW l,
         IsNext(trig, c, q, ops, h, l)
  PROVE  /\ trig \in Triggers /\ c \in Conns /\ q \in Queues
         /\ h \in Nat /\ l \in Nat /\ h < Len(pushed) /\ Len(pushed) \in Nat
         /\ pushed' = pushed /\ handled' \in Seq(Triggers) /\ Len(handled') = h + 1
         /\ ops \in Seq(Ops) /\ Len(ops) \in 0 .. 2
         /\ sq' \in [Queues -> Seq(Ops)] /\ \A r \in Queues \ {q} : sq'[r] = sq[r]
         /\ Len(sq'[q]) = l + Len(ops) /\ sq'[q] = sq[q] \o ops
         /\ \A n \in 1 .. l : sq'[q][n] = sq[q][n]
         /\ \A n \in 1 .. Len(ops) : sq'[q][l + n] = ops[n]
<1>0. /\ trig = pushed[Len(handled) + 1] /\ c = ConnOf(trig) /\ q = QueueOf[c] /\ ops = Posted(trig)
      /\ h = Len(handled) /\ l = Len(sq[q])
  BY DEF IsNext
<1>1. /\ Len(handled) < Len(pushed) /\ pushed' = pushed /\ handled' = Append(handled, trig)
      /\ sq' = [sq EXCEPT ![q] = sq[q] \o ops]
  BY <1>0 DEF HandleTrigger, Fifo!AbsHandle
<1>2. pushed \in Seq(Triggers) /\ handled \in Seq(Triggers) /\ sq \in [Queues -> Seq(Ops)]
  BY DEF TypeOK
<1>3. trig \in Triggers /\ h \in Nat /\ Len(pushed) \in Nat /\ h < Len(pushed)
  BY <1>0, <1>1, <1>2
<1>4. c \in Conns /\ q \in Queues
  BY <1>0, <1>3, Routes
<1>5. handled' \in Seq(Triggers) /\ Len(handled') = h + 1
  BY <1>0, <1>1, <1>2, <1>3
<1>6. ops \in Seq(Ops) /\ Len(ops) \in 0 .. 2
  BY <1>0, <1>3, PostedOps
<1>7a. PICK w : w = sq[q] \o ops
  BY Zenon
<1>7. PICK u \in Seq(Ops) : u = sq[q] /\ w = u \o ops
  BY <1>2, <1>4, <1>7a
<1>8. /\ w \in Seq(Ops) /\ Len(w) = Len(u) + Len(ops)
      /\ \A n \in 1 .. Len(u) : w[n] = u[n]
      /\ \A n \in 1 .. Len(ops) : w[Len(u) + n] = ops[n]
  <2>1. u \in Seq(Ops) /\ ops \in Seq(Ops) /\ w = u \o ops
    BY <1>6, <1>7
  <2>. QED
    BY <2>1, Concatenation, SMTT(20)
<1>9. l = Len(u) /\ l \in Nat
  BY <1>0, <1>7
<1>10. sq'[q] = w /\ sq' \in [Queues -> Seq(Ops)] /\ \A r \in Queues \ {q} : sq'[r] = sq[r]
  BY <1>1, <1>2, <1>4, <1>7, <1>8
<1>11. /\ Len(sq'[q]) = l + Len(ops) /\ sq'[q] = sq[q] \o ops
       /\ \A n \in 1 .. l : sq'[q][n] = sq[q][n]
       /\ \A n \in 1 .. Len(ops) : sq'[q][l + n] = ops[n]
  BY <1>7, <1>8, <1>9, <1>10
<1>. QED
  BY <1>1, <1>3, <1>4, <1>5, <1>6, <1>9, <1>10, <1>11, Zenon

\* handleTrigger() keeps it: the data is queued, and counted.
LEMMA QueuesHandle ==
  ASSUME QInv, TokenTypes, HandleTrigger
  PROVE  QInv'
<1>1. TypeOK /\ QueuesOK
  BY DEF QInv
<1>2. PICK trig, c, q, ops, h, l : IsNext(trig, c, q, ops, h, l)
  BY Zenon DEF IsNext
<1>3. /\ trig = pushed[Len(handled) + 1] /\ c = ConnOf(trig) /\ q = QueueOf[c] /\ ops = Posted(trig)
      /\ h = Len(handled) /\ l = Len(sq[q])
  BY <1>2 DEF IsNext
<1>4. /\ trig \in Triggers /\ c \in Conns /\ q \in Queues /\ h \in Nat /\ l \in Nat /\ h < Len(pushed) /\ Len(pushed) \in Nat
      /\ pushed' = pushed /\ handled' \in Seq(Triggers) /\ Len(handled') = h + 1
      /\ ops \in Seq(Ops) /\ Len(ops) \in 0 .. 2
      /\ sq' \in [Queues -> Seq(Ops)] /\ \A r \in Queues \ {q} : sq'[r] = sq[r]
      /\ Len(sq'[q]) = l + Len(ops) /\ sq'[q] = sq[q] \o ops
      /\ \A n \in 1 .. l : sq'[q][n] = sq[q][n]
      /\ \A n \in 1 .. Len(ops) : sq'[q][l + n] = ops[n]
  BY <1>1, <1>2, HandleFacts
<1>5. /\ cq' = cq /\ landed' = landed /\ pendingFlushPos' = pendingFlushPos /\ flushDone' = flushDone
      /\ numPosted' = [numPosted EXCEPT ![q] =
                        IF c \in Ib THEN @ + Len(ops) ELSE IF ops = <<>> THEN @ ELSE 1]
  BY <1>3 DEF HandleTrigger, remoteVars
<1>6. /\ numPosted' \in [Queues -> Nat] /\ \A r \in Queues \ {q} : numPosted'[r] = numPosted[r]
      /\ numPosted'[q] = IF c \in Ib THEN numPosted[q] + Len(ops) ELSE IF ops = <<>> THEN numPosted[q] ELSE 1
  BY <1>1, <1>4, <1>5 DEF TypeOK
<1>7. TypeOK'
  <2>1. Len(handled') <= Len(pushed') /\ Len(pushed') <= MaxPush /\ Len(handled') > 0
    BY <1>1, <1>4 DEF TypeOK
  <2>2. \A d \in Conns : pendingFlushPos'[d] # None => pendingFlushPos'[d] \in 0 .. Len(handled') - 1
    BY <1>1, <1>3, <1>4, <1>5, SMTT(40) DEF TypeOK
  <2>. QED
    BY <2>1, <2>2, <1>1, <1>4, <1>5, <1>6, SMTT(40) DEF TypeOK
<1>8. ASSUME NEW d \in Conns, NEW i \in 0 .. h, IsData(i, d) PROVE OnItsWay(i, d)'
  <2>1. CASE i = h
    <3>1. d = c /\ "data" \in trig.type
      BY <2>1, <1>3, <1>8 DEF IsData
    <3>2. Len(ops) >= 1 /\ ops[1].kind = "write" /\ ops[1].pos = h
      BY <3>1, <1>1, <1>3, <1>4, PostedOps
    <3>3. l + 1 \in 1 .. Len(sq'[q]) /\ sq'[q][l + 1] = ops[1]
      BY <3>2, <1>4, SMTT(40)
    <3>. QED
      BY <3>1, <3>2, <3>3, <2>1, <1>3, SMTT(40) DEF OnItsWay, Written
  <2>2. CASE i # h
    <3>1. i \in 0 .. Len(handled) - 1
      BY <2>2, <1>3, <1>4
    <3>2. OnItsWay(i, d)
      BY <3>1, <1>1, <1>8 DEF QueuesOK
    <3>3. CASE QueueOf[d] # q
      BY <3>2, <3>3, <1>4, <1>5, Routes, SMTT(40) DEF OnItsWay, Written
    <3>4. CASE QueueOf[d] = q
      <4>1. i \in landed \/ \E m \in 1 .. l : sq[q][m].kind = "write" /\ sq[q][m].pos = i
        BY <3>2, <3>4, <1>3 DEF OnItsWay, Written
      <4>2. \A m \in 1 .. l : m \in 1 .. Len(sq'[q]) /\ sq'[q][m] = sq[q][m]
        BY <1>4
      <4>. QED
        BY <4>1, <4>2, <3>4, <1>5 DEF OnItsWay, Written
    <3>. QED
      BY <3>3, <3>4
  <2>. QED
    BY <2>1, <2>2
<1>9. ASSUME NEW r \in Queues
      PROVE  IF IbQueue(r) THEN numPosted'[r] = Len(sq'[r]) + cq'[r] ELSE numPosted'[r] = 0 => sq'[r] = <<>>
  <2>1. CASE r # q
    BY <2>1, <1>1, <1>4, <1>5, <1>6, SMTT(40) DEF QueuesOK
  <2>2. CASE r = q /\ c \in Ib
    <3>1. IbQueue(q) /\ numPosted[q] = l + cq[q] /\ cq[q] \in Nat
      BY <2>2, <1>1, <1>3, <1>4, Routes, SMTT(40) DEF QueuesOK, TypeOK
    <3>. QED
      BY <3>1, <2>2, <1>4, <1>5, <1>6
  <2>3. CASE r = q /\ c \notin Ib
    <3>1. ~IbQueue(q) /\ (numPosted[q] = 0 => sq[q] = <<>>)
      BY <2>3, <1>1, <1>3, <1>4, Routes DEF QueuesOK
    <3>2. ASSUME numPosted'[q] = 0 PROVE sq'[q] = <<>>
      <4>1. ops = <<>> /\ sq[q] = <<>>
        BY <3>1, <3>2, <2>3, <1>6
      <4>. QED
        BY <4>1, <1>4
    <3>. QED
      BY <3>1, <3>2, <2>3
  <2>. QED
    BY <2>1, <2>2, <2>3
<1>10. QueuesOK'
  <2>1. \A d \in Conns, i \in 0 .. Len(handled') - 1 : IsData(i, d)' => OnItsWay(i, d)'
    BY <1>4, <1>8 DEF IsData
  <2>2. \A d \in Conns \ Ib, i \in Int : i \in 0 .. pendingFlushPos'[d] /\ IsData(i, d)' => i \in landed'
    BY <1>1, <1>4, <1>5 DEF QueuesOK, IsData
  <2>. QED
    BY <2>1, <2>2, <1>9 DEF QueuesOK
<1>. QED
  BY <1>7, <1>10 DEF QInv

\* All that was handled for a connection has landed when its queue is empty.
LEMMA EmptyQueue ==
  ASSUME QInv, NEW c \in Conns, sq[QueueOf[c]] = <<>>, NEW i \in 0 .. Len(handled) - 1, IsData(i, c)
  PROVE  i \in landed
<1>1. OnItsWay(i, c)
  BY DEF QInv, QueuesOK
<1>2. Len(sq[QueueOf[c]]) = 0
  OBVIOUS
<1>. QED
  BY <1>1, <1>2 DEF OnItsWay, Written

\* progressFlushes() polls QPs only, and takes as many completions as it counts off.
LEMMA ProgressFacts ==
  ASSUME QInv, ProgressFlushes
  PROVE  /\ cq' \in [Queues -> Nat] /\ numPosted' \in [Queues -> Nat]
         /\ \A q \in Queues : \/ cq'[q] = cq[q] /\ numPosted'[q] = numPosted[q]
                              \/ IbQueue(q) /\ cq'[q] = cq[q] - 1 /\ numPosted'[q] = numPosted[q] - 1
         /\ \A c \in Conns :
              IF pendingFlushPos[c] # None /\ Progressed(c)
                THEN pendingFlushPos'[c] = None /\ flushDone'[c] = pendingFlushPos[c] + 1
                ELSE pendingFlushPos'[c] = pendingFlushPos[c] /\ flushDone'[c] = flushDone[c]
         /\ pendingFlushPos' \in [Conns -> Int] /\ flushDone' \in [Conns -> Int]
<1> DEFINE pending == {c \in Conns : pendingFlushPos[c] # None}
           polled == {QueueOf[c] : c \in {d \in pending : Polls(d)}}
           done == {c \in pending : Progressed(c)}
<1>1. /\ cq' = [q \in Queues |-> IF q \in polled THEN cq[q] - 1 ELSE cq[q]]
      /\ numPosted' = [q \in Queues |-> IF q \in polled THEN numPosted[q] - 1 ELSE numPosted[q]]
      /\ flushDone' = [c \in Conns |-> IF c \in done THEN pendingFlushPos[c] + 1 ELSE flushDone[c]]
      /\ pendingFlushPos' = [c \in Conns |-> IF c \in done THEN None ELSE pendingFlushPos[c]]
  BY DEF ProgressFlushes
<1>2. /\ cq \in [Queues -> Nat] /\ numPosted \in [Queues -> Nat]
      /\ pendingFlushPos \in [Conns -> Int] /\ flushDone \in [Conns -> Int]
  BY DEF QInv, TypeOK
<1>3. ASSUME NEW q \in polled PROVE IbQueue(q) /\ numPosted[q] # 0 /\ cq[q] # 0
  BY Routes DEF Polls
<1> HIDE DEF polled
<1>4. ASSUME NEW q \in Queues
      PROVE  /\ cq'[q] \in Nat /\ numPosted'[q] \in Nat
             /\ \/ cq'[q] = cq[q] /\ numPosted'[q] = numPosted[q]
                \/ IbQueue(q) /\ cq'[q] = cq[q] - 1 /\ numPosted'[q] = numPosted[q] - 1
  BY <1>1, <1>2, <1>3
<1>5. cq' \in [Queues -> Nat] /\ numPosted' \in [Queues -> Nat]
  BY <1>1, <1>4
<1>6. ASSUME NEW c \in Conns
      PROVE  /\ IF pendingFlushPos[c] # None /\ Progressed(c)
                  THEN pendingFlushPos'[c] = None /\ flushDone'[c] = pendingFlushPos[c] + 1
                  ELSE pendingFlushPos'[c] = pendingFlushPos[c] /\ flushDone'[c] = flushDone[c]
             /\ pendingFlushPos'[c] \in Int /\ flushDone'[c] \in Int
  BY <1>1, <1>2 DEF None
<1>7. pendingFlushPos' \in [Conns -> Int] /\ flushDone' \in [Conns -> Int]
  BY <1>1, <1>6
<1>. QED
  BY <1>4, <1>5, <1>6, <1>7

\* A connection is drained when progressFlush() says so.
LEMMA ProgressedDrained ==
  ASSUME QInv, NEW c \in Conns, pendingFlushPos[c] # None, Progressed(c),
         NEW i \in 0 .. pendingFlushPos[c], IsData(i, c)
  PROVE  i \in landed
<1>1. i \in 0 .. Len(handled) - 1 /\ i \in Int
  <2>1. pendingFlushPos[c] \in 0 .. Len(handled) - 1 /\ Len(handled) \in Nat
    BY DEF QInv, TypeOK
  <2>. QED
    BY <2>1
<1>2. CASE c \in Ib
  <2> DEFINE q == QueueOf[c]
  <2>1. /\ q \in Queues /\ numPosted[q] = Len(sq[q]) + cq[q]
        /\ sq[q] \in Seq(Ops) /\ Len(sq[q]) \in Nat /\ cq[q] \in Nat
    BY <1>2, Routes, SMTT(40) DEF QInv, QueuesOK, TypeOK
  <2>2. numPosted[q] - (IF cq[q] # 0 /\ numPosted[q] # 0 THEN 1 ELSE 0) = 0
    BY <1>2 DEF Progressed, Polls
  <2>3. Len(sq[q]) = 0
    BY <2>1, <2>2
  <2>4. sq[q] = <<>>
    BY <2>1, <2>3
  <2>. QED
    BY <2>4, <1>1, EmptyQueue
<1>3. CASE c \notin Ib
  BY <1>1, <1>3 DEF QInv, QueuesOK
<1>. QED
  BY <1>2, <1>3

\* progressFlushes() keeps it.
LEMMA QueuesProgress ==
  ASSUME QInv, ProgressFlushes, UNCHANGED <<pushed, handled, sq, landed>>,
         service' \in {"flush", "requestFlush"} => Len(handled) > 0
  PROVE  QInv'
<1>1. TypeOK /\ QueuesOK
  BY DEF QInv
<1>2. TypeOK'
  <2>1. \A c \in Conns : pendingFlushPos'[c] # None => pendingFlushPos'[c] \in 0 .. Len(handled') - 1
    BY <1>1, ProgressFacts DEF TypeOK
  <2>. QED
    BY <2>1, <1>1, ProgressFacts DEF TypeOK
<1>3. ASSUME NEW q \in Queues
      PROVE  IF IbQueue(q) THEN numPosted'[q] = Len(sq'[q]) + cq'[q] ELSE numPosted'[q] = 0 => sq'[q] = <<>>
  <2>1. numPosted[q] \in Nat /\ cq[q] \in Nat /\ Len(sq[q]) \in Nat
    BY <1>1 DEF TypeOK
  <2>. QED
    BY <2>1, <1>1, ProgressFacts DEF QueuesOK
<1>4. \A c \in Conns \ Ib, i \in Int : i \in 0 .. pendingFlushPos'[c] /\ IsData(i, c)' => i \in landed'
  <2> SUFFICES ASSUME NEW c \in Conns \ Ib, NEW i \in Int, i \in 0 .. pendingFlushPos'[c], IsData(i, c)
               PROVE  i \in landed
    BY DEF IsData
  <2>1. pendingFlushPos'[c] = pendingFlushPos[c] \/ pendingFlushPos'[c] = -1
    BY ProgressFacts DEF None
  <2>2. pendingFlushPos'[c] = pendingFlushPos[c]
    BY <2>1
  <2>. QED
    BY <2>2, <1>1 DEF QueuesOK
<1>5. \A c \in Conns, i \in 0 .. Len(handled') - 1 : IsData(i, c)' => OnItsWay(i, c)'
  BY <1>1 DEF QueuesOK, IsData, OnItsWay, Written
<1>. QED
  BY <1>2, <1>3, <1>4, <1>5 DEF QInv, QueuesOK

\* The connection of the trigger being handled is drained when flush() returns.
LEMMA DrainedEmpty ==
  ASSUME QInv, service \in {"flush", "requestFlush"}
  PROVE  /\ Len(handled) \in Nat \ {0} /\ Current \in Conns /\ QueueOf[Current] \in Queues
         /\ Drained(Current) => sq[QueueOf[Current]] = <<>>
<1>1. Len(handled) \in Nat \ {0} /\ Len(handled) <= Len(pushed) /\ pushed \in Seq(Triggers)
  BY DEF QInv, TypeOK
<1>2. pushed[Len(handled)] \in Triggers
  BY <1>1
<1>3. Current \in Conns /\ QueueOf[Current] \in Queues
  BY <1>2, Routes DEF Current
<1>4. ASSUME Drained(Current) PROVE sq[QueueOf[Current]] = <<>>
  <2> DEFINE q == QueueOf[Current]
  <2>1. sq[q] \in Seq(Ops) /\ Len(sq[q]) \in Nat /\ cq[q] \in Nat
    BY <1>3 DEF QInv, TypeOK
  <2>2. CASE Current \in Ib
    <3>1. numPosted[q] = 0 /\ numPosted[q] = Len(sq[q]) + cq[q]
      BY <2>2, <1>3, <1>4, Routes DEF Drained, QInv, QueuesOK
    <3>2. Len(sq[q]) = 0
      BY <3>1, <2>1
    <3>. QED
      BY <3>2, <2>1
  <2>3. CASE Current \notin Ib
    BY <2>3, <1>3, <1>4, Routes DEF Drained, QInv, QueuesOK
  <2>. QED
    BY <2>2, <2>3
<1>. QED
  BY <1>1, <1>3, <1>4

\* A completion polled in flush() keeps it.
LEMMA QueuesFlushPoll ==
  ASSUME QInv, FlushPoll
  PROVE  QInv'
<1>0. TypeOK /\ QueuesOK
  BY DEF QInv
<1>1. PICK q : q = QueueOf[Current]
  BY SMTT(40)
<1>2. q \in Queues /\ Current \in Ib /\ IbQueue(q)
  BY <1>1, DrainedEmpty, Routes DEF FlushPoll
<1>3. /\ numPosted[q] # 0 /\ cq[q] # 0
      /\ numPosted' = [numPosted EXCEPT ![q] = @ - 1] /\ cq' = [cq EXCEPT ![q] = @ - 1]
      /\ pushed' = pushed /\ handled' = handled /\ sq' = sq /\ landed' = landed /\ service' = service
      /\ pendingFlushPos' = pendingFlushPos /\ flushDone' = flushDone
  BY <1>1 DEF FlushPoll, proxyVars, remoteVars
<1>4. /\ numPosted' \in [Queues -> Nat] /\ cq' \in [Queues -> Nat]
      /\ numPosted'[q] = numPosted[q] - 1 /\ cq'[q] = cq[q] - 1
      /\ \A r \in Queues \ {q} : numPosted'[r] = numPosted[r] /\ cq'[r] = cq[r]
  BY <1>0, <1>2, <1>3 DEF TypeOK
<1>5. TypeOK'
  BY <1>0, <1>3, <1>4 DEF TypeOK
<1>6. ASSUME NEW r \in Queues
      PROVE  IF IbQueue(r) THEN numPosted'[r] = Len(sq'[r]) + cq'[r] ELSE numPosted'[r] = 0 => sq'[r] = <<>>
  <2>1. numPosted[q] \in Nat /\ cq[q] \in Nat /\ Len(sq[q]) \in Nat
    BY <1>0, <1>2 DEF TypeOK
  <2>. QED
    BY <2>1, <1>0, <1>2, <1>3, <1>4, SMTT(40) DEF QueuesOK
<1>. QED
  BY <1>0, <1>3, <1>5, <1>6 DEF QInv, QueuesOK, IsData, OnItsWay, Written

\* flush() returns, in the handler or in requestFlush().
LEMMA QueuesFlushed ==
  ASSUME QInv, FlushReturns \/ RequestFlush
  PROVE  QInv'
<1>0. TypeOK /\ QueuesOK
  BY DEF QInv
<1>1. PICK c, q : c = Current /\ q = QueueOf[c]
  OBVIOUS
<1>2. /\ c \in Conns /\ q \in Queues /\ Len(handled) \in Nat \ {0} /\ (Drained(c) => sq[q] = <<>>)
      /\ IbQueue(q) <=> c \in Ib
  BY <1>1, DrainedEmpty, Routes DEF FlushReturns, RequestFlush
<1>3. /\ pushed' = pushed /\ handled' = handled /\ sq' = sq /\ cq' = cq /\ landed' = landed /\ flushDone' = flushDone
      /\ service' = "top"
  BY DEF FlushReturns, RequestFlush, remoteVars
<1>4. \/ numPosted' = numPosted
      \/ Drained(c) /\ numPosted' = [numPosted EXCEPT ![q] = 0]
  BY <1>1 DEF FlushReturns, RequestFlush
<1>5. numPosted' \in [Queues -> Nat]
  <2>1. numPosted \in [Queues -> Nat] /\ [numPosted EXCEPT ![q] = 0] \in [Queues -> Nat]
    BY <1>0, ZenonT(40) DEF TypeOK
  <2>. QED
    BY <2>1, <1>4
<1>6. \/ pendingFlushPos' = pendingFlushPos
      \/ /\ pendingFlushPos' = [pendingFlushPos EXCEPT ![c] = Len(handled) - 1]
         /\ c \in Ib \/ Drained(c)
  BY <1>1 DEF FlushReturns, RequestFlush
<1>7. /\ pendingFlushPos' \in [Conns -> Int]
      /\ \A d \in Conns \ {c} : pendingFlushPos'[d] = pendingFlushPos[d]
      /\ \/ pendingFlushPos'[c] = pendingFlushPos[c]
         \/ pendingFlushPos'[c] = Len(handled) - 1 /\ (c \in Ib \/ Drained(c))
  <2>1. pendingFlushPos \in [Conns -> Int] /\ Len(handled) - 1 \in Int
    BY <1>0, <1>2 DEF TypeOK
  <2>2. CASE pendingFlushPos' = pendingFlushPos
    BY <2>1, <2>2
  <2>3. CASE pendingFlushPos' = [pendingFlushPos EXCEPT ![c] = Len(handled) - 1] /\ (c \in Ib \/ Drained(c))
    BY <2>1, <2>3, <1>2
  <2>. QED
    BY <2>2, <2>3, <1>6
<1>8. TypeOK'
  <2>1. ASSUME NEW d \in Conns, pendingFlushPos'[d] # None PROVE pendingFlushPos'[d] \in 0 .. Len(handled') - 1
    <3>1. CASE pendingFlushPos'[d] = pendingFlushPos[d]
      BY <3>1, <2>1, <1>0, <1>3 DEF TypeOK
    <3>2. CASE pendingFlushPos'[d] = Len(handled) - 1
      BY <3>2, <1>2, <1>3
    <3>. QED
      BY <3>1, <3>2, <1>7
  <2>. QED
    BY <2>1, <1>0, <1>3, <1>5, <1>7 DEF TypeOK
<1>9. ASSUME NEW r \in Queues
      PROVE  IF IbQueue(r) THEN numPosted'[r] = Len(sq'[r]) + cq'[r] ELSE numPosted'[r] = 0 => sq'[r] = <<>>
  <2>1. CASE numPosted' = numPosted
    BY <2>1, <1>0, <1>3 DEF QueuesOK
  <2>2. CASE Drained(c) /\ numPosted' = [numPosted EXCEPT ![q] = 0]
    <3>1. sq[q] = <<>> /\ (c \in Ib => numPosted[q] = 0)
      BY <2>2, <1>1, <1>2 DEF Drained
    <3>2. CASE r = q
      <4>1. numPosted'[q] = 0 /\ sq'[q] = <<>> /\ cq'[q] = cq[q]
        BY <3>1, <2>2, <1>0, <1>2, <1>3 DEF TypeOK
      <4>2. CASE IbQueue(q)
        <5>1. numPosted[q] = 0 /\ numPosted[q] = Len(sq[q]) + cq[q]
          BY <4>2, <3>1, <1>0, <1>2 DEF QueuesOK
        <5>. QED
          BY <5>1, <4>1, <4>2, <3>1, <3>2
      <4>3. CASE ~IbQueue(q)
        BY <4>1, <4>3, <3>2, SMTT(40)
      <4>. QED
        BY <4>2, <4>3
    <3>3. CASE r # q
      <4>1. numPosted'[r] = numPosted[r]
        BY <3>3, <2>2, <1>0 DEF TypeOK
      <4>. QED
        BY <4>1, <1>0, <1>3 DEF QueuesOK
    <3>. QED
      BY <3>2, <3>3
  <2>. QED
    BY <2>1, <2>2, <1>4
<1>10. \A d \in Conns \ Ib, i \in Int : i \in 0 .. pendingFlushPos'[d] /\ IsData(i, d)' => i \in landed'
  <2> SUFFICES ASSUME NEW d \in Conns \ Ib, NEW i \in Int, i \in 0 .. pendingFlushPos'[d], IsData(i, d)
               PROVE  i \in landed
    BY <1>3 DEF IsData
  <2>1. CASE pendingFlushPos'[d] = pendingFlushPos[d]
    BY <2>1, <1>0 DEF QueuesOK
  <2>2. CASE d = c /\ pendingFlushPos'[c] = Len(handled) - 1 /\ Drained(c)
    BY <2>2, <1>1, <1>2, EmptyQueue, SMTT(40)
  <2>. QED
    BY <2>1, <2>2, <1>7
<1>. QED
  BY <1>0, <1>3, <1>8, <1>9, <1>10 DEF QInv, QueuesOK, IsData, OnItsWay, Written

\* The end of stopProxy() keeps it.
LEMMA QueuesDrainEnd ==
  ASSUME QInv, DrainEnd
  PROVE  QInv'
<1>0. TypeOK /\ QueuesOK
  BY DEF QInv
<1>1. /\ pushed' = pushed /\ handled' = handled /\ sq' = sq /\ cq' = cq /\ landed' = landed
      /\ numPosted' = numPosted /\ service' = service
      /\ pendingFlushPos' = [c \in Conns |-> None]
      /\ flushDone' \in [Conns -> Int]
  BY <1>0, Routes DEF DrainEnd, remoteVars, queueVars, TypeOK, Sentinel
<1>2. pendingFlushPos' \in [Conns -> Int] /\ \A c \in Conns : pendingFlushPos'[c] = -1
  BY <1>1 DEF None
<1>3. TypeOK'
  BY <1>0, <1>1, <1>2 DEF TypeOK
<1>4. \A c \in Conns \ Ib, i \in Int : i \in 0 .. pendingFlushPos'[c] /\ IsData(i, c)' => i \in landed'
  BY <1>2
<1>. QED
  BY <1>0, <1>1, <1>3, <1>4 DEF QInv, QueuesOK, IsData, OnItsWay, Written

\* Every step keeps the invariant of the queues.
LEMMA QueuesStep ==
  ASSUME QInv, TokenTypes, [Next]_vars
  PROVE  QInv'
<1>1. ASSUME NEW t \in Threads, NEW trig \in Triggers, Push(t, trig) PROVE QInv'
  BY <1>1, QueuesPush
<1>2. ASSUME NEW q \in Queues, Perform(q) PROVE QInv'
  BY <1>2, QueuesPerform
<1>3. CASE HandleTrigger
  BY <1>3, QueuesHandle
<1>4. CASE Progress
  BY <1>4, QueuesProgress DEF Progress, remoteVars
<1>5. CASE Drain
  BY <1>5, QueuesProgress DEF Drain, remoteVars, QInv, TypeOK
<1>6. CASE FlushPoll \/ FlushReturns \/ RequestFlush \/ DrainEnd
  BY <1>6, QueuesFlushPoll, QueuesFlushed, QueuesDrainEnd
<1>7. CASE ThreadInit \/ LoopTop \/ PollEmpty \/ Join \/ \E blocking \in BOOLEAN : StartProxy(blocking)
  <2>1. /\ UNCHANGED <<pushed, handled, sq, cq, numPosted, pendingFlushPos, landed, flushDone>>
        /\ service' \notin {"flush", "requestFlush"}
    BY <1>7 DEF ThreadInit, LoopTop, PollEmpty, Join, StartProxy, queueVars, remoteVars
  <2>. QED
    BY <2>1, QueuesFrame DEF QInv, TypeOK
<1>8. CASE (\E t \in Threads : WaitFlush(t)) \/ StopProxy \/ Started \/ UNCHANGED vars
  <2>1. UNCHANGED <<pushed, handled, sq, cq, numPosted, pendingFlushPos, landed, flushDone, service>>
    BY <1>8 DEF WaitFlush, StopProxy, Started, vars, proxyVars, queueVars, remoteVars
  <2>. QED
    BY <2>1, QueuesFrame DEF QInv, TypeOK
<1>. QED
  BY <1>1, <1>2, <1>3, <1>4, <1>5, <1>6, <1>7, <1>8 DEF Next, ServiceStep, MainStep

\* A token only grows, by one.
LEMMA TokenTypesStep ==
  ASSUME QInv, TokenTypes, [Next]_vars
  PROVE  TokenTypes'
<1>1. CASE HandleTrigger
  <2>1. PICK trig : trig = pushed[Len(handled) + 1]
    BY SMTT(40)
  <2>2. \/ outboundToken' = outboundToken
        \/ outboundToken' = [outboundToken EXCEPT ![trig.sem] = @ + 1]
    BY <1>1, <2>1 DEF HandleTrigger
  <2>. QED
    BY <2>2 DEF TokenTypes
<1>2. CASE UNCHANGED outboundToken
  BY <1>2 DEF TokenTypes
<1>3. CASE Progress \/ FlushPoll \/ FlushReturns \/ RequestFlush \/ ThreadInit \/ LoopTop \/ PollEmpty
  <2>1. outboundToken' = outboundToken
    BY <1>3, Zenon DEF Progress, FlushPoll, FlushReturns, RequestFlush, ThreadInit, LoopTop, PollEmpty,
                       ProgressFlushes, proxyVars
  <2>. QED
    BY <2>1, <1>2
<1>4. CASE (\E blocking \in BOOLEAN : StartProxy(blocking)) \/ StopProxy \/ MainStep \/ UNCHANGED vars
  <2>1. outboundToken' = outboundToken
    BY <1>4, ZenonT(40) DEF MainStep, StartProxy, Started, StopProxy, Join, Drain, DrainEnd, ProgressFlushes, vars,
                       proxyVars
  <2>. QED
    BY <2>1, <1>2
<1>5. CASE \/ \E t \in Threads, trig \in Triggers : Push(t, trig)
           \/ \E t \in Threads : WaitFlush(t)
           \/ \E q \in Queues : Perform(q)
  BY <1>2, <1>5, ZenonT(40) DEF Push, WaitFlush, Perform, proxyVars
<1>. QED
  BY <1>1, <1>3, <1>4, <1>5 DEF Next, ServiceStep

-----------------------------------------------------------------------------
(***************************************************************************)
(* The flushes.                                                            *)
(***************************************************************************)

\* A step that publishes nothing and moves no waiter keeps the invariant, whatever it
\* handles or lands.
LEMMA FlushFrame ==
  ASSUME QInv, FlushInv, UNCHANGED <<pushed, pc, pos, flushDone>>, landed \subseteq landed',
         forced \subseteq forced', Len(handled') \in Nat, Len(handled) <= Len(handled')
  PROVE  FlushInv'
<1>1. PublishedOK'
  <2> SUFFICES ASSUME NEW c \in Conns
               PROVE  IF flushDone[c] = Sentinel
                        THEN \A p \in 0 .. Len(pushed) - 1 : ConnOf(pushed[p + 1]) = c => p \in forced'
                        ELSE /\ flushDone[c] <= Len(handled')
                             /\ \A i \in 0 .. Len(handled') - 1 : i < flushDone[c] /\ IsData(i, c) => i \in landed'
    BY DEF PublishedOK, IsData
  <2>1. Len(handled) \in Nat /\ flushDone[c] \in Int
    BY DEF QInv, TypeOK
  <2>2. CASE flushDone[c] = Sentinel
    BY <2>2 DEF FlushInv, PublishedOK
  <2>3. CASE flushDone[c] # Sentinel
    <3>1. /\ flushDone[c] <= Len(handled)
          /\ \A i \in 0 .. Len(handled) - 1 : i < flushDone[c] /\ IsData(i, c) => i \in landed
      BY <2>3 DEF FlushInv, PublishedOK
    <3>. QED
      BY <3>1, <2>1, <2>3
  <2>. QED
    BY <2>2, <2>3, SMTT(40)
<1>2. WaitersOK'
  BY DEF FlushInv, WaitersOK
<1>3. FlushMeansDrained'
  BY DEF FlushInv, FlushMeansDrained, DataUpTo
<1>. QED
  BY <1>1, <1>2, <1>3 DEF FlushInv

\* A push keeps it: when it goes to a connection that holds a sentinel, the proxy is
\* stopped and the push counts as forced.
LEMMA FlushPush ==
  ASSUME QInv, FlushInv, NoStaleSentinel, NEW t \in Threads, NEW trig \in Triggers, Push(t, trig)
  PROVE  FlushInv'
<1>1. /\ Len(pushed') = Len(pushed) + 1 /\ Len(pushed) \in Nat /\ Len(handled) \in Nat /\ Len(handled) <= Len(pushed)
      /\ \A i \in 0 .. Len(pushed) - 1 : pushed'[i + 1] = pushed[i + 1]
      /\ pushed'[Len(pushed) + 1] = trig /\ handled' = handled
  BY PushGrows DEF QInv, TypeOK
<1>2. /\ flushDone' = flushDone /\ landed' = landed
      /\ forced' = IF flushDone[ConnOf(trig)] = Sentinel /\ ~running THEN forced \cup {Len(pushed)} ELSE forced
      /\ \/ pc' = [pc EXCEPT ![t] = "waitFlush"] /\ pos' = [pos EXCEPT ![t] = Len(pushed)]
         \/ pc' = [pc EXCEPT ![t] = "idle"] /\ pos' = pos
  BY DEF Push, proxyVars, remoteVars
<1>3. ASSUME NEW i \in 0 .. Len(pushed) - 1, NEW c PROVE IsData(i, c)' <=> IsData(i, c)
  BY <1>1, <1>3 DEF IsData
<1>4. PublishedOK'
  <2> SUFFICES ASSUME NEW c \in Conns
               PROVE  IF flushDone[c] = Sentinel
                        THEN \A p \in 0 .. Len(pushed') - 1 : ConnOf(pushed'[p + 1]) = c => p \in forced'
                        ELSE /\ flushDone[c] <= Len(handled)
                             /\ \A i \in 0 .. Len(handled) - 1 : i < flushDone[c] /\ IsData(i, c)' => i \in landed
    BY <1>1, <1>2 DEF PublishedOK
  <2>1. CASE flushDone[c] = Sentinel
    <3>1. \A p \in 0 .. Len(pushed) - 1 : ConnOf(pushed[p + 1]) = c => p \in forced
      BY <2>1 DEF FlushInv, PublishedOK
    <3>2. ~running
      BY <2>1 DEF NoStaleSentinel
    <3>3. ASSUME NEW p \in 0 .. Len(pushed') - 1, ConnOf(pushed'[p + 1]) = c PROVE p \in forced'
      <4>1. CASE p = Len(pushed)
        BY <4>1, <3>2, <3>3, <2>1, <1>1, <1>2
      <4>2. CASE p \in 0 .. Len(pushed) - 1
        BY <4>2, <3>1, <3>3, <1>1, <1>2
      <4>. QED
        BY <4>1, <4>2, <1>1
    <3>. QED
      BY <3>3, <2>1
  <2>2. CASE flushDone[c] # Sentinel
    <3>1. /\ flushDone[c] <= Len(handled)
          /\ \A i \in 0 .. Len(handled) - 1 : i < flushDone[c] /\ IsData(i, c) => i \in landed
      BY <2>2 DEF FlushInv, PublishedOK
    <3>. QED
      BY <3>1, <2>2, <1>1, <1>3
  <2>. QED
    BY <2>1, <2>2
<1>5. WaitersOK'
  <2>1. /\ pc \in [Threads -> {"idle", "waitFlush", "flushed"}] /\ pos \in [Threads -> Int]
        /\ \A u \in Threads : pc[u] # "idle" => pos[u] \in 0 .. Len(pushed) - 1
    BY DEF FlushInv, WaitersOK
  <2>2. CASE pc' = [pc EXCEPT ![t] = "waitFlush"] /\ pos' = [pos EXCEPT ![t] = Len(pushed)]
    BY <2>1, <2>2, <1>1 DEF WaitersOK
  <2>3. CASE pc' = [pc EXCEPT ![t] = "idle"] /\ pos' = pos
    BY <2>1, <2>3, <1>1 DEF WaitersOK
  <2>. QED
    BY <2>2, <2>3, <1>2
<1>6. FlushMeansDrained'
  <2> SUFFICES ASSUME NEW u \in Threads, pc'[u] = "flushed", pos'[u] \notin forced'
               PROVE  DataUpTo(ConnOf(pushed[pos[u] + 1]), pos[u])' \subseteq landed'
    BY DEF FlushMeansDrained
  <2>1. pc \in [Threads -> {"idle", "waitFlush", "flushed"}] /\ pos \in [Threads -> Int]
    BY DEF FlushInv, WaitersOK
  <2>2. pc[u] = "flushed" /\ pos'[u] = pos[u]
    BY <2>1, <1>2
  <2>3. pos[u] \in 0 .. Len(pushed) - 1
    BY <2>2 DEF FlushInv, WaitersOK
  <2>4. pos[u] \notin forced
    BY <2>2, <1>2
  <2>5. DataUpTo(ConnOf(pushed[pos[u] + 1]), pos[u]) \subseteq landed
    BY <2>2, <2>4 DEF FlushInv, FlushMeansDrained
  <2>6. DataUpTo(ConnOf(pushed[pos[u] + 1]), pos[u])' = DataUpTo(ConnOf(pushed[pos[u] + 1]), pos[u])
    <3>1. PICK p \in 0 .. Len(pushed) - 1 : p = pos[u]
      BY <2>3
    <3>2. \A i \in 0 .. p : pushed'[i + 1] = pushed[i + 1]
      BY <1>1
    <3>3. pushed'[p + 1] = pushed[p + 1] /\ pos'[u] = p
      BY <3>1, <2>2, <1>1, SMTT(40)
    <3>. QED
      BY <3>1, <3>2, <3>3 DEF DataUpTo
  <2>. QED
    BY <2>5, <2>6, <1>2, SMTT(40)
<1>. QED
  BY <1>4, <1>5, <1>6 DEF FlushInv

\* waitFlush() returns on a published position past its own, or on a sentinel.
LEMMA FlushWait ==
  ASSUME QInv, FlushInv, NEW t \in Threads, WaitFlush(t)
  PROVE  FlushInv'
<1>1. /\ pushed' = pushed /\ handled' = handled /\ flushDone' = flushDone /\ landed' = landed /\ forced' = forced
      /\ pos' = pos /\ pc' = [pc EXCEPT ![t] = "flushed"] /\ pc[t] = "waitFlush"
      /\ flushDone[ConnOf(pushed[pos[t] + 1])] > pos[t]
  BY DEF WaitFlush, mainVars, proxyVars, remoteVars
<1>2. PublishedOK'
  BY <1>1 DEF FlushInv, PublishedOK, IsData
<1>3. pc \in [Threads -> {"idle", "waitFlush", "flushed"}] /\ pos[t] \in 0 .. Len(pushed) - 1
  BY <1>1 DEF FlushInv, WaitersOK
<1>4. WaitersOK'
  BY <1>1, <1>3 DEF FlushInv, WaitersOK
<1>5. ASSUME pos[t] \notin forced PROVE DataUpTo(ConnOf(pushed[pos[t] + 1]), pos[t]) \subseteq landed
  <2>1. PICK c : c = ConnOf(pushed[pos[t] + 1])
    OBVIOUS
  <2>2. c \in Conns /\ flushDone[c] \in Int /\ Len(handled) \in Nat /\ Len(pushed) \in Nat
    <3>1. pushed \in Seq(Triggers) /\ handled \in Seq(Triggers) /\ flushDone \in [Conns -> Int]
      BY DEF QInv, TypeOK
    <3>2. pushed[pos[t] + 1] \in Triggers
      BY <3>1, <1>3
    <3>. QED
      BY <3>1, <3>2, <2>1, Routes
  <2>3. flushDone[c] # Sentinel
    BY <2>1, <2>2, <1>3, <1>5 DEF FlushInv, PublishedOK
  <2>4. /\ flushDone[c] <= Len(handled)
        /\ \A i \in 0 .. Len(handled) - 1 : i < flushDone[c] /\ IsData(i, c) => i \in landed
    BY <2>2, <2>3 DEF FlushInv, PublishedOK
  <2>5. \A i \in 0 .. pos[t] : i \in 0 .. Len(handled) - 1 /\ i < flushDone[c]
    BY <2>1, <2>2, <2>4, <1>1, <1>3
  <2>. QED
    BY <2>1, <2>4, <2>5 DEF DataUpTo, IsData
<1>6. FlushMeansDrained'
  <2> SUFFICES ASSUME NEW u \in Threads, pc'[u] = "flushed", pos[u] \notin forced
               PROVE  DataUpTo(ConnOf(pushed[pos[u] + 1]), pos[u]) \subseteq landed
    BY <1>1 DEF FlushMeansDrained, DataUpTo
  <2>1. CASE u = t
    BY <2>1, <1>5
  <2>2. CASE u # t
    BY <2>2, <1>1, <1>3 DEF FlushInv, FlushMeansDrained
  <2>. QED
    BY <2>1, <2>2
<1>. QED
  BY <1>2, <1>4, <1>6 DEF FlushInv

\* progressFlushes() publishes a position when all the data up to it has landed.
LEMMA FlushPublish ==
  ASSUME QInv, FlushInv, ProgressFlushes, UNCHANGED <<pushed, handled, pc, pos, landed, forced>>
  PROVE  FlushInv'
<1>1. PublishedOK'
  <2> SUFFICES ASSUME NEW c \in Conns
               PROVE  IF flushDone'[c] = Sentinel
                        THEN \A p \in 0 .. Len(pushed) - 1 : ConnOf(pushed[p + 1]) = c => p \in forced
                        ELSE /\ flushDone'[c] <= Len(handled)
                             /\ \A i \in 0 .. Len(handled) - 1 : i < flushDone'[c] /\ IsData(i, c) => i \in landed
    BY DEF PublishedOK, IsData
  <2>1. CASE pendingFlushPos[c] # None /\ Progressed(c)
    <3>1. flushDone'[c] = pendingFlushPos[c] + 1
      BY <2>1, ProgressFacts, SMTT(40)
    <3>2. pendingFlushPos[c] \in 0 .. Len(handled) - 1 /\ Len(handled) \in Nat /\ Len(handled) <= MaxPush /\ MaxPush \in Nat
      BY <2>1, Routes DEF QInv, TypeOK
    <3>3. flushDone'[c] # Sentinel /\ flushDone'[c] <= Len(handled)
      BY <3>1, <3>2 DEF Sentinel
    <3>4. ASSUME NEW i \in 0 .. Len(handled) - 1, i < flushDone'[c], IsData(i, c) PROVE i \in landed
      <4>1. i \in 0 .. pendingFlushPos[c]
        BY <3>1, <3>2, <3>4
      <4>. QED
        BY <4>1, <3>4, <2>1, ProgressedDrained
    <3>. QED
      BY <3>3, <3>4
  <2>2. CASE ~(pendingFlushPos[c] # None /\ Progressed(c))
    <3>1. flushDone'[c] = flushDone[c]
      BY <2>2, ProgressFacts, SMTT(40)
    <3>. QED
      BY <3>1 DEF FlushInv, PublishedOK
  <2>. QED
    BY <2>1, <2>2
<1>2. WaitersOK' /\ FlushMeansDrained'
  BY DEF FlushInv, WaitersOK, FlushMeansDrained, DataUpTo
<1>. QED
  BY <1>1, <1>2, SMTT(40) DEF FlushInv

\* The end of stopProxy() forces all that waits on what it gives a sentinel.
LEMMA FlushDrainEnd ==
  ASSUME QInv, FlushInv, DrainEnd
  PROVE  FlushInv'
<1> DEFINE pending == {c \in Conns : pendingFlushPos[c] # None}
<1>1. /\ pushed' = pushed /\ handled' = handled /\ landed' = landed /\ pc' = pc /\ pos' = pos
      /\ flushDone' = [c \in Conns |-> IF c \in pending THEN Sentinel ELSE flushDone[c]]
      /\ forced' = forced \cup {p \in 0 .. Len(pushed) - 1 : ConnOf(pushed[p + 1]) \in pending}
  BY ZenonT(40) DEF DrainEnd, threadVars, remoteVars
<1>2. PublishedOK'
  <2> SUFFICES ASSUME NEW c \in Conns
               PROVE  IF flushDone'[c] = Sentinel
                        THEN \A p \in 0 .. Len(pushed) - 1 : ConnOf(pushed[p + 1]) = c => p \in forced'
                        ELSE /\ flushDone'[c] <= Len(handled)
                             /\ \A i \in 0 .. Len(handled) - 1 : i < flushDone'[c] /\ IsData(i, c) => i \in landed
    BY <1>1 DEF PublishedOK, IsData
  <2>1. CASE c \in pending
    BY <2>1, <1>1
  <2>2. CASE c \notin pending
    <3>1. flushDone'[c] = flushDone[c] /\ forced \subseteq forced'
      BY <2>2, <1>1
    <3>. QED
      BY <3>1 DEF FlushInv, PublishedOK
  <2>. QED
    BY <2>1, <2>2
<1>3. WaitersOK' /\ FlushMeansDrained'
  BY <1>1 DEF FlushInv, WaitersOK, FlushMeansDrained, DataUpTo
<1>. QED
  BY <1>2, <1>3, SMTT(40) DEF FlushInv

\* Every step keeps it, from a state where no running proxy meets a sentinel.
LEMMA FlushStep ==
  ASSUME QInv, TokenTypes, FlushInv, NoStaleSentinel, [Next]_vars
  PROVE  FlushInv'
<1>0. Len(handled) \in Nat
  BY DEF QInv, TypeOK
<1>1. ASSUME NEW t \in Threads, NEW trig \in Triggers, Push(t, trig) PROVE FlushInv'
  BY <1>1, FlushPush
<1>2. ASSUME NEW t \in Threads, WaitFlush(t) PROVE FlushInv'
  BY <1>2, FlushWait
<1>3. ASSUME NEW q \in Queues, Perform(q) PROVE FlushInv'
  <2>1. UNCHANGED <<pushed, handled, pc, pos, flushDone, forced>> /\ landed \subseteq landed'
    BY <1>3 DEF Perform, threadVars, mainVars, proxyVars
  <2>. QED
    BY <2>1, <1>0, FlushFrame
<1>4. CASE HandleTrigger
  <2>1. UNCHANGED <<pushed, pc, pos, flushDone, forced, landed>>
    BY <1>4 DEF HandleTrigger, Fifo!AbsHandle, threadVars, mainVars, remoteVars
  <2>2. PICK trig, c, q, ops, h, l : IsNext(trig, c, q, ops, h, l)
    BY ZenonT(40) DEF IsNext
  <2>3. h = Len(handled) /\ h \in Nat /\ Len(handled') = h + 1
    BY <2>2, <1>4, HandleFacts, SMTT(40) DEF QInv, IsNext
  <2>4. Len(handled') \in Nat /\ Len(handled) <= Len(handled')
    BY <2>3
  <2>. QED
    BY <2>1, <2>4, FlushFrame, SMTT(40)
<1>5. CASE Progress \/ Drain
  BY <1>5, FlushPublish DEF Progress, Drain, threadVars, mainVars, remoteVars
<1>6. CASE DrainEnd
  BY <1>6, FlushDrainEnd
<1>7. CASE \/ FlushPoll \/ FlushReturns \/ RequestFlush \/ ThreadInit \/ LoopTop \/ PollEmpty \/ Join
           \/ StopProxy \/ Started \/ UNCHANGED vars \/ \E blocking \in BOOLEAN : StartProxy(blocking)
  <2>1. UNCHANGED <<pushed, handled, pc, pos, flushDone, forced, landed>>
    BY <1>7 DEF FlushPoll, FlushReturns, RequestFlush, ThreadInit, LoopTop, PollEmpty, Join, StopProxy, Started,
                StartProxy, vars, threadVars, mainVars, proxyVars, remoteVars
  <2>. QED
    BY <2>1, <1>0, FlushFrame
<1>. QED
  BY <1>1, <1>2, <1>3, <1>4, <1>5, <1>6, <1>7 DEF Next, ServiceStep, MainStep

\* The invariants hold initially.
LEMMA ProxyInit == Init => QInv /\ TokenTypes /\ FlushInv
<1> SUFFICES ASSUME Init PROVE QInv /\ TokenTypes /\ FlushInv
  OBVIOUS
<1>1. /\ pushed = <<>> /\ handled = <<>> /\ Len(pushed) = 0 /\ Len(handled) = 0
      /\ outboundToken = [s \in Sems |-> 0]
      /\ sq = [q \in Queues |-> <<>>] /\ cq = [q \in Queues |-> 0] /\ numPosted = [q \in Queues |-> 0]
      /\ pendingFlushPos = [c \in Conns |-> None] /\ flushDone = [c \in Conns |-> 0]
      /\ service = "none" /\ pc = [t \in Threads |-> "idle"] /\ pos = [t \in Threads |-> None]
  BY DEF Init, Fifo!AbsInit
<1>2. TypeOK /\ TokenTypes
  BY <1>1, Routes DEF TypeOK, TokenTypes, None
<1>3. QueuesOK
  BY <1>1, SMTT(40) DEF QueuesOK, None
<1>4. PublishedOK
  BY <1>1, Routes DEF PublishedOK, Sentinel
<1>5. WaitersOK /\ FlushMeansDrained
  BY <1>1 DEF WaitersOK, FlushMeansDrained, None
<1>. QED
  BY <1>2, <1>3, <1>4, <1>5 DEF QInv, FlushInv

\* FlushMeansDrained, for any number of threads, connections, queues, semaphores and
\* pushes, with stopProxy() and its forced releases, as long as no proxy is restarted
\* over a sentinel that stopProxy() left behind: then waitFlush() returns on it at once,
\* which is what the run proxy_restart shows.
THEOREM FlushAfterData == Spec /\ []NoStaleSentinel => []FlushMeansDrained
<1>1. Init => QInv /\ TokenTypes /\ FlushInv
  BY ProxyInit
<1>2. QInv /\ TokenTypes /\ FlushInv /\ NoStaleSentinel /\ [Next]_vars => (QInv /\ TokenTypes /\ FlushInv)'
  BY QueuesStep, TokenTypesStep, FlushStep
<1>3. QInv /\ TokenTypes /\ FlushInv => FlushMeansDrained
  BY DEF FlushInv
<1>. QED
  BY <1>1, <1>2, <1>3, PTL DEF Spec

\* No sentinel is ever stored when stopProxy() is not called.
NoStop == stops = 0 /\ mainPc \in {"stopped", "starting", "started", "ready"} /\ \A c \in Conns : flushDone[c] # Sentinel

\* FlushMeansDrained without a condition, for an application that does not call
\* stopProxy() before its last flush has returned (MaxStop = 0).
THEOREM FlushBeforeStop == ASSUME MaxStop = 0 PROVE Spec => []FlushMeansDrained
<1> DEFINE Inv == QInv /\ TokenTypes /\ FlushInv /\ NoStop
<1>1. Init => Inv
  BY ProxyInit, Routes DEF Init, NoStop, Sentinel
<1>2. Inv /\ [Next]_vars => NoStop'
  <2> SUFFICES ASSUME Inv, [Next]_vars PROVE NoStop'
    OBVIOUS
  <2>1. CASE Progress
    <3>1. stops' = stops /\ mainPc' = mainPc /\ ProgressFlushes
      BY <2>1 DEF Progress, mainVars
    <3>2. ASSUME NEW c \in Conns PROVE flushDone'[c] # Sentinel
      <4>1. CASE pendingFlushPos[c] # None /\ Progressed(c)
        <5>1. flushDone'[c] = pendingFlushPos[c] + 1
          BY <4>1, <3>1, ProgressFacts
        <5>2. pendingFlushPos[c] \in 0 .. Len(handled) - 1 /\ Len(handled) \in Nat /\ Len(handled) <= MaxPush /\ MaxPush \in Nat
          BY <4>1, Routes, SMTT(40) DEF QInv, TypeOK
        <5>. QED
          BY <5>1, <5>2 DEF Sentinel
      <4>2. CASE ~(pendingFlushPos[c] # None /\ Progressed(c))
        BY <4>2, <3>1, ProgressFacts, SMTT(40) DEF NoStop
      <4>. QED
        BY <4>1, <4>2
    <3>. QED
      BY <3>1, <3>2 DEF NoStop
  <2>2. CASE \/ \E t \in Threads, trig \in Triggers : Push(t, trig)
             \/ \E t \in Threads : WaitFlush(t)
             \/ \E q \in Queues : Perform(q)
             \/ UNCHANGED vars
    BY <2>2, ZenonT(40) DEF NoStop, Push, WaitFlush, Perform, vars, mainVars, proxyVars
  <2>3. CASE ThreadInit \/ LoopTop \/ PollEmpty \/ HandleTrigger \/ FlushPoll \/ FlushReturns \/ RequestFlush
    BY <2>3, ZenonT(40) DEF NoStop, ThreadInit, LoopTop, PollEmpty, HandleTrigger, FlushPoll, FlushReturns, RequestFlush,
                mainVars, proxyVars
  <2>4. CASE Started \/ \E blocking \in BOOLEAN : StartProxy(blocking)
    BY <2>4 DEF NoStop, Started, StartProxy, proxyVars
  <2>5. CASE StopProxy \/ Join \/ Drain \/ DrainEnd
    BY <2>5 DEF NoStop, StopProxy, Join, Drain, DrainEnd
  <2>. QED
    BY <2>1, <2>2, <2>3, <2>4, <2>5 DEF Next, ServiceStep, MainStep
<1>3. Inv => NoStaleSentinel
  BY DEF NoStop, NoStaleSentinel
<1>4. Inv /\ [Next]_vars => (QInv /\ TokenTypes /\ FlushInv)'
  BY <1>3, QueuesStep, TokenTypesStep, FlushStep
<1>5. Inv => FlushMeansDrained
  BY DEF FlushInv
<1>. QED
  BY <1>1, <1>2, <1>4, <1>5, PTL DEF Spec
=============================================================================
