-------------------------- MODULE ProxySignalProofs --------------------------
(***************************************************************************)
(* Data lands before the signal behind it, for any number of threads,      *)
(* connections, queues, semaphores, pushes and restarts of the proxy.      *)
(***************************************************************************)
EXTENDS ProxyServiceProofs, FiniteSetTheorems

\* The positions up to p with a signal on semaphore s.
FlagsIn(seq, s, p) == {i \in 0 .. p : seq[i + 1].sem = s /\ "flag" \in seq[i + 1].type}
Flags(s, p) == FlagsIn(pushed, s, p)

\* The n-th operation of queue q takes the token of semaphore s to v.
SignalAt(q, n, s, v) ==
  n \in 1 .. Len(sq[q]) /\ sq[q][n].kind = "signal" /\ sq[q][n].sem = s /\ sq[q][n].val = v

\* A queue holds, in order, exactly the signals that are posted and not yet performed.
TokensOK ==
  /\ inboundToken \in [Sems -> Nat] /\ outboundToken \in [Sems -> Nat]
  /\ \A s \in Sems : /\ inboundToken[s] <= outboundToken[s]
                     /\ outboundToken[s] = Cardinality(Flags(s, Len(handled) - 1))
  /\ \A q \in Queues, n \in Int, s \in Sems, v \in Int : SignalAt(q, n, s, v) =>
       /\ QueueOf[SemConn[s]] = q /\ sq[q][n].old = v - 1
       /\ inboundToken[s] < v /\ v <= outboundToken[s]
  /\ \A q \in Queues, m \in Int, n \in Int, s \in Sems, v \in Int, w \in Int :
       SignalAt(q, m, s, v) /\ SignalAt(q, n, s, w) /\ m < n => v < w
  /\ \A s \in Sems, v \in Int : inboundToken[s] < v /\ v <= outboundToken[s] =>
       \E n \in Int : SignalAt(QueueOf[SemConn[s]], n, s, v)

\* The data before a queued signal has landed or is queued before it.
BehindData ==
  \A q \in Queues, n \in Int, s \in Sems, v \in Int : SignalAt(q, n, s, v) =>
    \A p \in 0 .. Len(pushed) - 1 :
      p \in Flags(s, p) /\ Cardinality(Flags(s, p)) <= v =>
        \A i \in 0 .. p : IsData(i, SemConn[s]) => i \in landed \/ Written(i, q, n - 1)

\* DataBeforeSignal: the data before a signal that was performed has landed.
DataShown ==
  \A s \in Sems, p \in 0 .. Len(pushed) - 1 :
    p \in Flags(s, p) /\ Cardinality(Flags(s, p)) <= inboundToken[s] =>
      \A i \in 0 .. p : IsData(i, SemConn[s]) => i \in landed

SignalInv == TokensOK /\ BehindData /\ DataShown
-----------------------------------------------------------------------------
(***************************************************************************)
(* Signals.                                                                *)
(***************************************************************************)

\* Signals are counted, and a later one counts more.
LEMMA FlagsBeyond ==
  ASSUME NEW seq, NEW s, NEW n \in Nat, NEW p \in Nat, n <= p, p \in FlagsIn(seq, s, p)
  PROVE  /\ Cardinality(FlagsIn(seq, s, p)) \in Nat /\ Cardinality(FlagsIn(seq, s, n - 1)) \in Nat
         /\ Cardinality(FlagsIn(seq, s, p)) > Cardinality(FlagsIn(seq, s, n - 1))
<1> DEFINE S == FlagsIn(seq, s, n - 1)
           T == FlagsIn(seq, s, p)
<1>1. IsFiniteSet(0 .. p) /\ IsFiniteSet(0 .. n - 1)
  BY FS_Interval
<1>2. S \subseteq 0 .. n - 1 /\ T \subseteq 0 .. p /\ p \notin S /\ S \cup {p} \subseteq T
  BY DEF FlagsIn
<1> HIDE DEF S, T
<1>3. IsFiniteSet(S) /\ IsFiniteSet(T) /\ Cardinality(S) \in Nat /\ Cardinality(T) \in Nat
  BY <1>1, <1>2, FS_Subset, FS_CardinalityType, ZenonT(40)
<1>4. Cardinality(S \cup {p}) = Cardinality(S) + 1
  BY <1>2, <1>3, FS_AddElement, ZenonT(40)
<1>5. Cardinality(S \cup {p}) <= Cardinality(T)
  BY <1>2, <1>3, FS_Subset, ZenonT(40)
<1>6. Cardinality(T) > Cardinality(S)
  BY <1>3, <1>4, <1>5
<1>. QED
  BY <1>3, <1>6 DEF S, T

\* What the next position adds.
LEMMA FlagsNext ==
  ASSUME NEW seq, NEW s, NEW h \in Nat
  PROVE  /\ Cardinality(FlagsIn(seq, s, h - 1)) \in Nat
         /\ Cardinality(FlagsIn(seq, s, h)) =
              IF seq[h + 1].sem = s /\ "flag" \in seq[h + 1].type
                THEN Cardinality(FlagsIn(seq, s, h - 1)) + 1
                ELSE Cardinality(FlagsIn(seq, s, h - 1))
<1> DEFINE S == FlagsIn(seq, s, h - 1)
<1>1. IsFiniteSet(0 .. h - 1) /\ S \subseteq 0 .. h - 1 /\ h \notin S
  BY FS_Interval DEF FlagsIn
<1>2. FlagsIn(seq, s, h) = IF seq[h + 1].sem = s /\ "flag" \in seq[h + 1].type THEN S \cup {h} ELSE S
  BY DEF FlagsIn
<1> HIDE DEF S
<1>3. IsFiniteSet(S) /\ Cardinality(S) \in Nat
  BY <1>1, FS_Subset, FS_CardinalityType, ZenonT(40)
<1>4. Cardinality(S \cup {h}) = Cardinality(S) + 1
  BY <1>1, <1>3, FS_AddElement, ZenonT(40)
<1>. QED
  BY <1>2, <1>3, <1>4 DEF S

\* What the queues need to know of the tokens.
LEMMA TokensTyped == TokensOK => TokenTypes
BY DEF TokensOK, TokenTypes

\* The definition of DataBeforeSignal in terms of the above.
LEMMA ShownData == DataShown => DataBeforeSignal
BY DEF DataShown, DataBeforeSignal, Flags, FlagsIn, IsData, DataUpTo

\* A step that neither pushes, handles nor performs.
LEMMA SignalsFrame ==
  ASSUME SignalInv, UNCHANGED <<pushed, handled, sq, landed, inboundToken, outboundToken>>
  PROVE  SignalInv'
<1>0. TokensOK
  BY DEF SignalInv
<1>1. TokensOK'
  <2>1. ASSUME NEW s \in Sems
        PROVE  inboundToken'[s] <= outboundToken'[s] /\ outboundToken'[s] = Cardinality(Flags(s, Len(handled) - 1)')
    BY <1>0 DEF TokensOK, Flags
  <2>2. ASSUME NEW q, NEW n, NEW s, NEW v
        PROVE  SignalAt(q, n, s, v)' <=> SignalAt(q, n, s, v)
    BY Zenon DEF SignalAt
  <2>3. ASSUME NEW q \in Queues, NEW n \in Int, NEW s \in Sems, NEW v \in Int, SignalAt(q, n, s, v)'
        PROVE  /\ QueueOf[SemConn[s]] = q /\ sq'[q][n].old = v - 1
               /\ inboundToken'[s] < v /\ v <= outboundToken'[s]
    BY <2>2, <2>3, <1>0 DEF TokensOK
  <2>4. ASSUME NEW q \in Queues, NEW m \in Int, NEW n \in Int, NEW s \in Sems, NEW v \in Int, NEW w \in Int,
               SignalAt(q, m, s, v)', SignalAt(q, n, s, w)', m < n
        PROVE  v < w
    BY <2>2, <2>4, <1>0 DEF TokensOK
  <2>5. ASSUME NEW s \in Sems, NEW v \in Int, inboundToken'[s] < v, v <= outboundToken'[s]
        PROVE  \E n \in Int : SignalAt(QueueOf[SemConn[s]], n, s, v)'
    <3>1. \E n \in Int : SignalAt(QueueOf[SemConn[s]], n, s, v)
      BY <2>5, <1>0 DEF TokensOK
    <3>. QED
      BY <3>1, <2>2
  <2>6. inboundToken' \in [Sems -> Nat] /\ outboundToken' \in [Sems -> Nat]
    BY <1>0 DEF TokensOK
  <2>. QED
    BY <2>1, <2>3, <2>4, <2>5, <2>6, ZenonT(40) DEF TokensOK
<1>2. BehindData'
  <2> SUFFICES ASSUME NEW q \in Queues, NEW n \in Int, NEW s \in Sems, NEW v \in Int, SignalAt(q, n, s, v)',
                      NEW p \in 0 .. Len(pushed') - 1,
                      p \in Flags(s, p)', Cardinality(Flags(s, p)') <= v,
                      NEW i \in 0 .. p, IsData(i, SemConn[s])'
               PROVE  i \in landed' \/ Written(i, q, n - 1)'
    BY DEF BehindData
  <2>1. SignalAt(q, n, s, v) /\ p \in Flags(s, p) /\ Cardinality(Flags(s, p)) <= v /\ IsData(i, SemConn[s])
    BY DEF SignalAt, Flags, IsData
  <2>2. i \in landed \/ Written(i, q, n - 1)
    BY <2>1 DEF SignalInv, BehindData
  <2>. QED
    BY <2>2 DEF Written
<1>3. DataShown'
  BY DEF SignalInv, DataShown, Flags, IsData
<1>. QED
  BY <1>1, <1>2, <1>3 DEF SignalInv

\* A push keeps the invariant of the signals: its signal is beyond all that are posted.
LEMMA SignalsPush ==
  ASSUME QInv, SignalInv, NEW t \in Threads, NEW trig \in Triggers, Push(t, trig)
  PROVE  SignalInv'
<1>1. TypeOK /\ TokensOK /\ BehindData /\ DataShown
  BY DEF QInv, SignalInv
<1>2. sq' = sq /\ landed' = landed /\ inboundToken' = inboundToken /\ outboundToken' = outboundToken
  BY DEF Push, proxyVars, queueVars, remoteVars
<1>3. /\ Len(pushed') = Len(pushed) + 1 /\ Len(pushed) \in Nat /\ Len(handled) \in Nat
      /\ Len(handled) <= Len(pushed) /\ handled' = handled
      /\ \A i \in 0 .. Len(pushed) - 1 : pushed'[i + 1] = pushed[i + 1]
  BY <1>1, PushGrows DEF TypeOK
<1>4. ASSUME NEW s, NEW p \in Int, p < Len(pushed) PROVE Flags(s, p)' = Flags(s, p)
  <2>1. \A i \in 0 .. p : pushed'[i + 1] = pushed[i + 1]
    BY <1>3, <1>4
  <2>. QED
    BY <2>1 DEF Flags, FlagsIn
<1>5. ASSUME NEW s \in Sems, NEW p \in Nat, p = Len(pushed), p \in Flags(s, p)'
      PROVE  Cardinality(Flags(s, p)') > outboundToken[s] /\ Cardinality(Flags(s, p)') \in Nat
  <2>1. p \in FlagsIn(pushed', s, p) /\ Len(handled) <= p
    BY <1>3, <1>5 DEF Flags
  <2>2. /\ Cardinality(FlagsIn(pushed', s, p)) \in Nat
        /\ Cardinality(FlagsIn(pushed', s, p)) > Cardinality(FlagsIn(pushed', s, Len(handled) - 1))
    BY <2>1, <1>3, FlagsBeyond
  <2>3. FlagsIn(pushed', s, Len(handled) - 1) = Flags(s, Len(handled) - 1)
    <3>1. \A i \in 0 .. Len(handled) - 1 : pushed'[i + 1] = pushed[i + 1]
      BY <1>3
    <3>. QED
      BY <3>1 DEF Flags, FlagsIn
  <2>4. outboundToken[s] = Cardinality(Flags(s, Len(handled) - 1))
    BY <1>1 DEF TokensOK
  <2>. QED
    BY <2>2, <2>3, <2>4 DEF Flags
<1>6. TokensOK'
  <2>1. \A s \in Sems : Flags(s, Len(handled) - 1)' = Flags(s, Len(handled) - 1)
    <3>1. \A i \in 0 .. Len(handled) - 1 : pushed'[i + 1] = pushed[i + 1]
      BY <1>3
    <3>. QED
      BY <3>1, <1>3 DEF Flags, FlagsIn
  <2>. QED
    BY <2>1, <1>1, <1>2 DEF TokensOK, SignalAt
<1>7. ASSUME NEW i \in Int, NEW c, i < Len(pushed), 0 <= i PROVE IsData(i, c)' = IsData(i, c)
  BY <1>3, <1>7 DEF IsData
<1>8. BehindData'
  <2> SUFFICES ASSUME NEW q \in Queues, NEW n \in Int, NEW s \in Sems, NEW v \in Int, SignalAt(q, n, s, v)',
                      NEW p \in 0 .. Len(pushed') - 1,
                      p \in Flags(s, p)', Cardinality(Flags(s, p)') <= v,
                      NEW i \in 0 .. p, IsData(i, SemConn[s])'
               PROVE  i \in landed' \/ Written(i, q, n - 1)'
    BY DEF BehindData
  <2>0. SignalAt(q, n, s, v) /\ p \in Nat /\ p < Len(pushed')
    BY <1>2, <1>3 DEF SignalAt
  <2>1. v <= outboundToken[s] /\ outboundToken[s] \in Nat
    BY <2>0, <1>1 DEF TokensOK
  <2>2. p # Len(pushed)
    BY <2>0, <2>1, <1>3, <1>5
  <2>3. p \in 0 .. Len(pushed) - 1 /\ p \in Int /\ p < Len(pushed) /\ i < Len(pushed)
    BY <2>0, <2>2, <1>3
  <2>4. Flags(s, p)' = Flags(s, p)
    BY <2>3, <1>4
  <2>5. IsData(i, SemConn[s])
    BY <2>3, <1>7
  <2>6. i \in landed \/ Written(i, q, n - 1)
    BY <2>0, <2>3, <2>4, <2>5, <1>1 DEF BehindData
  <2>. QED
    BY <2>6, <1>2 DEF Written
<1>9. DataShown'
  <2> SUFFICES ASSUME NEW s \in Sems, NEW p \in Nat, p < Len(pushed'),
                      p \in Flags(s, p)', Cardinality(Flags(s, p)') <= inboundToken[s],
                      NEW i \in 0 .. p, IsData(i, SemConn[s])'
               PROVE  i \in landed
    BY <1>2, <1>3 DEF DataShown
  <2>1. inboundToken[s] \in Nat /\ outboundToken[s] \in Nat /\ inboundToken[s] <= outboundToken[s]
    BY <1>1 DEF TokensOK
  <2>2. p # Len(pushed)
    BY <2>1, <1>3, <1>5
  <2>3. p \in 0 .. Len(pushed) - 1 /\ p \in Int /\ p < Len(pushed) /\ i < Len(pushed)
    BY <2>2, <1>3
  <2>4. Flags(s, p)' = Flags(s, p)
    BY <2>3, <1>4
  <2>5. IsData(i, SemConn[s])
    BY <2>3, <1>7
  <2>. QED
    BY <2>3, <2>4, <2>5, <1>1 DEF DataShown
<1>. QED
  BY <1>6, <1>8, <1>9 DEF SignalInv

\* The signals that are left when an operation is performed.
LEMMA PerformSignals ==
  ASSUME TypeOK, NEW q \in Queues, Perform(q), NEW r \in Queues, NEW n \in Int, NEW s, NEW v
  PROVE  /\ r # q => (SignalAt(r, n, s, v)' <=> SignalAt(r, n, s, v)) /\ sq'[r][n] = sq[r][n]
         /\ SignalAt(q, n, s, v)' => n >= 1 /\ SignalAt(q, n + 1, s, v) /\ sq'[q][n] = sq[q][n + 1]
         /\ SignalAt(q, n, s, v) /\ n # 1 => SignalAt(q, n - 1, s, v)'
<1>1. r # q => sq'[r] = sq[r]
  BY PerformFacts
<1>2. Len(sq[q]) \in Nat /\ Len(sq'[q]) = Len(sq[q]) - 1 /\ \A m \in 1 .. Len(sq[q]) - 1 : sq'[q][m] = sq[q][m + 1]
  BY PerformFacts
<1>3. r # q => (SignalAt(r, n, s, v)' <=> SignalAt(r, n, s, v)) /\ sq'[r][n] = sq[r][n]
  BY <1>1 DEF SignalAt
<1>4. ASSUME SignalAt(q, n, s, v)' PROVE n >= 1 /\ SignalAt(q, n + 1, s, v) /\ sq'[q][n] = sq[q][n + 1]
  <2>1. n \in 1 .. Len(sq[q]) - 1 /\ n + 1 \in 1 .. Len(sq[q])
    BY <1>2, <1>4 DEF SignalAt
  <2>. QED
    BY <2>1, <1>2, <1>4 DEF SignalAt
<1>5. ASSUME SignalAt(q, n, s, v), n # 1 PROVE SignalAt(q, n - 1, s, v)'
  <2>1. n - 1 \in 1 .. Len(sq[q]) - 1 /\ (n - 1) + 1 = n
    BY <1>2, <1>5 DEF SignalAt
  <2>2. sq'[q][n - 1] = sq[q][n]
    BY <2>1, <1>2
  <2>. QED
    BY <2>1, <2>2, <1>2, <1>5 DEF SignalAt
<1>. QED
  BY <1>3, <1>4, <1>5

\* The token of a semaphore advances by one when its signal is performed, by an atomic
\* add as by a copy, because signals are performed in order.
LEMMA PerformToken ==
  ASSUME TypeOK, TokensOK, NEW q \in Queues, Perform(q)
  PROVE  \/ sq[q][1].kind = "write" /\ inboundToken' = inboundToken
         \/ \E s \in Sems : \E v \in Int :
              /\ SignalAt(q, 1, s, v) /\ v = inboundToken[s] + 1 /\ landed' = landed
              /\ inboundToken' = [inboundToken EXCEPT ![s] = v]
<1>1. sq[q][1] \in Ops /\ Head(sq[q]) = sq[q][1] /\ 1 \in 1 .. Len(sq[q])
  BY PerformFacts
<1>2. CASE sq[q][1].kind = "write"
  BY <1>1, <1>2 DEF Perform
<1>3. CASE sq[q][1].kind # "write"
  <2>1. sq[q][1].kind = "signal" /\ sq[q][1].sem \in Sems /\ sq[q][1].old \in Int /\ sq[q][1].val \in Int
    BY <1>1, <1>3 DEF Ops
  <2>2. PICK s \in Sems, v \in Int : s = sq[q][1].sem /\ v = sq[q][1].val
    BY <2>1
  <2>3. SignalAt(q, 1, s, v)
    BY <2>1, <2>2, <1>1 DEF SignalAt
  <2>4. /\ QueueOf[SemConn[s]] = q /\ sq[q][1].old = v - 1 /\ inboundToken[s] < v /\ v <= outboundToken[s]
        /\ inboundToken[s] \in Nat /\ outboundToken[s] \in Nat
    BY <2>3 DEF TokensOK
  <2>5. v = inboundToken[s] + 1
    <3>1. inboundToken[s] + 1 \in Int /\ inboundToken[s] < inboundToken[s] + 1 /\ inboundToken[s] + 1 <= outboundToken[s]
      BY <2>4
    <3>2. PICK n \in Int : SignalAt(q, n, s, inboundToken[s] + 1)
      BY <3>1, <2>4 DEF TokensOK
    <3>3. CASE n = 1
      BY <3>2, <3>3, <2>3 DEF SignalAt
    <3>4. CASE n # 1
      <4>1. 1 < n
        BY <3>2, <3>4, PerformFacts DEF SignalAt
      <4>2. v < inboundToken[s] + 1
        BY <4>1, <3>1, <3>2, <2>3 DEF TokensOK
      <4>. QED
        BY <4>2, <2>4
    <3>. QED
      BY <3>3, <3>4
  <2>6. /\ landed' = landed
        /\ inboundToken' = [inboundToken EXCEPT ![s] = IF IbQueue(q) THEN @ + sq[q][1].val - sq[q][1].old ELSE sq[q][1].val]
    BY <2>2, <1>1, <1>3 DEF Perform
  <2>7. (IF IbQueue(q) THEN inboundToken[s] + sq[q][1].val - sq[q][1].old ELSE sq[q][1].val) = v
    BY <2>2, <2>4, <2>5
  <2>8. inboundToken' = [inboundToken EXCEPT ![s] = v]
    BY <2>6, <2>7, ZenonT(40)
  <2>. QED
    BY <2>3, <2>5, <2>6, <2>8, ZenonT(40)
<1>. QED
  BY <1>2, <1>3

\* The NIC and the copy engine keep the invariant of the signals.
LEMMA SignalsPerform ==
  ASSUME QInv, SignalInv, NEW q \in Queues, Perform(q)
  PROVE  SignalInv'
<1>1. TypeOK /\ TokensOK /\ BehindData /\ DataShown
  BY DEF QInv, SignalInv
<1>2. /\ pushed' = pushed /\ handled' = handled /\ outboundToken' = outboundToken /\ landed \subseteq landed'
  BY DEF Perform, threadVars, proxyVars
<1>3. \A s, p : Flags(s, p)' = Flags(s, p)
  BY <1>2 DEF Flags
<1>4. ASSUME NEW s \in Sems
      PROVE  /\ inboundToken'[s] \in Nat /\ inboundToken[s] \in Nat /\ outboundToken[s] \in Nat
             /\ \/ inboundToken'[s] = inboundToken[s]
                \/ SignalAt(q, 1, s, inboundToken'[s]) /\ inboundToken'[s] = inboundToken[s] + 1
             /\ \A v \in Int : SignalAt(q, 1, s, v) => inboundToken'[s] = v
  <2>1. inboundToken \in [Sems -> Nat] /\ outboundToken \in [Sems -> Nat]
    BY <1>1 DEF TokensOK
  <2>2. CASE sq[q][1].kind = "write" /\ inboundToken' = inboundToken
    BY <2>1, <2>2 DEF SignalAt
  <2>3. ASSUME NEW z \in Sems, NEW v \in Int, SignalAt(q, 1, z, v), v = inboundToken[z] + 1,
               inboundToken' = [inboundToken EXCEPT ![z] = v]
        PROVE  /\ inboundToken'[s] \in Nat
               /\ \/ inboundToken'[s] = inboundToken[s]
                  \/ SignalAt(q, 1, s, inboundToken'[s]) /\ inboundToken'[s] = inboundToken[s] + 1
               /\ \A w \in Int : SignalAt(q, 1, s, w) => inboundToken'[s] = w
    <3>1. inboundToken'[s] = IF s = z THEN v ELSE inboundToken[s]
      BY <2>1, <2>3
    <3>2. CASE s = z
      BY <3>1, <3>2, <2>1, <2>3 DEF SignalAt
    <3>3. CASE s # z
      BY <3>1, <3>3, <2>1, <2>3 DEF SignalAt
    <3>. QED
      BY <3>2, <3>3
  <2>. QED
    BY <2>1, <2>2, <2>3, <1>1, PerformToken
<1>5. inboundToken' \in [Sems -> Nat]
  <2>1. inboundToken \in [Sems -> Nat]
    BY <1>1 DEF TokensOK
  <2>2. CASE inboundToken' = inboundToken
    BY <2>1, <2>2
  <2>3. ASSUME NEW z \in Sems, NEW v \in Int, v = inboundToken[z] + 1, inboundToken' = [inboundToken EXCEPT ![z] = v]
        PROVE  inboundToken' \in [Sems -> Nat]
    BY <2>1, <2>3
  <2>. QED
    BY <2>2, <2>3, <1>1, PerformToken
<1>6. ASSUME NEW r \in Queues, NEW n \in Int, NEW s \in Sems, NEW v \in Int, SignalAt(r, n, s, v)'
      PROVE  /\ SignalAt(r, IF r = q THEN n + 1 ELSE n, s, v)
             /\ sq'[r][n] = sq[r][IF r = q THEN n + 1 ELSE n] /\ n >= 1
  <2>1. CASE r = q
    BY <2>1, <1>1, <1>6, PerformSignals
  <2>2. CASE r # q
    <3>1. SignalAt(r, n, s, v) /\ sq'[r][n] = sq[r][n]
      BY <2>2, <1>1, <1>6, PerformSignals
    <3>. QED
      BY <3>1, <2>2, <1>1 DEF SignalAt, TypeOK
  <2>. QED
    BY <2>1, <2>2
<1>7. ASSUME NEW r \in Queues, NEW n \in Int, NEW s \in Sems, NEW v \in Int, SignalAt(r, n, s, v)'
      PROVE  /\ QueueOf[SemConn[s]] = r /\ sq'[r][n].old = v - 1
             /\ inboundToken'[s] < v /\ v <= outboundToken'[s]
  <2>1. PICK k \in Int : k = (IF r = q THEN n + 1 ELSE n) /\ SignalAt(r, k, s, v) /\ sq'[r][n] = sq[r][k] /\ n >= 1
    BY <1>6, <1>7
  <2>2. QueueOf[SemConn[s]] = r /\ sq[r][k].old = v - 1 /\ inboundToken[s] < v /\ v <= outboundToken[s]
    BY <2>1, <1>1 DEF TokensOK
  <2>3. inboundToken'[s] < v
    <3>1. CASE inboundToken'[s] = inboundToken[s]
      BY <3>1, <2>2
    <3>2. CASE SignalAt(q, 1, s, inboundToken'[s])
      <4>1. inboundToken'[s] \in Int
        BY <1>4
      <4>2. PICK w \in Int : w = inboundToken'[s]
        BY <4>1
      <4>3. SignalAt(q, 1, s, w)
        BY <4>2, <3>2
      <4>4. QueueOf[SemConn[s]] = q
        BY <4>3, <1>1 DEF TokensOK
      <4>5. r = q /\ 1 < k
        BY <4>4, <2>1, <2>2, SMTT(40)
      <4>6. w < v
        BY <4>3, <4>5, <2>1, <1>1 DEF TokensOK
      <4>. QED
        BY <4>2, <4>6
    <3>. QED
      BY <3>1, <3>2, <1>4
  <2>. QED
    BY <2>1, <2>2, <2>3, <1>2
<1>8. ASSUME NEW r \in Queues, NEW m \in Int, NEW n \in Int, NEW s \in Sems, NEW v \in Int, NEW w \in Int,
             SignalAt(r, m, s, v)', SignalAt(r, n, s, w)', m < n
      PROVE  v < w
  <2>1. SignalAt(r, IF r = q THEN m + 1 ELSE m, s, v) /\ SignalAt(r, IF r = q THEN n + 1 ELSE n, s, w)
    BY <1>6, <1>8, ZenonT(40)
  <2>2. PICK a \in Int, b \in Int : a = (IF r = q THEN m + 1 ELSE m) /\ b = (IF r = q THEN n + 1 ELSE n)
    OBVIOUS
  <2>3. a < b /\ SignalAt(r, a, s, v) /\ SignalAt(r, b, s, w)
    BY <2>1, <2>2, <1>8
  <2>. QED
    BY <2>3, <1>1 DEF TokensOK
<1>9. ASSUME NEW s \in Sems, NEW v \in Int, inboundToken'[s] < v, v <= outboundToken[s]
      PROVE  \E n \in Int : SignalAt(QueueOf[SemConn[s]], n, s, v)'
  <2>1. inboundToken[s] < v
    BY <1>4, <1>9
  <2>2. PICK n \in Int : SignalAt(QueueOf[SemConn[s]], n, s, v)
    BY <2>1, <1>1, <1>9 DEF TokensOK
  <2>3. QueueOf[SemConn[s]] \in Queues
    BY ProxyAssumption
  <2>4. CASE QueueOf[SemConn[s]] # q
    BY <2>2, <2>3, <2>4, <1>1, PerformSignals
  <2>5. CASE QueueOf[SemConn[s]] = q
    <3>1. n # 1
      BY <2>2, <2>5, <1>4, <1>9
    <3>2. SignalAt(q, n - 1, s, v)'
      BY <3>1, <2>2, <2>5, <1>1, PerformSignals, ZenonT(40)
    <3>. QED
      BY <3>2, <2>5
  <2>. QED
    BY <2>4, <2>5
<1>10. ASSUME NEW s \in Sems
       PROVE  /\ inboundToken'[s] <= outboundToken'[s]
              /\ outboundToken'[s] = Cardinality(Flags(s, Len(handled) - 1)')
  <2>1. inboundToken[s] <= outboundToken[s] /\ outboundToken[s] = Cardinality(Flags(s, Len(handled) - 1))
    BY <1>1, SMTT(40) DEF TokensOK
  <2>2. inboundToken'[s] <= outboundToken[s]
    <3>1. CASE inboundToken'[s] = inboundToken[s]
      BY <3>1, <2>1
    <3>2. CASE SignalAt(q, 1, s, inboundToken'[s])
      <4>1. PICK w \in Int : w = inboundToken'[s]
        BY <1>4
      <4>2. SignalAt(q, 1, s, w)
        BY <4>1, <3>2
      <4>3. w <= outboundToken[s]
        BY <4>2, <1>1, SMTT(40) DEF TokensOK
      <4>. QED
        BY <4>1, <4>3
    <3>. QED
      BY <3>1, <3>2, <1>4, SMTT(40)
  <2>. QED
    BY <2>1, <2>2, <1>2, SMTT(40) DEF Flags
<1>11. TokensOK'
  <2>1. outboundToken' \in [Sems -> Nat]
    BY <1>1, <1>2 DEF TokensOK
  <2>2. \A s \in Sems, v \in Int : inboundToken'[s] < v /\ v <= outboundToken'[s] =>
          \E n \in Int : SignalAt(QueueOf[SemConn[s]], n, s, v)'
    BY <1>2, <1>9
  <2>. QED
    BY <2>1, <2>2, <1>5, <1>7, <1>8, <1>10, SMTT(40) DEF TokensOK
<1>12. BehindData'
  <2> SUFFICES ASSUME NEW r \in Queues, NEW n \in Int, NEW s \in Sems, NEW v \in Int, SignalAt(r, n, s, v)',
                      NEW p \in 0 .. Len(pushed') - 1,
                      p \in Flags(s, p)', Cardinality(Flags(s, p)') <= v,
                      NEW i \in 0 .. p, IsData(i, SemConn[s])'
               PROVE  i \in landed' \/ Written(i, r, n - 1)'
    BY DEF BehindData
  <2>1. PICK k \in Int : k = (IF r = q THEN n + 1 ELSE n) /\ SignalAt(r, k, s, v) /\ n >= 1
    BY <1>6
  <2>2. /\ p \in 0 .. Len(pushed) - 1 /\ p \in Flags(s, p) /\ Cardinality(Flags(s, p)) <= v
        /\ IsData(i, SemConn[s])
    BY <1>2, <1>3 DEF IsData
  <2>3. i \in landed \/ Written(i, r, k - 1)
    BY <2>1, <2>2, <1>1 DEF BehindData
  <2>4. k - 1 \in Nat /\ k - 1 <= Len(sq[r]) /\ i \in Int
    BY <2>1, <1>1, SMTT(40) DEF SignalAt, TypeOK
  <2>5. i \in landed' \/ Written(i, r, IF r = q THEN (k - 1) - 1 ELSE k - 1)'
    BY <2>3, <2>4, <1>1, PerformMoves, ZenonT(40)
  <2>6. (IF r = q THEN (k - 1) - 1 ELSE k - 1) = n - 1
    BY <2>1, SMTT(40)
  <2>. QED
    BY <2>5, <2>6
<1>13. DataShown'
  <2> SUFFICES ASSUME NEW s \in Sems, NEW p \in 0 .. Len(pushed) - 1,
                      p \in Flags(s, p), Cardinality(Flags(s, p)) <= inboundToken'[s],
                      NEW i \in 0 .. p, IsData(i, SemConn[s])
               PROVE  i \in landed'
    BY <1>2, <1>3 DEF DataShown, IsData
  <2>1. CASE inboundToken'[s] = inboundToken[s]
    BY <2>1, <1>1, <1>2 DEF DataShown
  <2>2. CASE SignalAt(q, 1, s, inboundToken'[s])
    <3>1. PICK w \in Int : w = inboundToken'[s]
      BY <1>4
    <3>2. SignalAt(q, 1, s, w) /\ Cardinality(Flags(s, p)) <= w
      BY <3>1, <2>2
    <3>3. i \in landed \/ Written(i, q, 1 - 1)
      BY <3>2, <1>1, SMTT(40) DEF BehindData
    <3>. QED
      BY <3>3, <1>2 DEF Written
  <2>. QED
    BY <2>1, <2>2, <1>4, SMTT(40)
<1>. QED
  BY <1>11, <1>12, <1>13 DEF SignalInv

\* handleTrigger() posts at most one signal, the last of its operations, and it takes
\* the token one further.
LEMMA HandleSignals ==
  ASSUME TypeOK, TokensOK, HandleTrigger, NEW trig, NEW c, NEW q, NEW ops, NEW h, NEW l,
         IsNext(trig, c, q, ops, h, l), NEW r \in Queues, NEW n \in Int, NEW s \in Sems, NEW v \in Int
  PROVE  /\ SignalAt(r, n, s, v) => SignalAt(r, n, s, v)' /\ sq'[r][n] = sq[r][n] /\ (r = q => n <= l)
         /\ SignalAt(r, n, s, v)' =>
              \/ SignalAt(r, n, s, v)
              \/ /\ r = q /\ s = trig.sem /\ "flag" \in trig.type /\ n = l + Len(ops) /\ n > l
                 /\ v = outboundToken[s] + 1 /\ sq'[r][n].old = outboundToken[s]
         /\ r = q /\ s = trig.sem /\ "flag" \in trig.type /\ n = l + Len(ops) /\ v = outboundToken[s] + 1 =>
              SignalAt(r, n, s, v)'
<1>1. /\ trig \in Triggers /\ l \in Nat /\ Len(ops) \in 0 .. 2 /\ \A z \in Queues \ {q} : sq'[z] = sq[z]
      /\ Len(sq'[q]) = l + Len(ops)
      /\ \A m \in 1 .. l : sq'[q][m] = sq[q][m]
      /\ \A m \in 1 .. Len(ops) : sq'[q][l + m] = ops[m]
  BY HandleFacts, TokensTyped
<1>2. l = Len(sq[q]) /\ ops = Posted(trig)
  BY DEF IsNext
<1>3. /\ "flag" \in trig.type =>
              /\ Len(ops) >= 1 /\ ops[Len(ops)].kind = "signal" /\ ops[Len(ops)].sem = trig.sem
              /\ ops[Len(ops)].old = outboundToken[trig.sem] /\ ops[Len(ops)].val = outboundToken[trig.sem] + 1
      /\ \A m \in 1 .. Len(ops) : ops[m].kind = "signal" => "flag" \in trig.type /\ m = Len(ops)
  BY <1>1, <1>2, PostedOps, TokensTyped, SMTT(40)
<1>4. ASSUME SignalAt(r, n, s, v)
      PROVE  SignalAt(r, n, s, v)' /\ sq'[r][n] = sq[r][n] /\ (r = q => n <= l)
  <2>1. CASE r = q
    BY <2>1, <1>1, <1>2, <1>4 DEF SignalAt
  <2>2. CASE r # q
    BY <2>2, <1>1, <1>4, SMTT(40) DEF SignalAt
  <2>. QED
    BY <2>1, <2>2
<1>5. ASSUME SignalAt(r, n, s, v)'
      PROVE  \/ SignalAt(r, n, s, v)
             \/ /\ r = q /\ s = trig.sem /\ "flag" \in trig.type /\ n = l + Len(ops) /\ n > l
                /\ v = outboundToken[s] + 1 /\ sq'[r][n].old = outboundToken[s]
  <2>1. CASE r # q
    BY <2>1, <1>1, <1>5, SMTT(40) DEF SignalAt
  <2>2. CASE r = q /\ n <= l
    BY <2>2, <1>1, <1>2, <1>5, SMTT(40) DEF SignalAt
  <2>3. CASE r = q /\ n > l
    <3>1. n - l \in 1 .. Len(ops) /\ l + (n - l) = n
      BY <2>3, <1>1, <1>5 DEF SignalAt
    <3>2. sq'[q][n] = ops[n - l]
      BY <3>1, <1>1, SMTT(40)
    <3>3. "flag" \in trig.type /\ n - l = Len(ops)
      BY <3>1, <3>2, <2>3, <1>3, <1>5, SMTT(40) DEF SignalAt
    <3>. QED
      BY <3>1, <3>2, <3>3, <2>3, <1>1, <1>3, <1>5, SMTT(40) DEF SignalAt
  <2>. QED
    BY <2>1, <2>2, <2>3, <1>1, SMTT(40)
<1>6. ASSUME r = q, s = trig.sem, "flag" \in trig.type, n = l + Len(ops), v = outboundToken[s] + 1
      PROVE  SignalAt(r, n, s, v)'
  <2>1. Len(ops) \in 1 .. Len(ops) /\ n \in 1 .. Len(sq'[q])
    BY <1>1, <1>3, <1>6
  <2>2. sq'[q][n] = ops[Len(ops)]
    BY <2>1, <1>1, <1>6
  <2>. QED
    BY <2>1, <2>2, <1>3, <1>6, SMTT(40) DEF SignalAt
<1>. QED
  BY <1>4, <1>5, <1>6, SMTT(40)

\* What is written stays written, and the data of the trigger at the tail is written
\* before its signal.
LEMMA HandleWrites ==
  ASSUME TypeOK, TokensOK, HandleTrigger, NEW trig, NEW c, NEW q, NEW ops, NEW h, NEW l,
         IsNext(trig, c, q, ops, h, l), NEW r \in Queues
  PROVE  /\ \A i, n \in Int : n <= Len(sq[r]) /\ Written(i, r, n) => Written(i, r, n)'
         /\ "data" \in trig.type /\ "flag" \in trig.type => Len(ops) = 2 /\ Written(h, q, l + 1)'
<1>1. /\ trig \in Triggers /\ l \in Nat /\ h \in Nat /\ \A z \in Queues \ {q} : sq'[z] = sq[z]
      /\ \A m \in 1 .. l : sq'[q][m] = sq[q][m]
      /\ \A m \in 1 .. Len(ops) : sq'[q][l + m] = ops[m]
  BY HandleFacts, TokensTyped
<1>2. l = Len(sq[q]) /\ ops = Posted(trig) /\ h = Len(handled)
  BY DEF IsNext
<1>3. ASSUME NEW i, NEW n \in Int, n <= Len(sq[r]), Written(i, r, n) PROVE Written(i, r, n)'
  <2>1. PICK m \in 1 .. n : sq[r][m].kind = "write" /\ sq[r][m].pos = i
    BY <1>3 DEF Written
  <2>2. sq'[r][m] = sq[r][m]
    <3>1. CASE r # q
      BY <3>1, <1>1
    <3>2. CASE r = q
      <4>1. m \in 1 .. l
        BY <3>2, <1>1, <1>2, <1>3
      <4>. QED
        BY <4>1, <3>2, <1>1
    <3>. QED
      BY <3>1, <3>2
  <2>. QED
    BY <2>1, <2>2 DEF Written
<1>4. ASSUME "data" \in trig.type, "flag" \in trig.type PROVE Len(ops) = 2 /\ Written(h, q, l + 1)'
  <2>1. Len(ops) = 2 /\ ops[1].kind = "write" /\ ops[1].pos = h
    BY <1>1, <1>2, <1>4, PostedOps, TokensTyped
  <2>2. sq'[q][l + 1] = ops[1] /\ l + 1 \in 1 .. l + 1
    BY <2>1, <1>1
  <2>. QED
    BY <2>1, <2>2, SMTT(40) DEF Written
<1>. QED
  BY <1>3, <1>4, SMTT(40)

\* handleTrigger() keeps the invariant of the signals.
LEMMA SignalsHandle ==
  ASSUME QInv, SignalInv, HandleTrigger
  PROVE  SignalInv'
<1>1. TypeOK /\ QueuesOK /\ TokensOK /\ BehindData /\ DataShown
  BY DEF QInv, SignalInv
<1>2. PICK trig, c, q, ops, h, l : IsNext(trig, c, q, ops, h, l)
  BY ZenonT(40) DEF IsNext
<1>3. /\ trig = pushed[h + 1] /\ c = ConnOf(trig) /\ q = QueueOf[c] /\ h = Len(handled) /\ l = Len(sq[q])
  BY <1>2, SMTT(40) DEF IsNext
<1>4. /\ trig \in Triggers /\ c \in Conns /\ q \in Queues /\ h \in Nat /\ l \in Nat /\ h < Len(pushed)
      /\ Len(pushed) \in Nat /\ pushed' = pushed /\ Len(handled') = h + 1 /\ Len(ops) \in 0 .. 2
  BY <1>1, <1>2, HandleFacts, TokensTyped, SMTT(40)
<1>5. trig.sem \in Sems /\ c = SemConn[trig.sem]
  BY <1>3, <1>4, Routes, SMTT(40)
<1>6. /\ landed' = landed /\ inboundToken' = inboundToken
      /\ outboundToken' = IF "flag" \in trig.type THEN [outboundToken EXCEPT ![trig.sem] = @ + 1] ELSE outboundToken
  BY <1>3 DEF HandleTrigger, remoteVars
<1>7. inboundToken \in [Sems -> Nat] /\ outboundToken \in [Sems -> Nat]
  BY <1>1 DEF TokensOK
<1>8. /\ outboundToken' \in [Sems -> Nat]
      /\ \A s \in Sems : outboundToken'[s] = IF s = trig.sem /\ "flag" \in trig.type THEN outboundToken[s] + 1
                                                                                  ELSE outboundToken[s]
  <2>1. CASE "flag" \in trig.type
    BY <2>1, <1>5, <1>6, <1>7
  <2>2. CASE "flag" \notin trig.type
    BY <2>2, <1>6, <1>7
  <2>. QED
    BY <2>1, <2>2
<1>9. \A s, p : Flags(s, p)' = Flags(s, p)
  BY <1>4 DEF Flags
<1>10. ASSUME NEW s \in Sems
       PROVE  /\ inboundToken'[s] <= outboundToken'[s]
              /\ outboundToken'[s] = Cardinality(Flags(s, Len(handled) - 1)')
  <2>1. inboundToken[s] <= outboundToken[s] /\ outboundToken[s] = Cardinality(Flags(s, h - 1))
    BY <1>1, <1>3, SMTT(40) DEF TokensOK
  <2>2. Cardinality(Flags(s, h)) = IF trig.sem = s /\ "flag" \in trig.type THEN outboundToken[s] + 1 ELSE outboundToken[s]
    BY <2>1, <1>3, <1>4, FlagsNext DEF Flags
  <2>3. Flags(s, Len(handled) - 1)' = FlagsIn(pushed, s, h)
    BY <1>4 DEF Flags
  <2>4. inboundToken[s] \in Nat /\ outboundToken[s] \in Nat
    BY <1>7, SMTT(40)
  <2>. QED
    BY <2>1, <2>2, <2>3, <2>4, <1>6, <1>8, SMTT(40) DEF Flags
<1>11. ASSUME NEW r \in Queues, NEW n \in Int, NEW s \in Sems, NEW v \in Int, SignalAt(r, n, s, v)'
       PROVE  /\ QueueOf[SemConn[s]] = r /\ sq'[r][n].old = v - 1
              /\ inboundToken'[s] < v /\ v <= outboundToken'[s]
  <2>1. inboundToken[s] \in Nat /\ outboundToken[s] \in Nat /\ inboundToken[s] <= outboundToken[s]
    BY <1>1, SMTT(40) DEF TokensOK
  <2>2. CASE SignalAt(r, n, s, v)
    <3>1. QueueOf[SemConn[s]] = r /\ sq[r][n].old = v - 1 /\ inboundToken[s] < v /\ v <= outboundToken[s]
      BY <2>2, <1>1, SMTT(40) DEF TokensOK
    <3>2. sq'[r][n] = sq[r][n]
      BY <2>2, <1>1, <1>2, HandleSignals, SMTT(40)
    <3>. QED
      BY <3>1, <3>2, <2>1, <1>6, <1>8, SMTT(40)
  <2>3. CASE ~SignalAt(r, n, s, v)
    <3>1. r = q /\ s = trig.sem /\ "flag" \in trig.type /\ v = outboundToken[s] + 1 /\ sq'[r][n].old = outboundToken[s]
      BY <2>3, <1>1, <1>2, <1>11, HandleSignals
    <3>. QED
      BY <3>1, <2>1, <1>3, <1>5, <1>6, <1>8, SMTT(40)
  <2>. QED
    BY <2>2, <2>3, SMTT(40)
<1>12. ASSUME NEW r \in Queues, NEW m \in Int, NEW n \in Int, NEW s \in Sems, NEW v \in Int, NEW w \in Int,
              SignalAt(r, m, s, v)', SignalAt(r, n, s, w)', m < n
       PROVE  v < w
  <2>1. CASE SignalAt(r, n, s, w)
    <3>1. SignalAt(r, m, s, v)
      <4>1. r = q => n <= l
        BY <2>1, <1>1, <1>2, HandleSignals
      <4>. QED
        BY <4>1, <1>1, <1>2, <1>4, <1>12, HandleSignals, SMTT(40)
    <3>. QED
      BY <3>1, <2>1, <1>1, <1>12, ZenonT(40) DEF TokensOK
  <2>2. CASE ~SignalAt(r, n, s, w)
    <3>1. r = q /\ n = l + Len(ops) /\ w = outboundToken[s] + 1
      BY <2>2, <1>1, <1>2, <1>12, HandleSignals, SMTT(40)
    <3>2. SignalAt(r, m, s, v)
      BY <3>1, <1>1, <1>2, <1>4, <1>12, HandleSignals, SMTT(40)
    <3>3. v <= outboundToken[s] /\ outboundToken[s] \in Nat
      BY <3>2, <1>1, <1>7, ZenonT(40) DEF TokensOK
    <3>. QED
      BY <3>1, <3>3, SMTT(40)
  <2>. QED
    BY <2>1, <2>2, SMTT(40)
<1>13. ASSUME NEW s \in Sems, NEW v \in Int, inboundToken'[s] < v, v <= outboundToken'[s]
       PROVE  \E n \in Int : SignalAt(QueueOf[SemConn[s]], n, s, v)'
  <2>1. QueueOf[SemConn[s]] \in Queues /\ outboundToken[s] \in Nat
    BY <1>7, ProxyAssumption, SMTT(40)
  <2>2. CASE v <= outboundToken[s]
    <3>1. PICK n \in Int : SignalAt(QueueOf[SemConn[s]], n, s, v)
      BY <2>2, <1>1, <1>6, <1>13 DEF TokensOK
    <3>. QED
      BY <3>1, <2>1, <1>1, <1>2, HandleSignals, ZenonT(40)
  <2>3. CASE v > outboundToken[s]
    <3>1. s = trig.sem /\ "flag" \in trig.type /\ v = outboundToken[s] + 1
      BY <2>1, <2>3, <1>8, <1>13, SMTT(40)
    <3>2. QueueOf[SemConn[s]] = q /\ l + Len(ops) \in Int
      BY <3>1, <1>3, <1>4, <1>5, SMTT(40)
    <3>3. SignalAt(q, l + Len(ops), s, v)'
      BY <3>1, <3>2, <1>1, <1>2, <1>4, HandleSignals, SMTT(40)
    <3>. QED
      BY <3>2, <3>3
  <2>. QED
    BY <2>1, <2>2, <2>3
<1>14. TokensOK'
  <2>1. inboundToken' \in [Sems -> Nat]
    BY <1>6, <1>7
  <2>. QED
    BY <2>1, <1>8, <1>10, <1>11, <1>12, <1>13 DEF TokensOK
<1>15. BehindData'
  <2> SUFFICES ASSUME NEW r \in Queues, NEW n \in Int, NEW s \in Sems, NEW v \in Int, SignalAt(r, n, s, v)',
                      NEW p \in 0 .. Len(pushed') - 1,
                      p \in Flags(s, p)', Cardinality(Flags(s, p)') <= v,
                      NEW i \in 0 .. p, IsData(i, SemConn[s])'
               PROVE  i \in landed' \/ Written(i, r, n - 1)'
    BY DEF BehindData
  <2>1. p \in 0 .. Len(pushed) - 1 /\ p \in Flags(s, p) /\ Cardinality(Flags(s, p)) <= v /\ IsData(i, SemConn[s])
    BY <1>4, <1>9, SMTT(40) DEF IsData
  <2>2. CASE SignalAt(r, n, s, v)
    <3>1. i \in landed \/ Written(i, r, n - 1)
      BY <2>1, <2>2, <1>1, SMTT(40) DEF BehindData
    <3>2. n - 1 \in Int /\ n - 1 <= Len(sq[r])
      BY <2>2, <1>1 DEF SignalAt, TypeOK
    <3>. QED
      BY <3>1, <3>2, <1>1, <1>2, <1>6, HandleWrites, SMTT(40)
  <2>3. CASE ~SignalAt(r, n, s, v)
    <3>1. r = q /\ s = trig.sem /\ "flag" \in trig.type /\ n = l + Len(ops) /\ n > l /\ v = outboundToken[s] + 1
      BY <2>3, <1>1, <1>2, HandleSignals, SMTT(40)
    <3>2. p <= h
      <4>1. SUFFICES ASSUME p > h PROVE FALSE
        BY <1>4
      <4>2. h + 1 \in Nat /\ p \in Nat /\ h + 1 <= p /\ p \in FlagsIn(pushed, s, p)
        BY <4>1, <2>1, <1>4 DEF Flags
      <4>3. Cardinality(FlagsIn(pushed, s, p)) > Cardinality(FlagsIn(pushed, s, (h + 1) - 1)) /\ Cardinality(FlagsIn(pushed, s, p)) \in Nat
        BY <4>2, FlagsBeyond
      <4>4. (h + 1) - 1 = h
        BY <1>4, SMTT(40)
      <4>5. Cardinality(FlagsIn(pushed, s, h)) = outboundToken[s] + 1
        <5>1. outboundToken[s] = Cardinality(FlagsIn(pushed, s, h - 1))
          BY <1>1, <1>3 DEF TokensOK, Flags
        <5>. QED
          BY <5>1, <3>1, <1>3, <1>4, FlagsNext, SMTT(40)
      <4>6. Cardinality(FlagsIn(pushed, s, p)) <= v
        BY <2>1, SMTT(40) DEF Flags
      <4>. QED
        BY <4>3, <4>4, <4>5, <4>6, <3>1, <1>7, SMTT(40)
    <3>3. CASE i < h
      <4>1. i \in 0 .. Len(handled) - 1 /\ SemConn[s] = c /\ IsData(i, c)
        <5>1. SemConn[s] = c /\ IsData(i, c)
          BY <3>1, <2>1, <1>5
        <5>2. i \in 0 .. h - 1
          BY <3>3, <2>1, <1>4, SMTT(40)
        <5>. QED
          BY <5>1, <5>2, <1>3, SMTT(40)
      <4>2. OnItsWay(i, c)
        BY <4>1, <1>1, <1>4 DEF QueuesOK
      <4>3. i \in landed \/ Written(i, q, l)
        BY <4>2, <1>3, SMTT(40) DEF OnItsWay
      <4>4. i \in landed' \/ Written(i, q, l)'
        BY <4>3, <1>1, <1>2, <1>3, <1>4, <1>6, HandleWrites, SMTT(40)
      <4>5. l <= n - 1 /\ n - 1 \in Int
        BY <3>1, <1>4
      <4>. QED
        BY <4>4, <4>5, <3>1, <1>4, SMTT(40) DEF Written
    <3>4. CASE i = h
      <4>1. "data" \in trig.type
        BY <3>4, <2>1, <1>3, SMTT(40) DEF IsData
      <4>2. Len(ops) = 2 /\ Written(h, q, l + 1)'
        BY <4>1, <3>1, <1>1, <1>2, <1>4, HandleWrites, SMTT(40)
      <4>3. l + 1 = n - 1
        BY <4>2, <3>1, <1>4, SMTT(40)
      <4>. QED
        BY <4>2, <4>3, <3>1, <3>4, SMTT(40)
    <3>. QED
      BY <3>2, <3>3, <3>4, <1>4, SMTT(40)
  <2>. QED
    BY <2>2, <2>3
<1>16. DataShown'
  BY <1>1, <1>4, <1>6, <1>9 DEF DataShown, IsData
<1>. QED
  BY <1>14, <1>15, <1>16 DEF SignalInv

\* Every step keeps the invariant of the signals.
LEMMA SignalsStep ==
  ASSUME QInv, SignalInv, [Next]_vars
  PROVE  SignalInv'
<1>1. ASSUME NEW t \in Threads, NEW trig \in Triggers, Push(t, trig) PROVE SignalInv'
  BY <1>1, SignalsPush
<1>2. ASSUME NEW q \in Queues, Perform(q) PROVE SignalInv'
  BY <1>2, SignalsPerform
<1>3. CASE HandleTrigger
  BY <1>3, SignalsHandle, SMTT(40)
<1>4. CASE Progress \/ Drain \/ DrainEnd
  BY <1>4, SignalsFrame DEF Progress, Drain, DrainEnd, queueVars, remoteVars
<1>5. CASE FlushPoll \/ FlushReturns \/ RequestFlush
  BY <1>5, SignalsFrame, SMTT(40) DEF FlushPoll, FlushReturns, RequestFlush, proxyVars, remoteVars
<1>6. CASE ThreadInit \/ LoopTop \/ PollEmpty \/ Join \/ \E blocking \in BOOLEAN : StartProxy(blocking)
  BY <1>6, SignalsFrame, SMTT(40) DEF ThreadInit, LoopTop, PollEmpty, Join, StartProxy, queueVars, remoteVars
<1>7. CASE (\E t \in Threads : WaitFlush(t)) \/ StopProxy \/ Started \/ UNCHANGED vars
  BY <1>7, SignalsFrame DEF WaitFlush, StopProxy, Started, vars, proxyVars, queueVars, remoteVars
<1>. QED
  BY <1>1, <1>2, <1>3, <1>4, <1>5, <1>6, <1>7 DEF Next, ServiceStep, MainStep

\* The invariant of the signals holds initially.
LEMMA SignalsInit == Init => SignalInv
<1> SUFFICES ASSUME Init PROVE SignalInv
  OBVIOUS
<1>1. /\ pushed = <<>> /\ handled = <<>> /\ Len(pushed) = 0 /\ Len(handled) = 0
      /\ inboundToken = [s \in Sems |-> 0] /\ outboundToken = [s \in Sems |-> 0]
      /\ sq = [q \in Queues |-> <<>>]
  BY DEF Init, Fifo!AbsInit
<1>2. \A q \in Queues, n \in Int, s \in Sems, v \in Int : ~SignalAt(q, n, s, v)
  BY <1>1 DEF SignalAt
<1>3. ASSUME NEW s \in Sems PROVE Cardinality(Flags(s, Len(handled) - 1)) = 0
  <2>1. Flags(s, Len(handled) - 1) = {}
    BY <1>1, SMTT(40) DEF Flags, FlagsIn
  <2>. QED
    BY <2>1, FS_EmptySet
<1>4. TokensOK
  BY <1>1, <1>2, <1>3 DEF TokensOK
<1>5. BehindData /\ DataShown
  BY <1>1, <1>2 DEF BehindData, DataShown
<1>. QED
  BY <1>4, <1>5 DEF SignalInv

\* DataBeforeSignal, for any number of threads, connections, queues, semaphores, pushes
\* and restarts: when the remote token shows a signal, all the data pushed to the
\* connection before it is in the remote memory.
THEOREM SignalAfterData == Spec => []DataBeforeSignal
<1>1. Init => QInv /\ SignalInv
  BY ProxyInit, SignalsInit
<1>2. QInv /\ SignalInv /\ [Next]_vars => (QInv /\ SignalInv)'
  BY QueuesStep, SignalsStep, TokensTyped DEF SignalInv
<1>3. QInv /\ SignalInv => DataBeforeSignal
  BY ShownData DEF SignalInv
<1>. QED
  BY <1>1, <1>2, <1>3, PTL DEF Spec
==============================================================================
