----------------------- MODULE SignalForwardingProofs -----------------------
(***************************************************************************)
(* The token that the receive thread rebuilds from immediate data is exact *)
(* and no signal is consumed before its data, for every width of the       *)
(* immediate data and every number of signals, requests and threads.       *)
(***************************************************************************)
EXTENDS SignalForwarding, ModArith, FiniteSetTheorems, TLAPS

\* The signals that are on the wire.
OnWire == outboundToken - inboundToken - Len(recvCq) - Len(wcs)

\* Data and immediate data alternate, the last operation is immediate data.
WireOK ==
  /\ outboundToken \in Nat /\ landed \in Int
  /\ wire \in Seq(Int)
  /\ OnWire \in Nat
  /\ Len(wire) = 2 * OnWire \/ Len(wire) = (2 * OnWire) - 1
  /\ \A j \in Nat : 2 * j < Len(wire) => wire[Len(wire) - (2 * j)] = (outboundToken - j) % ImmRange
  /\ \A j \in Nat : (2 * j) + 1 < Len(wire) => wire[Len(wire) - (2 * j) - 1] = Data
  /\ landed = outboundToken + OnWire - Len(wire)

\* The completions and the batch hold the low bits of the signals after the inbound token,
\* whose own low and high bits the receive thread keeps.
RecvOK ==
  /\ inboundToken \in Nat
  /\ recvCq \in Seq(Int) /\ wcs \in Seq(Int)
  /\ \A i \in 1 .. Len(wcs) : wcs[i] = (inboundToken + i) % ImmRange
  /\ \A i \in 1 .. Len(recvCq) : recvCq[i] = (inboundToken + Len(wcs) + i) % ImmRange
  /\ lastImmData = inboundToken % ImmRange
  /\ immHighBits = inboundToken - lastImmData
  /\ recvPc \in {"none", "poll", "forward", "repost"}
  /\ recvPc = "none" => inboundToken = 0
  /\ recvPc = "forward" => wcs # <<>>
  /\ recvPc \in {"none", "poll"} => wcs = <<>>

\* The next value of the low bits: they wrap exactly when they decrease.
LEMMA NextLowBits ==
  ASSUME NEW n \in Nat \ {0, 1}, NEW p \in Nat
  PROVE  /\ (p + 1) % n \in 0 .. n - 1 /\ p % n \in 0 .. n - 1
         /\ (p + 1) % n < p % n => (p + 1) % n = (p % n) + 1 - n
         /\ ~((p + 1) % n < p % n) => (p + 1) % n = (p % n) + 1
<1> DEFINE a == p \div n
           s == p % n
<1>1. p = (n * a) + s /\ a \in Int /\ s \in 0 .. n - 1
  BY DivMod
<1> HIDE DEF a, s
<1>2. CASE s = n - 1
  <2>1. p + 1 = (n * (a + 1)) + 0
    BY <1>1, <1>2
  <2>2. (p + 1) % n = 0
    BY <2>1, <1>1, ModUnique
  <2>. QED
    BY <2>2, <1>1, <1>2 DEF s
<1>3. CASE s # n - 1
  <2>1. p + 1 = (n * a) + (s + 1) /\ s + 1 \in 0 .. n - 1
    BY <1>1, <1>3
  <2>2. (p + 1) % n = s + 1
    BY <2>1, <1>1, ModUnique
  <2>. QED
    BY <2>1, <2>2, <1>1 DEF s
<1>. QED
  BY <1>2, <1>3

\* The immediate data on the wire is counted by the signals that are on it.
LEMMA ImmsOnWire ==
  ASSUME WireOK, RecvOK
  PROVE  ImmsIn(wire) = OnWire
<1> DEFINE n == Len(wire)
           k == OnWire
           f == [j \in 1 .. k |-> n - (2 * (j - 1))]
           S == {i \in DOMAIN wire : wire[i] # Data}
<1>0. /\ n \in Nat /\ k \in Nat /\ (n = 2 * k \/ n = (2 * k) - 1)
      /\ DOMAIN wire = 1 .. n /\ ImmRange \in Nat \ {0} /\ outboundToken \in Nat
      /\ k <= outboundToken
  BY ForwardingAssumption DEF WireOK, RecvOK, OnWire
<1>w. /\ \A j \in Nat : 2 * j < n => wire[n - (2 * j)] = (outboundToken - j) % ImmRange
      /\ \A j \in Nat : (2 * j) + 1 < n => wire[n - (2 * j) - 1] = Data
  BY DEF WireOK
<1> HIDE DEF n, k
<1>1. ASSUME NEW j \in 1 .. k PROVE f[j] \in S
  <2>1. j - 1 \in Nat /\ 2 * (j - 1) < n /\ outboundToken - (j - 1) \in Nat
    BY <1>0
  <2>2. wire[n - (2 * (j - 1))] = (outboundToken - (j - 1)) % ImmRange
    BY <2>1, <1>w
  <2>3. (outboundToken - (j - 1)) % ImmRange \in 0 .. ImmRange - 1
    BY <2>1, <1>0, DivMod, ZenonT(40)
  <2>4. wire[f[j]] # Data
    BY <2>2, <2>3, <1>0 DEF Data
  <2>. QED
    BY <2>1, <2>4, <1>0
<1>2. ASSUME NEW i \in S PROVE \E j \in 1 .. k : f[j] = i
  <2>1. i \in 1 .. n /\ wire[i] # Data
    BY <1>0
  <2>2. PICK d \in Nat : n - i = 2 * d \/ n - i = (2 * d) + 1
    <3>1. n - i \in Nat
      BY <2>1, <1>0
    <3>2. n - i = (2 * ((n - i) \div 2)) + ((n - i) % 2) /\ (n - i) \div 2 \in Nat /\ (n - i) % 2 \in 0 .. 1
      BY <3>1
    <3>. QED
      BY <3>2
  <2>3. CASE n - i = 2 * d
    <3>1. d + 1 \in 1 .. k /\ f[d + 1] = i
      BY <2>1, <2>3, <1>0
    <3>. QED
      BY <3>1
  <2>4. CASE n - i = (2 * d) + 1
    <3>1. (2 * d) + 1 < n /\ i = n - (2 * d) - 1
      BY <2>1, <2>4, <1>0
    <3>. QED
      BY <3>1, <2>1, <1>w
  <2>. QED
    BY <2>2, <2>3, <2>4
<1>3. ASSUME NEW j \in 1 .. k, NEW l \in 1 .. k, f[j] = f[l] PROVE j = l
  BY <1>3, <1>0
<1>4. f \in Bijection(1 .. k, S)
  <2>1. f \in [1 .. k -> S]
    BY <1>1
  <2> HIDE DEF f, S
  <2>. QED
    BY <2>1, <1>2, <1>3 DEF Bijection, Injection, Surjection, IsInjective
<1>5. IsFiniteSet(1 .. k) /\ Cardinality(1 .. k) = k
  BY <1>0, FS_Interval
<1>6. Cardinality(S) = k
  BY <1>4, <1>5, FS_Bijection DEF ExistsBijection
<1>. QED
  BY <1>6 DEF ImmsIn, k

\* A signal adds a data write and the low bits of its token.
LEMMA SignalStep ==
  ASSUME WireOK, RecvOK, Signal
  PROVE  WireOK' /\ RecvOK'
<1> DEFINE n == Len(wire)
           imm == (outboundToken + 1) % ImmRange
<1>0. /\ n \in Nat /\ OnWire \in Nat /\ outboundToken \in Nat /\ inboundToken \in Nat /\ wire \in Seq(Int)
      /\ Len(recvCq) \in Nat /\ Len(wcs) \in Nat /\ ImmRange \in Nat \ {0, 1}
      /\ (n = 2 * OnWire \/ n = (2 * OnWire) - 1)
  BY ForwardingAssumption DEF WireOK, RecvOK
<1>1. /\ outboundToken' = outboundToken + 1 /\ wire' = wire \o <<Data, imm>>
      /\ UNCHANGED <<landed, recvCq, wcs, inboundToken>>
  BY DEF Signal, recvVars
<1>2. imm \in Int
  BY <1>0, NextLowBits
<1> HIDE DEF imm
<1>3. <<Data, imm>> \in Seq(Int) /\ Len(<<Data, imm>>) = 2
  BY <1>2 DEF Data
<1>4. wire' \in Seq(Int) /\ Len(wire') = n + 2
  BY <1>0, <1>1, <1>3
<1>5. \A i \in 1 .. n : wire'[i] = wire[i]
  BY <1>0, <1>1, <1>3
<1>6. wire'[n + 1] = Data /\ wire'[n + 2] = imm
  BY <1>0, <1>1, <1>3
<1>7. OnWire' = OnWire + 1
  BY <1>0, <1>1 DEF OnWire
<1>8. ASSUME NEW j \in Nat, 2 * j < Len(wire')
      PROVE  wire'[Len(wire') - (2 * j)] = (outboundToken' - j) % ImmRange
  <2>1. CASE j = 0
    BY <2>1, <1>0, <1>1, <1>4, <1>6 DEF imm
  <2>2. CASE j # 0
    <3>1. /\ j - 1 \in Nat /\ 2 * (j - 1) < n /\ n - (2 * (j - 1)) \in 1 .. n
          /\ Len(wire') - (2 * j) = n - (2 * (j - 1)) /\ outboundToken' - j = outboundToken - (j - 1)
      BY <2>2, <1>8, <1>0, <1>1, <1>4
    <3>2. wire[n - (2 * (j - 1))] = (outboundToken - (j - 1)) % ImmRange
      BY <3>1, ZenonT(40) DEF WireOK
    <3>. QED
      BY <3>1, <3>2, <1>5
  <2>. QED
    BY <2>1, <2>2
<1>9. ASSUME NEW j \in Nat, (2 * j) + 1 < Len(wire')
      PROVE  wire'[Len(wire') - (2 * j) - 1] = Data
  <2>1. CASE j = 0
    BY <2>1, <1>0, <1>4, <1>6
  <2>2. CASE j # 0
    <3>1. /\ j - 1 \in Nat /\ (2 * (j - 1)) + 1 < n /\ n - (2 * (j - 1)) - 1 \in 1 .. n
          /\ Len(wire') - (2 * j) - 1 = n - (2 * (j - 1)) - 1
      BY <2>2, <1>9, <1>0, <1>4
    <3>2. wire[n - (2 * (j - 1)) - 1] = Data
      BY <3>1, ZenonT(40) DEF WireOK
    <3>. QED
      BY <3>1, <3>2, <1>5
  <2>. QED
    BY <2>1, <2>2
<1>10. landed' = outboundToken' + OnWire' - Len(wire') /\ landed' \in Int /\ outboundToken' \in Nat
  BY <1>0, <1>1, <1>4, <1>7 DEF WireOK
<1>11. OnWire' \in Nat /\ (Len(wire') = 2 * OnWire' \/ Len(wire') = (2 * OnWire') - 1)
  BY <1>0, <1>4, <1>7, SMTT(40)
<1>12. WireOK'
  BY <1>4, <1>8, <1>9, <1>10, <1>11 DEF WireOK
<1>13. RecvOK'
  BY <1>1 DEF Signal, RecvOK, recvVars
<1>. QED
  BY <1>12, <1>13

\* What is at the head of the wire, and what is left behind it.
LEMMA HeadOfWire ==
  ASSUME WireOK, RecvOK, wire # <<>>
  PROVE  /\ Len(wire) \in Nat \ {0} /\ OnWire \in Nat \ {0}
         /\ Len(Tail(wire)) = Len(wire) - 1 /\ Tail(wire) \in Seq(Int) /\ Head(wire) \in Int
         /\ \A i \in 1 .. Len(wire) - 1 : Tail(wire)[i] = wire[i + 1]
         /\ Head(wire) = Data <=> Len(wire) = 2 * OnWire
         /\ Head(wire) # Data => /\ Len(wire) = (2 * OnWire) - 1
                                 /\ Head(wire) = (outboundToken - OnWire + 1) % ImmRange
<1> DEFINE n == Len(wire)
           k == OnWire
<1>0. /\ n \in Nat /\ k \in Nat /\ outboundToken \in Nat /\ wire \in Seq(Int) /\ n # 0
      /\ (n = 2 * k \/ n = (2 * k) - 1) /\ ImmRange \in Nat \ {0} /\ k <= outboundToken
  BY ForwardingAssumption DEF WireOK, RecvOK, OnWire
<1>1. /\ \A j \in Nat : 2 * j < n => wire[n - (2 * j)] = (outboundToken - j) % ImmRange
      /\ \A j \in Nat : (2 * j) + 1 < n => wire[n - (2 * j) - 1] = Data
  BY DEF WireOK
<1>2. /\ Len(Tail(wire)) = n - 1 /\ Tail(wire) \in Seq(Int) /\ Head(wire) \in Int
      /\ \A i \in 1 .. n - 1 : Tail(wire)[i] = wire[i + 1]
      /\ Head(wire) = wire[1]
  BY <1>0
<1> HIDE DEF n, k
<1>3. CASE n = 2 * k
  <2>1. k - 1 \in Nat /\ (2 * (k - 1)) + 1 < n /\ n - (2 * (k - 1)) - 1 = 1
    BY <1>0, <1>3
  <2>2. wire[1] = Data
    BY <2>1, <1>1
  <2>. QED
    BY <2>1, <2>2, <1>0, <1>2, <1>3 DEF n, k
<1>4. CASE n = (2 * k) - 1
  <2>1. k - 1 \in Nat /\ 2 * (k - 1) < n /\ n - (2 * (k - 1)) = 1 /\ outboundToken - (k - 1) \in Nat
    BY <1>0, <1>4
  <2>2. wire[1] = (outboundToken - (k - 1)) % ImmRange
    BY <2>1, <1>1
  <2>3. (outboundToken - (k - 1)) % ImmRange \in 0 .. ImmRange - 1
    BY <2>1, <1>0, DivMod, SMTT(40)
  <2>4. wire[1] # Data /\ outboundToken - (k - 1) = outboundToken - k + 1
    BY <2>2, <2>3, <1>0 DEF Data
  <2>. QED
    BY <2>1, <2>2, <2>4, <1>0, <1>2, <1>4 DEF n, k
<1>. QED
  BY <1>0, <1>3, <1>4

\* Taking the head off the wire leaves the rest in its place, counted from the end.
LEMMA TailOfWire ==
  ASSUME WireOK, RecvOK, wire # <<>>, wire' = Tail(wire),
         outboundToken' = outboundToken
  PROVE  /\ \A j \in Nat : 2 * j < Len(wire') => wire'[Len(wire') - (2 * j)] = (outboundToken' - j) % ImmRange
         /\ \A j \in Nat : (2 * j) + 1 < Len(wire') => wire'[Len(wire') - (2 * j) - 1] = Data
<1> DEFINE n == Len(wire)
<1>0. /\ n \in Nat \ {0} /\ Len(wire') = n - 1
      /\ \A i \in 1 .. n - 1 : wire'[i] = wire[i + 1]
  BY HeadOfWire
<1>1. /\ \A j \in Nat : 2 * j < n => wire[n - (2 * j)] = (outboundToken - j) % ImmRange
      /\ \A j \in Nat : (2 * j) + 1 < n => wire[n - (2 * j) - 1] = Data
  BY DEF WireOK
<1> HIDE DEF n
<1>2. ASSUME NEW j \in Nat, 2 * j < n - 1
      PROVE  wire'[n - 1 - (2 * j)] = (outboundToken' - j) % ImmRange
  <2>1. n - 1 - (2 * j) \in 1 .. n - 1 /\ n - 1 - (2 * j) + 1 = n - (2 * j) /\ 2 * j < n
    BY <1>0, <1>2
  <2>. QED
    BY <2>1, <1>0, <1>1
<1>3. ASSUME NEW j \in Nat, (2 * j) + 1 < n - 1
      PROVE  wire'[n - 1 - (2 * j) - 1] = Data
  <2>1. /\ n - 1 - (2 * j) - 1 \in 1 .. n - 1 /\ n - 1 - (2 * j) - 1 + 1 = n - (2 * j) - 1
        /\ (2 * j) + 1 < n
    BY <1>0, <1>3
  <2>. QED
    BY <2>1, <1>0, <1>1
<1>. QED
  BY <1>0, <1>2, <1>3

\* A data write lands before the signal behind it.
LEMMA DataStep ==
  ASSUME WireOK, RecvOK, DeliverData
  PROVE  WireOK' /\ RecvOK'
<1>1. /\ wire # <<>> /\ Head(wire) = Data /\ wire' = Tail(wire) /\ landed' = landed + 1
      /\ UNCHANGED <<outboundToken, recvCq, recvVars, inboundToken>>
  BY DEF DeliverData
<1>2. UNCHANGED <<recvPc, wcs, lastImmData, immHighBits>> /\ OnWire' = OnWire
  BY <1>1 DEF recvVars, OnWire
<1>3. Len(wire) = 2 * OnWire /\ Len(wire') = Len(wire) - 1 /\ wire' \in Seq(Int) /\ Len(wire) \in Nat
  BY <1>1, HeadOfWire
<1>4. landed' = outboundToken' + OnWire' - Len(wire') /\ landed' \in Int
  BY <1>1, <1>2, <1>3 DEF WireOK
<1>5. Len(wire') = (2 * OnWire') - 1 /\ OnWire' \in Nat /\ outboundToken' \in Nat
  BY <1>1, <1>2, <1>3 DEF WireOK
<1>6. WireOK'
  BY <1>1, <1>3, <1>4, <1>5, TailOfWire, ZenonT(40) DEF WireOK
<1>7. RecvOK'
  BY <1>1, <1>2 DEF RecvOK
<1>. QED
  BY <1>6, <1>7

\* Immediate data is the next completion.
LEMMA ImmStep ==
  ASSUME WireOK, RecvOK, DeliverImm
  PROVE  WireOK' /\ RecvOK'
<1> DEFINE m == Len(recvCq)
<1>1. /\ wire # <<>> /\ Head(wire) # Data /\ wire' = Tail(wire)
      /\ recvCq' = Append(recvCq, Head(wire))
      /\ UNCHANGED <<outboundToken, landed, recvVars, inboundToken>>
  BY DEF DeliverImm
<1>2. /\ recvPc' = recvPc /\ wcs' = wcs /\ lastImmData' = lastImmData /\ immHighBits' = immHighBits
      /\ outboundToken' = outboundToken /\ landed' = landed /\ inboundToken' = inboundToken
  BY <1>1 DEF recvVars
<1>3. /\ Len(wire) = (2 * OnWire) - 1 /\ Len(wire') = Len(wire) - 1 /\ wire' \in Seq(Int) /\ Len(wire) \in Nat
      /\ Head(wire) \in Int /\ Head(wire) = (outboundToken - OnWire + 1) % ImmRange
      /\ OnWire \in Nat \ {0}
  BY <1>1, HeadOfWire
<1>4. /\ recvCq \in Seq(Int) /\ m \in Nat /\ Len(wcs) \in Nat /\ outboundToken \in Nat /\ inboundToken \in Nat
      /\ landed \in Int /\ landed = outboundToken + OnWire - Len(wire)
  BY DEF WireOK, RecvOK
<1>5. /\ recvCq' \in Seq(Int) /\ Len(recvCq') = m + 1 /\ recvCq'[m + 1] = Head(wire)
      /\ \A i \in 1 .. m : recvCq'[i] = recvCq[i]
  BY <1>1, <1>3, <1>4
<1>6. OnWire' = OnWire - 1
  BY <1>1, <1>2, <1>4, <1>5 DEF OnWire
<1>7. landed' = outboundToken' + OnWire' - Len(wire') /\ Len(wire') = 2 * OnWire' /\ OnWire' \in Nat
  BY <1>2, <1>3, <1>4, <1>6
<1>8. WireOK'
  BY <1>1, <1>2, <1>3, <1>4, <1>7, TailOfWire, ZenonT(40) DEF WireOK
<1>9. ASSUME NEW i \in 1 .. m + 1 PROVE recvCq'[i] = (inboundToken + Len(wcs) + i) % ImmRange
  <2>1. CASE i = m + 1
    <3>1. outboundToken - OnWire + 1 = inboundToken + Len(wcs) + i
      BY <2>1, <1>4 DEF OnWire
    <3>. QED
      BY <3>1, <2>1, <1>3, <1>5
  <2>2. CASE i # m + 1
    <3>1. i \in 1 .. m
      BY <2>2, <1>4
    <3>. QED
      BY <3>1, <1>5 DEF RecvOK
  <2>. QED
    BY <2>1, <2>2
<1>10. RecvOK'
  BY <1>1, <1>2, <1>5, <1>9, ZenonT(40) DEF RecvOK
<1>. QED
  BY <1>8, <1>10

\* The invariant of the wire depends on the receiver only by the signals it accounts for.
LEMMA WireFrame ==
  ASSUME WireOK, UNCHANGED <<outboundToken, wire, landed>>, OnWire' = OnWire
  PROVE  WireOK'
BY DEF WireOK

\* Forwarding a completion rebuilds the next token, whether or not the low bits wrap.
LEMMA ForwardStep ==
  ASSUME WireOK, RecvOK, Forward
  PROVE  WireOK' /\ RecvOK' /\ inboundToken' = inboundToken + 1
<1> DEFINE n == Len(wcs)
           immData == Head(wcs)
           high == IF Wraps(immData) THEN immHighBits + ImmRange ELSE immHighBits
<1>0. /\ recvPc = "forward" /\ wcs # <<>> /\ wcs \in Seq(Int) /\ inboundToken \in Nat /\ ImmRange \in Nat \ {0, 1}
      /\ outboundToken \in Int /\ Len(recvCq) \in Nat /\ recvCq \in Seq(Int)
      /\ lastImmData = inboundToken % ImmRange /\ immHighBits = inboundToken - lastImmData
  BY ForwardingAssumption DEF Forward, RecvOK, WireOK
<1>1. /\ n \in Nat \ {0} /\ Len(Tail(wcs)) = n - 1 /\ Tail(wcs) \in Seq(Int)
      /\ immData = wcs[1] /\ \A i \in 1 .. n - 1 : Tail(wcs)[i] = wcs[i + 1]
  BY <1>0
<1>2. immData = (inboundToken + 1) % ImmRange
  BY <1>1 DEF RecvOK
<1>3. /\ inboundToken' = high + immData /\ lastImmData' = immData /\ immHighBits' = high
      /\ wcs' = Tail(wcs) /\ recvPc' = "repost"
      /\ outboundToken' = outboundToken /\ wire' = wire /\ landed' = landed /\ recvCq' = recvCq
  BY DEF Forward
<1> HIDE DEF immData, n
<1>4. high + immData = inboundToken + 1
  <2>1. /\ immData \in Int /\ lastImmData \in Int
        /\ immData < lastImmData => immData = lastImmData + 1 - ImmRange
        /\ ~(immData < lastImmData) => immData = lastImmData + 1
    <3>1. lastImmData = inboundToken % ImmRange /\ inboundToken \in Nat /\ ImmRange \in Nat \ {0, 1}
      BY <1>0
    <3>2. /\ (inboundToken + 1) % ImmRange \in 0 .. ImmRange - 1
          /\ inboundToken % ImmRange \in 0 .. ImmRange - 1
          /\ (inboundToken + 1) % ImmRange < inboundToken % ImmRange
               => (inboundToken + 1) % ImmRange = (inboundToken % ImmRange) + 1 - ImmRange
          /\ ~((inboundToken + 1) % ImmRange < inboundToken % ImmRange)
               => (inboundToken + 1) % ImmRange = (inboundToken % ImmRange) + 1
      BY <3>1, NextLowBits, Zenon
    <3>3. immData \in 0 .. ImmRange - 1 /\ lastImmData \in 0 .. ImmRange - 1
      BY <3>1, <3>2, <1>2, Zenon
    <3>4. /\ immData < lastImmData => immData = lastImmData + 1 - ImmRange
          /\ ~(immData < lastImmData) => immData = lastImmData + 1
      BY <3>1, <3>2, <1>2, Zenon
    <3>. QED
      BY <3>1, <3>3, <3>4
  <2>. QED
    BY <2>1, <1>0 DEF Wraps
<1> HIDE DEF high
<1>5. inboundToken' = inboundToken + 1 /\ high = inboundToken + 1 - immData
  <2>1. immData \in Int
    BY <1>0, <1>2, NextLowBits
  <2>2. high \in Int
    BY <1>0, NextLowBits DEF high
  <2>. QED
    BY <2>1, <2>2, <1>0, <1>3, <1>4
<1>6. OnWire' = OnWire
  BY <1>0, <1>1, <1>3, <1>5 DEF OnWire, n
<1>7. \A i \in 1 .. Len(wcs') : wcs'[i] = (inboundToken' + i) % ImmRange
  <2> SUFFICES ASSUME NEW i \in 1 .. Len(wcs') PROVE wcs'[i] = (inboundToken' + i) % ImmRange
    OBVIOUS
  <2>1. /\ i \in 1 .. n - 1 /\ i + 1 \in 1 .. Len(wcs)
        /\ inboundToken' + i = inboundToken + (i + 1)
    BY <1>0, <1>1, <1>3, <1>5 DEF n
  <2>. QED
    BY <2>1, <1>1, <1>3 DEF RecvOK
<1>8. \A i \in 1 .. Len(recvCq') : recvCq'[i] = (inboundToken' + Len(wcs') + i) % ImmRange
  <2>1. inboundToken' + Len(wcs') = inboundToken + Len(wcs)
    BY <1>0, <1>1, <1>3, <1>5 DEF n
  <2>. QED
    BY <2>1, <1>3 DEF RecvOK
<1>9. lastImmData' = inboundToken' % ImmRange /\ immHighBits' = inboundToken' - lastImmData'
  BY <1>2, <1>3, <1>5
<1>10. inboundToken' \in Nat /\ recvCq' \in Seq(Int) /\ wcs' \in Seq(Int)
  BY <1>0, <1>1, <1>3, <1>5
<1>11. RecvOK'
  BY <1>3, <1>7, <1>8, <1>9, <1>10 DEF RecvOK
<1>12. WireOK'
  BY <1>3, <1>6, WireFrame
<1>. QED
  BY <1>5, <1>11, <1>12

\* The other steps of the receive thread move completions and requests.
LEMMA RecvThreadStep ==
  ASSUME WireOK, RecvOK, StartSignalForwarding \/ PollRecvCq \/ Repost
  PROVE  WireOK' /\ RecvOK' /\ inboundToken' = inboundToken
<1>1. CASE StartSignalForwarding
  <2>1. /\ recvPc = "none" /\ recvPc' = "poll" /\ lastImmData' = 0 /\ immHighBits' = 0
        /\ outboundToken' = outboundToken /\ wire' = wire /\ landed' = landed
        /\ recvCq' = recvCq /\ wcs' = wcs /\ inboundToken' = inboundToken
    BY <1>1 DEF StartSignalForwarding
  <2>2. OnWire' = OnWire
    BY <2>1 DEF OnWire
  <2>3. 0 % ImmRange = 0 /\ inboundToken = 0
    BY <2>1, ModUnique, ForwardingAssumption DEF RecvOK
  <2>4. RecvOK'
    BY <2>1, <2>3 DEF RecvOK
  <2>. QED
    BY <2>1, <2>2, <2>4, WireFrame
<1>2. CASE PollRecvCq
  <2>1. /\ recvPc = "poll" /\ recvCq # <<>> /\ wcs' = recvCq /\ recvCq' = <<>> /\ recvPc' = "forward"
        /\ outboundToken' = outboundToken /\ wire' = wire /\ landed' = landed
        /\ lastImmData' = lastImmData /\ immHighBits' = immHighBits /\ inboundToken' = inboundToken
    BY <1>2 DEF PollRecvCq
  <2>2. wcs = <<>> /\ Len(wcs) = 0 /\ Len(recvCq') = 0 /\ recvCq \in Seq(Int) /\ Len(recvCq) \in Nat
    BY <2>1 DEF RecvOK
  <2>3. OnWire' = OnWire
    BY <2>1, <2>2 DEF OnWire, WireOK, RecvOK
  <2>4. RecvOK'
    BY <2>1, <2>2 DEF RecvOK
  <2>. QED
    BY <2>1, <2>3, <2>4, WireFrame
<1>3. CASE Repost
  <2>1. /\ recvPc' = IF wcs = <<>> THEN "poll" ELSE "forward"
        /\ outboundToken' = outboundToken /\ wire' = wire /\ landed' = landed
        /\ recvCq' = recvCq /\ wcs' = wcs /\ inboundToken' = inboundToken
        /\ lastImmData' = lastImmData /\ immHighBits' = immHighBits
    BY <1>3 DEF Repost
  <2>2. OnWire' = OnWire
    BY <2>1 DEF OnWire
  <2>3. RecvOK'
    BY <2>1 DEF RecvOK
  <2>. QED
    BY <2>1, <2>2, <2>3, WireFrame
<1>. QED
  BY <1>1, <1>2, <1>3

-----------------------------------------------------------------------------
(***************************************************************************)
(* Device threads.                                                         *)
(***************************************************************************)

Spinners == {t \in Threads : pc[t] = "spin"}

\* Every value that was drawn and not yet signaled has its waiter; a poll() is alone
\* and has seen a signal that nobody has drawn.
DeviceOK ==
  /\ pc \in [Threads -> {"idle", "spin", "compare", "inc"}]
  /\ expected \in [Threads -> Int]
  /\ expectedInboundToken \in Nat
  /\ consumed = expectedInboundToken - Cardinality(Spinners)
  /\ \A e \in Nat : inboundToken < e /\ e <= expectedInboundToken =>
       \E t \in Threads : pc[t] = "spin" /\ expected[t] = e
  /\ \A t \in Threads : Polling(t) =>
       expected[t] <= inboundToken /\ \A u \in Threads \ {t} : pc[u] = "idle"
  /\ \A t \in Threads : pc[t] = "inc" => expectedInboundToken < expected[t]

\* Waiters are finitely many.
LEMMA SpinnersFinite ==
  IsFiniteSet(Spinners) /\ Cardinality(Spinners) \in Nat
BY FS_Subset, FS_CardinalityType, ForwardingAssumption DEF Spinners

\* A step that leaves the device threads alone may advance the inbound token.
LEMMA DeviceFrame ==
  ASSUME DeviceOK, inboundToken \in Nat, inboundToken' \in Nat, inboundToken <= inboundToken',
         UNCHANGED <<expectedInboundToken, pc, expected, consumed>>
  PROVE  DeviceOK'
<1>1. Spinners' = Spinners
  BY DEF Spinners
<1>2. \A e \in Nat : inboundToken' < e /\ e <= expectedInboundToken' =>
        \E t \in Threads : pc'[t] = "spin" /\ expected'[t] = e
  BY DEF DeviceOK
<1>3. \A t \in Threads : Polling(t)' =>
        expected'[t] <= inboundToken' /\ \A u \in Threads \ {t} : pc'[u] = "idle"
  BY DEF DeviceOK, Polling
<1>. QED
  BY <1>1, <1>2, <1>3 DEF DeviceOK

\* wait() draws the next value and waits for it.
LEMMA WaitStep ==
  ASSUME DeviceOK, inboundToken \in Nat, NEW t \in Threads, Wait(t)
  PROVE  DeviceOK'
<1>1. /\ pc[t] = "idle" /\ \A u \in Threads : ~Polling(u)
      /\ expectedInboundToken' = expectedInboundToken + 1
      /\ expected' = [expected EXCEPT ![t] = expectedInboundToken + 1]
      /\ pc' = [pc EXCEPT ![t] = "spin"]
      /\ inboundToken' = inboundToken /\ consumed' = consumed
  BY DEF Wait
<1>2. /\ pc' \in [Threads -> {"idle", "spin", "compare", "inc"}] /\ expected' \in [Threads -> Int]
      /\ expectedInboundToken' \in Nat /\ expectedInboundToken \in Nat
  BY <1>1 DEF DeviceOK
<1>3. /\ pc'[t] = "spin" /\ expected'[t] = expectedInboundToken + 1
      /\ \A u \in Threads \ {t} : pc'[u] = pc[u] /\ expected'[u] = expected[u]
  BY <1>1 DEF DeviceOK
<1>4. Spinners' = Spinners \cup {t} /\ t \notin Spinners
  BY <1>1, <1>3 DEF Spinners
<1>5. Cardinality(Spinners') = Cardinality(Spinners) + 1 /\ Cardinality(Spinners) \in Nat
  BY <1>4, SpinnersFinite, FS_AddElement
<1>6. consumed' = expectedInboundToken' - Cardinality(Spinners')
  BY <1>1, <1>2, <1>5 DEF DeviceOK
<1>7. ASSUME NEW e \in Nat, inboundToken' < e, e <= expectedInboundToken'
      PROVE  \E u \in Threads : pc'[u] = "spin" /\ expected'[u] = e
  <2>1. CASE e = expectedInboundToken + 1
    BY <2>1, <1>3
  <2>2. CASE e <= expectedInboundToken
    <3>1. PICK u \in Threads : pc[u] = "spin" /\ expected[u] = e
      BY <2>2, <1>1, <1>7 DEF DeviceOK
    <3>. QED
      BY <3>1, <1>1, <1>3
  <2>. QED
    BY <2>1, <2>2, <1>1, <1>2, <1>7
<1>8. \A u \in Threads : ~Polling(u)'
  BY <1>1, <1>3 DEF Polling
<1>. QED
  BY <1>2, <1>6, <1>7, <1>8 DEF DeviceOK, Polling

\* A waiter returns only when its value was signaled.
LEMMA SpinStep ==
  ASSUME DeviceOK, inboundToken \in Nat, NEW t \in Threads, Spin(t)
  PROVE  DeviceOK'
<1>1. /\ pc[t] = "spin" /\ inboundToken >= expected[t]
      /\ pc' = [pc EXCEPT ![t] = "idle"] /\ consumed' = consumed + 1
      /\ inboundToken' = inboundToken /\ expectedInboundToken' = expectedInboundToken /\ expected' = expected
  BY DEF Spin
<1>2. pc' \in [Threads -> {"idle", "spin", "compare", "inc"}] /\ expected[t] \in Int /\ expectedInboundToken \in Nat
  BY <1>1 DEF DeviceOK
<1>3. pc'[t] = "idle" /\ \A u \in Threads \ {t} : pc'[u] = pc[u]
  BY <1>1 DEF DeviceOK
<1>4. Spinners' = Spinners \ {t} /\ t \in Spinners
  BY <1>1, <1>3 DEF Spinners
<1>5. Cardinality(Spinners') = Cardinality(Spinners) - 1 /\ Cardinality(Spinners) \in Nat
  BY <1>4, SpinnersFinite, FS_RemoveElement
<1>6. consumed' = expectedInboundToken' - Cardinality(Spinners')
  BY <1>1, <1>2, <1>5 DEF DeviceOK
<1>7. ASSUME NEW e \in Nat, inboundToken' < e, e <= expectedInboundToken'
      PROVE  \E u \in Threads : pc'[u] = "spin" /\ expected'[u] = e
  <2>1. PICK u \in Threads : pc[u] = "spin" /\ expected[u] = e
    BY <1>1, <1>7 DEF DeviceOK
  <2>2. u # t
    BY <2>1, <1>1, <1>2, <1>7
  <2>. QED
    BY <2>1, <2>2, <1>1, <1>3
<1>8. \A u \in Threads : ~Polling(u)'
  BY <1>1, <1>3 DEF Polling, DeviceOK
<1>. QED
  BY <1>1, <1>2, <1>6, <1>7, <1>8 DEF DeviceOK, Polling

\* poll() consumes a signal that it has seen.
LEMMA PollStep ==
  ASSUME DeviceOK, inboundToken \in Nat, NEW t \in Threads,
         PollLoad(t) \/ PollCompare(t) \/ PollInc(t)
  PROVE  DeviceOK'
<1>1. /\ inboundToken' = inboundToken /\ expectedInboundToken \in Nat /\ Cardinality(Spinners) \in Nat
      /\ pc' \in [Threads -> {"idle", "spin", "compare", "inc"}] /\ expected' \in [Threads -> Int]
      /\ pc'[t] # "spin" /\ pc[t] # "spin" /\ \A u \in Threads \ {t} : pc[u] = "idle" /\ pc'[u] = "idle"
  BY SpinnersFinite DEF PollLoad, PollCompare, PollInc, DeviceOK, Polling
<1>2. Spinners' = Spinners
  BY <1>1 DEF Spinners
<1>3. CASE PollLoad(t)
  <2>1. /\ pc'[t] = "compare" /\ expected'[t] = inboundToken
        /\ expectedInboundToken' = expectedInboundToken /\ consumed' = consumed
    BY <1>3 DEF PollLoad, DeviceOK
  <2>2. ASSUME NEW e \in Nat, inboundToken' < e, e <= expectedInboundToken' PROVE FALSE
    BY <2>1, <2>2, <1>1 DEF DeviceOK
  <2>. QED
    BY <2>1, <2>2, <1>1, <1>2 DEF DeviceOK, Polling
<1>4. CASE PollCompare(t)
  <2>1. /\ pc'[t] = (IF expected[t] > expectedInboundToken THEN "inc" ELSE "idle") /\ pc[t] = "compare"
        /\ expected' = expected /\ expectedInboundToken' = expectedInboundToken /\ consumed' = consumed
    BY <1>4 DEF PollCompare, DeviceOK
  <2>2. ASSUME NEW e \in Nat, inboundToken' < e, e <= expectedInboundToken' PROVE FALSE
    BY <2>1, <2>2, <1>1 DEF DeviceOK
  <2>. QED
    BY <2>1, <2>2, <1>1, <1>2 DEF DeviceOK, Polling
<1>5. CASE PollInc(t)
  <2>1. /\ pc'[t] = "idle" /\ pc[t] = "inc" /\ expected' = expected
        /\ expectedInboundToken' = expectedInboundToken + 1 /\ consumed' = consumed + 1
    BY <1>5 DEF PollInc, DeviceOK
  <2>2. expectedInboundToken < expected[t] /\ expected[t] <= inboundToken /\ expected[t] \in Int
    BY <2>1 DEF DeviceOK, Polling
  <2>3. ASSUME NEW e \in Nat, inboundToken' < e, e <= expectedInboundToken' PROVE FALSE
    BY <2>1, <2>2, <2>3, <1>1
  <2>4. consumed' = expectedInboundToken' - Cardinality(Spinners')
    BY <2>1, <1>1, <1>2 DEF DeviceOK
  <2>. QED
    BY <2>1, <2>3, <2>4, <1>1 DEF DeviceOK, Polling
<1>. QED
  BY <1>3, <1>4, <1>5

\* A value that was drawn and not signaled is still waited for, so no more signals are
\* consumed than were forwarded.
LEMMA ConsumedBounded ==
  ASSUME DeviceOK, inboundToken \in Nat
  PROVE  consumed <= inboundToken
<1> DEFINE D == inboundToken + 1 .. expectedInboundToken
           f == [e \in D |-> CHOOSE t \in Threads : pc[t] = "spin" /\ expected[t] = e]
<1>1. expectedInboundToken \in Nat /\ Cardinality(Spinners) \in Nat /\ IsFiniteSet(Spinners)
  BY SpinnersFinite DEF DeviceOK
<1>2. ASSUME NEW e \in D PROVE f[e] \in Spinners /\ expected[f[e]] = e
  <2>1. \E t \in Threads : pc[t] = "spin" /\ expected[t] = e
    BY <1>1 DEF DeviceOK
  <2>2. f[e] \in Threads /\ pc[f[e]] = "spin" /\ expected[f[e]] = e
    BY <2>1
  <2>. QED
    BY <2>2 DEF Spinners
<1>3. f \in [D -> Spinners]
  BY <1>2
<1> HIDE DEF f
<1>4. f \in Injection(D, Spinners)
  BY <1>2, <1>3 DEF Injection, IsInjective
<1>5. Cardinality(D) <= Cardinality(Spinners)
  BY <1>1, <1>4, FS_Injection
<1>6. expectedInboundToken > inboundToken => Cardinality(D) = expectedInboundToken - inboundToken
  BY <1>1, FS_Interval
<1>. QED
  BY <1>1, <1>5, <1>6 DEF DeviceOK

-----------------------------------------------------------------------------

IInv == WireOK /\ RecvOK /\ DeviceOK

\* The inductive invariant holds initially.
LEMMA InvInit == ForwardingInit => IInv
<1> SUFFICES ASSUME ForwardingInit PROVE IInv
  OBVIOUS
<1>1. 0 % ImmRange = 0
  BY ModUnique, ForwardingAssumption
<1>2. OnWire = 0 /\ Len(wire) = 0 /\ wire \in Seq(Int)
  <2>1. wire = <<>> /\ recvCq = <<>> /\ wcs = <<>> /\ outboundToken = 0 /\ inboundToken = 0
    BY DEF ForwardingInit
  <2>2. Len(<<>>) = 0 /\ <<>> \in Seq(Int)
    OBVIOUS
  <2>3. Len(wire) = 0 /\ Len(recvCq) = 0 /\ Len(wcs) = 0 /\ wire \in Seq(Int)
    BY <2>1, <2>2, Zenon
  <2>4. OnWire = 0 - 0 - 0 - 0
    BY <2>1, <2>3, Zenon DEF OnWire
  <2>. QED
    BY <2>3, <2>4
<1>3. WireOK
  <2>1. outboundToken = 0 /\ landed = 0
    BY DEF ForwardingInit
  <2>2. ASSUME NEW j \in Nat PROVE ~(2 * j < 0) /\ ~((2 * j) + 1 < 0)
    OBVIOUS
  <2>. QED
    BY <2>1, <2>2, <1>2 DEF WireOK
<1>4. RecvOK
  BY <1>1 DEF ForwardingInit, RecvOK
<1>5. Spinners = {}
  BY DEF ForwardingInit, Spinners
<1>6. Cardinality(Spinners) = 0
  BY <1>5, FS_EmptySet
<1>7. DeviceOK
  BY <1>6 DEF ForwardingInit, DeviceOK, Polling
<1>. QED
  BY <1>3, <1>4, <1>7 DEF IInv

\* Every step of the sender, the wire, the receive thread and the waiters keeps it.
LEMMA InvStep == IInv /\ [ForwardingNext]_forwardingVars => IInv'
<1> SUFFICES ASSUME IInv, [ForwardingNext]_forwardingVars PROVE IInv'
  OBVIOUS
<1>0. WireOK /\ RecvOK /\ DeviceOK /\ inboundToken \in Nat
  BY DEF IInv, RecvOK
<1>1. CASE Signal \/ DeliverData \/ DeliverImm
  <2>1. UNCHANGED <<inboundToken, expectedInboundToken, pc, expected, consumed>>
    BY <1>1 DEF Signal, DeliverData, DeliverImm, deviceVars
  <2>2. WireOK' /\ RecvOK'
    BY <1>0, <1>1, SignalStep, DataStep, ImmStep
  <2>. QED
    BY <2>1, <2>2, <1>0, DeviceFrame DEF IInv
<1>2. CASE RecvStep
  <2>1. UNCHANGED <<expectedInboundToken, pc, expected, consumed>>
    BY <1>2 DEF RecvStep, StartSignalForwarding, PollRecvCq, Forward, Repost, deviceVars
  <2>2. WireOK' /\ RecvOK' /\ inboundToken' \in {inboundToken, inboundToken + 1}
    BY <1>0, <1>2, RecvThreadStep, ForwardStep DEF RecvStep
  <2>. QED
    BY <2>1, <2>2, <1>0, DeviceFrame DEF IInv
<1>3. ASSUME NEW t \in Threads, Wait(t) \/ Spin(t) \/ PollLoad(t) \/ PollCompare(t) \/ PollInc(t)
      PROVE  IInv'
  <2>1. DeviceOK'
    BY <1>0, <1>3, WaitStep, SpinStep, PollStep
  <2>2. /\ outboundToken' = outboundToken /\ wire' = wire /\ landed' = landed /\ recvCq' = recvCq
        /\ recvPc' = recvPc /\ wcs' = wcs /\ lastImmData' = lastImmData /\ immHighBits' = immHighBits
        /\ inboundToken' = inboundToken
    BY <1>3 DEF Wait, Spin, PollLoad, PollCompare, PollInc, recvVars
  <2>3. RecvOK' /\ OnWire' = OnWire
    BY <2>2, <1>0 DEF RecvOK, OnWire
  <2>. QED
    BY <2>1, <2>2, <2>3, <1>0, WireFrame DEF IInv
<1>4. CASE UNCHANGED forwardingVars
  <2>1. /\ outboundToken' = outboundToken /\ wire' = wire /\ landed' = landed /\ recvCq' = recvCq
        /\ recvPc' = recvPc /\ wcs' = wcs /\ lastImmData' = lastImmData /\ immHighBits' = immHighBits
        /\ inboundToken' = inboundToken
        /\ UNCHANGED <<expectedInboundToken, pc, expected, consumed>>
    BY <1>4 DEF forwardingVars, recvVars, deviceVars
  <2>2. RecvOK' /\ OnWire' = OnWire
    BY <2>1, <1>0 DEF RecvOK, OnWire
  <2>. QED
    BY <2>1, <2>2, <1>0, WireFrame, DeviceFrame DEF IInv
<1>. QED
  BY <1>1, <1>2, <1>3, <1>4 DEF ForwardingNext

\* The token that recvThreadFunc() rebuilds and the signals on their way always add up to
\* the sender's token, however often the immediate data wraps.
THEOREM TokenRebuilt == ForwardingSpec => []TokenExact
<1>1. IInv => TokenExact
  <2> SUFFICES ASSUME IInv PROVE TokenExact
    OBVIOUS
  <2>1. ImmsIn(wire) = OnWire
    BY ImmsOnWire DEF IInv
  <2>. QED
    BY <2>1 DEF IInv, WireOK, RecvOK, TokenExact, OnWire
<1>. QED
  BY <1>1, InvInit, InvStep, PTL DEF ForwardingSpec

\* What wait() and poll() have consumed was forwarded, and its data had landed.
THEOREM DataLanded == ForwardingSpec => []ConsumedDataLanded
<1>1. IInv => ConsumedDataLanded
  <2> SUFFICES ASSUME IInv PROVE ConsumedDataLanded
    OBVIOUS
  <2>1. consumed <= inboundToken /\ inboundToken \in Nat /\ consumed \in Int
    BY ConsumedBounded, SpinnersFinite DEF IInv, RecvOK, DeviceOK
  <2>2. inboundToken <= landed /\ landed \in Int
    BY SMTT(40) DEF IInv, WireOK, RecvOK, OnWire
  <2>. QED
    BY <2>1, <2>2 DEF ConsumedDataLanded
<1>. QED
  BY <1>1, InvInit, InvStep, PTL DEF ForwardingSpec
=============================================================================
