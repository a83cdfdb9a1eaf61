--------------------------- MODULE HostScenarios ----------------------------
(***************************************************************************)
(* The instances of the host side: calls of the algorithms and of the      *)
(* executor, requests around every bound of the selection, and data at the *)
(* edges of the arithmetic of a reduction.                                 *)
(***************************************************************************)
EXTENDS Integers, Sequences, TLC

(* Calls of the algorithms: memory that is symmetric or not, in place or   *)
(* not, at two offsets of an allocation.                                   *)

Buf(a, o) == [alloc |-> a, offset |-> o]

Calls(inputs, outputs, modes, support) ==
  {[input |-> i, output |-> o, symmetric |-> m, supported |-> s] :
     i \in inputs, o \in outputs, m \in modes, s \in support}

Same(buf) == [r \in 0 .. 2 |-> buf]
\* Rank 0 and the others pass different buffers.
Apart(b0, b1) == [r \in 0 .. 2 |-> IF r = 0 THEN b0 ELSE b1]

X == Buf("x", 0)
X1 == Buf("x", 1)
Y == Buf("y", 0)
Y1 == Buf("y", 1)

Scen(algorithm, nRanks, maxCalls, callSet, reset) ==
  [algorithm |-> algorithm, nRanks |-> nRanks, maxCalls |-> maxCalls, calls |-> callSet,
   reset |-> reset, allocs |-> {"x", "y"}]

\* Memory that is not symmetric: the ranks pass what they like.
Free == Calls({Apart(X, Y1)}, {Same(Y), Apart(X1, Y)}, {FALSE}, {TRUE})
Symmetric(ins, outs) == Calls({Same(b) : b \in ins}, {Same(b) : b \in outs}, {TRUE}, {TRUE})
Unsupported == Calls({Same(X)}, {Same(Y)}, {TRUE}, {FALSE})

ContextScenarios == [
  packet |-> Scen("packet", 2, 3, Free \cup Symmetric({Y}, {Y}), FALSE),
  allpair |-> Scen("allpair_packet", 2, 2, Symmetric({X}, {Y}), FALSE),
  rsag |-> Scen("rsag", 2, 2, Free, FALSE),
  rsag3 |-> Scen("rsag_pipeline", 3, 1, Symmetric({X}, {X}), FALSE),
  fullmesh |-> Scen("fullmesh", 2, 3, Free, FALSE),
  fullmesh_symmetric |-> Scen("fullmesh", 2, 3, Symmetric({X}, {Y1, X1}) \cup Unsupported, TRUE),
  zero_copy |-> Scen("rsag_zero_copy", 2, 3, Free, FALSE),
  zero_copy_symmetric |-> Scen("rsag_zero_copy", 2, 2, Symmetric({X, Y}, {X, Y}), TRUE),
  nvls_packet |-> Scen("nvls_packet", 3, 2, Symmetric({X}, {X, Y}), TRUE),
  nvls_pipeline |-> Scen("nvls_warp_pipeline", 2, 2, Symmetric({X}, {X, Y}), TRUE),
  nvls_block |-> Scen("nvls_block_pipeline", 2, 1, Symmetric({X}, {X, Y}), TRUE),
  nvls |-> Scen("nvls", 2, 3, Symmetric({X1}, {Y}) \cup Symmetric({Y}, {X})
                       \cup Calls({Same(X)}, {Same(Y)}, {FALSE}, {TRUE}), TRUE),
  allgather |-> Scen("allgather_fullmesh", 2, 2, Free, FALSE),
  allgather2 |-> Scen("allgather_fullmesh2", 2, 3, Free, FALSE),
  allgather2_symmetric |-> Scen("allgather_fullmesh2", 2, 3, Symmetric({X}, {X, Y1}), TRUE),
  \* two offsets in one allocation
  allgather2_offsets |-> Scen("allgather_fullmesh2", 2, 2, Symmetric({X}, {Y, Y1}), TRUE),
  zero_copy_offsets |-> Scen("rsag_zero_copy", 2, 2, Symmetric({X}, {Y, Y1}), TRUE),
  \* in place and then not, in one allocation
  nvls_places |-> Scen("nvls", 2, 2, Symmetric({X}, {X, X1}), TRUE),
  fullmesh_mixed |-> Scen("fullmesh", 2, 2, Free \cup Symmetric({X}, {Y}), FALSE)]

-----------------------------------------------------------------------------
(* Plans whose ranks differ in their channels, and calls with the same and *)
(* with other buffers, sizes and plan objects.                             *)

Chan(type, peers) == [type |-> type, peers |-> peers]
Buff(rank, type, access) == [rank |-> rank, type |-> type, access |-> access]

PlanOf(channels, buffers, switches, reuse) ==
  [channels |-> channels, buffers |-> buffers, switches |-> switches, reuseResources |-> reuse]

\* Rank 0 has two memory channels to rank 1, which has one back; both ports.
Uneven == PlanOf(
  (0 :> <<Chan("memory", <<1, 1>>), Chan("port", <<1>>)>> @@ 1 :> <<Chan("port", <<0, 0>>), Chan("memory", <<0>>)>>),
  (0 :> <<Buff(1, "output", <<"port">>), Buff(1, "scratch", <<"memory", "port">>), Buff(1, "input", <<"memory">>)>>
     @@ 1 :> <<Buff(0, "input", <<"memory">>), Buff(0, "output", <<"port", "memory">>)>>),
  (0 :> <<<<0, 1>>>> @@ 1 :> <<<<0, 1>>>>), FALSE)

\* Rank 0 alone signals its peers, rank 2 reads from rank 1.
OneWay == PlanOf(
  (0 :> <<Chan("memory", <<1, 2>>)>> @@ 1 :> <<>> @@ 2 :> <<Chan("memory", <<1>>)>>),
  (0 :> <<Buff(2, "output", <<"memory">>), Buff(1, "output", <<"memory">>)>> @@ 1 :> <<>>
     @@ 2 :> <<Buff(1, "input", <<"memory">>)>>),
  (0 :> <<>> @@ 1 :> <<>> @@ 2 :> <<>>), FALSE)

Reused == PlanOf(
  (0 :> <<Chan("memory", <<1>>)>> @@ 1 :> <<Chan("memory", <<0>>)>>),
  (0 :> <<Buff(1, "scratch", <<"memory">>)>> @@ 1 :> <<Buff(0, "scratch", <<"memory">>)>>),
  (0 :> <<>> @@ 1 :> <<>>), TRUE)

CallOf(plan, object, in, out, size, valid) ==
  [plan |-> plan, object |-> object, input |-> Same(in), output |-> Same(out), size |-> size, valid |-> valid]

ExecutorScenarios == [
  uneven |-> [nRanks |-> 2, plans |-> [a |-> Uneven, b |-> Reused], maxCalls |-> 3, calls |->
    {CallOf("a", 1, X, Y, 1, TRUE), CallOf("a", 1, X1, Y, 1, TRUE), CallOf("a", 1, X, Y1, 2, TRUE),
     CallOf("b", 1, X, X, 1, TRUE), CallOf("a", 1, Y, X, 1, TRUE)}],
  one_way |-> [nRanks |-> 3, plans |-> [a |-> OneWay], maxCalls |-> 1, calls |-> {CallOf("a", 1, X, Y, 1, TRUE)}],
  \* a size that is refused, when the context is there
  refused |-> [nRanks |-> 2, plans |-> [a |-> Reused], maxCalls |-> 4, calls |->
    {CallOf("a", 1, X, Y, 1, TRUE), CallOf("a", 1, Y, X, 2, FALSE), CallOf("a", 1, Y, X, 3, TRUE)}],
  \* a size that is refused, when the context is not there
  refused_new |-> [nRanks |-> 2, plans |-> [a |-> Uneven], maxCalls |-> 3, calls |->
    {CallOf("a", 1, X, Y, 1, TRUE), CallOf("a", 1, Y, X, 2, FALSE), CallOf("a", 1, X, Y, 3, TRUE)}],
  \* two plan objects of one file
  two_objects |-> [nRanks |-> 2, plans |-> [a |-> Reused], maxCalls |-> 2, calls |->
    {CallOf("a", 1, X, Y, 1, TRUE), CallOf("a", 2, X, Y, 2, TRUE)}],
  \* the ranks' buffers lie at different offsets
  offsets |-> [nRanks |-> 2, plans |-> [a |-> Uneven], maxCalls |-> 1, calls |->
    {[CallOf("a", 1, X, Y, 1, TRUE) EXCEPT !.output = (0 :> Y @@ 1 :> Y1)]}]]

-----------------------------------------------------------------------------
(* Calls on devices with and without NVLS, with and without the library    *)
(* and plans.                                                              *)

KB(n) == n * 1024
MB(n) == n * 1024 * 1024

Request(collective, op, dtype, size, worldSize, nRanksPerNode, inPlace, cuMem, capture) ==
  [collective |-> collective, op |-> op, dtype |-> dtype, size |-> size, worldSize |-> worldSize,
   nRanksPerNode |-> nRanksPerNode, inPlace |-> inPlace, cuMem |-> cuMem, capture |-> capture]

\* Around every bound of the selection.
Sizes == {0, 4, KB(16), KB(16) + 4, KB(32), KB(32) + 4, KB(64), KB(64) + 4, MB(1), MB(1) + 4, MB(2), MB(2) + 4,
          MB(8), MB(8) + 4, MB(16), MB(32), MB(32) + 4, MB(64)}

Types == {"float16", "uint8", "uint32", "float8_e4m3"}

Allreduces(ops, types) ==
  {Request("allreduce", op, t, size, n, n, FALSE, m, g) : op \in ops, t \in types, size \in Sizes,
     n \in {1, 2, 8}, m \in BOOLEAN, g \in BOOLEAN}
Others(types) ==
  {Request(c, IF c = "reducescatter" THEN "sum" ELSE "none", t, size, 8, 8, FALSE, TRUE, FALSE) : t \in types,
     c \in {"allgather", "reducescatter", "broadcast"}, size \in {0, KB(16), KB(32), MB(1), MB(32), MB(32) + 4}}
Rest == {Request(c, "sum", "float16", KB(16), n, n, FALSE, TRUE, FALSE) :
     c \in {"reduce", "send", "recv", "alltoall"}, n \in {1, 8}}
MultiNode(ops) == {Request("allreduce", op, "float16", size, 16, 8, p, FALSE, FALSE) :
     op \in ops, size \in {KB(1), KB(64), KB(96), MB(2), MB(2) + 4}, p \in BOOLEAN}

Environment(nvls, cc, symmetric, library, forced, plans) ==
  [nvls |-> nvls, computeCapability |-> cc, symmetric |-> symmetric, library |-> library, forced |-> forced,
   plans |-> plans]
Environments(nvls, ccs) ==
  {Environment(nvls, cc, s, l, f, {}) : cc \in ccs, s \in BOOLEAN, l \in BOOLEAN, f \in {{}, {"allreduce"}}}

AlgoPlan(collective, worldSize, nRanksPerNode, mode, min, max) ==
  [collective |-> collective, worldSize |-> worldSize, nRanksPerNode |-> nRanksPerNode, mode |-> mode,
   min |-> min, max |-> max]
TwoNodes == {AlgoPlan("allreduce", 16, 8, "in_place", KB(1), KB(64)), AlgoPlan("allreduce", 16, 8, "in_place", KB(128), MB(2)),
             AlgoPlan("allgather", 8, 8, "in_place", KB(32), MB(1))}
OutOfPlace == {AlgoPlan("allgather", 8, 8, "out_of_place", KB(256), MB(1)),
               AlgoPlan("reducescatter", 8, 8, "out_of_place", KB(128), MB(8))}
Mixed == {AlgoPlan("allreduce", 16, 8, "in_place", KB(1), KB(64)), AlgoPlan("allreduce", 16, 8, "out_of_place", KB(64), MB(2))}

ApiScenarios == [
  \* sums on devices with and without NVLS
  sums |-> [environments |-> Environments(TRUE, {9, 10}) \cup Environments(FALSE, {8}),
   requests |-> Allreduces({"sum"}, Types)],
  minima |-> [environments |-> Environments(FALSE, {8}), requests |-> Allreduces({"min"}, {"float16", "uint8"})],
  others |-> [environments |-> Environments(TRUE, {9}), requests |-> Others(Types) \cup Rest],
  plans |-> [environments |-> {Environment(TRUE, 9, FALSE, l, {}, TwoNodes) : l \in BOOLEAN},
   requests |-> MultiNode({"sum"}) \cup Others({"float16"})],
  plan |-> [environments |-> {Environment(TRUE, 9, FALSE, TRUE, {}, OutOfPlace)}, requests |-> Others({"float16"})],
  \* the minimum on a device with NVLS
  nvls_minima |-> [environments |-> Environments(TRUE, {9}), requests |-> Allreduces({"min"}, {"float16"})],
  \* types and operations that only NCCL knows
  foreign |-> [environments |-> Environments(TRUE, {9}),
               requests |-> Allreduces({"sum"}, {"float64"}) \cup Allreduces({"max"}, {"float16"})],
  \* plans of both modes
  mixed_plans |-> [environments |-> {Environment(TRUE, 9, FALSE, TRUE, {}, Mixed)}, requests |-> MultiNode({"sum"})],
  \* minima with a plan
  plan_minima |-> [environments |-> {Environment(TRUE, 9, FALSE, TRUE, {}, TwoNodes)}, requests |-> MultiNode({"min"})]]

-----------------------------------------------------------------------------
(* Reductions over two and three ranks: bytes at the edges of the packed   *)
(* arithmetic, and fp8_e4m3b15 bytes of both signs at the edges of the     *)
(* exponent and of the mantissa.                                           *)

EdgeBytes == {0, 1, 127, 128, 254, 255}

\* Subnormals, the least and the greatest exponents, and mantissas at their ends.
EdgeFloats == {128 * s + 8 * e + m : s \in 0..1, e \in {0, 1, 11, 15}, m \in {0, 3, 7}}
FewFloats == {128 * s + 8 * e + m : s \in 0..1, e \in {0, 11, 15}, m \in {1, 6}}

Pair(x, y) == <<x, y, y, x>>
Lanes(x) == <<x, (x + 128) % 256, 0, x>>

Reductions(types, accums, ops, devices, counts, data) ==
  {[type |-> t, accum |-> a, op |-> o, device |-> d, count |-> c, data |-> v] :
     t \in types, a \in accums, o \in ops, d \in devices, c \in counts, v \in data}

Ops == {"SUM", "MIN"}

ReduceScenarios ==
  [bytes |-> Reductions({"u8"}, {"u8"}, Ops, {"HIP"}, {3, 4},
               {<<<<Pair(x, y)>>, <<Pair(z, w)>>>> : x, y, z, w \in EdgeBytes}),
   bytes3 |-> Reductions({"u8"}, {"u8"}, Ops, {"CUDA", "HIP"}, {7, 8},
               {<<<<Lanes(x), Pair(x, y)>>, <<Pair(y, x), Lanes(z)>>, <<Pair(x, z), Pair(z, y)>>>> :
                  x, y, z \in EdgeBytes}),
   floats |-> Reductions({"e4m3b15"}, {"e4m3b15", "f16", "f32"}, Ops, {"CUDA", "gfx942"}, {4},
               {<<<<Lanes(x)>>, <<Lanes(y)>>>> : x, y \in EdgeFloats}),
   wide |-> Reductions({"e4m3b15"}, {"f32"}, Ops, {"CUDA", "gfx942"}, {4},
               {<<<<Lanes(x)>>, <<Lanes(y)>>, <<Lanes(z)>>>> : x, y \in FewFloats, z \in {1, 94, 222}}),
   narrow |-> Reductions({"e4m3b15"}, {"e4m3b15"}, {"SUM"}, {"CUDA"}, {4},
               {<<<<Lanes(x)>>, <<Lanes(y)>>, <<Lanes(z)>>>> : x, y, z \in FewFloats}),
   half |-> Reductions({"e4m3b15"}, {"f16"}, {"SUM"}, {"CUDA"}, {4},
               {<<<<Lanes(x)>>, <<Lanes(y)>>, <<Lanes(z)>>>> : x, y, z \in FewFloats}),
   tail |-> Reductions({"u8"}, {"u8"}, {"SUM"}, {"CUDA"}, {5},
               {<<<<Lanes(x), Lanes(y)>>, <<Lanes(y), Lanes(x)>>>> : x, y \in EdgeBytes})]

(* Up to three ranks that split the world, and a split communicator again. *)

NoColor == -1

InitCall == <<[op |-> "init", comm |-> "world"]>>
SplitCall(of, to, color, key) == <<[op |-> "split", of |-> of, comm |-> to, color |-> color, key |-> key]>>
End(c) == <<[op |-> "finalize", of |-> c, comm |-> c], [op |-> "destroy", comm |-> c]>>

ScriptsOf(library, scripts) == [n |-> Len(scripts), library |-> library, scripts |-> scripts]
Everywhere(library) == <<library, library, library>>

\* Two ranks of one color in the reverse order, one without; then the world ends.
Reversed == <<InitCall \o SplitCall("world", "part", 1, 5) \o End("part") \o End("world"),
              InitCall \o SplitCall("world", "part", NoColor, 0) \o End("world"),
              InitCall \o SplitCall("world", "part", 1, 3) \o End("part") \o End("world")>>

CommScenarios == [
  reversed |-> ScriptsOf(Everywhere("unset"), Reversed),
  \* two colors, equal keys, the library
  colors |-> ScriptsOf(Everywhere("ok"),
    <<InitCall \o SplitCall("world", "part", 1, 0), InitCall \o SplitCall("world", "part", 2, 0),
      InitCall \o SplitCall("world", "part", 1, 0)>>),
  \* a split of a split
  nested |-> ScriptsOf(Everywhere("unset"),
    <<InitCall \o SplitCall("world", "part", 1, 2) \o SplitCall("part", "again", 7, 1),
      InitCall \o SplitCall("world", "part", 1, 1) \o SplitCall("part", "again", 7, 2),
      InitCall \o SplitCall("world", "part", 1, 3) \o SplitCall("part", "again", NoColor, 3)>>),
  \* one rank cannot load the library
  load_fails |-> ScriptsOf(<<"ok", "fails", "ok">>, <<InitCall, InitCall, InitCall>>)]
=============================================================================
