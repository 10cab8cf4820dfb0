------------------------------- MODULE Mixer -------------------------------
(***************************************************************************)
(* Which device runs a primitive (src/prim/mixer.cpp).  Every primitive    *)
(* tries devices one after another and ends at the first that can, or      *)
(* refuses; here a primitive is the sequence of devices it tries.          *)
(*                                                                         *)
(* A resources record res holds the fields the mixer reads: policy; busy,  *)
(* npu_busy; winner, large_gemm_winner; npu and gpu, whether the devices   *)
(* are there; and able, the pairs <<op, device>> that run op at the shape  *)
(* and data of the call.  The CPU runs everything.                         *)
(***************************************************************************)
EXTENDS Naturals, Sequences

Policies == {"auto", "npu_if_faster", "gpu_if_faster", "hetero",
             "force_cpu", "force_npu", "force_gpu"}
Forcing == {"force_cpu", "force_npu", "force_gpu"}
GpuPolicies == {"auto", "gpu_if_faster", "hetero", "force_gpu"}

policy_force(p) ==
  CASE p = "force_npu" -> "npu" [] p = "force_gpu" -> "gpu"
    [] p = "force_cpu" -> "cpu" [] OTHER -> "auto"

\* large: the work of a gemm reaches large_gemm_flops.
choose_device(res, op, large) ==
  IF res.policy \in Forcing THEN policy_force(res.policy)
  ELSE IF /\ op \in {"gemm", "pairwise"} /\ large
          /\ \/ res.winner = "gpu" /\ res.gpu
             \/ res.winner = "npu" /\ res.npu /\ ~res.busy
       THEN res.winner
       ELSE "cpu"

\* prim_gemm, prim_topk, prim_gather_rows and the metrics of prim_pairwise
\* that are no gemm; prim_gemm_compute differs in its devices' kernels only.
Tries(res, op, large) ==
  LET d == choose_device(res, op, large) IN
  IF res.policy \in Forcing THEN <<d>>
  ELSE CASE d = "npu" -> <<"npu", "gpu", "cpu">>
         [] d = "gpu" -> <<"gpu", "cpu">>
         [] OTHER -> <<"cpu">>

prim_pq_adc_batch(res) ==
  CASE res.policy = "force_gpu" -> <<>>
    [] res.policy = "force_npu" -> <<"npu">>
    [] res.policy = "force_cpu" \/ res.busy -> <<"cpu">>
    [] OTHER -> <<"npu", "cpu">>

prim_ivfpq_scan_select(res) ==
  IF res.policy = "force_gpu" THEN <<"gpu">> ELSE <<>>

\* A GPU that is there and may run is not followed by the host loop, whatever
\* it answers; "cpu" is the loop of nndescent_build.
prim_nndescent_build(res, metricOk) ==
  CASE res.policy = "force_npu" -> <<>>
    [] res.policy \in GpuPolicies /\ metricOk /\ res.gpu -> <<"gpu">>
    [] res.policy = "force_gpu" -> <<>>
    [] OTHER -> <<"cpu">>

\* A shape the GPU does not take (able) is left to the CPU.
prim_cagra_optimize_ranked(res) ==
  CASE res.policy = "force_npu" -> <<>>
    [] res.policy = "force_gpu" -> IF res.gpu THEN <<"gpu">> ELSE <<>>
    [] res.policy \in GpuPolicies /\ res.gpu -> <<"gpu", "cpu">>
    [] OTHER -> <<"cpu">>

Able(res, op, d) == d = "cpu" \/ <<op, d>> \in res.able

\* The device that runs op, "none" when the call fails.
Runs(res, op, tries) ==
  LET can == {i \in DOMAIN tries : Able(res, op, tries[i])} IN
  IF can = {} THEN "none"
  ELSE tries[CHOOSE i \in can : \A j \in can : i <= j]

Ran(res, op, large) ==
  Runs(res, op,
       CASE op = "adc" -> prim_pq_adc_batch(res)
         [] op = "scan" -> prim_ivfpq_scan_select(res)
         [] op = "nndescent" -> prim_nndescent_build(res, large)
         [] op = "optimize" -> prim_cagra_optimize_ranked(res)
         [] OTHER -> Tries(res, op, large))
=============================================================================
