---------------------------- MODULE MCIvfIndexes ----------------------------
EXTENDS IvfIndexes

MCDatasets == {<<0, 1>>, <<3, 0, 1>>, <<1, 1, 3>>}
MCExtras == {<<1>>, <<3, 0>>}
MCCentroids == {<<0, 3>>, <<2, 2>>}
MCCodebooks == {<<0, 1>>, <<-1, 2>>}
MCBatches == {<<3, 0>>, <<0, 2, 3>>}
MCFilters == {{}, {1}, {9}, {1, 3, 4}}

Ops == {"pairwise", "topk", "gather", "adc", "scan"}
Res(policy, busy, able) ==
  [policy |-> policy, busy |-> busy, npu |-> TRUE, gpu |-> TRUE,
   winner |-> "auto", able |-> able]
MCSettings ==
  {Res("auto", FALSE, {}), Res("hetero", TRUE, Ops \X {"npu"})}
  \cup {Res("force_npu", FALSE, (Ops \ {op}) \X {"npu"}) : op \in Ops}
  \cup {Res("force_gpu", FALSE, (Ops \ gone) \X {"gpu"}) :
          gone \in {{"adc"}, {"scan"}}}
=============================================================================
