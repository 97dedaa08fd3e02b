-------------------------- MODULE MCTensorPipeline --------------------------
EXTENDS TensorPipelineInv

\* Two floats that are multiples of each other (quantized to the same bytes, under
\* two scales), and the bytes of one of them under another type.
MCTensors ==
    {[dtype |-> "wide", data |-> <<0, 0, 0, 1>>],
     [dtype |-> "wide", data |-> <<0, 0, 1, 0>>],
     [dtype |-> "bool", data |-> <<0, 0, 0, 1>>]}

MCConfigs ==
    {[algo |-> "zstd", policy |-> [n \in Names |-> "none"], keep |-> TRUE],
     [algo |-> "zstd", policy |-> [n \in Names |-> IF n = "a" THEN "quant" ELSE "none"], keep |-> TRUE],
     [algo |-> "none", policy |-> [n \in Names |-> "half"], keep |-> FALSE]}
=============================================================================
