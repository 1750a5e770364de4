---------------------------- MODULE MCPreFlight ----------------------------
(***************************************************************************)
(* One agent before a cluster that is upgraded, scaled and administered by *)
(* others.  The versions lie on both sides of the minimum, in the minor    *)
(* and in the major number; the models on both sides of the sizes at which *)
(* the recommended GPU and the number of GPUs change, with arguments at    *)
(* their limits and one beyond.                                            *)
(***************************************************************************)
EXTENDS PreFlight

CONSTANT nomodel

MCVersions == {<<1, 26>>, <<1, 27>>, <<2, 0>>}

M(params, workers, batch, quantization) ==
    [params |-> params, workers |-> workers, batch |-> batch, quantization |-> quantization]

MCModels == {M(8000, 100, 1, "int4"), M(70000, 2, 1024, "fp32"),
             M(8000, 101, 1025, "int2")}
=============================================================================
