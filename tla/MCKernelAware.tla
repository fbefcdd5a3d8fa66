---------------------------- MODULE MCKernelAware ---------------------------
(***************************************************************************)
(* Two places for threads, two IDs, and stacks whose guard byte may be the *)
(* kernel-aware flag itself.                                               *)
(***************************************************************************)
EXTENDS KernelAware

MCThreads == {<<1, 0>>, <<1, 1>>}
=============================================================================
