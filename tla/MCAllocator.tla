------------------------------ MODULE MCAllocator ------------------------------
(* Barriers that all tasklets pass, and behind them the allocator, whose       *)
(* kernels ask for more or less from launch to launch, as TRNS's two do.       *)
EXTENDS Allocator

MCMaskOf == [t \in Ids |-> Ids]
MCKernels == {<<2>>, <<1, 3>>}
================================================================================
