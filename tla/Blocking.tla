-------------------------------- MODULE Blocking --------------------------------
(* What the issue logic and the memory model share of a DPU: the tasklets that   *)
(* wait for a transfer.                                                          *)
VARIABLE blocked   \* bit set in Csr[31]; State BLOCK

================================================================================
