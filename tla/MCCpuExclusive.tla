--------------------------- MODULE MCCpuExclusive ---------------------------
(* Instances of CpuExclusive for TLC: the first thread and two that it, or they,
   create.                                                                  *)
EXTENDS CpuExclusive

=============================================================================
