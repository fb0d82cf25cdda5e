----------------------------- MODULE MCS3Flash -----------------------------
(* The S3 data in the flash: sectors of eight cells, two for the volatile   *)
(* block.  Three boots differ in one sector or in length, one has no        *)
(* volatile block, and the fixed MTRR of two differ in the extension bits.  *)
EXTENDS S3Flash

MsrOf(ext) == [fixed |-> <<[lo |-> 1 + 2 * ext, hi |-> 1]>>,
               var |-> <<[lo |-> 3, hi |-> 0]>>]
BootA == [nv |-> <<5, 6, 7>>, vol |-> <<1, 2, 3, 4, 5, 6, 7, 8, 9>>,
          msr |-> MsrOf(0)]
BootB == [nv |-> <<5, 6, 7>>, vol |-> <<1, 2, 3, 4, 5, 6, 7, 8, 4>>,
          msr |-> MsrOf(1)]
BootC == [nv |-> <<5, 6, 4>>, vol |-> <<1, 2, 3>>, msr |-> MsrOf(1)]
BootD == [nv |-> <<5, 6, 7>>, vol |-> <<>>, msr |-> MsrOf(0)]
MCBoots == {BootA, BootB, BootC, BootD}
==============================================================================
