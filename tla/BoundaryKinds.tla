--------------------------- MODULE BoundaryKinds ---------------------------
(***************************************************************************)
(* What the boundaries of a partition of a stream can be                   *)
(* (ebp_boundary_info_t): none (NULL), announced by EBPs of the stream     *)
(* itself (Explicit), or those of another stream that it follows.          *)
(***************************************************************************)
CONSTANTS Partitions, \* the partitions the program knows, 0..EBP_NUM_PARTITIONS - 1
          NULL, Explicit
=============================================================================
