-------------------------- MODULE MCFirmwareUpdate --------------------------
(* Four files: two good images, of different sizes, one that was damaged   *)
(* and one for another board.                                              *)
EXTENDS FirmwareUpdate

CONSTANTS v1, v2, torn, other

MCSize == [i \in Image |-> IF i = v1 THEN 1 ELSE 3]
=============================================================================
