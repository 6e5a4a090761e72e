--------------------------- MODULE MCCommandQueue ---------------------------
(***************************************************************************)
(* Instances of CommandQueue for TLC.                                      *)
(***************************************************************************)
EXTENDS CommandQueue

CONSTANTS main, gui, script

(* More callers than the ring has slots.                                   *)
MCThree == {main, gui, script}

(* An upload does what a download does, but for the retries.               *)
MCKinds == {"download", "nofile"}
=============================================================================
