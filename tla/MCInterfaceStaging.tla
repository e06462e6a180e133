------------------------ MODULE MCInterfaceStaging ------------------------
(* Small instances of InterfaceStaging for TLC. *)
EXTENDS InterfaceStaging

CONSTANTS x, y
=============================================================================
