--------------------------- MODULE MCFirmwareList ---------------------------
(* Instances of FirmwareList for TLC. *)
EXTENDS FirmwareList, TLC

CONSTANTS v1, v2, v3

\* No step compares views: they are interchangeable.
ViewSymmetry == Permutations({v1, v2, v3})
=============================================================================
