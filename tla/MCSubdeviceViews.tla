-------------------------- MODULE MCSubdeviceViews --------------------------
(* Instances of SubdeviceService for TLC. *)
EXTENDS SubdeviceService, TLC

CONSTANTS r1, r2

\* No step compares requests: they are interchangeable.
RequestSymmetry == Permutations({r1, r2})

\* The missing version counts only when the registration fails, for every
\* command alike; the other fields of another command do not count at all.
MixedMessages ==
  [command : {"deviceinfo", "firmware"}, fields : {"all", "missing"}]
    \cup {[command |-> "other", fields |-> "noVersion"]}
=============================================================================
