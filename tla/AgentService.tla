---------------------------- MODULE AgentService ----------------------------
(***************************************************************************)
(* What the tunneling agent promises of its MQTT links, without saying     *)
(* how.  A link is in service or it is not; the process may end only       *)
(* because some link is out of service, and it may end on purpose          *)
(* ("exit0") only after a link has been out of service for GiveUp seconds. *)
(* The bridge link and the broker link live in one process, so the end of  *)
(* the process takes every link with it.                                   *)
(***************************************************************************)
EXTENDS Naturals

CONSTANTS Links,    (* the MQTT links the process runs                     *)
          GiveUp    (* seconds without service before a deliberate exit    *)

VARIABLES inService,  (* the links that are connected and fully subscribed *)
          unserved,   (* seconds each link is out of service, up to GiveUp     *)
          proc        (* how the process stands                            *)

vars == <<inService, unserved, proc>>

Init ==
  /\ inService = {}
  /\ unserved = [l \in Links |-> 0]
  /\ proc = "running"

\* A link comes into service: its clock is cleared.
Enter(l) ==
  /\ l \notin inService
  /\ inService' = inService \cup {l}
  /\ unserved' = [unserved EXCEPT ![l] = 0]
  /\ UNCHANGED proc

\* A link falls out of service; the clock starts from zero.
Leave(l) ==
  /\ l \in inService
  /\ inService' = inService \ {l}
  /\ UNCHANGED <<unserved, proc>>

\* One second passes for every link that is out of service.
Second ==
  /\ unserved' = [l \in Links |->
                    IF l \in inService \/ unserved[l] >= GiveUp
                    THEN unserved[l] ELSE unserved[l] + 1]
  /\ UNCHANGED <<inService, proc>>

\* The process ends by giving up on a link.
Abandon ==
  /\ \E l \in Links : l \notin inService /\ unserved[l] >= GiveUp
  /\ proc' = "exit0"
  /\ UNCHANGED <<inService, unserved>>

\* The process ends on an error, which only a link out of service can cause.
Fail ==
  /\ \E l \in Links : l \notin inService
  /\ proc' \in {"exit1", "terminated"}
  /\ UNCHANGED <<inService, unserved>>

Next ==
  /\ proc = "running"
  /\ \/ \E l \in Links : Enter(l) \/ Leave(l)
     \/ Second
     \/ Abandon
     \/ Fail

Spec == Init /\ [][Next]_vars
=============================================================================
