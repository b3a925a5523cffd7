-------------------------- MODULE DashboardService --------------------------
(***************************************************************************)
(* The dashboard view as an implementation of ViewService: the items are   *)
(* the channels, an item's value is what the workers' array holds.  The    *)
(* history variable that ViewService speaks of is added beside the model.  *)
(***************************************************************************)
EXTENDS DashboardView

VARIABLE fresh  \* the channels whose copy has been current since it came

servedVars == <<vars, fresh>>

\* An answered request is over when its sender's thread ends.
Place(r) ==
  IF stage[r] = "absent" THEN "absent"
  ELSE IF stage[r] = "reset" THEN "answered"
  ELSE IF stage[r] \in Finished THEN "over"
  ELSE "open"

\* A message without its fields asks for nothing, and another command for
\* nothing of the dashboard's.
Wants(r) == IF r \in Others \cup Malformed THEN {} ELSE Channels

Watch ==
  fresh' = [r \in Requests |->
    {c \in Wants(r) : /\ Place(r)' = "open"
                      /\ \/ store'[c] = found'[c]
                         \/ c \in fresh[r] /\ store'[c] = store[c]}]

ServedInit == Init /\ fresh = [r \in Requests |-> {}]

ServedSpec == ServedInit /\ [][Next /\ Watch]_servedVars

FairServedSpec == ServedSpec /\ Fairness

Service == INSTANCE ViewService WITH
  Starters <- {},
  Items <- Channels,
  place <- [r \in Requests |-> Place(r)],
  wants <- [r \in Requests |-> Wants(r)],
  known <- {c \in Channels : status[c] # 0},
  questions <- {w \in Workers : worker[w] # "off"},
  data <- found,
  copy <- store,
  response <- [r \in Requests |->
                 IF Place(r) = "answered" THEN answer[r].shows ELSE <<>>],
  alone <- lone

\* Marks, senders, copies and time together keep the promise: each channel is
\* answered with a value it has had since the request came, whichever sender
\* copied the workers' array last, and a request that nothing overlaps with
\* the value it has when no worker asks any more.
ViewServiceSpec == Service!Spec
=============================================================================
