-------------------------- MODULE SubdeviceService --------------------------
(***************************************************************************)
(* The deviceinfo and firmware views as an implementation of ViewService:  *)
(* the items are a camera's name, network interface and firmware version.  *)
(* The history variables that ViewService speaks of are added beside the   *)
(* model.                                                                  *)
(***************************************************************************)
EXTENDS SubdeviceViews

VARIABLES
  fresh,    \* the items whose copy has been current since it came
  response  \* what each request is answered with, until it is over

servedVars == <<vars, fresh, response>>

Items == Channels \X {"name", "net", "version"}

\* The items that a worker of a kind writes.
Results ==
  [info |-> {"name"}, net |-> {"net"}, version |-> {"version", "name"}]

Place(r) ==
  IF stage[r] = "absent" THEN "absent"
  ELSE IF stage[r] = "reset" THEN "answered"
  ELSE IF stage[r] \in Finished THEN "over"
  ELSE "open"

\* A message without its fields asks for nothing, and another command for
\* nothing of these views.
Wants(r) ==
  Channels \X (IF msg[r].fields = "missing" THEN {}
               ELSE IF Command(r, "deviceinfo") THEN {"name", "net"}
               ELSE IF Command(r, "firmware") THEN {"version"} ELSE {})

\* What the workers have found, and what the senders have copied.
Current(i) == CASE i[2] = "name" -> wsub[i[1]].name
              [] i[2] = "net" -> wsub[i[1]].net
              [] i[2] = "version" -> wfw[i[1]].version
Copied(i) == CASE i[2] = "name" -> sub[i[1]].name
               [] i[2] = "net" -> sub[i[1]].net
               [] i[2] = "version" -> fw[i[1]]

Known == {i \in Items : sub[i[1]].status # 0}

\* Whom the workers ask for, and what.
QuestionsOf(workers) ==
  UNION {{w[1]} \X ({w[3]} \X Results[w[2]]) : w \in workers}

Questions == QuestionsOf(spawned \cup asking)

Watch ==
  /\ fresh' = [r \in Requests |->
       {i \in Wants(r) : /\ Place(r)' = "open"
                         /\ \/ Copied(i)' = Current(i)'
                            \/ i \in fresh[r] /\ Copied(i)' = Copied(i)}]
  /\ response' = [r \in Requests |->
                    IF Place(r)' # "answered" THEN <<>>
                    ELSE IF stage[r] = "respond"
                         THEN [i \in Known \cap Wants(r) |-> Copied(i)]
                         ELSE response[r]]

ServedInit ==
  /\ Init
  /\ fresh = [r \in Requests |-> {}]
  /\ response = [r \in Requests |-> <<>>]

ServedSpec == ServedInit /\ [][Next /\ Watch]_servedVars

Service == INSTANCE ViewService WITH
  Starters <- {"boot"},
  place <- [r \in Requests |-> Place(r)],
  wants <- [r \in Requests |-> Wants(r)],
  known <- Known,
  questions <- Questions,
  data <- [i \in Items |-> Current(i)],
  copy <- [i \in Items |-> Copied(i)],
  alone <- lone

\* Two polls, three kinds of workers, the copies that a refresh makes of names
\* and interfaces and the names that firmware workers write keep the promise:
\* what a view shows was found while it was under way, whoever copied it, and
\* a view that nothing overlaps waits for every question it has asked.
ViewServiceSpec == Service!Spec
=============================================================================
