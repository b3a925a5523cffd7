---------------------------- MODULE ViewService ----------------------------
(***************************************************************************)
(* What the bridge promises of a view command (dashboard, deviceinfo,      *)
(* firmware), without saying how: no marks, no senders, no time.           *)
(*                                                                         *)
(* The agent keeps one value for every item it can show: what a camera     *)
(* answered, or the "timeout" that stands there while it is asked; and a   *)
(* copy of it, which is made at any time, for whomever.  An answer shows   *)
(* the copies, of every item that the request wants of the cameras that    *)
(* are registered; and each copy it shows was the item's value at some     *)
(* moment since the request came.  A request that nothing else overlaps is *)
(* answered when no question is under way any more, with what is current.  *)
(***************************************************************************)
EXTENDS Naturals

CONSTANTS Requests,   (* the requests that may come, each once             *)
          Starters,   (* who else asks the cameras: the start of the agent *)
          Items       (* what can be shown                                 *)

VARIABLES
  place,      \* how each request stands
  wants,      \* the items that each request asks for
  known,      \* the items of registered cameras
  questions,  \* who is asking for what
  data,       \* the value of each item
  copy,       \* its copy
  response,   \* what each request is answered with, until it is over
  alone,      \* history: nothing else has run during the request
  fresh       \* history: items whose copy has been current since it came

vars == <<place, wants, known, questions, data, copy, response, alone, fresh>>

Askers == Requests \cup Starters

\* A value: who has asked for it, and whether it is the answer or still the
\* "timeout" written beforehand.
Unknown == <<"nobody", "answered">>
Values == {Unknown} \cup (Askers \X {"pending", "answered"})
Answers == {v \in Values : v[2] = "answered"}

Places == {"absent", "open", "answered", "over"}
Idle(r) == place[r] \in {"absent", "over"}

Init ==
  /\ place = [r \in Requests |-> "absent"]
  /\ wants \in [Requests -> SUBSET Items]
  /\ known \subseteq Items
  /\ questions \subseteq Starters \X known
  /\ data = [i \in Items |-> Unknown]
  /\ copy = data
  /\ response = [r \in Requests |-> <<>>]
  /\ alone = [r \in Requests |-> FALSE]
  /\ fresh = [r \in Requests |-> {}]

\* A request comes.
Come(r) ==
  /\ place[r] = "absent"
  /\ place' = [place EXCEPT ![r] = "open"]
  /\ alone' = [q \in Requests |->
                 IF q = r THEN questions = {} /\ \A p \in Requests : Idle(p)
                          ELSE alone[q] /\ Idle(q)]
  /\ UNCHANGED <<wants, known, questions, data, response>>

\* The registration is read anew, for a view or for a command that needs no
\* more of it.  Only what is no longer registered may be forgotten.
Refresh(r) ==
  /\ place[r] = "open"
  /\ place' \in {place, [place EXCEPT ![r] = "over"]}
  /\ known' \subseteq Items
  /\ \A i \in Items : \/ data'[i] = data[i]
                      \/ data'[i] = Unknown /\ i \notin known'
  /\ data' = [i \in Items |-> data'[i]]
  /\ UNCHANGED <<wants, questions, response, alone>>

\* Registered cameras are to be asked.
Poll(r) ==
  /\ place[r] = "open"
  /\ \E asked \in SUBSET known : questions' = questions \cup ({r} \X asked)
  /\ UNCHANGED <<place, wants, known, data, response, alone>>

AskedBy(q) == {i \in Items : <<q, i>> \in questions}

\* A camera is being asked ...
Pose(q) ==
  /\ \E asked \in SUBSET AskedBy(q) :
       data' = [i \in Items |-> IF i \in asked THEN <<q, "pending">>
                                              ELSE data[i]]
  /\ UNCHANGED <<place, wants, known, questions, response, alone>>

\* ... and has answered, or failed to.
Learn(q) ==
  /\ \E asked \in SUBSET AskedBy(q) :
       /\ questions' = questions \ ({q} \X asked)
       /\ data' = [i \in Items |-> IF i \in asked THEN <<q, "answered">>
                                                 ELSE data[i]]
  /\ UNCHANGED <<place, wants, known, response, alone>>

\* The response.
Answer(r) ==
  /\ place[r] = "open"
  /\ place' = [place EXCEPT ![r] = "answered"]
  /\ known \cap wants[r] \subseteq fresh[r]
  /\ alone[r] => questions = {} /\ \A i \in wants[r] : copy[i] = data[i]
  /\ response' = [response EXCEPT
                    ![r] = [i \in known \cap wants[r] |-> copy[i]]]
  /\ UNCHANGED <<wants, known, questions, data, alone>>

\* An error response, or none.
Refuse(r) ==
  /\ place[r] = "open"
  /\ place' = [place EXCEPT ![r] = "over"]
  /\ UNCHANGED <<wants, known, questions, data, response, alone>>

\* The threads of an answered request end.
Close(r) ==
  /\ place[r] = "answered"
  /\ place' = [place EXCEPT ![r] = "over"]
  /\ response' = [response EXCEPT ![r] = <<>>]
  /\ UNCHANGED <<wants, known, questions, data, alone>>

\* Beside any of these, or alone, items are copied.
Copy ==
  /\ copy' = [i \in Items |-> copy'[i]]
  /\ \A i \in Items : copy'[i] \in {copy[i], data'[i]}

\* A copy is fresh to an open request that wants the item if it is what the
\* item is now, or was fresh and has stayed.
Watch ==
  fresh' = [r \in Requests |->
    {i \in wants[r] : /\ place'[r] = "open"
                      /\ \/ copy'[i] = data'[i]
                         \/ i \in fresh[r] /\ copy'[i] = copy[i]}]

\* Nothing but a copy is made.
Still ==
  UNCHANGED <<place, wants, known, questions, data, response, alone>>

Next ==
  /\ \/ Still
     \/ \E r \in Requests : \/ Come(r) \/ Refresh(r) \/ Poll(r)
                            \/ Answer(r) \/ Refuse(r) \/ Close(r)
     \/ \E q \in Askers : Pose(q) \/ Learn(q)
  /\ Copy
  /\ Watch

Spec == Init /\ [][Next]_vars

-----------------------------------------------------------------------------
(* What follows.                                                           *)

TypeOK ==
  /\ place \in [Requests -> Places]
  /\ wants \in [Requests -> SUBSET Items]
  /\ known \subseteq Items
  /\ questions \subseteq Askers \X Items
  /\ data \in [Items -> Values]
  /\ copy \in [Items -> Values]
  /\ alone \in [Requests -> BOOLEAN]
  /\ fresh \in [Requests -> SUBSET Items]

\* The "timeout" written beforehand stands only while its question is under
\* way: no item is left with a value that no worker will replace.
NoStrayPending ==
  \A q \in Askers, i \in Items :
    data[i] = <<q, "pending">> => <<q, i>> \in questions

\* A request that nothing overlapped is answered with answers only.
AloneAnswered ==
  \A r \in Requests : alone[r] =>
    \A i \in DOMAIN response[r] : response[r][i] \in Answers
=============================================================================
