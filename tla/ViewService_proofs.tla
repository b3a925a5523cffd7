------------------------- MODULE ViewService_proofs -------------------------
(***************************************************************************)
(* What the promise of ViewService amounts to, for any requests, items and *)
(* starters.  DashboardView_proofs and SubdeviceViews_proofs show that the *)
(* views of the bridge keep the promise.                                   *)
(***************************************************************************)
EXTENDS ViewService, TLAPS

\* A history variable beside the specification: every value that an item has
\* had while a request was open.
VARIABLE seen

See == seen' = [r \in Requests |-> [i \in Items |->
                  IF place'[r] = "open" THEN seen[r][i] \cup {data'[i]}
                                        ELSE seen[r][i]]]

seeing == <<vars, seen>>

SeenSpec == /\ Init /\ seen = [r \in Requests |-> [i \in Items |-> {}]]
            /\ [][Next /\ See]_seeing

\* What an answer shows of an item was the item's value at some moment between
\* the request and the answer: never a value from before the request came.
ShownWasCurrent ==
  \A r \in Requests : \A i \in DOMAIN response[r] :
    response[r][i] \in seen[r][i]

-----------------------------------------------------------------------------
(* The invariant.                                                          *)

ResponseInv ==
  /\ response = [r \in Requests |-> response[r]]
  /\ \A r \in Requests : DOMAIN response[r] \subseteq Items
  /\ \A r \in Requests : place[r] # "answered" => DOMAIN response[r] = {}

IInv == TypeOK /\ NoStrayPending /\ ResponseInv /\ AloneAnswered

LEMMA InitIInv == Init => IInv
<1> SUFFICES ASSUME Init PROVE IInv
  OBVIOUS
<1>1. TypeOK
  BY DEF Init, TypeOK, Places, Values, Askers
<1>2. DOMAIN <<>> = {}
  OBVIOUS
<1>3. NoStrayPending
  BY DEF Init, NoStrayPending, Unknown
<1>4. ResponseInv /\ AloneAnswered
  BY <1>2 DEF Init, ResponseInv, AloneAnswered
<1> QED
  BY <1>1, <1>3, <1>4 DEF IInv

\* Copies keep to the values, and what is fresh to what is wanted.
LEMMA CopyTypes ==
  ASSUME TypeOK, Copy, Watch, data' \in [Items -> Values]
  PROVE  copy' \in [Items -> Values] /\ fresh' \in [Requests -> SUBSET Items]
<1>1. \A i \in Items : copy'[i] \in Values
  BY DEF TypeOK, Copy
<1> QED
  BY <1>1 DEF TypeOK, Copy, Watch

\* Where no question is under way, every item has an answer.
LEMMA Settled ==
  ASSUME TypeOK, NoStrayPending, questions = {}
  PROVE  \A i \in Items : data[i] \in Answers
<1> SUFFICES ASSUME NEW i \in Items PROVE data[i] \in Answers
  OBVIOUS
<1>1. data[i] \in Values /\ \A q \in Askers : data[i] # <<q, "pending">>
  BY DEF TypeOK, NoStrayPending
<1> QED
  BY <1>1 DEF Values, Answers, Unknown

LEMMA Keeps == IInv /\ [Next]_vars => IInv'
<1> SUFFICES ASSUME IInv, [Next]_vars PROVE IInv'
  OBVIOUS
<1>a. TypeOK /\ NoStrayPending /\ ResponseInv /\ AloneAnswered
  BY DEF IInv
<1>b. CASE Copy /\ Watch
  <2>1. ASSUME NEW r \in Requests, Come(r) PROVE IInv'
    <3>1. TypeOK'
      BY <1>a, <1>b, <2>1, CopyTypes DEF Come, Idle, TypeOK, Places
    <3>2. /\ UNCHANGED <<data, questions, response>>
          /\ \A q \in Requests : alone'[q] => alone[q] \/ q = r
          /\ place[r] # "answered"
          /\ \A q \in Requests : place'[q] # "answered" =>
               place[q] # "answered"
      BY <1>a, <2>1 DEF Come, TypeOK
    <3>3. NoStrayPending' /\ ResponseInv'
      BY <1>a, <3>2 DEF NoStrayPending, ResponseInv
    <3>4. AloneAnswered'
      BY <1>a, <3>2 DEF AloneAnswered, ResponseInv, Answers, Values, Askers
    <3> QED
      BY <3>1, <3>3, <3>4 DEF IInv
  <2>2. ASSUME NEW r \in Requests, Refresh(r) PROVE IInv'
    <3>1. /\ UNCHANGED <<wants, questions, response, alone>>
          /\ place[r] = "open"
          /\ place' = place \/ place' = [place EXCEPT ![r] = "over"]
      BY <2>2 DEF Refresh
    <3>2. data' \in [Items -> Values]
          /\ \A i \in Items : data'[i] = data[i] \/ data'[i] = Unknown
      BY <1>a, <2>2 DEF Refresh, TypeOK, Values
    <3>3. place' \in [Requests -> Places]
      BY <1>a, <3>1 DEF TypeOK, Places
    <3>4. TypeOK'
      BY <1>a, <1>b, <2>2, <3>1, <3>2, <3>3, CopyTypes DEF Refresh, TypeOK
    <3>5. NoStrayPending'
      BY <1>a, <3>1, <3>2 DEF NoStrayPending, Unknown
    <3>6. \A q \in Requests : place'[q] # "answered" => place[q] # "answered"
      BY <1>a, <3>1 DEF TypeOK
    <3>7. ResponseInv' /\ AloneAnswered'
      BY <1>a, <3>1, <3>6 DEF ResponseInv, AloneAnswered, Answers, Values,
         Askers
    <3> QED
      BY <3>4, <3>5, <3>7 DEF IInv
  <2>3. ASSUME NEW r \in Requests, Poll(r) PROVE IInv'
    <3>1. TypeOK'
      BY <1>a, <1>b, <2>3, CopyTypes DEF Poll, TypeOK, Askers
    <3>2. /\ UNCHANGED <<place, data, response, alone>>
          /\ questions \subseteq questions'
      BY <2>3 DEF Poll
    <3> QED
      BY <1>a, <3>1, <3>2 DEF IInv, NoStrayPending, ResponseInv,
         AloneAnswered, Answers, Values, Askers
  <2>4. ASSUME NEW r \in Requests, Answer(r) PROVE IInv'
    <3> DEFINE shown == [i \in known \cap wants[r] |-> copy[i]]
    <3>1. /\ UNCHANGED <<wants, known, questions, data, alone>>
          /\ place' = [place EXCEPT ![r] = "answered"]
          /\ response' = [response EXCEPT ![r] = shown]
          /\ alone[r] => questions = {} /\ \A i \in wants[r] : copy[i] = data[i]
      BY <2>4 DEF Answer
    <3>2. TypeOK'
      BY <1>a, <1>b, <3>1, CopyTypes DEF TypeOK, Places
    <3>3. NoStrayPending'
      BY <1>a, <3>1 DEF NoStrayPending
    <3>4. /\ response'[r] = shown
          /\ \A q \in Requests \ {r} : response'[q] = response[q]
          /\ response' = [q \in Requests |-> response'[q]]
      BY <1>a, <3>1 DEF ResponseInv
    <3>5. DOMAIN shown \subseteq Items
      BY <1>a DEF TypeOK
    <3>6. /\ place'[r] = "answered"
          /\ \A q \in Requests \ {r} : place'[q] = place[q]
      BY <1>a, <3>1 DEF TypeOK
    <3>7. ResponseInv'
      BY <1>a, <3>4, <3>5, <3>6 DEF ResponseInv
    <3>8. AloneAnswered'
      <4>1. alone[r] => \A i \in DOMAIN shown : shown[i] \in Answers
        BY <1>a, <3>1, <3>5, Settled
      <4>2. \A q \in Requests \ {r} : alone[q] =>
              \A i \in DOMAIN response[q] : response[q][i] \in Answers
        BY <1>a DEF AloneAnswered
      <4> QED
        BY <3>1, <3>4, <4>1, <4>2 DEF AloneAnswered, Answers, Values, Askers
    <3> QED
      BY <3>2, <3>3, <3>7, <3>8 DEF IInv
  <2>5. ASSUME NEW r \in Requests, Refuse(r) \/ Close(r) PROVE IInv'
    <3>1. /\ UNCHANGED <<wants, known, questions, data, alone>>
          /\ place' = [place EXCEPT ![r] = "over"]
          /\ \/ place[r] = "open" /\ response' = response
             \/ response' = [response EXCEPT ![r] = <<>>]
      BY <2>5 DEF Refuse, Close
    <3>2. TypeOK'
      BY <1>a, <1>b, <3>1, CopyTypes DEF TypeOK, Places
    <3>3. DOMAIN <<>> = {}
      OBVIOUS
    <3>4. /\ DOMAIN response'[r] = {}
          /\ \A q \in Requests \ {r} : response'[q] = response[q]
          /\ response' = [q \in Requests |-> response'[q]]
      BY <1>a, <3>1, <3>3 DEF ResponseInv
    <3>5. \A q \in Requests \ {r} : place'[q] = place[q]
      BY <1>a, <3>1 DEF TypeOK
    <3>6. NoStrayPending'
      BY <1>a, <3>1 DEF NoStrayPending
    <3>7. ResponseInv'
      BY <1>a, <3>4, <3>5 DEF ResponseInv
    <3>8. AloneAnswered'
      BY <1>a, <3>1, <3>4 DEF AloneAnswered, Answers, Values, Askers
    <3> QED
      BY <3>2, <3>6, <3>7, <3>8 DEF IInv
  <2>6. ASSUME NEW q \in Askers, Pose(q) PROVE IInv'
    <3>1. UNCHANGED <<place, wants, known, questions, response, alone>>
      BY <2>6 DEF Pose
    <3>2. PICK asked \in SUBSET AskedBy(q) :
            data' = [i \in Items |-> IF i \in asked THEN <<q, "pending">>
                                                   ELSE data[i]]
      BY <2>6 DEF Pose
    <3>3. data' \in [Items -> Values]
      BY <1>a, <3>2 DEF TypeOK, Values
    <3>4. TypeOK'
      BY <1>a, <1>b, <3>1, <3>3, CopyTypes DEF TypeOK
    <3>5. NoStrayPending'
      BY <1>a, <3>1, <3>2 DEF NoStrayPending, AskedBy
    <3> QED
      BY <1>a, <3>1, <3>4, <3>5 DEF IInv, ResponseInv, AloneAnswered,
         Answers, Values, Askers
  <2>7. ASSUME NEW q \in Askers, Learn(q) PROVE IInv'
    <3>1. UNCHANGED <<place, wants, known, response, alone>>
      BY <2>7 DEF Learn
    <3>2. PICK asked \in SUBSET AskedBy(q) :
            /\ questions' = questions \ ({q} \X asked)
            /\ data' = [i \in Items |-> IF i \in asked THEN <<q, "answered">>
                                                      ELSE data[i]]
      BY <2>7 DEF Learn
    <3>3. data' \in [Items -> Values]
      BY <1>a, <3>2 DEF TypeOK, Values
    <3>4. TypeOK'
      BY <1>a, <1>b, <3>1, <3>2, <3>3, CopyTypes DEF TypeOK
    <3>5. NoStrayPending'
      BY <1>a, <3>2 DEF NoStrayPending
    <3> QED
      BY <1>a, <3>1, <3>4, <3>5 DEF IInv, ResponseInv, AloneAnswered,
         Answers, Values, Askers
  <2>8. CASE Still
    <3>1. TypeOK'
      BY <1>a, <1>b, <2>8, CopyTypes DEF Still, TypeOK
    <3> QED
      BY <1>a, <2>8, <3>1 DEF Still, IInv, NoStrayPending, ResponseInv,
         AloneAnswered, Answers, Values, Askers
  <2>9. CASE UNCHANGED vars
    BY <1>a, <2>9 DEF vars, IInv, TypeOK, NoStrayPending, ResponseInv,
       AloneAnswered, Answers, Values, Askers
  <2> QED
    BY <2>1, <2>2, <2>3, <2>4, <2>5, <2>6, <2>7, <2>8, <2>9 DEF Next
<1>c. CASE UNCHANGED vars
  BY <1>a, <1>c DEF vars, IInv, TypeOK, NoStrayPending, ResponseInv,
     AloneAnswered, Answers, Values, Askers
<1> QED
  BY <1>b, <1>c DEF Next

-----------------------------------------------------------------------------
(* The theorems.                                                           *)

\* The invariant holds in every state of a service.
THEOREM Invariance == Spec => []IInv
  BY InitIInv, Keeps, PTL DEF Spec

\* A service keeps to its types, and a "timeout" that was written beforehand
\* stands only while its question is under way: some worker will replace it.
THEOREM EveryPendingIsAsked == Spec => [](TypeOK /\ NoStrayPending)
<1>1. IInv => TypeOK /\ NoStrayPending
  BY DEF IInv
<1> QED
  BY Invariance, <1>1, PTL

\* A request that nothing overlaps is shown answers only.
THEOREM AloneGetsAnswers == Spec => []AloneAnswered
<1>1. IInv => AloneAnswered
  BY DEF IInv
<1> QED
  BY Invariance, <1>1, PTL

SeenInv ==
  /\ IInv
  /\ \A r \in Requests : \A i \in fresh[r] : copy[i] \in seen[r][i]
  /\ ShownWasCurrent

LEMMA SeenStep == SeenInv /\ [Next /\ See]_seeing => SeenInv'
<1> SUFFICES ASSUME SeenInv, [Next /\ See]_seeing PROVE SeenInv'
  OBVIOUS
<1>1. IInv'
  BY Keeps DEF SeenInv, seeing
<1>2. CASE Next /\ See
  <2>1. \A r \in Requests, i \in Items :
          /\ seen[r][i] \subseteq seen'[r][i]
          /\ place'[r] = "open" => data'[i] \in seen'[r][i]
    BY <1>2 DEF See
  <2>2. ASSUME NEW r \in Requests, NEW i \in fresh'[r]
        PROVE  copy'[i] \in seen'[r][i]
    <3>1. /\ i \in Items /\ place'[r] = "open"
          /\ copy'[i] = data'[i] \/ (i \in fresh[r] /\ copy'[i] = copy[i])
      BY <1>1, <1>2 DEF Next, Watch, IInv, TypeOK
    <3> QED
      BY <2>1, <3>1 DEF SeenInv
  <2>3. ASSUME NEW r \in Requests, NEW i \in DOMAIN response'[r]
        PROVE  response'[r][i] \in seen'[r][i]
    <3>1. i \in Items
      BY <1>1 DEF IInv, ResponseInv
    <3>2. CASE response'[r] = response[r]
      BY <2>1, <2>3, <3>1, <3>2 DEF SeenInv, ShownWasCurrent
    <3>3. CASE response'[r] # response[r]
      <4>1. \/ response'[r] = <<>>
            \/ /\ response'[r] = [j \in known \cap wants[r] |-> copy[j]]
               /\ known \cap wants[r] \subseteq fresh[r]
        BY <1>2, <3>3 DEF SeenInv, IInv, ResponseInv, Next, Come, Refresh,
           Poll, Answer, Refuse, Close, Pose, Learn, Still
      <4>2. response'[r] # <<>>
        BY <2>3
      <4>3. i \in fresh[r] /\ response'[r][i] = copy[i]
        BY <2>3, <4>1, <4>2
      <4> QED
        BY <2>1, <3>1, <4>3 DEF SeenInv
    <3> QED
      BY <3>2, <3>3
  <2> QED
    BY <1>1, <2>2, <2>3 DEF SeenInv, ShownWasCurrent
<1>3. CASE UNCHANGED seeing
  BY <1>1, <1>3 DEF seeing, vars, SeenInv, ShownWasCurrent
<1> QED
  BY <1>2, <1>3

\* The mark "fresh" says what it should: no answer shows a value that its item
\* has not had since the request came.
THEOREM AnswersAreCurrent == SeenSpec => []ShownWasCurrent
<1>1. Init /\ seen = [r \in Requests |-> [i \in Items |-> {}]] => SeenInv
  <2>1. DOMAIN <<>> = {}
    OBVIOUS
  <2> QED
    BY <2>1, InitIInv DEF SeenInv, ShownWasCurrent, Init
<1>2. SeenInv => ShownWasCurrent
  BY DEF SeenInv
<1> QED
  BY <1>1, <1>2, SeenStep, PTL DEF SeenSpec
=============================================================================
