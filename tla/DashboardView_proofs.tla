------------------------- MODULE DashboardView_proofs ------------------------
(***************************************************************************)
(* The dashboard view for any number of channels and requests, and any     *)
(* timeouts with CURL_TIMEOUT <= WAIT_TIMEOUT: what a request that nothing *)
(* overlaps is answered with, and when.                                    *)
(***************************************************************************)
EXTENDS DashboardService, TLAPS

\* TypeOK, and that an answer is a record: it does not say so.
TypeInv ==
  /\ TypeOK
  /\ answer = [r \in Requests |-> [timeover |-> answer[r].timeover,
                                   shows |-> answer[r].shows,
                                   poll |-> answer[r].poll]]

\* Where a request has not polled, or will not.
Unpolled == {"absent", "register", "again", "decide", "chosen", "unpack"}

\* A "timeout" written beforehand stays only while its worker asks; a request
\* that has not come has no answer; who polled last has taken the long way;
\* and a worker is started by the loop of its request only.
SharedInv ==
  /\ \A r \in Requests, c \in Channels :
       found[c] = <<r, "pending">> => worker[<<r, c>>] = "asking"
  /\ \A r \in Requests : stage[r] = "absent" => ~answer[r].timeover
  /\ \A r \in Requests : lastPoll.by = r => stage[r] \notin Unpolled
  /\ \A r \in Requests, c \in Channels :
       stage[r] \in Unpolled \/ (stage[r] = "poll" /\ next[r] <= c) =>
         worker[<<r, c>>] = "off"

\* No other request is under way, and none of their workers.
Alone(r) ==
  \A q \in Requests \ {r} : /\ ~Busy(q)
                            /\ \A c \in Channels : worker[<<q, c>>] = "off"

\* The mark and the status of a channel are its worker's.
Asked(r, c) ==
  /\ worker[<<r, c>>] = "asking" => ~checked[c]
  /\ worker[<<r, c>>] = "off" => checked[c] /\ found[c] = <<r, "answered">>

\* The threads of a request that polls: the channels asked so far ...
PollInv(r) ==
  /\ stage[r] \in {"poll", "settle"} => lastPoll.by = r
  /\ stage[r] = "poll" =>
       lastPoll.channels = {c \in Channels : c < next[r] /\ status[c] = 1}
  /\ stage[r] \in {"settle", "scan", "copy"} /\ lastPoll.by = r =>
       lastPoll.channels = {c \in Channels : status[c] = 1}
  /\ stage[r] \in {"poll", "settle", "scan", "copy"} /\ lastPoll.by = r =>
       \A c \in Channels : IF c \in lastPoll.channels
                           THEN Asked(r, c) ELSE worker[<<r, c>>] = "off"

\* ... and how long the cameras have taken.
TimeInv(r) ==
  \A c \in Channels :
    /\ (stage[r] = "settle" /\ wait[r] > 0) \/ stage[r] \in {"scan", "copy"} =>
         worker[<<r, c>>] # "spawned"
    /\ worker[<<r, c>>] = "asking" =>
         /\ stage[r] = "settle" => wait[r] <= age[<<r, c>>]
         /\ stage[r] = "scan" => wait[r] < age[<<r, c>>]

\* A request that does not poll: all channels are marked, none is asked.
ShortInv(r) ==
  /\ stage[r] = "unpack" => \A c \in Channels : checked[c]
  /\ stage[r] \in {"scan", "copy"} /\ lastPoll.by # r =>
       \A c \in Channels : checked[c] /\ worker[<<r, c>>] = "off"

\* What the sender has seen, copied and sent.
SenderInv(r) ==
  /\ stage[r] = "scan" =>
       \A c \in Channels : c < next[r] /\ status[c] = 1 => checked[c]
  /\ stage[r] = "copy" => \A c \in Channels : status[c] = 1 => checked[c]
  /\ stage[r] = "respond" =>
       /\ store = found
       /\ \A c \in Channels : worker[<<r, c>>] = "off"
       /\ lastPoll.by = r => \A c \in lastPoll.channels : store[c][1] = r

\* LoneAnswerComplete of one request.
Complete(r) ==
  /\ \A c \in DOMAIN answer[r].shows : answer[r].shows[c][2] = "answered"
  /\ answer[r].poll.by = r =>
       \A c \in answer[r].poll.channels \cap DOMAIN answer[r].shows :
         answer[r].shows[c][1] = r

BusyInv(r) ==
  Alone(r) /\ PollInv(r) /\ TimeInv(r) /\ ShortInv(r) /\ SenderInv(r)

\* A request that is or was on its own.
LoneInv(r) ==
  /\ stage[r] # "absent"
  /\ ~answer[r].timeover
  /\ Answered(r) => Complete(r)
  /\ Busy(r) => BusyInv(r)

IInv == TypeInv /\ SharedInv /\ \A r \in Requests : lone[r] => LoneInv(r)

-----------------------------------------------------------------------------
(* The initial states.                                                     *)

LEMMA InitIInv == Init => IInv
<1> SUFFICES ASSUME Init PROVE IInv
  OBVIOUS
<1> USE DashboardAssumption
<1>1. TypeOK
  <2>1. lastPoll \in [by : Requests \cup {"nobody"}, channels : SUBSET Channels]
    BY DEF Init, NoPoll
  <2>2. Unknown \in Findings /\ 1 \in Channels
    BY DEF Findings, Channels
  <2>3. \A r \in Requests :
          /\ answer[r].timeover \in BOOLEAN
          /\ \A c \in DOMAIN answer[r].shows : answer[r].shows[c] \in Findings
    <3>1. DOMAIN <<>> = {}
      OBVIOUS
    <3>2. \A r \in Requests : answer[r].timeover = FALSE /\ answer[r].shows = <<>>
      BY DEF Init, NotYet
    <3> QED
      BY <3>1, <3>2
  <2> QED
    BY <2>1, <2>2, <2>3 DEF Init, TypeOK, Stages
<1>2. answer = [r \in Requests |-> [timeover |-> answer[r].timeover,
                  shows |-> answer[r].shows, poll |-> answer[r].poll]]
  BY DEF Init, NotYet
<1>3. SharedInv
  BY DEF Init, SharedInv, Unknown, NoPoll, NotYet, Workers
<1>4. \A r \in Requests : ~lone[r]
  BY DEF Init
<1> QED
  BY <1>1, <1>2, <1>3, <1>4 DEF IInv, TypeInv

-----------------------------------------------------------------------------
(* The steps.  Those of a request, and of its workers, can disturb only    *)
(* what the invariant says of the request itself.                          *)

LEMMA OthersRest ==
  ASSUME IInv, NEW r \in Requests,
         Busy(r) \/ \E c \in Channels : worker[<<r, c>>] # "off",
         \A q \in Requests \ {r} :
           stage'[q] = stage[q] /\ answer'[q] = answer[q],
         lone' = lone,
         TypeInv', SharedInv',
         lone[r] => LoneInv(r)'
  PROVE  IInv'
<1>1. ASSUME NEW q \in Requests, q # r, lone[q] PROVE LoneInv(q)'
  <2>1. ~Busy(q)
    BY <1>1 DEF IInv, LoneInv, BusyInv, Alone
  <2>2. stage'[q] = stage[q] /\ answer'[q] = answer[q]
    BY <1>1
  <2> QED
    BY <1>1, <2>1, <2>2 DEF IInv, LoneInv, Busy, Answered, Complete
<1> QED
  BY <1>1 DEF IInv

\* A worker that a lone sender waits for is asking its camera, and has done so
\* for longer than the sender has waited: so the sender never waits too long.
LEMMA SlowestWorker ==
  ASSUME TypeOK, NEW r \in Requests, NEW c \in Channels, stage[r] = "scan",
         PollInv(r), TimeInv(r), ShortInv(r), status[c] = 1, ~checked[c]
  PROVE  ~(wait[r] > WaitTimeout)
<1>1. lastPoll.by = r /\ c \in lastPoll.channels
  BY DEF PollInv, ShortInv
<1>2. worker[<<r, c>>] = "asking"
  <2>1. worker[<<r, c>>] # "off" /\ worker[<<r, c>>] # "spawned"
    BY <1>1 DEF PollInv, Asked, TimeInv
  <2> QED
    BY <2>1 DEF TypeOK, Workers
<1>3. wait[r] < age[<<r, c>>] /\ age[<<r, c>>] <= CurlTimeout
  BY <1>2 DEF TimeInv, TypeOK, Workers
<1> QED
  BY <1>3, DashboardAssumption DEF TypeOK, Workers

\* Where no worker is under way, no "timeout" stands.
LEMMA SettledFound ==
  ASSUME TypeOK, SharedInv, NEW r \in Requests, Alone(r),
         \A c \in Channels : worker[<<r, c>>] = "off"
  PROVE  \A c \in Channels : found[c][2] = "answered"
<1> SUFFICES ASSUME NEW c \in Channels PROVE found[c][2] = "answered"
  OBVIOUS
<1>1. \A q \in Requests : worker[<<q, c>>] = "off"
  BY DEF Alone
<1>2. \A q \in Requests : found[c] # <<q, "pending">>
  BY <1>1 DEF SharedInv
<1>3. found[c] \in Findings
  BY DEF TypeOK
<1> QED
  BY <1>2, <1>3 DEF Findings, Unknown

LEMMA Bounds ==
  0 \in 0..CurlTimeout /\ 0 \in 0..WaitTimeout + 1 /\ 1 \in Channels
BY DashboardAssumption DEF Channels

LEMMA AloneKept ==
  ASSUME NEW r \in Requests, Alone(r),
         \A q \in Requests \ {r} : stage'[q] = stage[q],
         \A q \in Requests \ {r}, c \in Channels : worker'[<<q, c>>] = worker[<<q, c>>]
  PROVE  Alone(r)'
BY DEF Alone, Busy

LEMMA Keeps == IInv /\ [Next]_vars => IInv'
<1> SUFFICES ASSUME IInv, [Next]_vars PROVE IInv'
  OBVIOUS
<1> USE DashboardAssumption
<1>2. ASSUME NEW r \in Requests, Register(r) PROVE IInv'
  <2>1. TypeInv'
    BY <1>2 DEF Register, IInv, TypeInv, TypeOK, Stages, Finished
  <2>2. SharedInv'
    BY <1>2 DEF Register, IInv, SharedInv, Unpolled
  <2>3. ASSUME lone[r] PROVE LoneInv(r)'
    <3>1. Alone(r) /\ PollInv(r) /\ TimeInv(r) /\ ShortInv(r) /\ SenderInv(r)
      BY <1>2, <2>3 DEF Register, IInv, LoneInv, BusyInv, Busy, Finished
    <3>3. Alone(r)'
      BY <1>2, <3>1, AloneKept DEF Register
    <3>4. PollInv(r)'
      BY <1>2, <3>1 DEF Register, PollInv
    <3>5. TimeInv(r)'
      BY <1>2, <3>1 DEF Register, TimeInv
    <3>6. ShortInv(r)'
      BY <1>2, <3>1 DEF Register, ShortInv
    <3>7. SenderInv(r)'
      BY <1>2, <3>1 DEF Register, SenderInv
    <3>8. stage'[r] # "absent" /\ ~answer'[r].timeover
      BY <1>2, <2>3, <3>1 DEF Register, IInv, LoneInv
    <3>9. Answered(r)' => Complete(r)'
      BY <1>2, <2>3, <3>1 DEF Register, Answered
    <3> QED
      BY <3>3, <3>4, <3>5, <3>6, <3>7, <3>8, <3>9 DEF LoneInv, BusyInv
  <2> QED
    BY <1>2, <2>1, <2>2, <2>3, OthersRest DEF Register, TypeInv, Busy, Finished
<1>3. ASSUME NEW r \in Requests, RegisterFails(r) PROVE IInv'
  <2>1. TypeInv'
    <3>1. stage' \in [Requests -> Stages \cup Finished]
      <4>1. \E t \in {"again", "dropped", "errorSent"} :
              stage' = [stage EXCEPT ![r] = t]
        BY <1>3 DEF RegisterFails
      <4> QED
        BY <4>1 DEF IInv, TypeInv, TypeOK, Stages, Finished
    <3> QED
      BY <1>3, <3>1 DEF RegisterFails, IInv, TypeInv, TypeOK
  <2>2. SharedInv'
    BY <1>3 DEF RegisterFails, IInv, TypeInv, TypeOK, SharedInv, Unpolled
  <2>3. ASSUME lone[r] PROVE LoneInv(r)'
    <3>1. Alone(r) /\ PollInv(r) /\ TimeInv(r) /\ ShortInv(r) /\ SenderInv(r)
      BY <1>3, <2>3 DEF RegisterFails, IInv, LoneInv, BusyInv, Busy, Finished
    <3>3. Alone(r)'
      BY <1>3, <3>1, AloneKept DEF RegisterFails, IInv, TypeInv, TypeOK
    <3>4. PollInv(r)'
      BY <1>3, <3>1 DEF RegisterFails, IInv, TypeInv, TypeOK, PollInv
    <3>5. TimeInv(r)'
      BY <1>3, <3>1 DEF RegisterFails, IInv, TypeInv, TypeOK, TimeInv
    <3>6. ShortInv(r)'
      BY <1>3, <3>1 DEF RegisterFails, IInv, TypeInv, TypeOK, ShortInv
    <3>7. SenderInv(r)'
      BY <1>3, <3>1 DEF RegisterFails, IInv, TypeInv, TypeOK, SenderInv
    <3>8. stage'[r] # "absent" /\ ~answer'[r].timeover
      BY <1>3, <2>3, <3>1 DEF RegisterFails, IInv, TypeInv, TypeOK, LoneInv
    <3>9. Answered(r)' => Complete(r)'
      BY <1>3, <2>3, <3>1 DEF RegisterFails, IInv, TypeInv, TypeOK, Answered
    <3> QED
      BY <3>3, <3>4, <3>5, <3>6, <3>7, <3>8, <3>9 DEF LoneInv, BusyInv
  <2> QED
    BY <1>3, <2>1, <2>2, <2>3, OthersRest DEF RegisterFails, TypeInv, TypeOK,
       Busy, Finished
<1>4. ASSUME NEW r \in Requests, Decide(r) PROVE IInv'
  <2>1. TypeInv'
    <3>1. stage' \in [Requests -> Stages \cup Finished]
      <4>1. \/ stage' = [stage EXCEPT ![r] = "chosen"]
            \/ stage' = [stage EXCEPT ![r] = "unpack"]
        BY <1>4 DEF Decide
      <4> QED
        BY <4>1 DEF IInv, TypeInv, TypeOK, Stages
    <3>2. checked' \in [Channels -> BOOLEAN]
      BY <1>4 DEF Decide, IInv, TypeInv, TypeOK
    <3> QED
      BY <1>4, <3>1, <3>2 DEF Decide, IInv, TypeInv, TypeOK
  <2>2. SharedInv'
    BY <1>4 DEF Decide, IInv, TypeInv, TypeOK, SharedInv, Unpolled
  <2>3. ASSUME lone[r] PROVE LoneInv(r)'
    <3>1. Alone(r) /\ PollInv(r) /\ TimeInv(r) /\ ShortInv(r) /\ SenderInv(r)
      BY <1>4, <2>3 DEF Decide, IInv, LoneInv, BusyInv, Busy, Finished
    <3>3. Alone(r)'
      BY <1>4, <3>1, AloneKept DEF Decide, IInv, TypeInv, TypeOK
    <3>4. PollInv(r)'
      BY <1>4, <3>1 DEF Decide, IInv, TypeInv, TypeOK, PollInv
    <3>5. TimeInv(r)'
      BY <1>4, <3>1 DEF Decide, IInv, TypeInv, TypeOK, TimeInv
    <3>6. ShortInv(r)'
      BY <1>4, <3>1 DEF Decide, IInv, TypeInv, TypeOK, ShortInv
    <3>7. SenderInv(r)'
      BY <1>4, <3>1 DEF Decide, IInv, TypeInv, TypeOK, SenderInv
    <3>8. stage'[r] # "absent" /\ ~answer'[r].timeover
      BY <1>4, <2>3, <3>1 DEF Decide, IInv, TypeInv, TypeOK, LoneInv
    <3>9. Answered(r)' => Complete(r)'
      BY <1>4, <2>3, <3>1 DEF Decide, IInv, TypeInv, TypeOK, Answered
    <3> QED
      BY <3>3, <3>4, <3>5, <3>6, <3>7, <3>8, <3>9 DEF LoneInv, BusyInv
  <2> QED
    <3>1. Busy(r) /\ UNCHANGED <<answer, lone>>
      BY <1>4 DEF Decide, Busy, Finished
    <3>2. \A q \in Requests \ {r} : stage'[q] = stage[q]
      BY <1>4 DEF Decide, IInv, TypeInv, TypeOK
    <3> QED
      BY <2>1, <2>2, <2>3, <3>1, <3>2, OthersRest
<1>5. ASSUME NEW r \in Requests, StartPoll(r) PROVE IInv'
  <2>1. TypeInv'
    BY <1>5 DEF StartPoll, IInv, TypeInv, TypeOK, Stages, Channels
  <2>2. SharedInv'
    BY <1>5 DEF StartPoll, IInv, TypeInv, TypeOK, SharedInv, Unpolled
  <2>3. ASSUME lone[r] PROVE LoneInv(r)'
    <3>1. Alone(r) /\ PollInv(r) /\ TimeInv(r) /\ ShortInv(r) /\ SenderInv(r)
      BY <1>5, <2>3 DEF StartPoll, IInv, LoneInv, BusyInv, Busy, Finished
    <3>3. Alone(r)'
      BY <1>5, <3>1, AloneKept DEF StartPoll
    <3>4. PollInv(r)'
      BY <1>5, <3>1 DEF StartPoll, IInv, TypeInv, TypeOK, PollInv, SharedInv,
         Unpolled, Channels
    <3>5. TimeInv(r)'
      BY <1>5, <3>1 DEF StartPoll, TimeInv
    <3>6. ShortInv(r)'
      BY <1>5, <3>1 DEF StartPoll, ShortInv
    <3>7. SenderInv(r)'
      BY <1>5, <3>1 DEF StartPoll, SenderInv
    <3>8. stage'[r] # "absent" /\ ~answer'[r].timeover
      BY <1>5, <2>3, <3>1 DEF StartPoll, IInv, LoneInv
    <3>9. Answered(r)' => Complete(r)'
      BY <1>5, <2>3, <3>1 DEF StartPoll, Answered
    <3> QED
      BY <3>3, <3>4, <3>5, <3>6, <3>7, <3>8, <3>9 DEF LoneInv, BusyInv
  <2> QED
    BY <1>5, <2>1, <2>2, <2>3, OthersRest DEF StartPoll, Busy, Finished
<1>6. ASSUME NEW r \in Requests, PollChannel(r) PROVE IInv'
  <2> DEFINE c == next[r]
  <2>a. /\ stage[r] = "poll" /\ c \in Channels /\ \A k \in Channels : k \in Int
        /\ UNCHANGED <<status, checked, found, store, since, age, answer, lone>>
    BY <1>6 DEF PollChannel, IInv, TypeInv, TypeOK, Channels
  <2>b. /\ worker' = [worker EXCEPT ![<<r, c>>] =
                        IF status[c] = 1 THEN "spawned" ELSE @]
        /\ lastPoll' = [lastPoll EXCEPT !.channels =
                          IF status[c] = 1 THEN @ \cup {c} ELSE @]
    <3>1. worker = [worker EXCEPT ![<<r, c>>] = @]
      BY DEF IInv, TypeInv, TypeOK
    <3>2. lastPoll = [lastPoll EXCEPT !.channels = @]
      BY DEF IInv, TypeInv, TypeOK
    <3> QED
      BY <1>6, <3>1, <3>2 DEF PollChannel
  <2>c. \/ /\ c = N /\ stage' = [stage EXCEPT ![r] = "settle"]
           /\ wait' = [wait EXCEPT ![r] = 0] /\ next' = next
        \/ /\ c # N /\ next' = [next EXCEPT ![r] = c + 1]
           /\ stage' = stage /\ wait' = wait
    BY <1>6 DEF PollChannel
  <2>d. /\ \A q \in Requests, k \in Channels : worker'[<<q, k>>] =
             IF q = r /\ k = c /\ status[c] = 1
             THEN "spawned" ELSE worker[<<q, k>>]
        /\ lastPoll'.by = lastPoll.by
        /\ lastPoll'.channels = lastPoll.channels \cup
             (IF status[c] = 1 THEN {c} ELSE {})
    BY <2>a, <2>b DEF IInv, TypeInv, TypeOK, Workers
  <2>1. TypeInv'
    <3>1. worker' \in [Workers -> {"off", "spawned", "asking"}]
      BY <2>b DEF IInv, TypeInv, TypeOK
    <3>2. lastPoll' \in [by : Requests \cup {"nobody"}, channels : SUBSET Channels]
      BY <2>a, <2>b DEF IInv, TypeInv, TypeOK
    <3>3. next' \in [Requests -> Channels]
      <4>1. c # N => c + 1 \in Channels
        BY <2>a DEF Channels
      <4>2. next' = next \/ (c # N /\ next' = [next EXCEPT ![r] = c + 1])
        BY <2>c
      <4>3. next \in [Requests -> Channels]
        BY DEF IInv, TypeInv, TypeOK
      <4> QED
        BY <4>1, <4>2, <4>3
    <3>4. stage' \in [Requests -> Stages \cup Finished]
      <4>1. stage' = stage \/ stage' = [stage EXCEPT ![r] = "settle"]
        BY <2>c
      <4> QED
        BY <4>1 DEF IInv, TypeInv, TypeOK, Stages
    <3>5. wait' \in [Requests -> 0..WaitTimeout + 1]
      <4>1. wait' = wait \/ wait' = [wait EXCEPT ![r] = 0]
        BY <2>c
      <4>2. wait \in [Requests -> 0..WaitTimeout + 1]
        BY DEF IInv, TypeInv, TypeOK
      <4> QED
        BY <4>1, <4>2, Bounds
    <3> QED
      BY <2>a, <3>1, <3>2, <3>3, <3>4, <3>5 DEF IInv, TypeInv, TypeOK
  <2>2. SharedInv'
    <3>1. \A q \in Requests, k \in Channels :
            worker[<<q, k>>] = "asking" /\ ~(q = r /\ k = c) =>
              worker'[<<q, k>>] = "asking"
      BY <2>d
    <3>2. \A q \in Requests, k \in Channels :
            found[k] = <<q, "pending">> =>
              worker[<<q, k>>] = "asking" /\ ~(q = r /\ k = c)
      BY <2>a DEF IInv, SharedInv
    <3>3. \A q \in Requests : stage'[q] = stage[q] \/ (q = r /\ stage'[q] \in {"poll", "settle"})
      <4>1. stage' = stage \/ stage' = [stage EXCEPT ![r] = "settle"]
        BY <2>c
      <4> QED
        BY <4>1 DEF IInv, TypeInv, TypeOK
    <3>4. /\ \A q \in Requests \ {r} : next'[q] = next[q]
          /\ stage'[r] = "settle" \/ (stage'[r] = "poll" /\ next'[r] = c + 1)
      BY <2>a, <2>c DEF IInv, TypeInv, TypeOK
    <3>5. \A q \in Requests, k \in Channels :
            stage'[q] \in Unpolled \/ (stage'[q] = "poll" /\ next'[q] <= k) =>
              worker'[<<q, k>>] = "off"
      BY <2>a, <2>d, <3>3, <3>4 DEF IInv, SharedInv, Unpolled
    <3> QED
      BY <2>a, <2>d, <3>1, <3>2, <3>3, <3>5 DEF IInv, SharedInv, Unpolled
  <2>3. ASSUME lone[r] PROVE LoneInv(r)'
    <3>1. Alone(r) /\ PollInv(r) /\ TimeInv(r) /\ ShortInv(r) /\ SenderInv(r)
      BY <1>6, <2>3 DEF PollChannel, IInv, LoneInv, BusyInv, Busy, Finished
    <3>3. Alone(r)'
      <4>1. \A q \in Requests \ {r} : stage'[q] = stage[q]
        BY <2>c DEF IInv, TypeInv, TypeOK
      <4> QED
        BY <2>d, <3>1, <4>1, AloneKept
    <3>4. PollInv(r)'
      <4>1. lastPoll.by = r /\ lastPoll.channels = {k \in Channels : k < c /\ status[k] = 1}
        BY <2>a, <3>1 DEF PollInv
      <4>2. lastPoll'.channels = {k \in Channels : k <= c /\ status[k] = 1}
        BY <2>a, <2>d, <4>1
      <4>3. \/ stage'[r] = "settle" /\ \A k \in Channels : k <= c
            \/ stage'[r] = "poll" /\ next'[r] = c + 1
        BY <2>a, <2>c DEF IInv, TypeInv, TypeOK, Channels
      <4>4. \A k \in Channels : IF k \in lastPoll'.channels
              THEN Asked(r, k)' ELSE worker'[<<r, k>>] = "off"
        BY <2>a, <2>d, <3>1, <4>1 DEF PollInv, Asked
      <4> QED
        BY <2>a, <2>d, <4>1, <4>2, <4>3, <4>4 DEF PollInv
    <3>5. TimeInv(r)'
      <4>1. \/ stage'[r] = "poll"
            \/ stage'[r] = "settle" /\ wait'[r] = 0
        BY <2>a, <2>c DEF IInv, TypeInv, TypeOK
      <4>2. \A k \in Channels : age'[<<r, k>>] \in Nat
        BY <2>a DEF IInv, TypeInv, TypeOK, Workers
      <4> QED
        BY <4>1, <4>2 DEF TimeInv
    <3>6. ShortInv(r)'
      <4>1. stage'[r] \in {"poll", "settle"}
        BY <2>a, <2>c DEF IInv, TypeInv, TypeOK
      <4> QED
        BY <4>1 DEF ShortInv
    <3>7. SenderInv(r)'
      BY <1>6, <3>1 DEF PollChannel, IInv, TypeInv, TypeOK, SenderInv
    <3>8. stage'[r] # "absent" /\ ~answer'[r].timeover
      BY <1>6, <2>3, <3>1 DEF PollChannel, IInv, TypeInv, TypeOK, LoneInv
    <3>9. Answered(r)' => Complete(r)'
      BY <1>6, <2>3, <3>1 DEF PollChannel, IInv, TypeInv, TypeOK, Answered
    <3> QED
      BY <3>3, <3>4, <3>5, <3>6, <3>7, <3>8, <3>9 DEF LoneInv, BusyInv
  <2> QED
    BY <1>6, <2>1, <2>2, <2>3, OthersRest DEF PollChannel, IInv, TypeInv,
       TypeOK, Busy, Finished
<1>7. ASSUME NEW r \in Requests, Unpack(r) PROVE IInv'
  <2>1. TypeInv'
    <3>1. stage' \in [Requests -> Stages \cup Finished]
      BY <1>7 DEF Unpack, IInv, TypeInv, TypeOK, Stages, Finished
    <3>2. next' \in [Requests -> Channels]
      BY <1>7, Bounds DEF Unpack, IInv, TypeInv, TypeOK
    <3>3. wait' \in [Requests -> 0..WaitTimeout + 1]
      BY <1>7, Bounds DEF Unpack, IInv, TypeInv, TypeOK
    <3> QED
      BY <1>7, <3>1, <3>2, <3>3 DEF Unpack, IInv, TypeInv, TypeOK
  <2>2. SharedInv'
    BY <1>7 DEF Unpack, IInv, SharedInv, Unpolled
  <2>3. ASSUME lone[r] PROVE LoneInv(r)'
    <3>1. Alone(r) /\ PollInv(r) /\ TimeInv(r) /\ ShortInv(r) /\ SenderInv(r)
      BY <1>7, <2>3 DEF Unpack, IInv, LoneInv, BusyInv, Busy, Finished
    <3>3. Alone(r)'
      BY <1>7, <3>1, AloneKept DEF Unpack
    <3>4. PollInv(r)'
      BY <1>7, <3>1 DEF Unpack, IInv, SharedInv, Unpolled, PollInv, Asked
    <3>5. TimeInv(r)'
      BY <1>7, <3>1 DEF Unpack, IInv, TypeInv, TypeOK, TimeInv, SharedInv,
         Unpolled, Workers
    <3>6. ShortInv(r)'
      BY <1>7, <3>1 DEF Unpack, IInv, PollInv, SharedInv, Unpolled, ShortInv
    <3>7. SenderInv(r)'
      BY <1>7, <3>1 DEF Unpack, IInv, TypeInv, TypeOK, SenderInv, Channels
    <3>8. stage'[r] # "absent" /\ ~answer'[r].timeover
      BY <1>7, <2>3, <3>1 DEF Unpack, IInv, LoneInv
    <3>9. Answered(r)' => Complete(r)'
      BY <1>7, <2>3, <3>1 DEF Unpack, Answered
    <3> QED
      BY <3>3, <3>4, <3>5, <3>6, <3>7, <3>8, <3>9 DEF LoneInv, BusyInv
  <2> QED
    BY <1>7, <2>1, <2>2, <2>3, OthersRest DEF Unpack, Busy, Finished
<1>8. ASSUME NEW r \in Requests, ScanChannel(r) PROVE IInv'
  <2> DEFINE c == next[r]
             missing == status[c] = 1 /\ ~checked[c]
             timeover == missing /\ wait[r] > WaitTimeout
  <2>a. /\ stage[r] = "scan" /\ c \in Channels /\ \A k \in Channels : k \in Int
        /\ UNCHANGED <<status, checked, found, store, since, wait, worker,
                       age, lastPoll, lone>>
    BY <1>8 DEF ScanChannel, IInv, TypeInv, TypeOK, Channels
  <2>b. \/ /\ timeover \/ (~missing /\ c = N)
           /\ stage' = [stage EXCEPT ![r] = "copy"] /\ next' = next
           /\ answer' = [answer EXCEPT ![r].timeover = timeover]
        \/ /\ missing \/ c # N
           /\ next' = [next EXCEPT ![r] = IF missing THEN 1 ELSE c + 1]
           /\ stage' = stage /\ answer' = answer
    BY <1>8 DEF ScanChannel
  <2>1. TypeInv'
    <3>1. next' \in [Requests -> Channels]
      <4>1. \/ ~missing /\ c = N
            \/ (IF missing THEN 1 ELSE c + 1) \in Channels
        BY <2>a DEF Channels
      <4> QED
        <5>1. \/ next' = next
              \/ next' = [next EXCEPT ![r] = IF missing THEN 1 ELSE c + 1]
                 /\ (IF missing THEN 1 ELSE c + 1) \in Channels
          BY <2>b, <4>1
        <5> QED
          BY <5>1 DEF IInv, TypeInv, TypeOK
    <3>2. stage' \in [Requests -> Stages \cup Finished]
      BY <2>b DEF IInv, TypeInv, TypeOK, Stages
    <3>3. /\ \A q \in Requests :
               /\ answer'[q].timeover \in BOOLEAN
               /\ \A k \in DOMAIN answer'[q].shows : answer'[q].shows[k] \in Findings
          /\ answer' = [q \in Requests |-> [timeover |-> answer'[q].timeover,
                          shows |-> answer'[q].shows, poll |-> answer'[q].poll]]
      <4>1. CASE answer' = answer
        BY <4>1 DEF IInv, TypeInv, TypeOK
      <4>2. CASE answer' = [answer EXCEPT ![r].timeover = timeover]
        <5>0. timeover \in BOOLEAN
          OBVIOUS
        <5> HIDE DEF timeover
        <5>1. /\ answer'[r] = [timeover |-> timeover, shows |-> answer[r].shows,
                               poll |-> answer[r].poll]
              /\ answer' = [q \in Requests |-> IF q = r THEN answer'[r] ELSE answer[q]]
          BY <4>2 DEF IInv, TypeInv
        <5>2. \A q \in Requests : answer[q] = [timeover |-> answer[q].timeover,
                         shows |-> answer[q].shows, poll |-> answer[q].poll]
          BY DEF IInv, TypeInv
        <5>3. \A q \in Requests : answer'[q] = [timeover |-> answer'[q].timeover,
                         shows |-> answer'[q].shows, poll |-> answer'[q].poll]
          BY <5>1, <5>2
        <5>4. ASSUME NEW q \in Requests
              PROVE  /\ answer'[q].timeover \in BOOLEAN
                     /\ answer'[q].shows = answer[q].shows
          <6>1. CASE q = r
            BY <5>0, <5>1, <6>1
          <6>2. CASE q # r
            BY <5>1, <6>2 DEF IInv, TypeInv, TypeOK
          <6> QED
            BY <6>1, <6>2
        <5> QED
          BY <5>1, <5>3, <5>4 DEF IInv, TypeInv, TypeOK
      <4> QED
        BY <2>b, <4>1, <4>2
    <3> QED
      BY <2>a, <3>1, <3>2, <3>3 DEF IInv, TypeInv, TypeOK
  <2>2. SharedInv'
    <3>1. /\ stage'[r] \in {"scan", "copy"}
          /\ \A q \in Requests \ {r} : /\ stage'[q] = stage[q]
                                       /\ next'[q] = next[q]
                                       /\ answer'[q] = answer[q]
      BY <2>a, <2>b DEF IInv, TypeInv, TypeOK
    <3> QED
      BY <2>a, <3>1 DEF IInv, SharedInv, Unpolled
  <2>3. ASSUME lone[r] PROVE LoneInv(r)'
    <3>1. Alone(r) /\ PollInv(r) /\ TimeInv(r) /\ ShortInv(r) /\ SenderInv(r)
      BY <1>8, <2>3 DEF ScanChannel, IInv, LoneInv, BusyInv, Busy, Finished
    <3>3. Alone(r)'
      BY <1>8, <3>1, AloneKept DEF ScanChannel, IInv, TypeInv, TypeOK
    <3>4. PollInv(r)'
      BY <1>8, <3>1 DEF ScanChannel, IInv, TypeInv, TypeOK, PollInv, Asked
    <3>5. TimeInv(r)'
      BY <1>8, <3>1 DEF ScanChannel, IInv, TypeInv, TypeOK, TimeInv
    <3>6. ShortInv(r)'
      BY <1>8, <3>1 DEF ScanChannel, IInv, TypeInv, TypeOK, ShortInv
    <3>7. SenderInv(r)'
      <4>1. \A k \in Channels : k < c /\ status[k] = 1 => checked[k]
        BY <2>a, <3>1 DEF SenderInv
      <4>2. ~timeover
        BY <2>a, <3>1, SlowestWorker DEF IInv, TypeInv
      <4>3. \/ /\ stage'[r] = "copy"
               /\ \A k \in Channels : status[k] = 1 => checked[k]
            \/ /\ stage'[r] = "scan"
               /\ \A k \in Channels : k < next'[r] /\ status[k] = 1 => checked[k]
        BY <2>a, <2>b, <4>1, <4>2 DEF IInv, TypeInv, TypeOK, Channels
      <4> QED
        BY <2>a, <4>3 DEF SenderInv
    <3>8. stage'[r] # "absent" /\ ~answer'[r].timeover
      <4>1. ~timeover
        BY <2>a, <3>1, SlowestWorker DEF IInv, TypeInv
      <4>2. ~answer[r].timeover
        BY <2>3 DEF IInv, LoneInv
      <4> QED
        BY <2>a, <2>b, <4>1, <4>2 DEF IInv, TypeInv, TypeOK
    <3>9. Answered(r)' => Complete(r)'
      BY <1>8, <2>3, <3>1 DEF ScanChannel, IInv, TypeInv, TypeOK, Answered
    <3> QED
      BY <3>3, <3>4, <3>5, <3>6, <3>7, <3>8, <3>9 DEF LoneInv, BusyInv
  <2> QED
    <3>1. Busy(r)
      BY <2>a DEF Busy, Finished
    <3>2. \A q \in Requests \ {r} : stage'[q] = stage[q] /\ answer'[q] = answer[q]
      BY <2>b DEF IInv, TypeInv, TypeOK
    <3> QED
      BY <2>1, <2>2, <2>3, <2>a, <3>1, <3>2, OthersRest
<1>9. ASSUME NEW r \in Requests, CopyInfos(r) PROVE IInv'
  <2>1. TypeInv'
    BY <1>9 DEF CopyInfos, IInv, TypeInv, TypeOK, Stages
  <2>2. SharedInv'
    BY <1>9 DEF CopyInfos, IInv, SharedInv, Unpolled
  <2>3. ASSUME lone[r] PROVE LoneInv(r)'
    <3>1. Alone(r) /\ PollInv(r) /\ TimeInv(r) /\ ShortInv(r) /\ SenderInv(r)
      BY <1>9, <2>3 DEF CopyInfos, IInv, LoneInv, BusyInv, Busy, Finished
    <3>3. Alone(r)'
      BY <1>9, <3>1, AloneKept DEF CopyInfos
    <3>4. PollInv(r)'
      BY <1>9, <3>1 DEF CopyInfos, IInv, TypeInv, TypeOK, PollInv
    <3>5. TimeInv(r)'
      BY <1>9, <3>1 DEF CopyInfos, TimeInv
    <3>6. ShortInv(r)'
      BY <1>9, <3>1 DEF CopyInfos, ShortInv
    <3>7. SenderInv(r)'
      <4>0. stage[r] = "copy" /\ lastPoll.channels \subseteq Channels
        BY <1>9 DEF CopyInfos, IInv, TypeInv, TypeOK
      <4>1. ASSUME NEW k \in Channels PROVE worker[<<r, k>>] = "off"
        <5>1. CASE lastPoll.by = r /\ k \in lastPoll.channels
          BY <3>1, <4>0, <5>1 DEF PollInv, TimeInv, SenderInv, Asked, IInv,
             TypeInv, TypeOK, Workers
        <5>2. CASE lastPoll.by = r /\ k \notin lastPoll.channels
          BY <3>1, <4>0, <5>2 DEF PollInv
        <5>3. CASE lastPoll.by # r
          BY <3>1, <4>0, <5>3 DEF ShortInv
        <5> QED
          BY <5>1, <5>2, <5>3
      <4>2. ASSUME lastPoll.by = r, NEW k \in lastPoll.channels
            PROVE  found[k][1] = r
        <5>1. k \in Channels /\ worker[<<r, k>>] = "off" /\ Asked(r, k)
          BY <3>1, <4>0, <4>1, <4>2 DEF PollInv
        <5>2. found[k] = <<r, "answered">>
          BY <5>1 DEF Asked
        <5> QED
          BY <5>2
      <4> QED
        BY <1>9, <4>1, <4>2 DEF CopyInfos, IInv, TypeInv, TypeOK, SenderInv
    <3>8. stage'[r] # "absent" /\ ~answer'[r].timeover
      BY <1>9, <2>3, <3>1 DEF CopyInfos, IInv, LoneInv
    <3>9. Answered(r)' => Complete(r)'
      BY <1>9, <2>3, <3>1 DEF CopyInfos, Answered
    <3> QED
      BY <3>3, <3>4, <3>5, <3>6, <3>7, <3>8, <3>9 DEF LoneInv, BusyInv
  <2> QED
    BY <1>9, <2>1, <2>2, <2>3, OthersRest DEF CopyInfos, Busy, Finished
<1>10. ASSUME NEW r \in Requests, Respond(r) PROVE IInv'
  <2> DEFINE shown == [c \in {k \in Channels : status[k] # 0} |-> store[c]]
  <2>a. /\ stage[r] = "respond" /\ stage' = [stage EXCEPT ![r] = "reset"]
        /\ UNCHANGED <<status, checked, found, store, since, next, wait,
                       worker, age, lastPoll, lone>>
    BY <1>10 DEF Respond
  <2>b. /\ answer'[r] = [timeover |-> answer[r].timeover, shows |-> shown,
                         poll |-> lastPoll]
        /\ answer' = [q \in Requests |-> IF q = r THEN answer'[r] ELSE answer[q]]
    <3>1. answer[r] = [timeover |-> answer[r].timeover, shows |-> answer[r].shows,
                       poll |-> answer[r].poll] /\ DOMAIN answer = Requests
      BY DEF IInv, TypeInv
    <3>2. answer' = [answer EXCEPT ![r] = [[@ EXCEPT !.shows = shown]
                                             EXCEPT !.poll = lastPoll]]
      BY <1>10 DEF Respond
    <3>3. answer'[r] = [timeover |-> answer[r].timeover, shows |-> shown,
                        poll |-> lastPoll]
      BY <3>1, <3>2
    <3>4. answer = [q \in Requests |-> answer[q]]
      BY DEF IInv, TypeInv
    <3> QED
      BY <3>2, <3>3, <3>4
  <2>c. /\ stage'[r] = "reset"
        /\ \A q \in Requests \ {r} : stage'[q] = stage[q] /\ answer'[q] = answer[q]
    BY <2>a, <2>b DEF IInv, TypeInv, TypeOK
  <2>1. TypeInv'
    <3>1. \A q \in Requests : answer[q] = [timeover |-> answer[q].timeover,
                     shows |-> answer[q].shows, poll |-> answer[q].poll]
      BY DEF IInv, TypeInv
    <3>2. \A k \in DOMAIN shown : shown[k] \in Findings
      BY DEF IInv, TypeInv, TypeOK
    <3>3. ASSUME NEW q \in Requests
          PROVE  /\ answer'[q].timeover \in BOOLEAN
                 /\ \A k \in DOMAIN answer'[q].shows : answer'[q].shows[k] \in Findings
      <4>1. CASE q = r
        BY <2>b, <3>2, <4>1 DEF IInv, TypeInv, TypeOK
      <4>2. CASE q # r
        BY <2>b, <4>2 DEF IInv, TypeInv, TypeOK
      <4> QED
        BY <4>1, <4>2
    <3>4. answer' = [q \in Requests |-> [timeover |-> answer'[q].timeover,
                       shows |-> answer'[q].shows, poll |-> answer'[q].poll]]
      BY <2>b, <3>1
    <3> QED
      BY <2>a, <3>3, <3>4 DEF IInv, TypeInv, TypeOK, Stages
  <2>2. SharedInv'
    BY <2>a, <2>c DEF IInv, SharedInv, Unpolled
  <2>3. ASSUME lone[r] PROVE LoneInv(r)'
    <3>1. Alone(r) /\ PollInv(r) /\ TimeInv(r) /\ ShortInv(r) /\ SenderInv(r)
      BY <1>10, <2>3 DEF Respond, IInv, LoneInv, BusyInv, Busy, Finished
    <3>3. Alone(r)'
      BY <2>a, <2>c, <3>1, AloneKept
    <3>4. stage'[r] = "reset"
      BY <2>c
    <3>5. PollInv(r)'
      BY <3>4 DEF PollInv
    <3>6. TimeInv(r)' /\ ShortInv(r)'
      BY <3>4 DEF TimeInv, ShortInv
    <3>7. SenderInv(r)'
      BY <3>4 DEF SenderInv
    <3>8. stage'[r] # "absent" /\ ~answer'[r].timeover
      <4>2. ~answer[r].timeover
        BY <2>3 DEF IInv, LoneInv
      <4> QED
        BY <2>b, <3>4, <4>2
    <3>9. Answered(r)' => Complete(r)'
      <4>1. stage[r] = "respond"
        BY <2>a
      <4>2. \A k \in Channels : store[k][2] = "answered"
        BY <3>1, <4>1, SettledFound DEF SenderInv, IInv, TypeInv
      <4>3. lastPoll.by = r => \A k \in lastPoll.channels : store[k][1] = r
        BY <3>1, <4>1 DEF SenderInv
      <4>4. DOMAIN shown \subseteq Channels
            /\ \A k \in DOMAIN shown : shown[k] = store[k]
        OBVIOUS
      <4>5. /\ answer'[r].shows = shown /\ answer'[r].poll = lastPoll
        BY <2>b
      <4> QED
        BY <4>2, <4>3, <4>4, <4>5 DEF Complete
    <3> QED
      BY <3>3, <3>4, <3>5, <3>6, <3>7, <3>8, <3>9 DEF LoneInv, BusyInv
  <2> QED
    <3>1. Busy(r)
      BY <2>a DEF Busy, Finished
    <3> QED
      BY <2>1, <2>2, <2>3, <2>a, <2>c, <3>1, OthersRest
<1>11. ASSUME NEW r \in Requests, ResetChecks(r) PROVE IInv'
  <2>1. TypeInv'
    BY <1>11 DEF ResetChecks, IInv, TypeInv, TypeOK, Finished
  <2>2. SharedInv'
    BY <1>11 DEF ResetChecks, IInv, SharedInv, Unpolled
  <2>3. ASSUME lone[r] PROVE LoneInv(r)'
    <3>1. Alone(r) /\ PollInv(r) /\ TimeInv(r) /\ ShortInv(r) /\ SenderInv(r)
      BY <1>11, <2>3 DEF ResetChecks, IInv, LoneInv, BusyInv, Busy, Finished
    <3>3. Alone(r)'
      BY <1>11, <3>1, AloneKept DEF ResetChecks
    <3>4. PollInv(r)'
      BY <1>11, <3>1 DEF ResetChecks, PollInv
    <3>5. TimeInv(r)'
      BY <1>11, <3>1 DEF ResetChecks, TimeInv
    <3>6. ShortInv(r)'
      BY <1>11, <3>1 DEF ResetChecks, ShortInv
    <3>7. SenderInv(r)'
      BY <1>11, <3>1 DEF ResetChecks, SenderInv
    <3>8. stage'[r] # "absent" /\ ~answer'[r].timeover
      BY <1>11, <2>3, <3>1 DEF ResetChecks, IInv, LoneInv
    <3>9. Answered(r)' => Complete(r)'
      BY <1>11, <2>3 DEF ResetChecks, IInv, LoneInv, Answered, Complete
    <3> QED
      BY <3>3, <3>4, <3>5, <3>6, <3>7, <3>8, <3>9 DEF LoneInv, BusyInv
  <2> QED
    BY <1>11, <2>1, <2>2, <2>3, OthersRest DEF ResetChecks, TypeInv, TypeOK,
       Busy, Finished
<1>12. ASSUME NEW r \in Requests, NEW c \in Channels, WorkerStart(r, c) PROVE IInv'
  <2>1. TypeInv'
    <3>1. worker' \in [Workers -> {"off", "spawned", "asking"}]
      BY <1>12 DEF WorkerStart, IInv, TypeInv, TypeOK
    <3>2. found' \in [Channels -> Findings] /\ checked' \in [Channels -> BOOLEAN]
      BY <1>12 DEF WorkerStart, IInv, TypeInv, TypeOK, Findings
    <3> QED
      BY <1>12, <3>1, <3>2 DEF WorkerStart, IInv, TypeInv, TypeOK
  <2>2. SharedInv'
    <3>1. /\ UNCHANGED <<stage, next, answer, lastPoll>>
          /\ worker[<<r, c>>] # "off"
          /\ \A q \in Requests, k \in Channels : worker'[<<q, k>>] =
               IF q = r /\ k = c THEN "asking" ELSE worker[<<q, k>>]
      BY <1>12 DEF WorkerStart, IInv, TypeInv, TypeOK, Workers
    <3>2. \A k \in Channels : found'[k] =
            IF k = c THEN <<r, "pending">> ELSE found[k]
      BY <1>12 DEF WorkerStart, IInv, TypeInv, TypeOK
    <3>3. \A q \in Requests, k \in Channels :
            found'[k] = <<q, "pending">> => worker'[<<q, k>>] = "asking"
      BY <3>1, <3>2 DEF IInv, SharedInv
    <3>4. \A q \in Requests, k \in Channels :
            stage[q] \in Unpolled \/ (stage[q] = "poll" /\ next[q] <= k) =>
              worker'[<<q, k>>] = "off"
      BY <3>1 DEF IInv, SharedInv
    <3> QED
      BY <3>1, <3>3, <3>4 DEF IInv, SharedInv
  <2>3. ASSUME lone[r], Busy(r) PROVE BusyInv(r)'
    <3>1. Alone(r) /\ PollInv(r) /\ TimeInv(r) /\ ShortInv(r) /\ SenderInv(r)
      BY <2>3 DEF IInv, LoneInv, BusyInv
    <3>2. \A k \in Channels : k # c => worker'[<<r, k>>] = worker[<<r, k>>]
      BY <1>12 DEF WorkerStart
    <3>a. /\ UNCHANGED <<status, stage, next, wait, lastPoll>>
          /\ worker[<<r, c>>] = "spawned"
          /\ worker'[<<r, c>>] = "asking"
          /\ \A k \in Channels : age'[<<r, k>>] \in Nat
      BY <1>12, <2>1 DEF WorkerStart, IInv, TypeInv, TypeOK, Workers
    <3>b. \A k \in Channels : k # c => /\ checked'[k] = checked[k]
                                      /\ found'[k] = found[k]
                                      /\ age'[<<r, k>>] = age[<<r, k>>]
      BY <1>12 DEF WorkerStart, IInv, TypeInv, TypeOK, Workers
    <3>3. Alone(r)'
      BY <1>12, <3>1, AloneKept DEF WorkerStart
    <3>4. PollInv(r)'
      <4>1. checked'[c] = FALSE
        BY <1>12 DEF WorkerStart, IInv, TypeInv, TypeOK
      <4> QED
        BY <3>1, <3>2, <3>a, <3>b, <4>1 DEF PollInv, Asked
    <3>5. TimeInv(r)'
      <4>1. stage[r] \notin {"scan", "copy"} /\ ~(stage[r] = "settle" /\ wait[r] > 0)
        BY <3>1, <3>a DEF TimeInv
      <4>2. wait[r] \in Nat
        BY DEF IInv, TypeInv, TypeOK
      <4> QED
        BY <3>1, <3>2, <3>a, <3>b, <4>1, <4>2 DEF TimeInv
    <3>6. ShortInv(r)'
      BY <1>12, <3>1 DEF WorkerStart, IInv, SharedInv, Unpolled, ShortInv
    <3>7. SenderInv(r)'
      BY <1>12, <3>1 DEF WorkerStart, TimeInv, SenderInv
    <3> QED
      BY <3>3, <3>4, <3>5, <3>6, <3>7 DEF BusyInv
  <2>4. ASSUME lone[r] PROVE LoneInv(r)'
    BY <1>12, <2>3, <2>4 DEF WorkerStart, IInv, LoneInv, Busy, Answered,
       Complete
  <2> QED
    BY <1>12, <2>1, <2>2, <2>4, OthersRest DEF WorkerStart
<1>13. ASSUME NEW r \in Requests, NEW c \in Channels, WorkerFinish(r, c) PROVE IInv'
  <2>1. TypeInv'
    <3>1. worker' \in [Workers -> {"off", "spawned", "asking"}]
      BY <1>13 DEF WorkerFinish, IInv, TypeInv, TypeOK
    <3>2. found' \in [Channels -> Findings] /\ checked' \in [Channels -> BOOLEAN]
      BY <1>13 DEF WorkerFinish, IInv, TypeInv, TypeOK, Findings
    <3>3. age' \in [Workers -> 0..CurlTimeout]
      <4>1. age \in [Workers -> 0..CurlTimeout]
        BY DEF IInv, TypeInv, TypeOK
      <4> QED
        BY <1>13, <4>1, Bounds DEF WorkerFinish
    <3> QED
      BY <1>13, <3>1, <3>2, <3>3 DEF WorkerFinish, IInv, TypeInv, TypeOK
  <2>2. SharedInv'
    <3>1. /\ UNCHANGED <<stage, next, answer, lastPoll>>
          /\ worker[<<r, c>>] # "off"
          /\ \A q \in Requests, k \in Channels : worker'[<<q, k>>] =
               IF q = r /\ k = c THEN "off" ELSE worker[<<q, k>>]
      BY <1>13 DEF WorkerFinish, IInv, TypeInv, TypeOK, Workers
    <3>2. \A k \in Channels : found'[k] =
            IF k = c THEN <<r, "answered">> ELSE found[k]
      BY <1>13 DEF WorkerFinish, IInv, TypeInv, TypeOK
    <3>3. \A q \in Requests, k \in Channels :
            found'[k] = <<q, "pending">> => worker'[<<q, k>>] = "asking"
      BY <3>1, <3>2 DEF IInv, SharedInv
    <3>4. \A q \in Requests, k \in Channels :
            stage[q] \in Unpolled \/ (stage[q] = "poll" /\ next[q] <= k) =>
              worker'[<<q, k>>] = "off"
      BY <3>1 DEF IInv, SharedInv
    <3> QED
      BY <3>1, <3>3, <3>4 DEF IInv, SharedInv
  <2>3. ASSUME lone[r], Busy(r) PROVE BusyInv(r)'
    <3>1. Alone(r) /\ PollInv(r) /\ TimeInv(r) /\ ShortInv(r) /\ SenderInv(r)
      BY <2>3 DEF IInv, LoneInv, BusyInv
    <3>2. \A k \in Channels : k # c => worker'[<<r, k>>] = worker[<<r, k>>]
      BY <1>13 DEF WorkerFinish
    <3>a. /\ UNCHANGED <<status, stage, next, wait, lastPoll>>
          /\ worker[<<r, c>>] = "asking"
          /\ worker'[<<r, c>>] = "off"
          /\ \A k \in Channels : age'[<<r, k>>] \in Nat
      BY <1>13, <2>1 DEF WorkerFinish, IInv, TypeInv, TypeOK, Workers
    <3>b. \A k \in Channels : k # c => /\ checked'[k] = checked[k]
                                      /\ found'[k] = found[k]
                                      /\ age'[<<r, k>>] = age[<<r, k>>]
      BY <1>13 DEF WorkerFinish, IInv, TypeInv, TypeOK, Workers
    <3>3. Alone(r)'
      BY <1>13, <3>1, AloneKept DEF WorkerFinish
    <3>4. PollInv(r)'
      BY <1>13, <3>1 DEF WorkerFinish, IInv, TypeInv, TypeOK, PollInv, Asked,
         Workers
    <3>5. TimeInv(r)'
      BY <3>1, <3>2, <3>a, <3>b DEF TimeInv
    <3>6. ShortInv(r)'
      BY <1>13, <3>1 DEF WorkerFinish, ShortInv
    <3>7. SenderInv(r)'
      BY <1>13, <3>1 DEF WorkerFinish, SenderInv
    <3> QED
      BY <3>3, <3>4, <3>5, <3>6, <3>7 DEF BusyInv
  <2>4. ASSUME lone[r] PROVE LoneInv(r)'
    BY <1>13, <2>3, <2>4 DEF WorkerFinish, IInv, LoneInv, Busy, Answered,
       Complete
  <2> QED
    BY <1>13, <2>1, <2>2, <2>4, OthersRest DEF WorkerFinish
<1>14. ASSUME NEW r \in Requests, Arrive(r) PROVE IInv'
  <2>1. TypeInv'
    BY <1>14 DEF Arrive, IInv, TypeInv, TypeOK, Stages
  <2>2. SharedInv'
    BY <1>14 DEF Arrive, IInv, SharedInv, Unpolled
  <2>3. ASSUME NEW q \in Requests, q # r, lone'[q] PROVE LoneInv(q)'
    <3>1. lone[q] /\ ~Busy(q) /\ stage'[q] = stage[q] /\ answer' = answer
      BY <1>14, <2>3 DEF Arrive, IInv, TypeInv, TypeOK
    <3> QED
      BY <3>1 DEF IInv, LoneInv, Busy, Answered, Complete
  <2>4. ASSUME lone'[r] PROVE LoneInv(r)'
    <3>1. /\ \A q \in Requests : ~Busy(q)
          /\ \A w \in Workers : worker[w] = "off"
      BY <1>14, <2>4 DEF Arrive
    <3>2. /\ stage'[r] = "register" /\ worker' = worker /\ answer' = answer
          /\ \A q \in Requests \ {r} : stage'[q] = stage[q]
      BY <1>14 DEF Arrive, IInv, TypeInv, TypeOK
    <3>3. \A q \in Requests, c \in Channels : worker'[<<q, c>>] = "off"
      BY <3>1, <3>2 DEF Workers
    <3>4. Alone(r)'
      BY <3>1, <3>2, <3>3 DEF Alone, Busy
    <3>5. PollInv(r)' /\ TimeInv(r)' /\ ShortInv(r)' /\ SenderInv(r)'
      BY <3>2, <3>3 DEF PollInv, TimeInv, ShortInv, SenderInv
    <3>6. ~answer[r].timeover
      BY <1>14 DEF Arrive, IInv, SharedInv
    <3> QED
      BY <3>2, <3>4, <3>5, <3>6 DEF LoneInv, BusyInv, Answered
  <2> QED
    BY <2>1, <2>2, <2>3, <2>4 DEF IInv
<1>15. CASE Second
  <2>1. TypeInv'
    <3>1. /\ since' \in 0..UpdateTimeOut + 1
          /\ wait' \in [Requests -> 0..WaitTimeout + 1]
          /\ age' \in [Workers -> 0..CurlTimeout]
      BY <1>15 DEF Second, IInv, TypeInv, TypeOK
    <3> QED
      BY <1>15, <3>1 DEF Second, IInv, TypeInv, TypeOK
  <2>2. SharedInv'
    BY <1>15 DEF Second, IInv, SharedInv
  <2>3. ASSUME NEW r \in Requests, lone'[r] PROVE LoneInv(r)'
    <3>1. LoneInv(r) /\ stage' = stage /\ answer' = answer
      BY <1>15, <2>3 DEF Second, IInv
    <3>2. ASSUME Busy(r) PROVE BusyInv(r)'
      <4>1. Alone(r) /\ PollInv(r) /\ TimeInv(r) /\ ShortInv(r) /\ SenderInv(r)
        BY <3>1, <3>2 DEF LoneInv, BusyInv
      <4>2. Alone(r)' /\ PollInv(r)' /\ ShortInv(r)' /\ SenderInv(r)'
        BY <1>15, <4>1 DEF Second, Alone, Busy, PollInv, Asked, ShortInv,
           SenderInv
      <4>3. TimeInv(r)'
        <5>1. \A c \in Channels :
                /\ worker'[<<r, c>>] = worker[<<r, c>>]
                /\ worker[<<r, c>>] # "spawned"
                /\ worker[<<r, c>>] = "asking" =>
                     age'[<<r, c>>] = age[<<r, c>>] + 1
                /\ age[<<r, c>>] \in Nat
          BY <1>15 DEF Second, Workers, IInv, TypeInv, TypeOK
        <5>2. wait'[r] \in {wait[r], wait[r] + 1} /\ wait[r] \in Nat
          BY <1>15 DEF Second, IInv, TypeInv, TypeOK
        <5>3. wait'[r] # wait[r] /\ stage[r] = "settle" => wait[r] = 0
          BY <1>15 DEF Second
        <5> QED
          BY <3>1, <4>1, <5>1, <5>2, <5>3 DEF TimeInv
      <4> QED
        BY <4>2, <4>3 DEF BusyInv
    <3> QED
      BY <3>1, <3>2 DEF LoneInv, Busy, Answered, Complete
  <2> QED
    BY <1>15, <2>1, <2>2, <2>3 DEF IInv
<1>16. CASE UNCHANGED vars
  <2>1. TypeInv' /\ SharedInv'
    BY <1>16 DEF vars, IInv, TypeInv, TypeOK, SharedInv
  <2>2. ASSUME NEW r \in Requests, lone'[r] PROVE LoneInv(r)'
    <3>1. LoneInv(r)
      BY <1>16, <2>2 DEF vars, IInv
    <3>2. Busy(r) => BusyInv(r)'
      BY <1>16, <3>1 DEF vars, LoneInv, BusyInv, Alone, Busy, PollInv, Asked,
         TimeInv, ShortInv, SenderInv
    <3> QED
      BY <1>16, <3>1, <3>2 DEF vars, LoneInv, Busy, Answered, Complete
  <2> QED
    BY <2>1, <2>2 DEF IInv
<1> QED
  BY <1>2, <1>3, <1>4, <1>5, <1>6, <1>7, <1>8, <1>9, <1>10, <1>11, <1>12,
     <1>13, <1>14, <1>15, <1>16 DEF Next, Request, Sender, Worker

-----------------------------------------------------------------------------
(* The theorems.                                                           *)

\* The invariant holds in every state the agent can reach.
THEOREM Invariance == Spec => []IInv
  BY InitIInv, Keeps, PTL DEF Spec

\* The threads of the dashboard view keep to their types.
THEOREM TypeCorrect == Spec => []TypeOK
<1>1. IInv => TypeOK
  BY DEF IInv, TypeInv
<1> QED
  BY Invariance, <1>1, PTL

\* A dashboard view that nothing overlaps shows what the cameras answered, for
\* any number of channels and whatever earlier requests have left behind.
THEOREM LoneComplete == Spec => []LoneAnswerComplete
<1>1. IInv => LoneAnswerComplete
  BY DEF IInv, LoneInv, Complete, LoneAnswerComplete
<1> QED
  BY Invariance, <1>1, PTL

\* It is never answered by a timeover, as CURL_TIMEOUT is at most WAIT_TIMEOUT.
THEOREM LoneInTime == Spec => []LoneAnswerInTime
<1>1. IInv => LoneAnswerInTime
  BY DEF IInv, LoneInv, LoneAnswerInTime
<1> QED
  BY Invariance, <1>1, PTL

-----------------------------------------------------------------------------
(* The dashboard view keeps the promise of ViewService.                    *)

\* A request that is answered wants every channel; and the copy of each has
\* been current since it came.
ServedInv ==
  /\ IInv
  /\ \A r \in Requests : stage[r] \in {"scan", "copy", "respond"} =>
       r \notin Malformed
  /\ \A r \in Requests : Busy(r) /\ stage[r] \notin {"register", "again"} =>
       r \notin Others
  /\ \A r \in Requests : stage[r] = "respond" => Wants(r) \subseteq fresh[r]

LEMMA InitServedInv == ServedInit => ServedInv
BY InitIInv DEF ServedInit, ServedInv, Init, Busy

\* A copy is overwritten with what is current only, by whichever sender ...
LEMMA CopyStep ==
  ASSUME TypeOK, Next
  PROVE  /\ store' = store \/ (store' = found /\ found' = found)
         /\ \A r \in Requests : stage'[r] = "respond" =>
              stage[r] = "respond" \/ (store' = found /\ found' = found)
<1>1. ASSUME NEW r \in Requests, Arrive(r) \/ Request(r) \/ Sender(r)
      PROVE  /\ store' = store \/ (store' = found /\ found' = found)
             /\ \A q \in Requests : stage'[q] = "respond" =>
                  stage[q] = "respond" \/ (store' = found /\ found' = found)
  <2>1. CASE Arrive(r)
    BY <2>1 DEF Arrive, TypeOK
  <2>2. CASE Register(r)
    BY <2>2 DEF Register, TypeOK
  <2>3. CASE RegisterFails(r)
    BY <2>3 DEF RegisterFails, TypeOK
  <2>4. CASE Decide(r)
    BY <2>4 DEF Decide, TypeOK
  <2>5. CASE StartPoll(r) \/ Unpack(r)
    BY <2>5 DEF StartPoll, Unpack, TypeOK
  <2>6. CASE PollChannel(r)
    <3>1. store' = store /\ (stage' = stage
                             \/ stage' = [stage EXCEPT ![r] = "settle"])
      BY <2>6 DEF PollChannel
    <3> QED
      BY <3>1 DEF TypeOK
  <2>7. CASE ScanChannel(r)
    <3>1. store' = store /\ (stage' = stage
                             \/ stage' = [stage EXCEPT ![r] = "copy"])
      BY <2>7 DEF ScanChannel
    <3> QED
      BY <3>1 DEF TypeOK
  <2>8. CASE CopyInfos(r)
    BY <2>8 DEF CopyInfos, TypeOK
  <2>9. CASE Respond(r) \/ ResetChecks(r)
    BY <2>9 DEF Respond, ResetChecks, TypeOK
  <2> QED
    BY <1>1, <2>1, <2>2, <2>3, <2>4, <2>5, <2>6, <2>7, <2>8, <2>9
       DEF Request, Sender
<1>2. ASSUME NEW r \in Requests, NEW c \in Channels, Worker(r, c)
      PROVE  store' = store /\ stage' = stage
  BY <1>2 DEF Worker, WorkerStart, WorkerFinish
<1>3. CASE Second
  BY <1>3 DEF Second
<1> QED
  BY <1>1, <1>2, <1>3 DEF Next

\* ... and a request goes on as the message it is.
LEMMA KindStep ==
  ASSUME TypeOK, Next, ServedInv, NEW q \in Requests
  PROVE  /\ stage'[q] \in {"scan", "copy", "respond"} => q \notin Malformed
         /\ Busy(q)' /\ stage'[q] \notin {"register", "again"} =>
              q \notin Others
<1> DEFINE Kind == /\ stage'[q] \in {"scan", "copy", "respond"} =>
                        q \notin Malformed
                   /\ Busy(q)' /\ stage'[q] \notin {"register", "again"} =>
                        q \notin Others
<1>0. ASSUME stage'[q] = stage[q] PROVE Kind
  BY <1>0 DEF ServedInv, Busy
<1>1. ASSUME NEW r \in Requests, Arrive(r) \/ Request(r) \/ Sender(r)
      PROVE  Kind
  <2>1. CASE q # r
    <3>1. stage'[q] = stage[q]
      <4>1. CASE PollChannel(r) \/ ScanChannel(r)
        <5>1. stage' = stage \/ \E t : stage' = [stage EXCEPT ![r] = t]
          BY <4>1 DEF PollChannel, ScanChannel
        <5> QED
          BY <2>1, <5>1 DEF TypeOK
      <4>2. CASE ~(PollChannel(r) \/ ScanChannel(r))
        <5>1. \E t : stage' = [stage EXCEPT ![r] = t]
          BY <1>1, <4>2 DEF Request, Sender, Arrive, Register, RegisterFails,
             Decide, StartPoll, Unpack, CopyInfos, Respond, ResetChecks
        <5> QED
          BY <2>1, <5>1 DEF TypeOK
      <4> QED
        BY <4>1, <4>2
    <3> QED
      BY <1>0, <3>1
  <2>2. CASE q = r
    <3>1. CASE Arrive(r) \/ Register(r) \/ Decide(r)
      BY <2>2, <3>1 DEF Arrive, Register, Decide, TypeOK, ServedInv, Busy,
         Finished
    <3>2. CASE RegisterFails(r)
      BY <2>2, <3>2 DEF RegisterFails, TypeOK, Busy, Finished
    <3>3. CASE StartPoll(r) \/ Unpack(r)
      BY <2>2, <3>3 DEF StartPoll, Unpack, TypeOK, ServedInv, Busy, Finished
    <3>4. CASE PollChannel(r)
      <4>1. stage[r] = "poll" /\ stage'[r] \in {"poll", "settle"}
        BY <3>4 DEF PollChannel, TypeOK
      <4> QED
        BY <2>2, <4>1 DEF ServedInv, Busy, Finished
    <3>5. CASE ScanChannel(r)
      <4>1. stage[r] = "scan" /\ stage'[r] \in {"scan", "copy"}
        BY <3>5 DEF ScanChannel, TypeOK
      <4> QED
        BY <2>2, <4>1 DEF ServedInv, Busy, Finished
    <3>6. CASE CopyInfos(r) \/ Respond(r) \/ ResetChecks(r)
      BY <2>2, <3>6 DEF CopyInfos, Respond, ResetChecks, TypeOK, ServedInv,
         Busy, Finished
    <3> QED
      BY <1>1, <3>1, <3>2, <3>3, <3>4, <3>5, <3>6 DEF Request, Sender
  <2> QED
    BY <2>1, <2>2
<1>2. ASSUME NEW r \in Requests, NEW c \in Channels, Worker(r, c)
      PROVE  Kind
  BY <1>0, <1>2 DEF Worker, WorkerStart, WorkerFinish
<1>3. CASE Second
  BY <1>0, <1>3 DEF Second
<1> QED
  BY <1>1, <1>2, <1>3 DEF Next

LEMMA KeepsServedInv == ServedInv /\ [Next /\ Watch]_servedVars => ServedInv'
<1> SUFFICES ASSUME ServedInv, [Next /\ Watch]_servedVars PROVE ServedInv'
  OBVIOUS
<1>1. CASE Next /\ Watch
  <2>1. IInv' /\ TypeOK
    BY <1>1, Keeps DEF ServedInv, IInv, TypeInv
  <2>2. ASSUME NEW r \in Requests, stage'[r] = "respond"
        PROVE  Wants(r)' \subseteq fresh'[r]
    <3>1. Place(r)' = "open" /\ Wants(r)' = Wants(r)
      BY <2>2 DEF Place, Finished, Wants
    <3>2. \/ store' = found'
          \/ Wants(r) \subseteq fresh[r] /\ store' = store
      BY <1>1, <2>1, <2>2, CopyStep DEF ServedInv
    <3>3. fresh'[r] = {c \in Wants(r) :
                         /\ Place(r)' = "open"
                         /\ \/ store'[c] = found'[c]
                            \/ c \in fresh[r] /\ store'[c] = store[c]}
      BY <1>1 DEF Watch
    <3> QED
      BY <3>1, <3>2, <3>3
  <2> QED
    BY <1>1, <2>1, <2>2, KindStep DEF ServedInv
<1>2. CASE UNCHANGED servedVars
  <2>1. IInv'
    BY <1>2, Keeps DEF servedVars, ServedInv
  <2> QED
    BY <1>2, <2>1 DEF servedVars, vars, ServedInv, Busy, Wants
<1> QED
  BY <1>1, <1>2

\* The states of the dashboard view that ViewService speaks of.
LEMMA PlaceStep ==
  ASSUME TypeOK, NEW r \in Requests, NEW t, stage' = [stage EXCEPT ![r] = t]
  PROVE  /\ \A q \in Requests \ {r} : Place(q)' = Place(q)
         /\ stage'[r] = t
BY DEF TypeOK, Place

LEMMA IdleMeans ==
  \A r \in Requests : Busy(r) <=> Place(r) \notin {"absent", "over"}
BY DEF Busy, Place, Finished

LEMMA StillStep ==
  ASSUME UNCHANGED <<status, found, lone>>,
         \A q \in Requests : Place(q)' = Place(q),
         \A q \in Requests : answer'[q].shows = answer[q].shows,
         \A w \in Workers : worker'[w] # "off" <=> worker[w] # "off"
  PROVE  Service!Still
BY DEF Service!Still, Wants

LEMMA RefuseStep ==
  ASSUME NEW r \in Requests, Place(r) = "open", Place(r)' = "over",
         \A q \in Requests \ {r} : Place(q)' = Place(q),
         UNCHANGED <<status, found, lone, answer, worker>>
  PROVE  Service!Refuse(r)
BY DEF Service!Refuse, Wants

\* The request's steps.
LEMMA ArriveMaps ==
  ASSUME TypeOK, NEW r \in Requests, Arrive(r)
  PROVE  Service!Come(r)
<1>1. /\ stage[r] = "absent" /\ stage' = [stage EXCEPT ![r] = "register"]
      /\ UNCHANGED <<status, found, worker, answer>>
  BY DEF Arrive
<1>2. /\ Place(r) = "absent" /\ Place(r)' = "open"
      /\ \A q \in Requests \ {r} : Place(q)' = Place(q)
  BY <1>1, PlaceStep DEF Place, Finished
<1>3. lone' = [q \in Requests |->
                 IF q = r
                 THEN /\ {w \in Workers : worker[w] # "off"} = {}
                      /\ \A p \in Requests : Place(p) \in {"absent", "over"}
                 ELSE lone[q] /\ Place(q) \in {"absent", "over"}]
  <2>1. (\A w \in Workers : worker[w] = "off") <=>
          {w \in Workers : worker[w] # "off"} = {}
    OBVIOUS
  <2>2. lone' = [q \in Requests |->
                  IF q = r THEN /\ \A p \in Requests : ~Busy(p)
                                /\ \A w \in Workers : worker[w] = "off"
                           ELSE lone[q] /\ ~Busy(q)]
    BY DEF Arrive
  <2> QED
    BY <2>1, <2>2, IdleMeans
<1> QED
  BY <1>1, <1>2, <1>3 DEF Service!Come, Service!Idle, Wants

LEMMA RegisterMaps ==
  ASSUME TypeOK, NEW r \in Requests, Register(r)
  PROVE  Service!Refresh(r)
<1> DEFINE place == [q \in Requests |-> Place(q)]
<1>1. /\ stage[r] \in {"register", "again"}
      /\ \E t \in {"elsewhere", "decide"} : stage' = [stage EXCEPT ![r] = t]
      /\ UNCHANGED <<found, worker, answer, lone>>
  BY DEF Register
<1>2. /\ Place(r) = "open" /\ Place(r)' \in {"open", "over"}
      /\ \A q \in Requests \ {r} : Place(q)' = Place(q)
  BY <1>1, PlaceStep DEF Place, Finished
<1>3. place' \in {place, [place EXCEPT ![r] = "over"]}
  BY <1>2
<1>4. found' = [c \in Channels |-> found'[c]]
  BY <1>1 DEF TypeOK
<1>5. \A q \in Requests :
        (Place(q)' = "answered") <=> (Place(q) = "answered")
  BY <1>2
<1> QED
  BY <1>1, <1>2, <1>3, <1>4, <1>5 DEF Service!Refresh, Wants

LEMMA PollChannelMaps ==
  ASSUME TypeOK, NEW r \in Requests, PollChannel(r)
  PROVE  Service!Poll(r)
<1> DEFINE c == next[r]
           asked == IF status[c] = 1 THEN {c} ELSE {}
           under == {w \in Workers : worker[w] # "off"}
<1>1. /\ stage[r] = "poll" /\ c \in Channels
      /\ UNCHANGED <<status, found, answer, lone>>
      /\ stage' = stage \/ stage' = [stage EXCEPT ![r] = "settle"]
      /\ IF status[c] = 1 THEN worker' = [worker EXCEPT ![<<r, c>>] = "spawned"]
                          ELSE worker' = worker
  BY DEF PollChannel, TypeOK
<1>2. Place(r) = "open" /\ \A q \in Requests : Place(q)' = Place(q)
  <2>1. CASE stage' = stage
    BY <1>1, <2>1 DEF Place, Finished
  <2>2. CASE stage' = [stage EXCEPT ![r] = "settle"]
    BY <1>1, <2>2, PlaceStep DEF Place, Finished
  <2> QED
    BY <1>1, <2>1, <2>2
<1>3. under' = under \cup ({r} \X asked)
  <2>1. CASE status[c] = 1
    <3>1. \A w \in Workers : worker'[w] =
            IF w = <<r, c>> THEN "spawned" ELSE worker[w]
      BY <1>1, <2>1 DEF TypeOK
    <3>2. {r} \X asked = {<<r, c>>} /\ <<r, c>> \in Workers
      BY <1>1, <2>1 DEF Workers
    <3> QED
      BY <3>1, <3>2
  <2>2. CASE status[c] # 1
    BY <1>1, <2>2
  <2> QED
    BY <2>1, <2>2
<1>4. asked \in SUBSET {k \in Channels : status[k] # 0}
  BY <1>1
<1> QED
  BY <1>1, <1>2, <1>3, <1>4 DEF Service!Poll, Wants

LEMMA RespondMaps ==
  ASSUME ServedInv, NEW r \in Requests, Respond(r)
  PROVE  Service!Answer(r)
<1> DEFINE known == {c \in Channels : status[c] # 0}
           shown == [c \in known |-> store[c]]
<1>1. /\ stage[r] = "respond" /\ stage' = [stage EXCEPT ![r] = "reset"]
      /\ UNCHANGED <<status, found, store, worker, lone>>
  BY DEF Respond
<1>2. /\ Place(r) = "open" /\ Place(r)' = "answered"
      /\ \A q \in Requests \ {r} : Place(q)' = Place(q)
  BY <1>1, PlaceStep DEF Place, Finished, ServedInv, IInv, TypeInv
<1>3. Wants(r) = Channels /\ Wants(r) \subseteq fresh[r]
  BY <1>1 DEF ServedInv, Wants, Busy, Finished
<1>4. lone[r] => /\ {w \in Workers : worker[w] # "off"} = {}
                 /\ \A c \in Channels : store[c] = found[c]
  <2> SUFFICES ASSUME lone[r]
               PROVE  /\ \A w \in Workers : worker[w] = "off"
                      /\ store = found
    OBVIOUS
  <2>1. Alone(r) /\ SenderInv(r)
    BY <1>1 DEF ServedInv, IInv, LoneInv, BusyInv, Busy, Finished
  <2> QED
    BY <1>1, <2>1 DEF Alone, SenderInv, Workers
<1>5. /\ answer'[r].shows = shown
      /\ \A q \in Requests \ {r} : answer'[q] = answer[q]
  <2>1. answer[r] = [timeover |-> answer[r].timeover,
                     shows |-> answer[r].shows, poll |-> answer[r].poll]
        /\ DOMAIN answer = Requests
    BY DEF ServedInv, IInv, TypeInv
  <2>2. answer' = [answer EXCEPT ![r] = [[@ EXCEPT !.shows = shown]
                                           EXCEPT !.poll = lastPoll]]
    BY DEF Respond
  <2> QED
    BY <2>1, <2>2
<1>6. /\ [q \in Requests |-> Wants(q)][r] = Channels
      /\ [i \in known \cap [q \in Requests |-> Wants(q)][r] |-> store[i]]
           = shown
  BY <1>3
<1>7. [q \in Requests |->
         IF Place(q)' = "answered" THEN answer'[q].shows ELSE <<>>] =
      [[q \in Requests |->
         IF Place(q) = "answered" THEN answer[q].shows ELSE <<>>]
           EXCEPT ![r] = shown]
  BY <1>2, <1>5
<1>8. [q \in Requests |-> Place(q)'] =
        [[q \in Requests |-> Place(q)] EXCEPT ![r] = "answered"]
  BY <1>2
<1> QED
  BY <1>1, <1>2, <1>3, <1>4, <1>6, <1>7, <1>8 DEF Service!Answer, Wants

LEMMA ResetMaps ==
  ASSUME TypeOK, NEW r \in Requests, ResetChecks(r)
  PROVE  Service!Close(r)
<1>1. /\ stage[r] = "reset" /\ stage' = [stage EXCEPT ![r] = "done"]
      /\ UNCHANGED <<status, found, worker, answer, lone>>
  BY DEF ResetChecks
<1>2. /\ Place(r) = "answered" /\ Place(r)' = "over"
      /\ \A q \in Requests \ {r} : Place(q)' = Place(q)
  <2>1. stage'[r] = "done" /\ \A q \in Requests \ {r} : Place(q)' = Place(q)
    BY <1>1, PlaceStep
  <2> QED
    BY <1>1, <2>1 DEF Place, Finished
<1> QED
  BY <1>1, <1>2 DEF Service!Close, Wants

\* A worker's steps.
LEMMA WorkerMaps ==
  ASSUME TypeOK, NEW r \in Requests, NEW c \in Channels, Worker(r, c)
  PROVE  Service!Pose(r) \/ Service!Learn(r)
<1> DEFINE under == {w \in Workers : worker[w] # "off"}
<1>1. /\ UNCHANGED <<status, stage, answer, lone>>
      /\ \A q \in Requests : Place(q)' = Place(q) /\ Wants(q)' = Wants(q)
  BY DEF Worker, WorkerStart, WorkerFinish, Place, Wants
<1>2. <<r, c>> \in under /\ {c} \in SUBSET Service!AskedBy(r)
  BY DEF Worker, WorkerStart, WorkerFinish, Workers, Service!AskedBy
<1>3. CASE WorkerStart(r, c)
  <2>1. found' = [k \in Channels |-> IF k \in {c} THEN <<r, "pending">>
                                     ELSE found[k]]
    BY <1>3 DEF WorkerStart, TypeOK
  <2>2. under' = under
    BY <1>3 DEF WorkerStart, TypeOK, Workers
  <2> QED
    BY <1>1, <1>2, <2>1, <2>2 DEF Service!Pose
<1>4. CASE WorkerFinish(r, c)
  <2>1. found' = [k \in Channels |-> IF k \in {c} THEN <<r, "answered">>
                                     ELSE found[k]]
    BY <1>4 DEF WorkerFinish, TypeOK
  <2>2. under' = under \ ({r} \X {c})
    BY <1>4 DEF WorkerFinish, TypeOK, Workers
  <2> QED
    BY <1>1, <1>2, <2>1, <2>2 DEF Service!Learn
<1> QED
  BY <1>3, <1>4 DEF Worker

\* The steps that ViewService does not see but for a copy, or as a refusal.
LEMMA HiddenMaps ==
  ASSUME ServedInv, NEW r \in Requests,
         \/ RegisterFails(r) \/ Decide(r) \/ StartPoll(r) \/ Unpack(r)
         \/ ScanChannel(r) \/ CopyInfos(r)
  PROVE  Service!Still \/ Service!Refuse(r)
<1>0. TypeOK
  BY DEF ServedInv, IInv, TypeInv
<1>1. CASE ScanChannel(r)
  <2>1. /\ UNCHANGED <<status, found, worker, lone>> /\ stage[r] = "scan"
        /\ stage' = stage \/ stage' = [stage EXCEPT ![r] = "copy"]
        /\ answer' = answer \/ \E t : answer' = [answer EXCEPT ![r].timeover = t]
    BY <1>1 DEF ScanChannel
  <2>2. \A q \in Requests : Place(q)' = Place(q)
    <3>1. CASE stage' = stage
      BY <3>1 DEF Place
    <3>2. CASE stage' = [stage EXCEPT ![r] = "copy"]
      BY <1>0, <2>1, <3>2, PlaceStep DEF Place, Finished
    <3> QED
      BY <2>1, <3>1, <3>2
  <2>3. \A q \in Requests : answer'[q].shows = answer[q].shows
    <3>1. ASSUME NEW t, answer' = [answer EXCEPT ![r].timeover = t],
                 NEW q \in Requests
          PROVE  answer'[q].shows = answer[q].shows
      <4>1. answer[r] = [timeover |-> answer[r].timeover,
                         shows |-> answer[r].shows, poll |-> answer[r].poll]
            /\ DOMAIN answer = Requests
        BY DEF ServedInv, IInv, TypeInv
      <4> QED
        BY <3>1, <4>1
    <3> QED
      BY <2>1, <3>1
  <2> QED
    BY <2>1, <2>2, <2>3, StillStep
<1>2. CASE ~ScanChannel(r)
  <2>1. /\ UNCHANGED <<status, found, worker, lone, answer>>
        /\ Busy(r) /\ stage[r] # "reset"
        /\ \E t \in {"again", "dropped", "errorSent", "chosen", "unpack",
                     "poll", "scan", "respond"} :
             stage' = [stage EXCEPT ![r] = t]
    BY <1>2 DEF RegisterFails, Decide, StartPoll, Unpack, CopyInfos, Busy,
       Finished
  <2>2. /\ Place(r) = "open" /\ Place(r)' \in {"open", "over"}
        /\ \A q \in Requests \ {r} : Place(q)' = Place(q)
    BY <1>0, <2>1, PlaceStep DEF Place, Busy, Finished
  <2> QED
    BY <2>1, <2>2, StillStep, RefuseStep
<1> QED
  BY <1>1, <1>2

\* Every step is one of ViewService's.
LEMMA ServedStep ==
  ServedInv /\ ServedInv' /\ [Next /\ Watch]_servedVars =>
    [Service!Next]_Service!vars
<1> SUFFICES ASSUME ServedInv, ServedInv', [Next /\ Watch]_servedVars
             PROVE  [Service!Next]_Service!vars
  OBVIOUS
<1>0. TypeOK /\ TypeOK'
  BY DEF ServedInv, IInv, TypeInv
<1>1. CASE Next /\ Watch
  <2>1. Service!Copy
    <3>1. store' = [c \in Channels |-> store'[c]]
      BY <1>0 DEF TypeOK
    <3>2. \A c \in Channels : store'[c] \in {store[c], found'[c]}
      BY <1>0, <1>1, CopyStep
    <3> QED
      BY <3>1, <3>2 DEF Service!Copy
  <2>2. Service!Watch
    BY <1>1 DEF Watch, Service!Watch
  <2>3. ASSUME NEW r \in Requests, Arrive(r) \/ Request(r) \/ Sender(r)
        PROVE  Service!Next
    BY <1>0, <2>1, <2>2, <2>3, ArriveMaps, RegisterMaps, PollChannelMaps,
       RespondMaps, ResetMaps, HiddenMaps DEF Service!Next, Request, Sender
  <2>4. ASSUME NEW r \in Requests, NEW c \in Channels, Worker(r, c)
        PROVE  Service!Next
    BY <1>0, <2>1, <2>2, <2>4, WorkerMaps DEF Service!Next, Service!Askers
  <2>5. CASE Second
    <3>1. \A q \in Requests : Place(q)' = Place(q)
      BY <2>5 DEF Second, Place
    <3>2. Service!Still
      BY <2>5, <3>1, StillStep DEF Second
    <3> QED
      BY <2>1, <2>2, <3>2 DEF Service!Next
  <2> QED
    BY <1>1, <2>3, <2>4, <2>5 DEF Next
<1>2. CASE UNCHANGED servedVars
  BY <1>2 DEF servedVars, vars, Service!vars, Place, Wants
<1> QED
  BY <1>1, <1>2

LEMMA ServedStart == ServedInit => Service!Init
<1> SUFFICES ASSUME ServedInit PROVE Service!Init
  OBVIOUS
<1>1. \A r \in Requests : Place(r) = "absent"
  BY DEF ServedInit, Init, Place
<1>2. {w \in Workers : worker[w] # "off"} = {}
  BY DEF ServedInit, Init
<1>3. \A r \in Requests : Wants(r) \in SUBSET Channels
  BY DEF Wants
<1> QED
  BY <1>1, <1>2, <1>3 DEF ServedInit, Init, Service!Init, Unknown,
     Service!Unknown

\* The dashboard view, with its marks, its sender and its second copy of the
\* array, implements ViewService: what it shows of a channel is never older
\* than the request, and nothing is under way when a request that nothing
\* overlaps is answered.
THEOREM DashboardServes == ServedSpec => ViewServiceSpec
<1>1. ServedSpec => []ServedInv
  BY InitServedInv, KeepsServedInv, PTL DEF ServedSpec
<1> QED
  BY <1>1, ServedStart, ServedStep, PTL
     DEF ServedSpec, ViewServiceSpec, Service!Spec
=============================================================================
