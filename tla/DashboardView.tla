---------------------------- MODULE DashboardView ----------------------------
(***************************************************************************)
(* The "dashboard" command of the bridge (sunapi_manager.cpp).  Every      *)
(* message has a thread of its own.  It refreshes the registration of the  *)
(* gateway's cameras and then either polls the storage status of every     *)
(* connected channel, with one worker thread per channel, or, when the     *)
(* last poll is at most g_UpdateTimeOut seconds old, marks every channel   *)
(* as checked.  A sender thread then waits until all connected channels    *)
(* are checked, or WAIT_TIMEOUT has passed, copies the workers' array,     *)
(* responds and resets the marks.  All these threads share the arrays,     *)
(* without a lock.                                                         *)
(*                                                                         *)
(* Deviceinfo and firmware requests take part only by the refresh, which   *)
(* every command begins with.                                              *)
(*                                                                         *)
(* Time is in whole seconds, as time(NULL).  Steps on the shared arrays    *)
(* are as fine as the code's statements except that the refresh writes its *)
(* result in one step and that a channel's status string is written        *)
(* together with the mark or the copy that follows it.                     *)
(***************************************************************************)
EXTENDS Integers

CONSTANTS
  N,              (* g_Max_Channel                                         *)
  Requests,       (* the messages, each used once                          *)
  Others,         (* those whose command is deviceinfo or firmware         *)
  Malformed,      (* those without a "view" or a "tid"                     *)
  Versionless,    (* those without a "version"                             *)
  UpdateTimeOut,  (* g_UpdateTimeOut: 5 in the code                        *)
  CurlTimeout,    (* CURL_TIMEOUT: 5                                       *)
  WaitTimeout     (* WAIT_TIMEOUT: 5                                       *)

ASSUME DashboardAssumption ==
  /\ N \in Nat \ {0}
  /\ "nobody" \notin Requests
  /\ Others \subseteq Requests
  /\ Malformed \subseteq Requests /\ Versionless \subseteq Requests
  /\ UpdateTimeOut \in Nat /\ CurlTimeout \in Nat /\ WaitTimeout \in Nat
  /\ CurlTimeout <= WaitTimeout

VARIABLES
  status,   \* g_SubDevice_info_[c].ConnectionStatus
  checked,  \* g_Worker_Storage_info_[c].update_check
  found,    \* storage status in g_Worker_Storage_info_[c]
  store,    \* storage status in g_Storage_info_[c]
  since,    \* now - g_UpdateTimeOfStorageStatus, up to UpdateTimeOut + 1
  stage,    \* where each request's threads are
  next,     \* loop index of the request's current loop
  wait,     \* seconds a request has slept or its sender has waited
  worker,   \* the worker threads, by request and channel
  age,      \* seconds each worker's HTTP request has taken
  answer,   \* the responses sent
  lastPoll, \* history: which request polled last, and which channels
  lone      \* history: nothing else has run during the request

vars == <<status, checked, found, store, since, stage, next, wait, worker,
          age, answer, lastPoll, lone>>

Channels == 1..N
Workers == Requests \X Channels

\* g_SubDevice_info_[c].ConnectionStatus: 0 not registered, 1 Success,
\* 2 ConnectFail.
Statuses == 0..2

\* A channel's DAS and NAS status: written by the worker of which request,
\* and whether it is still the "timeout" a worker writes before it asks.
\* What the camera answered is not told apart: a status, a timeout, authfail,
\* an error code; when the answer cannot be parsed the "timeout" remains
\* (das_status.empty() is a test, not an assignment).
Unknown == <<"nobody", "answered">>
Findings == {Unknown} \cup (Requests \X {"pending", "answered"})

Stages == {"absent", "register", "again", "decide", "chosen", "poll", "settle",
           "unpack", "scan", "copy", "respond", "reset"}
Finished == {"done", "errorSent", "dropped", "elsewhere"}

\* A response: sent after a timeover or not, what it shows for each channel
\* that is registered, and (history) the poll it relies on.
NoPoll == [by |-> "nobody", channels |-> {}]
NotYet == [timeover |-> FALSE, shows |-> <<>>, poll |-> NoPoll]

Busy(r) == stage[r] \notin Finished \cup {"absent"}

Init ==
  /\ status \in [Channels -> Statuses]
  /\ checked = [c \in Channels |-> FALSE]
  /\ found = [c \in Channels |-> Unknown]
  /\ store = [c \in Channels |-> Unknown]
  /\ since = 0
  /\ stage = [r \in Requests |-> "absent"]
  /\ next = [r \in Requests |-> 1]
  /\ wait = [r \in Requests |-> 0]
  /\ worker = [w \in Workers |-> "off"]
  /\ age = [w \in Workers |-> 0]
  /\ answer = [r \in Requests |-> NotYet]
  /\ lastPoll = NoPoll
  /\ lone = [r \in Requests |-> FALSE]

-----------------------------------------------------------------------------
(* The message's thread.                                                   *)

\* process_command hands a message to GetDataForDashboardAPI.
Arrive(r) ==
  /\ stage[r] = "absent"
  /\ stage' = [stage EXCEPT ![r] = "register"]
  /\ LET quiet == /\ \A q \in Requests : ~Busy(q)
                  /\ \A w \in Workers : worker[w] = "off"
     IN lone' = [q \in Requests |-> IF q = r THEN quiet
                                    ELSE lone[q] /\ ~Busy(q)]
  /\ UNCHANGED <<status, checked, found, store, since, next, wait, worker,
                 age,
                 answer, lastPoll>>

\* GetRegiesteredCameraStatus succeeds and UpdateSubdeviceInfos copies it.
Register(r) ==
  /\ stage[r] \in {"register", "again"}
  /\ status' \in [Channels -> Statuses]
  /\ stage' = [stage EXCEPT ![r] =
                 IF r \in Others THEN "elsewhere" ELSE "decide"]
  /\ UNCHANGED <<checked, found, store, since, next, wait, worker, age,
                 answer,
                 lastPoll, lone>>

\* It fails: once more, then SendErrorResponseForGateway, which sends nothing
\* when one of the request's fields is missing.
RegisterFails(r) ==
  /\ \/ /\ stage[r] = "register"
        /\ stage' = [stage EXCEPT ![r] = "again"]
     \/ /\ stage[r] = "again"
        /\ stage' = [stage EXCEPT ![r] =
                       IF r \in Malformed \cup Versionless
                       THEN "dropped" ELSE "errorSent"]
  /\ UNCHANGED <<status, checked, found, store, since, next, wait, worker,
                 age,
                 answer, lastPoll, lone>>

\* GetDashboardView reads g_UpdateTimeOfStorageStatus; the short way is
\* Set_update_checkForStorageInfo.
Decide(r) ==
  /\ stage[r] = "decide"
  /\ IF since > UpdateTimeOut
     THEN /\ stage' = [stage EXCEPT ![r] = "chosen"]
          /\ UNCHANGED checked
     ELSE /\ checked' = [c \in Channels |-> TRUE]
          /\ stage' = [stage EXCEPT ![r] = "unpack"]
  /\ UNCHANGED <<status, found, store, since, next, wait, worker, age, answer,
                 lastPoll, lone>>

\* GetStorageStatusOfSubdevices takes the time ...
StartPoll(r) ==
  /\ stage[r] = "chosen"
  /\ since' = 0
  /\ lastPoll' = [by |-> r, channels |-> {}]
  /\ next' = [next EXCEPT ![r] = 1]
  /\ stage' = [stage EXCEPT ![r] = "poll"]
  /\ UNCHANGED <<status, checked, found, store, wait, worker, age, answer,
                 lone>>

\* ... and starts a worker for each channel that is connected.
PollChannel(r) ==
  LET c == next[r] IN
  /\ stage[r] = "poll"
  /\ IF status[c] = 1
     THEN /\ worker' = [worker EXCEPT ![<<r, c>>] = "spawned"]
          /\ lastPoll' = [lastPoll EXCEPT !.channels = @ \cup {c}]
     ELSE UNCHANGED <<worker, lastPoll>>
  /\ IF c = N
     THEN /\ stage' = [stage EXCEPT ![r] = "settle"]
          /\ wait' = [wait EXCEPT ![r] = 0]
          /\ UNCHANGED next
     ELSE /\ next' = [next EXCEPT ![r] = c + 1]
          /\ UNCHANGED <<stage, wait>>
  /\ UNCHANGED <<status, checked, found, store, since, age, answer, lone>>

\* After the sleep of a second json_unpack, and the sender's thread.
Unpack(r) ==
  /\ stage[r] = "unpack" \/ (stage[r] = "settle" /\ wait[r] > 0)
  /\ stage' = [stage EXCEPT ![r] =
                 IF r \in Malformed THEN "dropped" ELSE "scan"]
  /\ next' = [next EXCEPT ![r] = 1]
  /\ wait' = [wait EXCEPT ![r] = 0]
  /\ UNCHANGED <<status, checked, found, store, since, worker, age, answer,
                 lastPoll, lone>>

-----------------------------------------------------------------------------
(* The worker of a request and a channel.                                  *)

\* Mutant: the worker relies on the sender's reset of the marks.
WorkerStartKeepsMark(r, c) ==
  /\ worker[<<r, c>>] = "spawned"
  /\ worker' = [worker EXCEPT ![<<r, c>>] = "asking"]
  /\ found' = [found EXCEPT ![c] = <<r, "pending">>]
  /\ UNCHANGED <<status, checked, store, since, stage, next, wait, age,
                 answer,
                 lastPoll, lone>>

WorkerStart(r, c) ==
  /\ worker[<<r, c>>] = "spawned"
  /\ worker' = [worker EXCEPT ![<<r, c>>] = "asking"]
  /\ checked' = [checked EXCEPT ![c] = FALSE]
  /\ found' = [found EXCEPT ![c] = <<r, "pending">>]
  /\ UNCHANGED <<status, store, since, stage, next, wait, age, answer,
                 lastPoll,
                 lone>>

\* Mutant: the mark is set in the branch of success only.
WorkerFinishOnSuccess(r, c) ==
  /\ worker[<<r, c>>] = "asking"
  /\ worker' = [worker EXCEPT ![<<r, c>>] = "off"]
  /\ age' = [age EXCEPT ![<<r, c>>] = 0]
  /\ found' = [found EXCEPT ![c] = <<r, "answered">>]
  /\ \E success \in BOOLEAN :
       checked' = [checked EXCEPT ![c] = success]
  /\ UNCHANGED <<status, store, since, stage, next, wait, answer, lastPoll,
                 lone>>

WorkerFinish(r, c) ==
  /\ worker[<<r, c>>] = "asking"
  /\ worker' = [worker EXCEPT ![<<r, c>>] = "off"]
  /\ age' = [age EXCEPT ![<<r, c>>] = 0]
  /\ found' = [found EXCEPT ![c] = <<r, "answered">>]
  /\ checked' = [checked EXCEPT ![c] = TRUE]
  /\ UNCHANGED <<status, store, since, stage, next, wait, answer, lastPoll,
                 lone>>

-----------------------------------------------------------------------------
(* The sender's thread.                                                    *)

\* Mutant: the end of the loop is tested after the increment.
ScanChannelLong(r) ==
  LET c == next[r] IN
  /\ stage[r] = "scan"
  /\ IF status[c] = 1 /\ ~checked[c]
     THEN next' = [next EXCEPT ![r] = 1]
     ELSE next' = [next EXCEPT ![r] = c + 1]
  /\ stage' = [stage EXCEPT ![r] = IF next'[r] > N THEN "copy" ELSE @]
  /\ UNCHANGED <<status, checked, found, store, since, wait, worker, age,
                 answer, lastPoll, lone>>

\* Mutant: the sender waits for every mark, however long.
ScanChannelForever(r) ==
  LET c == next[r]
      missing == status[c] = 1 /\ ~checked[c]
  IN
  /\ stage[r] = "scan"
  /\ IF ~missing /\ c = N
     THEN /\ stage' = [stage EXCEPT ![r] = "copy"]
          /\ UNCHANGED next
     ELSE /\ next' = [next EXCEPT ![r] = IF missing THEN 1 ELSE c + 1]
          /\ UNCHANGED stage
  /\ UNCHANGED <<status, checked, found, store, since, wait, worker, age,
                 answer, lastPoll, lone>>

\* One channel of the sender's loop.  At a channel that is not checked the
\* loop is left and begins again, until the wait is longer than WAIT_TIMEOUT.
ScanChannel(r) ==
  LET c == next[r]
      missing == status[c] = 1 /\ ~checked[c]
      timeover == missing /\ wait[r] > WaitTimeout
  IN
  /\ stage[r] = "scan"
  /\ IF timeover \/ (~missing /\ c = N)
     THEN /\ stage' = [stage EXCEPT ![r] = "copy"]
          /\ answer' = [answer EXCEPT ![r].timeover = timeover]
          /\ UNCHANGED next
     ELSE /\ next' = [next EXCEPT ![r] = IF missing THEN 1 ELSE c + 1]
          /\ UNCHANGED <<stage, answer>>
  /\ UNCHANGED <<status, checked, found, store, since, wait, worker, age,
                 lastPoll, lone>>

\* Mutant: only connected channels are copied, as only they are polled.
CopyInfosConnected(r) ==
  /\ stage[r] = "copy"
  /\ store' = [c \in Channels |-> IF status[c] = 1 THEN found[c] ELSE store[c]]
  /\ stage' = [stage EXCEPT ![r] = "respond"]
  /\ UNCHANGED <<status, checked, found, since, next, wait, worker, age,
                 answer,
                 lastPoll, lone>>

\* UpdateStorageInfos.
CopyInfos(r) ==
  /\ stage[r] = "copy"
  /\ store' = found
  /\ stage' = [stage EXCEPT ![r] = "respond"]
  /\ UNCHANGED <<status, checked, found, since, next, wait, worker, age,
                 answer,
                 lastPoll, lone>>

\* SendResponseForDashboardView speaks of every registered channel, those
\* with ConnectFail included.
Respond(r) ==
  /\ stage[r] = "respond"
  /\ answer' = [answer EXCEPT
       ![r].shows = [c \in {k \in Channels : status[k] # 0} |-> store[c]],
       ![r].poll = lastPoll]
  /\ stage' = [stage EXCEPT ![r] = "reset"]
  /\ UNCHANGED <<status, checked, found, store, since, next, wait, worker,
                 age,
                 lastPoll, lone>>

\* Reset_update_checkForStorageInfo, and the thread ends.
ResetChecks(r) ==
  /\ stage[r] = "reset"
  /\ checked' = [c \in Channels |-> FALSE]
  /\ stage' = [stage EXCEPT ![r] = "done"]
  /\ UNCHANGED <<status, found, store, since, next, wait, worker, age, answer,
                 lastPoll, lone>>

-----------------------------------------------------------------------------
\* A second passes.  Within it every thread that was started runs, and
\* libcurl ends a request that has taken CURL_TIMEOUT.
Second ==
  /\ \A w \in Workers : /\ worker[w] # "spawned"
                        /\ worker[w] = "asking" => age[w] < CurlTimeout
  /\ since' = IF since > UpdateTimeOut THEN since ELSE since + 1
  /\ age' = [w \in Workers |-> IF worker[w] = "asking" THEN age[w] + 1 ELSE 0]
  /\ wait' = [r \in Requests |->
                IF \/ (stage[r] = "settle" /\ wait[r] = 0)
                   \/ (stage[r] = "scan" /\ wait[r] <= WaitTimeout)
                THEN wait[r] + 1 ELSE wait[r]]
  /\ UNCHANGED <<status, checked, found, store, stage, next, worker, answer,
                 lastPoll, lone>>

Request(r) ==
  \/ Register(r) \/ RegisterFails(r) \/ Decide(r)
  \/ StartPoll(r) \/ PollChannel(r) \/ Unpack(r)

Sender(r) == ScanChannel(r) \/ CopyInfos(r) \/ Respond(r) \/ ResetChecks(r)

Worker(r, c) == WorkerStart(r, c) \/ WorkerFinish(r, c)

Next ==
  \/ \E r \in Requests : \/ Arrive(r) \/ Request(r) \/ Sender(r)
                         \/ \E c \in Channels : Worker(r, c)
  \/ Second

Spec == Init /\ [][Next]_vars

\* Threads run, and time passes.
Fairness ==
  /\ \A r \in Requests : WF_vars(Request(r)) /\ WF_vars(Sender(r))
  /\ \A r \in Requests, c \in Channels : WF_vars(Worker(r, c))
  /\ WF_vars(Second)

FairSpec == Spec /\ Fairness

-----------------------------------------------------------------------------
(* Properties.                                                             *)

TypeOK ==
  /\ status \in [Channels -> Statuses]
  /\ checked \in [Channels -> BOOLEAN]
  /\ found \in [Channels -> Findings]
  /\ store \in [Channels -> Findings]
  /\ since \in 0..UpdateTimeOut + 1
  /\ stage \in [Requests -> Stages \cup Finished]
  /\ next \in [Requests -> Channels]
  /\ wait \in [Requests -> 0..WaitTimeout + 1]
  /\ \A r \in Requests :
       /\ answer[r].timeover \in BOOLEAN
       /\ \A c \in DOMAIN answer[r].shows : answer[r].shows[c] \in Findings
  /\ worker \in [Workers -> {"off", "spawned", "asking"}]
  /\ age \in [Workers -> 0..CurlTimeout]
  /\ lastPoll \in [by : Requests \cup {"nobody"}, channels : SUBSET Channels]
  /\ lone \in [Requests -> BOOLEAN]

Answered(r) == stage[r] \in {"reset", "done"}

\* A request that nothing else overlaps is answered with what the cameras
\* said: no channel is shown with the "timeout" that its worker writes before
\* it asks, be it connected or not, and of the channels that the request
\* polled itself nothing older is shown, whatever marks earlier requests left
\* behind, dropped ones included.
LoneAnswerComplete ==
  \A r \in Requests : lone[r] /\ Answered(r) =>
    LET shown == answer[r].shows
        poll == answer[r].poll
    IN /\ \A c \in DOMAIN shown : shown[c][2] = "answered"
       /\ poll.by = r =>
            \A c \in poll.channels \cap DOMAIN shown : shown[c][1] = r

\* Such a request is never answered by a timeover: the workers' timeout is
\* shorter than the sender's wait and the sleep before it.
LoneAnswerInTime ==
  \A r \in Requests : lone[r] => ~answer[r].timeover

\* Every request that has its fields gets a response, also when senders
\* reset each other's marks.
EveryRequestAnswered ==
  \A r \in Requests \ (Others \cup Malformed \cup Versionless) :
    stage[r] = "register" ~> stage[r] \in {"done", "errorSent"}
=============================================================================
