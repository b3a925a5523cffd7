---------------------------- MODULE SubdeviceViews ----------------------------
(***************************************************************************)
(* The "deviceinfo" and "firmware" view commands of the bridge             *)
(* (sunapi_manager.cpp).  They work as the dashboard view does: refresh,   *)
(* poll or mark, wait for the marks, copy, respond, reset.  But            *)
(*  - deviceinfo polls twice, names and network interfaces, and waits for  *)
(*    two marks of every registered channel, connected or not;             *)
(*  - firmware polls the connected channels only, and its workers also     *)
(*    write the names that deviceinfo shows (the list of latest versions   *)
(*    that it shows too is in FirmwareList);                               *)
(*  - the start of the process polls the network interfaces, for nobody.   *)
(*                                                                         *)
(* A loop over the channels is one step here; DashboardView has the same   *)
(* loops channel by channel.  What a camera answered is not told apart,    *)
(* and the Model and port that the refresh brings are left out: they are   *)
(* not what the views wait for.                                            *)
(***************************************************************************)
EXTENDS Naturals

CONSTANTS
  Channels,       (* 0 .. g_Max_Channel - 1                                *)
  Requests,       (* the requests that may come, each once                 *)
  Messages,       (* what they may be: a command and the fields they have  *)
  UpdateTimeOut,  (* g_UpdateTimeOut: 5 in the code                        *)
  CurlTimeout,    (* CURL_TIMEOUT: 5                                       *)
  WaitTimeout     (* WAIT_TIMEOUT: 5                                       *)

Owners == Requests \cup {"boot"}

\* A firmware update and a dashboard view are "other": only the refresh they
\* begin with counts here.  An error response needs the version, too.
AllMessages == [command : {"deviceinfo", "firmware", "other"},
                fields : {"all", "noVersion", "missing"}]

ASSUME SubdeviceAssumption ==
  /\ "boot" \notin Requests /\ "nobody" \notin Requests
  /\ Messages \subseteq AllMessages
  /\ UpdateTimeOut \in Nat /\ CurlTimeout \in Nat /\ WaitTimeout \in Nat
  /\ CurlTimeout <= WaitTimeout

VARIABLES
  msg,      \* the requests' messages
  wsub,     \* g_Worker_SubDevice_info_
  sub,      \* g_SubDevice_info_
  wfw,      \* g_Worker_Firmware_Ver_info_
  fw,       \* g_Firmware_Ver_info_
  since,    \* seconds since the last poll, up to UpdateTimeOut + 1:
            \* g_UpdateTimeOfNetworkInterface, g_UpdateTimeForFirmwareVersion...
  spawned,  \* worker threads that have not begun ...
  asking,   \* ... and those that wait for their camera
  age,      \* seconds the requests of a poll's workers have taken
  stage,    \* where each request's threads are
  wait,     \* seconds a request has slept or its sender has waited
  answer,   \* history: how each answer under way has come about
  lone      \* history: nothing else has run during the request

polls == <<spawned, asking, age>>
vars == <<msg, wsub, sub, wfw, fw, since, polls, stage, wait, answer, lone>>

\* ConnectionStatus: 0 not registered, 1 Success, 2 ConnectFail.
Statuses == 0..2

Command(r, name) == msg[r].command = name

\* A string or a group of strings that a worker writes: by whom it was asked
\* for, and whether it is still the "timeout" a worker writes beforehand.
Unknown == <<"nobody", "answered">>
Findings == {Unknown} \cup (Owners \X {"pending", "answered"})

\* What ResetSubdeviceInfoForChannel leaves.
Blank == [status |-> 0, name |-> Unknown, net |-> Unknown,
          infoChecked |-> FALSE, netChecked |-> FALSE]

\* UpdateSubdeviceInfos copies everything but the marks.
Published(w) == [c \in Channels |-> [status |-> w[c].status,
                                     name |-> w[c].name, net |-> w[c].net]]

Kinds == {"info", "net", "version"}
Workers == Owners \X Kinds \X Channels
Poll(r, kind, statuses) ==
  {r} \X {kind} \X {c \in Channels : wsub[c].status \in statuses}

Stages == {"absent", "register", "again", "decide", "chosen", "named",
           "settle", "unpack", "scan", "copy", "respond", "reset"}
Finished == {"done", "errorSent", "dropped", "elsewhere"}
Busy(r) == stage[r] \notin Finished \cup {"absent"}
Quiet == spawned = {} /\ asking = {}

\* Whether the request polled, and its sender ended by a timeover.
NotYet == [polled |-> FALSE, timeover |-> FALSE]

\* SunapiManagerInit has refreshed the registration, and its last call has
\* started the workers for the network interfaces.
Init ==
  /\ msg \in [Requests -> Messages]
  /\ \E status \in [Channels -> Statuses] :
       wsub = [c \in Channels |-> [Blank EXCEPT !.status = status[c]]]
  /\ sub = Published(wsub)
  /\ wfw = [c \in Channels |-> [version |-> Unknown, checked |-> FALSE]]
  /\ fw = [c \in Channels |-> Unknown]
  /\ since = [deviceinfo |-> 0, firmware |-> 0]
  /\ spawned = Poll("boot", "net", {1, 2})
  /\ asking = {}
  /\ age = [o \in Owners |-> [k \in Kinds |-> 0]]
  /\ stage = [r \in Requests |-> "absent"]
  /\ wait = [r \in Requests |-> 0]
  /\ answer = [r \in Requests |-> NotYet]
  /\ lone = [r \in Requests |-> FALSE]

-----------------------------------------------------------------------------
(* The message's thread.                                                   *)

Goto(r, next) == stage' = [stage EXCEPT ![r] = next]

\* process_command hands a message to GetDataForDashboardAPI.
Arrive(r) ==
  /\ stage[r] = "absent"
  /\ Goto(r, "register")
  /\ lone' = [q \in Requests |->
                IF q = r THEN Quiet /\ \A p \in Requests : ~Busy(p)
                         ELSE lone[q] /\ ~Busy(q)]
  /\ UNCHANGED <<msg, wsub, sub, wfw, fw, since, polls, wait, answer>>

\* Mutant: any other status string is kept, as a status of its own.
RegisterKeepsOther(r) ==
  /\ stage[r] \in {"register", "again"}
  /\ \E status \in [Channels -> 0..3] :
       wsub' = [c \in Channels |-> [wsub[c] EXCEPT !.status = status[c]]]
  /\ sub' = Published(wsub')
  /\ Goto(r, IF Command(r, "other") THEN "elsewhere" ELSE "decide")
  /\ UNCHANGED <<msg, wfw, fw, since, polls, wait, answer, lone>>

\* GetRegiesteredCameraStatus: a channel that is no longer registered is
\* reset, one without a "Status" is left alone; then UpdateSubdeviceInfos
\* publishes what the workers' array holds.
Register(r) ==
  /\ stage[r] \in {"register", "again"}
  /\ \E named \in SUBSET Channels : \E status \in [named -> Statuses] :
       wsub' = [c \in Channels |->
                  IF c \notin named THEN wsub[c]
                  ELSE IF status[c] = 0 THEN Blank
                  ELSE [wsub[c] EXCEPT !.status = status[c]]]
  /\ sub' = Published(wsub')
  /\ Goto(r, IF Command(r, "other") THEN "elsewhere" ELSE "decide")
  /\ UNCHANGED <<msg, wfw, fw, since, polls, wait, answer, lone>>

\* It fails: once more, then SendErrorResponseForGateway.
RegisterFails(r) ==
  /\ stage[r] \in {"register", "again"}
  /\ Goto(r, IF stage[r] = "register" THEN "again"
             ELSE IF msg[r].fields = "all" THEN "errorSent" ELSE "dropped")
  /\ UNCHANGED <<msg, wsub, sub, wfw, fw, since, polls, wait, answer, lone>>

\* GetDeviceInfoView; the short way marks names and interfaces alike, by the
\* time of the last poll of the interfaces.
DecideDeviceinfo(r) ==
  /\ stage[r] = "decide" /\ Command(r, "deviceinfo")
  /\ IF since.deviceinfo > UpdateTimeOut
     THEN Goto(r, "chosen") /\ UNCHANGED wsub
     ELSE /\ wsub' = [c \in Channels |-> [wsub[c] EXCEPT
                        !.infoChecked = TRUE, !.netChecked = TRUE]]
          /\ Goto(r, "unpack")
  /\ UNCHANGED <<msg, sub, wfw, fw, since, polls, wait, answer, lone>>

\* GetFirmwareVersionInfoView.
DecideFirmware(r) ==
  /\ stage[r] = "decide" /\ Command(r, "firmware")
  /\ IF since.firmware > UpdateTimeOut
     THEN Goto(r, "chosen") /\ UNCHANGED wfw
     ELSE /\ wfw' = [c \in Channels |-> [wfw[c] EXCEPT !.checked = TRUE]]
          /\ Goto(r, "unpack")
  /\ UNCHANGED <<msg, wsub, sub, fw, since, polls, wait, answer, lone>>

\* GetDeviceNameOfSubdevices.
PollNames(r) ==
  /\ stage[r] = "chosen" /\ Command(r, "deviceinfo")
  /\ spawned' = spawned \cup Poll(r, "info", {1, 2})
  /\ Goto(r, "named")
  /\ UNCHANGED <<msg, wsub, sub, wfw, fw, since, asking, age, wait, answer,
                 lone>>

\* Mutant: as the firmware view, only connected channels are asked.
PollInterfacesConnected(r) ==
  /\ stage[r] = "named"
  /\ since' = [since EXCEPT !.deviceinfo = 0]
  /\ spawned' = spawned \cup Poll(r, "net", {1})
  /\ answer' = [answer EXCEPT ![r].polled = TRUE]
  /\ wait' = [wait EXCEPT ![r] = 0]
  /\ Goto(r, "settle")
  /\ UNCHANGED <<msg, wsub, sub, wfw, fw, asking, age, lone>>

\* GetMacAddressOfSubdevices.
PollInterfaces(r) ==
  /\ stage[r] = "named"
  /\ since' = [since EXCEPT !.deviceinfo = 0]
  /\ spawned' = spawned \cup Poll(r, "net", {1, 2})
  /\ answer' = [answer EXCEPT ![r].polled = TRUE]
  /\ wait' = [wait EXCEPT ![r] = 0]
  /\ Goto(r, "settle")
  /\ UNCHANGED <<msg, wsub, sub, wfw, fw, asking, age, lone>>

\* GetDataForFirmwareVersionInfo, GetFirmwareVersionOfSubdevices: the workers
\* of the connected channels.
PollVersions(r) ==
  /\ stage[r] = "chosen" /\ Command(r, "firmware")
  /\ since' = [since EXCEPT !.firmware = 0]
  /\ spawned' = spawned \cup Poll(r, "version", {1})
  /\ answer' = [answer EXCEPT ![r].polled = TRUE]
  /\ wait' = [wait EXCEPT ![r] = 0]
  /\ Goto(r, "settle")
  /\ UNCHANGED <<msg, wsub, sub, wfw, fw, asking, age, lone>>

\* After the sleep of a second json_unpack, and the sender's thread.
Unpack(r) ==
  /\ stage[r] = "unpack" \/ (stage[r] = "settle" /\ wait[r] > 0)
  /\ Goto(r, IF msg[r].fields = "missing" THEN "dropped" ELSE "scan")
  /\ wait' = [wait EXCEPT ![r] = 0]
  /\ UNCHANGED <<msg, wsub, sub, wfw, fw, since, polls, answer, lone>>

-----------------------------------------------------------------------------
(* The workers.                                                            *)

WorkerBegins(o, kind, c) ==
  /\ <<o, kind, c>> \in spawned
  /\ spawned' = spawned \ {<<o, kind, c>>}
  /\ asking' = asking \cup {<<o, kind, c>>}
  /\ UNCHANGED <<msg, sub, fw, since, age, stage, wait, answer, lone>>

WorkerEnds(o, kind, c) ==
  /\ <<o, kind, c>> \in asking
  /\ asking' = asking \ {<<o, kind, c>>}
  /\ UNCHANGED <<msg, sub, fw, since, spawned, age, stage, wait, answer, lone>>

\* thread_function_for_subdevice_info
InfoStart(o, c) ==
  /\ WorkerBegins(o, "info", c)
  /\ wsub' = [wsub EXCEPT ![c].infoChecked = FALSE,
                          ![c].name = <<o, "pending">>]
  /\ UNCHANGED wfw

InfoFinish(o, c) ==
  /\ WorkerEnds(o, "info", c)
  /\ wsub' = [wsub EXCEPT ![c].infoChecked = TRUE,
                          ![c].name = <<o, "answered">>]
  /\ UNCHANGED wfw

\* thread_function_for_network_interface; a request that fails leaves the
\* "timeout" as its result.
NetStart(o, c) ==
  /\ WorkerBegins(o, "net", c)
  /\ wsub' = [wsub EXCEPT ![c].netChecked = FALSE,
                          ![c].net = <<o, "pending">>]
  /\ UNCHANGED wfw

NetFinish(o, c) ==
  /\ WorkerEnds(o, "net", c)
  /\ wsub' = [wsub EXCEPT ![c].netChecked = TRUE,
                          ![c].net = <<o, "answered">>]
  /\ UNCHANGED wfw

\* thread_function_for_firmware_version writes the names too, but does not
\* touch their mark.
VersionStart(o, c) ==
  /\ WorkerBegins(o, "version", c)
  /\ wfw' = [wfw EXCEPT ![c].checked = FALSE, ![c].version = <<o, "pending">>]
  /\ wsub' = [wsub EXCEPT ![c].name = <<o, "pending">>]

VersionFinish(o, c) ==
  /\ WorkerEnds(o, "version", c)
  /\ wfw' = [wfw EXCEPT ![c].checked = TRUE, ![c].version = <<o, "answered">>]
  /\ wsub' = [wsub EXCEPT ![c].name = <<o, "answered">>]

-----------------------------------------------------------------------------
(* The sender's thread.                                                    *)

\* Mutant: the second mark is forgotten.
AllCheckedByName(r) ==
  IF Command(r, "deviceinfo")
  THEN \A c \in Channels : sub[c].status # 0 => wsub[c].infoChecked
  ELSE \A c \in Channels : sub[c].status = 1 => wfw[c].checked

\* The marks that the sender waits for.
AllChecked(r) ==
  IF Command(r, "deviceinfo")
  THEN \A c \in Channels : sub[c].status # 0 =>
         wsub[c].infoChecked /\ wsub[c].netChecked
  ELSE \A c \in Channels : sub[c].status = 1 => wfw[c].checked

\* The loop is left when all marks are set or the wait is too long.
Scan(r) ==
  /\ stage[r] = "scan"
  /\ AllChecked(r) \/ wait[r] > WaitTimeout
  /\ answer' = [answer EXCEPT ![r].timeover = ~AllChecked(r)]
  /\ Goto(r, "copy")
  /\ UNCHANGED <<msg, wsub, sub, wfw, fw, since, polls, wait, lone>>

\* Mutant: a version is copied only where the mark says that it is complete.
CopyInfosMarked(r) ==
  /\ stage[r] = "copy"
  /\ Goto(r, "respond")
  /\ IF Command(r, "deviceinfo")
     THEN sub' = Published(wsub) /\ UNCHANGED fw
     ELSE /\ fw' = [c \in Channels |-> IF wfw[c].checked THEN wfw[c].version
                                                        ELSE fw[c]]
          /\ UNCHANGED sub
  /\ UNCHANGED <<msg, wsub, wfw, since, polls, wait, answer, lone>>

\* UpdateSubdeviceInfos, UpdateFirmwareVersionInfos
CopyInfos(r) ==
  /\ stage[r] = "copy"
  /\ Goto(r, "respond")
  /\ IF Command(r, "deviceinfo")
     THEN sub' = Published(wsub) /\ UNCHANGED fw
     ELSE fw' = [c \in Channels |-> wfw[c].version] /\ UNCHANGED sub
  /\ UNCHANGED <<msg, wsub, wfw, since, polls, wait, answer, lone>>

\* SendResponseForDeviceInfoView, SendResponseForFirmwareView: what the
\* response shows of every registered channel, connected or not.
Shows(r) ==
  [c \in {d \in Channels : sub[d].status # 0} |->
     IF Command(r, "deviceinfo") THEN {sub[c].name, sub[c].net} ELSE {fw[c]}]

\* It is sent; what it shows is Shows(r).
Respond(r) ==
  /\ stage[r] = "respond"
  /\ Goto(r, "reset")
  /\ answer' = [answer EXCEPT ![r] = NotYet]
  /\ UNCHANGED <<msg, wsub, sub, wfw, fw, since, polls, wait, lone>>

\* The marks of all channels are reset, and the thread ends.
ResetChecks(r) ==
  /\ stage[r] = "reset"
  /\ Goto(r, "done")
  /\ IF Command(r, "deviceinfo")
     THEN /\ wsub' = [c \in Channels |-> [wsub[c] EXCEPT
                        !.infoChecked = FALSE, !.netChecked = FALSE]]
          /\ UNCHANGED wfw
     ELSE /\ wfw' = [c \in Channels |-> [wfw[c] EXCEPT !.checked = FALSE]]
          /\ UNCHANGED wsub
  /\ UNCHANGED <<msg, sub, fw, since, polls, wait, answer, lone>>

-----------------------------------------------------------------------------
\* A second passes.  Within it every worker that was started runs, and
\* libcurl ends a request that has taken CURL_TIMEOUT.
Second ==
  /\ spawned = {}
  /\ \A w \in asking : age[w[1]][w[2]] < CurlTimeout
  /\ since' = [v \in DOMAIN since |->
                 IF since[v] > UpdateTimeOut THEN since[v] ELSE since[v] + 1]
  /\ age' = [o \in Owners |-> [k \in Kinds |->
               IF \E c \in Channels : <<o, k, c>> \in asking
               THEN age[o][k] + 1 ELSE 0]]
  /\ wait' = [r \in Requests |->
                IF \/ stage[r] = "settle" /\ wait[r] = 0
                   \/ stage[r] = "scan" /\ wait[r] <= WaitTimeout
                THEN wait[r] + 1 ELSE wait[r]]
  /\ UNCHANGED <<msg, wsub, sub, wfw, fw, spawned, asking, stage, answer,
                 lone>>

Request(r) ==
  \/ Register(r) \/ RegisterFails(r) \/ DecideDeviceinfo(r)
  \/ DecideFirmware(r) \/ PollNames(r) \/ PollInterfaces(r)
  \/ PollVersions(r) \/ Unpack(r)

Sender(r) == Scan(r) \/ CopyInfos(r) \/ Respond(r) \/ ResetChecks(r)

Worker(o, c) ==
  \/ InfoStart(o, c) \/ InfoFinish(o, c) \/ NetStart(o, c)
  \/ NetFinish(o, c) \/ VersionStart(o, c) \/ VersionFinish(o, c)

Next ==
  \/ \E r \in Requests : Arrive(r) \/ Request(r) \/ Sender(r)
  \/ \E o \in Owners, c \in Channels : Worker(o, c)
  \/ Second

Spec == Init /\ [][Next]_vars

-----------------------------------------------------------------------------
(* Properties.                                                             *)

TypeOK ==
  /\ msg \in [Requests -> Messages]
  /\ wsub \in [Channels -> [status : Statuses, name : Findings,
                            net : Findings, infoChecked : BOOLEAN,
                            netChecked : BOOLEAN]]
  /\ sub \in [Channels -> [status : Statuses, name : Findings,
                           net : Findings]]
  /\ wfw \in [Channels -> [version : Findings, checked : BOOLEAN]]
  /\ fw \in [Channels -> Findings]
  /\ since \in [{"deviceinfo", "firmware"} -> 0..UpdateTimeOut + 1]
  /\ spawned \subseteq Workers /\ asking \subseteq Workers
  /\ age \in [Owners -> [Kinds -> 0..CurlTimeout]]
  /\ stage \in [Requests -> Stages \cup Finished]
  /\ wait \in [Requests -> 0..WaitTimeout + 1]
  /\ answer \in [Requests -> [polled : BOOLEAN, timeover : BOOLEAN]]
  /\ lone \in [Requests -> BOOLEAN]

\* A view that nothing else overlaps shows what the cameras said: never the
\* "timeout" that a worker writes before it asks, and if the request polled,
\* only what its own workers found on the channels they asked: all that are
\* registered (deviceinfo), or connected (firmware).  Marks that dropped
\* requests or the start of the process left behind do not change that.
LoneViewComplete ==
  \A r \in Requests : lone[r] /\ stage[r] = "respond" =>
    \A c \in DOMAIN Shows(r) : \A f \in Shows(r)[c] :
      /\ f[2] = "answered"
      /\ answer[r].polled /\ (Command(r, "deviceinfo") \/ sub[c].status = 1) =>
           f[1] = r

\* Such a view is never answered by a timeover: every channel the sender
\* waits for is one that was asked, and the cameras' time is shorter than
\* the sender's.
LoneViewInTime ==
  \A r \in Requests : lone[r] => ~answer[r].timeover
=============================================================================
