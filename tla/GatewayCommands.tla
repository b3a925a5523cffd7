--------------------------- MODULE GatewayCommands ---------------------------
(***************************************************************************)
(* What the threads of command messages do with the gateway itself         *)
(* (sunapi_manager.cpp): checkPassword, the firmware update, and the       *)
(* refresh that every view begins with, while SunapiManagerInit may still  *)
(* be running.  They share g_Max_Channel, the channel arrays, which are    *)
(* allocated once with the value that it has then, and g_Gateway_info_,    *)
(* which every question to the gateway first sets to "timeout".            *)
(*                                                                         *)
(* A question to the gateway is two steps, the request and its end; which  *)
(* of the ways CURL_Process may end it is open.  What a view does after    *)
(* the refresh is in DashboardView and SubdeviceViews: here it counts only *)
(* which channels it will touch.                                           *)
(***************************************************************************)
EXTENDS Integers, FiniteSets

CONSTANTS
  Msgs,              (* the command messages, each used once               *)
  Boot,              (* the bridge's thread, in SunapiManagerInit          *)
  MaxChannel,        (* what the gateway's attributes.cgi says             *)
  DefaultMaxChannel  (* DEFAULT_MAX_CHANNEL: 128                           *)

\* Whenever the gateway says a number, it is the same one, and not more than
\* the default.
ASSUME GatewayAssumption ==
  /\ Boot \notin Msgs
  /\ MaxChannel \in Nat \ {0}
  /\ DefaultMaxChannel \in Nat
  /\ MaxChannel <= DefaultMaxChannel

VARIABLES
  proc,          \* the process: "running" or "crashed"
  stage,         \* where each thread is
  kind,          \* what each message asks for
  g_Max_Channel,
  arrays,        \* how many of the channel arrays are allocated
  size,          \* with how many entries each
  device,        \* Model and FirmwareVersion of g_Gateway_info_
  link,          \* ConnectionStatus of g_Gateway_info_
  maxCh,         \* the number of channels a thread has in a local variable
  reply,         \* the answers sent
  verdict,       \* history: what the gateway made of the message's password
  before,        \* history: the threads that had ended when it arrived
  failed         \* history: the gateway left a question about itself open

commandVars == <<stage, kind, g_Max_Channel, arrays, size, device, link,
                 maxCh, reply, verdict, before, failed>>
vars == <<proc, commandVars>>

Threads == Msgs \cup {Boot}

\* "view" is a dashboard or deviceinfo command, "firmware" a view of the
\* firmware, "other" one that is unknown.
Kinds == {"none", "view", "firmware", "update", "other", "checkPassword"}

\* The arrays in the order of their allocation: storage, device and firmware
\* information, each with the workers' copy.
Storage == 1
SubDevice == 2
Firmware == 3
Arrays == Storage..Firmware
Needs(k) == IF k = "firmware" THEN Firmware ELSE SubDevice

Ended == {"up", "answered", "dropped"}
Stages == Ended \cup
  {"absent", "attributes", "info", "network", "networkAsked", "device",
   "deviceAsked", "fallback", "alloc", "register", "again", "answer",
   "view", "send", "shown", "update", "updateAsked"}

\* Who wrote Model and FirmwareVersion, and what: the gateway's words, a name
\* for what went wrong, or nothing.
Facts == [by : Threads,
          what : {"", "told", "timeout", "error"}]
Links == {"", "on", "timeout", "error"}

\* An answer: its responseCode (or what sort of answer it is), maxChannels,
\* and what it shows of the gateway.
NoAnswer == [code |-> "none", channels |-> 0, shows |-> [by |-> Boot, what |-> ""]]
Codes == {"none", "200", "403", "600", "250", "view", "error"}

\* g_Gateway_info_ is no longer NULL.
InfoExists == stage[Boot] \notin {"attributes", "info"}

Goes(t, s) == stage' = [stage EXCEPT ![t] = s]

Init ==
  /\ proc = "running"
  /\ stage = [t \in Threads |-> IF t = Boot THEN "attributes" ELSE "absent"]
  /\ kind = [m \in Msgs |-> "none"]
  /\ g_Max_Channel = 0
  /\ arrays = 0
  /\ size = [a \in Arrays |-> 0]
  /\ device = [by |-> Boot, what |-> ""]
  /\ link = ""
  /\ maxCh = [m \in Msgs |-> 0]
  /\ reply = [m \in Msgs |-> NoAnswer]
  /\ verdict = [m \in Msgs |-> "none"]
  /\ before = [m \in Msgs |-> {}]
  /\ failed = FALSE

Crash == proc' = "crashed" /\ UNCHANGED commandVars

-----------------------------------------------------------------------------
(* Questions about the gateway, asked by the start and by messages.        *)

\* Mutant: the old Model and FirmwareVersion are kept until there are new ones.
AskDeviceKeeps(t) ==
  /\ stage[t] = "device"
  /\ IF ~InfoExists
     THEN Crash
     ELSE /\ link' = "timeout"
          /\ Goes(t, "deviceAsked")
          /\ UNCHANGED <<proc, kind, g_Max_Channel, arrays, size, device,
                         maxCh, reply, verdict, before, failed>>

\* GetDeviceInfoOfGateway resets everything to "timeout" and asks.
AskDevice(t) ==
  /\ stage[t] = "device"
  /\ IF ~InfoExists
     THEN Crash
     ELSE /\ device' = [by |-> t, what |-> "timeout"]
          /\ link' = "timeout"
          /\ Goes(t, "deviceAsked")
          /\ UNCHANGED <<proc, kind, g_Max_Channel, arrays, size, maxCh,
                         reply, verdict, before, failed>>

\* How CURL_Process ends, and whether the answer can be read.
Outcomes == {"told", "unreadable", "timeout", "error"}
Linked(o) == IF o \in {"told", "unreadable"} THEN "on" ELSE o

AfterDevice(t, o) ==
  Goes(t, IF t # Boot THEN "answer"
          ELSE IF o = "told" THEN "alloc" ELSE "fallback")

\* Mutant: the status becomes "on" only with an answer that can be read.
DeviceToldLate(t) ==
  /\ stage[t] = "deviceAsked"
  /\ \E o \in Outcomes :
       /\ device' = IF o = "timeout" THEN device
                    ELSE [by |-> t, what |-> IF o = "unreadable" THEN "" ELSE o]
       /\ link' = IF o = "timeout" THEN link
                  ELSE IF o = "unreadable" THEN "timeout" ELSE Linked(o)
       /\ failed' = (failed \/ Linked(o) # "on")
       /\ AfterDevice(t, o)
  /\ UNCHANGED <<proc, kind, g_Max_Channel, arrays, size, maxCh, reply,
                 verdict, before>>

\* Its end: a timeout leaves what the variables hold by now.
DeviceTold(t) ==
  /\ stage[t] = "deviceAsked"
  /\ \E o \in Outcomes :
       /\ device' = IF o = "timeout" THEN device
                    ELSE [by |-> t, what |-> IF o = "unreadable" THEN "" ELSE o]
       /\ link' = IF o = "timeout" THEN link ELSE Linked(o)
       /\ failed' = (failed \/ Linked(o) # "on")
       /\ AfterDevice(t, o)
  /\ UNCHANGED <<proc, kind, g_Max_Channel, arrays, size, maxCh, reply,
                 verdict, before>>

\* GetRegiesteredCameraStatus, at most twice: it writes the channels that the
\* gateway lists to the workers' array.
Registers(t, then) ==
  /\ stage[t] \in {"register", "again"}
  /\ IF arrays < SubDevice
     THEN Crash
     ELSE /\ Goes(t, then)
          /\ UNCHANGED <<proc, kind, g_Max_Channel, arrays, size, device,
                         link, maxCh, reply, verdict, before, failed>>

\* Mutant: it is tried again until it succeeds.
RegisterFailsForever(t, after) ==
  /\ stage[t] \in {"register", "again"}
  /\ Goes(t, IF stage[t] = "register" THEN "again" ELSE "register")
  /\ UNCHANGED <<proc, kind, g_Max_Channel, arrays, size, device, link, maxCh,
                 reply, verdict, before, failed>>

RegisterFails(t, after) ==
  /\ stage[t] \in {"register", "again"}
  /\ Goes(t, IF stage[t] = "register" THEN "again" ELSE after)
  /\ UNCHANGED <<proc, kind, g_Max_Channel, arrays, size, device, link, maxCh,
                 reply, verdict, before, failed>>

-----------------------------------------------------------------------------
(* SunapiManagerInit.                                                      *)

\* GetMaxChannelByAttribute: without an answer the default is taken.
BootAttributes ==
  /\ stage[Boot] = "attributes"
  /\ g_Max_Channel' \in {MaxChannel, DefaultMaxChannel}
  /\ Goes(Boot, "info")
  /\ UNCHANGED <<proc, kind, arrays, size, device, link, maxCh, reply, verdict,
                 before, failed>>

\* new GatewayInfo and ResetGatewayInfo.
BootInfo ==
  /\ stage[Boot] = "info"
  /\ device' = [by |-> Boot, what |-> ""]
  /\ link' = ""
  /\ Goes(Boot, "network")
  /\ UNCHANGED <<proc, kind, g_Max_Channel, arrays, size, maxCh, reply,
                 verdict, before, failed>>

\* GetNetworkInterfaceOfGateway sets the status as GetDeviceInfoOfGateway
\* does; what it writes besides is not told apart.
BootAskNetwork ==
  /\ stage[Boot] = "network"
  /\ link' = "timeout"
  /\ Goes(Boot, "networkAsked")
  /\ UNCHANGED <<proc, kind, g_Max_Channel, arrays, size, device, maxCh, reply,
                 verdict, before, failed>>

BootNetwork ==
  /\ stage[Boot] = "networkAsked"
  /\ \E o \in Outcomes :
       /\ link' = IF o = "timeout" THEN link ELSE Linked(o)
       /\ failed' = (failed \/ Linked(o) # "on")
  /\ Goes(Boot, "device")
  /\ UNCHANGED <<proc, kind, g_Max_Channel, arrays, size, device, maxCh, reply,
                 verdict, before>>

\* Without device information the model is "CloudGateway", the version unknown.
BootFallback ==
  /\ stage[Boot] = "fallback"
  /\ device' = [by |-> Boot, what |-> "error"]
  /\ Goes(Boot, "alloc")
  /\ UNCHANGED <<proc, kind, g_Max_Channel, arrays, size, link, maxCh, reply,
                 verdict, before, failed>>

\* Each pair of arrays gets g_Max_Channel + 1 entries, of the g_Max_Channel of now.
BootAllocate ==
  /\ stage[Boot] = "alloc"
  /\ arrays' = arrays + 1
  /\ size' = [size EXCEPT ![arrays + 1] = g_Max_Channel + 1]
  /\ Goes(Boot, IF arrays' = Firmware THEN "register" ELSE "alloc")
  /\ UNCHANGED <<proc, kind, g_Max_Channel, device, link, maxCh, reply,
                 verdict, before, failed>>

\* The refresh; the start goes on also when it fails twice.
BootRegister ==
  /\ stage[Boot] = "register"
  /\ Goes(Boot, "up")
  /\ UNCHANGED <<proc, kind, g_Max_Channel, arrays, size, device, link, maxCh,
                 reply, verdict, before, failed>>

-----------------------------------------------------------------------------
(* A message's thread.                                                     *)

Answers(m, code, channels, shows) ==
  /\ reply' = [reply EXCEPT ![m] = [code |-> code, channels |-> channels,
                                    shows |-> shows]]
  /\ Goes(m, "answered")

Nothing == NoAnswer.shows

\* process_command: a message that is no JSON, or lacks its command, is
\* dropped; a checkPassword without a password is answered at once.
Arrive(m) ==
  /\ stage[m] = "absent"
  /\ before' = [before EXCEPT ![m] = {t \in Threads : stage[t] \in Ended}]
  /\ \E k \in Kinds \ {"none"} :
       /\ kind' = [kind EXCEPT ![m] = k]
       /\ \/ Goes(m, "dropped") /\ UNCHANGED reply
          \/ k = "checkPassword" /\ Answers(m, "600", 0, Nothing)
          \/ Goes(m, IF k = "checkPassword" THEN "attributes" ELSE "register")
             /\ UNCHANGED reply
  /\ UNCHANGED <<proc, g_Max_Channel, arrays, size, device, link, maxCh,
                 verdict, failed>>

\* What the gateway makes of a password: it accepts it and says its number of
\* channels, or something that atoi does not turn into a positive number; or
\* there is no answer that names MaxChannel, because it refuses the password,
\* is too late, or says something else.
Verdicts == {"accepted", "zero", "failed"}

\* What GetMaxChannelByAttribute returns, and when it stores that.
Told(v) == IF v = "accepted" THEN MaxChannel ELSE 0
Stored(v) == IF v \in {"accepted", "zero"} THEN Told(v) ELSE g_Max_Channel

\* Mutant: the global number of channels is returned also on a failure.
AttributesGlobal(m) ==
  /\ stage[m] = "attributes"
  /\ \E v \in Verdicts :
       /\ verdict' = [verdict EXCEPT ![m] = v]
       /\ maxCh' = [maxCh EXCEPT ![m] = Stored(v)]
       /\ g_Max_Channel' = Stored(v)
       /\ IF Stored(v) < 1 THEN Answers(m, "403", 0, Nothing)
                          ELSE Goes(m, "device") /\ UNCHANGED reply
  /\ UNCHANGED <<proc, kind, arrays, size, device, link, before, failed>>

\* Mutant: an error is -1 and stored like every other result.
AttributesError(m) ==
  /\ stage[m] = "attributes"
  /\ \E v \in Verdicts :
       /\ verdict' = [verdict EXCEPT ![m] = v]
       /\ g_Max_Channel' = IF v \in {"accepted", "zero"} THEN Told(v) ELSE -1
       /\ maxCh' = [maxCh EXCEPT ![m] = Told(v)]
       /\ IF Told(v) < 1 THEN Answers(m, "403", 0, Nothing)
                        ELSE Goes(m, "device") /\ UNCHANGED reply
  /\ UNCHANGED <<proc, kind, arrays, size, device, link, before, failed>>

\* Mutant: checkPassword falls back on the default, as the start does.
AttributesDefault(m) ==
  /\ stage[m] = "attributes"
  /\ \E v \in Verdicts :
       /\ verdict' = [verdict EXCEPT ![m] = v]
       /\ maxCh' = [maxCh EXCEPT ![m] = Told(v)]
       /\ g_Max_Channel' = IF Told(v) < 1 THEN DefaultMaxChannel ELSE Told(v)
       /\ IF Told(v) < 1 THEN Answers(m, "403", 0, Nothing)
                        ELSE Goes(m, "device") /\ UNCHANGED reply
  /\ UNCHANGED <<proc, kind, arrays, size, device, link, before, failed>>

\* GetMaxChannelByAttribute with the password of the message.  A number that
\* is not positive (0 stands for all of them) is stored, too, before it is
\* answered 403 as every failure is.
Attributes(m) ==
  /\ stage[m] = "attributes"
  /\ \E v \in Verdicts :
       /\ verdict' = [verdict EXCEPT ![m] = v]
       /\ maxCh' = [maxCh EXCEPT ![m] = Told(v)]
       /\ g_Max_Channel' = Stored(v)
       /\ IF Told(v) < 1 THEN Answers(m, "403", 0, Nothing)
                        ELSE Goes(m, "device") /\ UNCHANGED reply
  /\ UNCHANGED <<proc, kind, arrays, size, device, link, before, failed>>

\* The answer 200, whether or not GetDeviceInfoOfGateway succeeded.
AnswerOk(m) ==
  /\ stage[m] = "answer"
  /\ Answers(m, "200", maxCh[m], device)
  /\ UNCHANGED <<proc, kind, g_Max_Channel, arrays, size, device, link, maxCh,
                 verdict, before, failed>>

\* What a command does next; an unknown one is only logged.
AfterRegister(k) == IF k \in {"view", "firmware"} THEN "view"
                    ELSE IF k = "update" THEN "update" ELSE "dropped"

\* Two failures are reported, if the message has all its fields.
RegisterError(m) ==
  /\ stage[m] = "again"
  /\ Answers(m, "error", 0, Nothing)
  /\ UNCHANGED <<proc, kind, g_Max_Channel, arrays, size, device, link, maxCh,
                 verdict, before, failed>>

\* The refresh of a view or an update.
Register(m) ==
  \/ Registers(m, AfterRegister(kind[m]))
  \/ RegisterFails(m, "dropped")
  \/ RegisterError(m)

\* A view takes g_Max_Channel for its workers, and is dropped afterwards if it
\* lacks its fields ...
ViewPolls(m) ==
  /\ stage[m] = "view"
  /\ IF arrays < Needs(kind[m])
     THEN Crash
     ELSE /\ maxCh' = [maxCh EXCEPT ![m] = g_Max_Channel]
          /\ \/ Goes(m, "send") \/ Goes(m, "dropped")
          /\ UNCHANGED <<proc, kind, g_Max_Channel, arrays, size, device, link,
                         reply, verdict, before, failed>>

\* ... takes it again for its sender, whose loops it bounds ...
ViewSends(m) ==
  /\ stage[m] = "send"
  /\ maxCh' = [maxCh EXCEPT ![m] = g_Max_Channel]
  /\ Goes(m, "shown")
  /\ UNCHANGED <<proc, kind, g_Max_Channel, arrays, size, device, link, reply,
                 verdict, before, failed>>

\* ... and shows the gateway as it is when the sender is done.
ViewAnswers(m) ==
  /\ stage[m] = "shown"
  /\ Answers(m, "view", maxCh[m], device)
  /\ UNCHANGED <<proc, kind, g_Max_Channel, arrays, size, device, link, maxCh,
                 verdict, before, failed>>

\* UpdateFirmwareOfSubdevice: without its fields, a message or a list of
\* channels it is dropped; otherwise the gateway is told to begin.
UpdateAsks(m) ==
  /\ stage[m] = "update"
  /\ \/ Goes(m, "updateAsked") \/ Goes(m, "dropped")
  /\ UNCHANGED <<proc, kind, g_Max_Channel, arrays, size, device, link, maxCh,
                 reply, verdict, before, failed>>

\* SendResponseForUpdateFirmware: always 250, with the raw code per channel.
UpdateAnswers(m) ==
  /\ stage[m] = "updateAsked"
  /\ Answers(m, "250", 0, Nothing)
  /\ UNCHANGED <<proc, kind, g_Max_Channel, arrays, size, device, link, maxCh,
                 verdict, before, failed>>

\* Another part of the process ends it.
Ends == proc' = "crashed" /\ UNCHANGED commandVars

-----------------------------------------------------------------------------
BootStep ==
  /\ proc = "running"
  /\ \/ BootAttributes \/ BootInfo \/ BootAskNetwork \/ BootNetwork
     \/ AskDevice(Boot) \/ DeviceTold(Boot) \/ BootFallback
     \/ BootAllocate \/ BootRegister

MessageStep(m) ==
  /\ proc = "running"
  /\ \/ Attributes(m) \/ AskDevice(m) \/ DeviceTold(m) \/ AnswerOk(m)
     \/ Register(m) \/ ViewPolls(m) \/ ViewSends(m) \/ ViewAnswers(m)
     \/ UpdateAsks(m) \/ UpdateAnswers(m)

CommandNext ==
  \/ BootStep
  \/ \E m \in Msgs : MessageStep(m) \/ (proc = "running" /\ Arrive(m))

Next == CommandNext \/ (proc = "running" /\ Ends)

Spec == Init /\ [][Next]_vars

\* Threads that were started run, and every question to the gateway ends
\* within the timeout of its request.
Fairness == WF_vars(BootStep) /\ \A m \in Msgs : WF_vars(MessageStep(m))

FairSpec == Spec /\ Fairness

-----------------------------------------------------------------------------
(* Properties.                                                             *)

TypeOK ==
  /\ proc \in {"running", "crashed"}
  /\ stage \in [Threads -> Stages]
  /\ kind \in [Msgs -> Kinds]
  /\ g_Max_Channel \in {0, MaxChannel, DefaultMaxChannel}
  /\ arrays \in 0..Firmware
  /\ size \in [Arrays -> Nat]
  /\ device \in Facts
  /\ link \in Links
  /\ maxCh \in [Msgs -> Nat]
  /\ reply \in [Msgs -> [code : Codes, channels : Nat, shows : Facts]]
  /\ verdict \in [Msgs -> Verdicts \cup {"none"}]
  /\ before \in [Msgs -> SUBSET Threads]
  /\ failed \in BOOLEAN

\* checkPassword writes g_Max_Channel at any time, the arrays are allocated
\* once, one after the other, and views keep copies of it: every loop stays
\* within every array that it uses.  Excepted is an array that was allocated
\* while a checkPassword had left 0 there: it has one entry, and no later
\* number fits.
ArraysCoverChannels ==
  /\ \A a \in 1..arrays : size[a] > 1 => size[a] > g_Max_Channel
  /\ \A m \in Msgs : stage[m] \in {"send", "shown"} =>
       \A a \in 1..Needs(kind[m]) : size[a] > 1 => size[a] > maxCh[m]

\* An answer 200 shows nothing that was written by a thread that had ended
\* before the message arrived, although all write the same g_Gateway_info_.
PasswordAnswerFresh ==
  \A m \in Msgs :
    reply[m].code = "200" => reply[m].shows.by \notin before[m]

\* A message is answered 200 only when the gateway accepted its own password,
\* and then with the gateway's own number of channels.
OkMeansAccepted ==
  \A m \in Msgs :
    reply[m].code = "200" =>
      verdict[m] = "accepted" /\ reply[m].channels = MaxChannel

\* The connection of the gateway that views show settles: as long as the
\* gateway answered every question, "timeout" is not left behind once no
\* question is under way, however the questions overlapped.
ConnectionSettles ==
  ( /\ ~failed /\ InfoExists /\ stage[Boot] # "network"
    /\ \A t \in Threads : stage[t] \notin {"networkAsked", "deviceAsked"} )
  => link = "on"

\* Every command is answered or dropped, unless the process ends.
EveryCommandEnds ==
  \A m \in Msgs :
    stage[m] # "absent" ~> stage[m] \in Ended \/ proc = "crashed"
=============================================================================
