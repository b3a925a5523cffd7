# A verification project for the IoT-hub tunneling agent

The agent (`src/project_file/iothub_tunnelingagent`, below `agent/`) runs on a
gateway that cameras are registered with. It keeps MQTT links to a broker,
receives commands over them, asks the gateway and the cameras over HTTP
("SUNAPI") and publishes the answers. This directory holds TLA+ models of its
concurrent core, the TLC runs that check them and TLAPS proofs about them.

## Inventory

| part | where | state | operations |
|---|---|---|---|
| start-up | `main.cc`, `main_manager.cc`, `bridge_manager.cc`, `broker_manager.cc` | the mode, pointers to the managers | read the mode, start a thread per link; each thread reads the CA file, creates its client, connects; the bridge then creates the `sunapi_manager` |
| MQTT session | `mqtt/hummingbird_01/hummingbird.{h,cpp}`, `hummingbird_for_broker.*` | `conn_status`, `nretry_`, `lastConnectionTime`, topic lists | callbacks `on_success`, `on_failure`, `connection_lost`, `message_arrived`; `connect`, `reconnect` |
| MQTT interface | `mqtt/mqtt_interface*.cc`, topics in `hummingbird_topic*` | client, topic objects | set-up, replies: text replies and framed binary ones |
| MQTT managers | `mqtt_manager*.cc` | none | forward calls between interface and bridge/broker |
| bridge dispatch | `bridge_manager.cc` | `mAPI_manager_`, `mSUNAPI_manager_` | a detached thread per message; by topic: command, sunapi, http |
| views | `sunapi_manager.cpp` | per channel, a worker array and a published array for storage, device and firmware information, marks `update_check`, times of the last poll, `g_Max_Channel` | dashboard, deviceinfo and firmware views |
| gateway commands | `sunapi_manager.cpp` | `g_Max_Channel`, `g_Gateway_info_` | checkPassword, firmware update |
| tunneling | `api_manager.cc` | none between messages | relay an HTTP or SUNAPI request, answer text or framed bytes |

How they interact: the Paho library calls the callbacks of a link from one
thread; `message_arrived` of the bridge ends in `ReceiveMessageFromPeer`, which
starts a detached thread for the message. That thread may start worker threads
(one per channel) and a sender thread. All of them share the arrays of
`sunapi_manager` without a lock, and all of them end up in
`OnResponseCommandMessage`, which reads `conn_status` of the session. Both
links live in one process, so `exit` and an uncaught exception take both down.

What is hard: callbacks that make several library calls and may be hit by a
loss in between; a give-up clock that three callbacks write; replies that race
the session's callbacks; views whose requests, workers and senders overlap and
reset each other's marks; requests that are dropped half-way; commands that
arrive while the bridge is still starting. `PROJECT.json` lists these hazards
line by line, with the properties that watch them.

What makes each part correct:

* session: the status that replies rely on is false throughout an outage; after
  a recovery everything is restored; retries are paced; the process gives up on
  purpose only after a real outage of the given length; a reachable broker is
  served again.
* dashboard view: an undisturbed request is answered with what the cameras
  said, for every channel shown and in time, whatever earlier requests left
  behind; every request is answered; also what an overlapped request shows was
  current at some moment since it came.
* deviceinfo and firmware views: the same holds of the answers, although the
  workers of one write what the other shows and one waits for two marks; the
  list of latest firmware versions survives downloads that overlap or fail.
* gateway commands: no loop over the channels leaves an array although
  checkPassword changes their number at any time (with one exception, see
  GatewayCommands); an answer of checkPassword
  tells of its own password and of nothing older than its request; every
  command ends.
* tunneling: a SUNAPI request with a timeout is answered, one without holds up
  nobody; a binary answer can be taken apart.
* bridge dispatch: every message that is delivered is served, whatever the
  threads of earlier messages do.
* start-up: after the start nothing of it can end the process; no mode leaves a
  half-started agent.

## Modules

### AgentService

What the links promise, without saying how: a link is in service or not; the
process may exit on purpose only after some link has been out of service for
`GiveUp` seconds, and may fail only while some link is out of service.

### HummingbirdSession (with MCHummingbirdSession)

One action per callback or part of a callback between two library calls:
`MQTT_Start`, `on_failure` and `connection_lost` (both end in `reconnect` up to
its sleep), `RetryConnect` (`reconnect` after its sleep), `on_success`,
`SendPresence`, `SubscribeNext` (once per topic), `CallbackThrows`,
`FinishSuccess`, `message_arrived`, and for a reply `CheckStatus` and
`Publish`. `Drop`, `NetChange` and `Second` are the library's view of the
connection, the network and time.

`outage[l]` stands for `time(NULL) - lastConnectionTime` (`NotLost` for
`lastConnectionTime == 0`), `cb[l]` for the place of the library's thread in a
callback, `conn[l]` for the client's connection, which is external: "down" is
a loss that the library has not reported yet, "offline" one that it has,
"abandoned" a first `connect()` that threw. `unserved` is a history variable:
the real length of an outage, to compare the give-up clock with.

Assumed of Paho: one callback of a link at a time; every connect attempt ends
in `on_success` or `on_failure`; every loss of an established connection is
reported, after a callback that is still running; `publish` and `subscribe`
throw when the client is not connected. The sessions are clean
(`clean_session`), so a loss forgets the subscriptions.

### ViewService

What the bridge promises of a view command, without saying how: no marks, no
senders, no time. Items have a value (`data`) and a copy of it that is made at
any time, for whomever (`Copy`); whoever asks for an item (`questions`) first
puts "timeout" there (`Pose`) and then the answer (`Learn`). A request may read
the registration anew (`Refresh`), ask (`Poll`), and be answered (`Answer`) or
refused. An answer shows the copies of every item that the request wants of the
registered cameras, and each copy must be `fresh`: equal to the item's value at
some moment since the request came. A request that nothing else overlapped
(`alone`) is answered only when no question is under way and the copies are
what the items are.

### DashboardView (with MCDashboardView)

A request's thread (`Arrive`, `Register`, `RegisterFails`, `Decide`,
`StartPoll`, `PollChannel`, `Unpack`), its workers (`WorkerStart`,
`WorkerFinish`) and its sender (`ScanChannel` per channel, `CopyInfos`,
`Respond`, `ResetChecks`). `since` is the age of the last poll
(`g_UpdateTimeOfStorageStatus`), `checked[c]` is
`g_Worker_Storage_info_[c].update_check`, `found` and `store` the status in the
worker array and in the published one. A status is abstracted to the request
whose worker wrote it and to whether it is still the "timeout" that a worker
writes before it asks: what the cameras say does not matter to the threads.
`lastPoll` and `lone` are history variables.

### SubdeviceViews (with MCSubdeviceViews)

The deviceinfo and firmware views, which work as the dashboard does but share
`g_Worker_SubDevice_info_`: `PollNames` and `PollInterfaces` (deviceinfo) and
`PollVersions` (firmware) start workers of three kinds (`InfoStart`,
`NetStart`, `VersionStart`, ...`Finish`), and the senders wait for different
marks of different channels (`AllChecked`). `Init` is the end of
`SunapiManagerInit`, whose own poll of the interfaces is still running; its
workers belong to "boot". A loop over the channels is one step, since
`DashboardView` has the same loops channel by channel. A group of strings is
abstracted as in `DashboardView`: `name` is what both the deviceinfo and the
firmware workers write, `net` the interfaces.

### DashboardService and SubdeviceService (with MCDashboardService, MCSubdeviceViews)

The two view models as implementations of `ViewService`. The items of the
dashboard are the channels, those of the other views each channel's name,
interface and firmware version. `data` is what the workers' arrays hold, `copy`
what the published arrays hold, `questions` the workers that are started or
running, each standing for the items it writes (`Results`: a worker of the
firmware view writes the name as well). `Place` forgets everything of a
request's way except whether it is open, answered or over; `Wants` is what its
command shows, nothing if its fields are missing. `fresh` and, for the
deviceinfo and firmware views, `response` are history variables: `Watch` writes
them beside every step and restricts none.

### FirmwareList (with MCFirmwareList)

`fw_info.txt` and `g_vecFirmwareInfos`: a download empties the file (`Open`),
fills it through stdio's buffer (`Write`) and flushes the rest (`Close`) or
gives up without closing it (`Fail`); senders read what is there (`ReadList`),
also a line that is cut (`ReadCutLine`, undefined in the code). When views poll
is left open. A list is one version for all models, a line one model. Assumed
of the server: the page is the list (the code takes an HTTP error page for one,
too), and no list is published while a download is under way, so
overlapping downloads write the same bytes to the same places. A download that
was overtaken by a newer `fopen` goes on at its own offset, behind a hole of
zeros until the newer one has filled it; the model writes whole lines, and the
end is the same. Without the assumption about publishing, lines could mix, and `LastDownloadCompletesList` is only claimed with it.

### AgentStart (with MCAgentStart)

`main` with the switch of `StartMainManager`, the steps of the bridge's and the
broker's thread, and commands that arrive from the moment of connecting on and
use `mSUNAPI_manager_` and its arrays.

### GatewayCommands (with MCGatewayCommands)

The threads of command messages and the one in `SunapiManagerInit`, as far as
they touch what belongs to the gateway: `g_Max_Channel`, the channel arrays and
`g_Gateway_info_`. `stage` is where a thread is. The start goes through
`BootAttributes`, `BootInfo`, `BootAskNetwork`/`BootNetwork`, `AskDevice`/
`DeviceTold`, `BootFallback`, `BootAllocate` (three times) and `BootRegister`;
a checkPassword through `Attributes`, `AskDevice`/`DeviceTold` and `AnswerOk`;
a view or an update through `Register` and `ViewPolls`/`ViewSends`/`ViewAnswers` or
`UpdateAsks`/`UpdateAnswers`. A question to the gateway is two steps, and
`Outcomes` are the ways in which `CURL_Process` and the parsing of its result
end it. `device` stands for the model and version in `g_Gateway_info_`, with
the thread that wrote them, `link` for its `ConnectionStatus`; a thread that
uses `g_Gateway_info_` or an array before it exists ends the process (`Crash`;
that the start makes this possible is AgentStart's subject). A view reads
`g_Max_Channel` twice, for its workers (`ViewPolls`) and for its sender
(`ViewSends`). What the gateway makes of a checkPassword's password is one of
three `Verdicts`; all but "accepted" are answered 403, although the log calls
that a wrong password (`sunapi_manager.cpp:4193`). `verdict`,
`before` and `failed` are history variables. `Ends` is the rest of the process.

An answer that names no positive number of channels is answered 403, but the
0 is stored in `g_Max_Channel` first (0 stands for whatever `atoi` makes of
it). Until the next accepted checkPassword all loops over the channels are
empty. An array that `BootAllocate` makes meanwhile has one entry, and a later
accepted checkPassword lets loops run past it: `ArraysCoverChannels` excepts
those arrays (`size[a] > 1`), and the code has nothing against it.

Assumed of the gateway: whenever its attributes name a number of channels, it
is the same one, between 1 and `DEFAULT_MAX_CHANNEL`, and it lists no camera
above it. DashboardView and SubdeviceViews take `g_Max_Channel` as constant.

### Tunneling and HsonFrame

One thread per tunneled message: `Receive` is everything up to the request,
with what may be wrong with the message (`Flaws`); `SunapiReturns`,
`SunapiGarbled` and `HttpReturns` are the end of the request. "answered" means
handed to the MQTT interface, whose check and publish are in
HummingbirdSession. Where the code reads memory that was never set (a body that
is absent, a null body of a POST, an error beside the misspelt "Detatils") the
model chooses between a crash and going on. `HsonFrame` computes the two
offsets and the size of a binary answer from the sizes of its three parts, in
bytes of `Base` values: 256 in the code and in the proof, 4 for TLC. The size
is a `size_t` in `HttpTunnelingCommand` and an `int` from
`SendResponseToPeerForTunneling` (`bridge_manager.cc:375`) on: `AsInt`. Below
2^31 this changes nothing. Where the int is negative, `make_message` is asked
for a message of almost 2^64 bytes and throws in the message's thread
(`HttpThrows`; assumed of the library). From 2^32 on the int may be positive
again and the frame is cut to it: `FramesTakeApart` does not speak of those.
What the library makes of a message beyond MQTT's own limit is external.

### BridgeDispatch (with MCBridgeDispatch)

GatewayCommands and Tunneling in one process. `Deliver` is the broker,
`inbox` the library's queue of messages, whose thread calls
`ReceiveMessageFromPeer` for one after the other; `ThreadFunction` is
`thread_function_for_MQTTMsg`, which routes a message by its topic and goes on
until its first request. What was started then continues (`StartContinues`,
`CommandContinues`, `TunnelContinues`). Commands and tunnels share the queue
and `proc`. Assumed: a thread can always be created.

## Runs

| run | bounds | shows |
|---|---|---|
| `session_two_links` | bridge with 4 topics, broker with 2, one reply, `GiveUp` 2 s, pauses of 1..2 s | `TypeOK`, `StatusFalseInOutage`, `ServiceComplete`, `RetriesPaced`, `GiveUpOnlyAfterOutage`, `OutageClockNeverRestarted`, refinement of `AgentService` (`ServiceSpec`), `OutageResolves`, `ReachableBrokerServes` |
| `session_reply_loss` | the bridge and one reply | counterexample to `NoReplyThrows` |
| `session_resubscribe` | the bridge | counterexample to `RestoreAttempted` |
| `dashboard_marks` | 2 channels; a good request, a malformed one, one of another view; all times 1 s | `TypeOK`, `LoneAnswerComplete` |
| `dashboard_window` | 1 channel, 2 requests, all times 2 s | `LoneAnswerInTime`, `EveryRequestAnswered`, refinement of `ViewService` (`ViewServiceSpec`) |
| `views_marks` | 1 channel, 2 requests: deviceinfo or firmware with or without their fields, or another command; the poll of the start; a poll is recent within its second only, the other times 1 s | `TypeOK`, `LoneViewComplete`, `LoneViewInTime`, refinement of `ViewService` (`ViewServiceSpec`) |
| `list_downloads` | 3 views, 2 lines, 2 lists | `TypeOK`, `LastDownloadCompletesList`, `KnownModelsStayKnown` |
| `list_stale` | the same | counterexample to `LatestIsOfTheList` |
| `start_modes` | the three modes and one number on either side, 2 commands | `TypeOK`, `UpIsSafe`, `LinksComeUp` |
| `start_bad_mode` | the same | counterexample to `OutOfRangeStartsBoth` |
| `commands` | 2 commands of any kind and the start; the gateway has 2 channels, the default is 3 | `TypeOK`, `ArraysCoverChannels`, `PasswordAnswerFresh`, `OkMeansAccepted`, `ConnectionSettles`, `EveryCommandEnds` |
| `bridge` | 1 command, 1 tunneled message, in either order, the start; bytes of 4 values, sizes that cross every byte of an offset and both limits of the int | `BridgeTypeOK`, `FramesTakeApart`, `SunapiAnswered`, `EveryMessageServed` |

Why these bounds are enough. The session compares the outage with one number
only, so 1200 s and 2 s differ in how many retries fit; with pauses of 1..2 s
one or two retries fit into 2 s, and a pause may overshoot the limit. Clocks
saturate where the code no longer tells values apart. Two links suffice since
links meet only in the end of the process; the proofs hold for any number. For
the dashboard, two channels make the loop of the sender stop in the middle, and
three requests let one leave marks, one disturb them and one rely on them; the
three times are equal in the code (5 s) and stay equal here. The other views
have one channel: two exceed TLC's reach, what several channels do to a
sender's loop is `dashboard_marks`' subject, and the hazards of these views lie
in two kinds of marks and three kinds of workers on the same channel. Of the
messages without a version `views_marks` has the other command's only: the
version is read when the registration fails, for every command alike, and the
other fields of a command that is no view are not read. `UpdateTimeOut` is 0
there: a view that comes within the second of a poll takes the short way, one
that comes later polls, and a worker may still be at work in either case. The
refinements are checked with one channel, where an item has several workers and
several senders; the theorems hold for any number. Three
firmware views let one download empty the file under another that still writes
while a third reads. Two commands beside the start are what overlapping needs:
one overwrites what the other is about to read, and the start allocates
meanwhile; 0 and the two numbers of channels are all that `g_Max_Channel` can
hold, and the proofs hold for any number of commands. A tunneled message shares
nothing with another but the queue and the end of the process, and a command in
the same run waits behind it or ends it as well. The sizes of `bridge` give
frames of 127 and 128 bytes (2^31 - 1 and 2^31 with bytes of 256 values), frames
whose header ends in the last byte of an offset, and some beyond 256 (2^32) that
are cut or negative. `views_marks` and `list_downloads` use the symmetry of
requests, which no step compares and no liveness property is checked with; the
other runs use none.

No run checks for deadlock: the process may end, and each message is used once.

Fairness. `session_two_links`: the callbacks of a link (the library's thread
runs), `Drop` (keep-alive notices a broken connection) and `Second`; nothing is
assumed of the network or of messages. `dashboard_window`: threads that were
started run, and time passes. `start_modes`: the three threads run. `commands`
and `bridge`: threads that were started run (in `bridge` also the library's,
which starts them), and a request ends because
`CURLOPT_TIMEOUT` is set, except for a "cameradiscovery", of which nothing is
assumed. All of it is weak fairness, which a fair thread scheduler gives.

## Findings

* `session_reply_loss`: `OnResponseCommandMessage` checks the status ("The
  connection was lost ... -> return", `mqtt_interface.cc:480`) and publishes
  later. A loss in between, or one that is not reported yet, lets `publish`
  throw in a detached thread, which ends the process.
* `session_resubscribe`: the class comment (`hummingbird.h:65`) promises that a
  lost connection is restored and subscribed again; a loss during `on_success`
  instead ends the process through an exception in the callback.
* `list_stale`: "reset LatestFirmwareVersion and then update ..."
  (`sunapi_manager.cpp:3077`) takes the first match in a vector that every
  reading of the list only appends to: a newer list never shows.
* `start_bad_mode`: `main.cc:209` tests for a mode both below 0 and above 2, so
  a mode out of range starts nothing instead of both links.

## Proofs

`HummingbirdSession_proofs` proves, for every set of links, every number of
topics and every `GiveUp` and `MaxBackoff` greater than 0
(`LinksAssumption`): `TypeCorrect`, `StatusCorrect`, `ServiceCorrect`,
`RetriesCorrect`, `GiveUpCorrect`, `ClockCorrect` and `Refinement`, that is
every property of `session_two_links` but the two liveness properties.

The inductive invariant is `IInv`. `TypeOK` alone says nothing of how the
variables go together, so `SessionInv` ties the place in a callback to the
connection, the subscriptions made so far, the status and the clock (for
example: in "finish" on a live connection every topic is subscribed), and
`ClockInv` ties the three counters: retries so far, seconds left of the pause,
and the seconds without service, which are at least the seconds of the outage.
`NextIInv` has one step per action; what `on_failure` and `connection_lost`
share is the lemma about `NoticeLoss`. `GiveUpOnlyAfterOutage` needs a step of
its own because the invariant about running links says nothing of a process
that has ended (`GiveUpStep`). The refinement is proved step by step: every
action is an action of `AgentService` or leaves its variables alone
(`QuietStep`, `NextRefines`).

`GatewayCommands_proofs` proves the five invariants of `commands` for any set
of messages, any number of channels and any default that is not smaller
(`GatewayAssumption`). None but `ConnectionSettles` is inductive. `BootInv`
ties the number of arrays to the place of the start; `ArraysInv` adds that an
array of more than one entry is also longer than the gateway's own number, which
`g_Max_Channel` falls back to when a password is accepted; `AcceptedInv` is what a checkPassword
knows between its first request and its answer; `FreshInv` says that threads
that have ended stay so, and that what a message has asked for can since only
have been overwritten by its contemporaries. The steps with many outcomes are
summarised once (`ArriveEffect`, `AttributesEffect`, `RegisterEffect`).

`BridgeDispatch_proofs` shows that the bridge implements GatewayCommands
(`CommandsBeside`) and Tunneling (`TunnelsBeside`), each of which sees the other
as `Ends`: what is proved of the parts holds of the whole. `CommandsSafeBeside`
draws that conclusion for the five invariants of the gateway commands; for this
the module takes over `GatewayCommands_proofs`. With it, it proves the types of
the bridge (`BridgeTyped`) and `FramesTakeApart` for bytes of 256 values and
parts of any sizes (`FramesReadable`): four bytes hold a number below 2^32
(`NumberOfBytes`), hence a frame is taken apart (`FrameTakesApart`); a size below
2^32 that is not negative as an int is the int (`IntOfSize`); and only such
frames are sent (`TunnelInv`).

`DashboardView_proofs` proves `TypeCorrect`, `LoneComplete` and `LoneInTime` for
any number of channels and requests and all timeouts with CURL_TIMEOUT <=
WAIT_TIMEOUT (`DashboardAssumption`; both are 5 s). `SharedInv` holds whatever
overlaps: a "timeout" that a worker writes beforehand stays only while the
worker asks, and workers are started by their request's loop only. The rest
(`LoneInv`) is about a request that nothing overlaps, from its poll to its
answer: the mark and the status of every channel polled are its own worker's
(`PollInv`), a camera that is still asked has been asked for longer than the
sender has waited (`TimeInv`, hence `SlowestWorker`: no timeover), and what the
sender has passed stays checked (`SenderInv`). A step of another request cannot
disturb this, because there is none while the request is busy (`OthersRest`).
`LoneComplete` speaks of every channel shown, also of those that the last poll
left out: once the sender has copied, no worker is left (`SenderInv`), hence by
`SharedInv` no channel still says "timeout".
`DashboardServes` shows that the view implements `ViewService`, step by step:
every action maps to one of the service's, and a change of the published array
to `Copy`. `ServedInv` adds that a request about to respond has a fresh copy of
every channel: its own sender copied the array last, or another one did since,
and either copy is of the whole array (`CopyStep`).

`SubdeviceViews_proofs` proves the same of the device information and firmware
views (`TypeCorrect`, `LoneComplete`, `LoneInTime`), along the same argument.
What is new: a poll has up to three kinds of workers (`Polled`, `Asks`), firmware
workers write the names that the device information shows, so a name that says
"timeout" has one of two kinds of workers behind it (`SharedInv`); and the workers
of the start belong to no request, which is why `Alone` is about all owners. What
a worker that begins or ends does is stated once (`Writes`, `Begins`, `Ends`).

`SubdeviceViewsServe` shows that these views implement `ViewService` too. Beside
the invariant above it rests on four facts: an owner starts workers of its
command's kinds only (`KindInv`) and one per kind and channel (`OnceInv`), so
that the end of a worker takes away exactly the questions that it stands for; a
request that nothing overlaps responds when no worker is left and all that it
wants has been copied (`RestInv`), marks of both kinds notwithstanding; and a
request that responds has fresh copies, whoever has copied since (`AnswerInv`).

`ViewService_proofs` shows what the two refinements buy, for any requests,
items and starters: a "timeout" stands only while somebody is asking
(`EveryPendingIsAsked`); a request that was alone is shown answers only
(`AloneGetsAnswers`); and no answer shows a value that its item has not had
since the request came (`AnswersAreCurrent`, with a history `seen` of all
values, so that `fresh` is not taken at its word).

`FirmwareList_proofs` proves `TypeCorrect`, `LastCompletes` and
`ModelsStayKnown` for any number of views, lines and published lists.
`DownloadInv` says that since the file was emptied last only the version of the
download that did so has been written, because every download that is still
open brings the same list: `Open`'s assumption about publishing. The action
property needs that a set of places that is not empty has a first one
(`FirstPlace`), from the well-founded order of the library.

`AgentStart_proofs` proves `TypeCorrect` and `UpStaysUp` for any arguments and
any commands: `BridgeInv` ties the place of the bridge's start to what exists.

Only model-checked: all liveness properties (`OutageResolves`,
`ReachableBrokerServes`, `EveryRequestAnswered`, `LinksComeUp`,
`EveryCommandEnds`, `SunapiAnswered`, `EveryMessageServed`), because the prover has no rule for
ENABLED, on which weak fairness rests. Every other property of a passing run is
stated by a theorem.

## Not modelled

`mqtt_manager*.cc` (forwards only); `config_manager` and
`NetworkAdapter_manager` (not in the repository);
`processing_for_dashboard_command.cc`, `ssl_publish.cpp`, `ssl_sub.cpp`,
`hummingbird_curl_*` (not built or not called); the third-party headers. JSON
texts, logging and the layout of responses are abstracted.

In the views, what a camera answers is not told apart, and a data race on a `std::string` or on the vector of list entries
is not modelled: each is written in one step. A wall clock that is set, and the
counters that are only printed, are left out.

Of the gateway commands, the file that holds the gateway's address and password
(`GetDeviceIP_PW`) is read once by the start and left out, and so is
`curl_global_init`/`curl_global_cleanup`, which every request calls in its own
thread: libcurl's count of users is external. A gateway that lists a camera
above its own number of channels would be written past the arrays, which the
assumption of GatewayCommands excludes. The parsing of topics and
`SendToMQTT` of the MQTT interface are not modelled.

## Plan

1. The parts of liveness that are safety: for each liveness property a measure
   that every step of the scheduler lowers and no other step raises, proved as
   an action property beside the check of the property itself.
2. The MQTT interface's `SendToMQTT` and the parsing of topics, as one more
   component in front of BridgeDispatch.
3. Clocks that are set while the session measures an outage, and readings of
   `g_vecFirmwareInfos` that overlap.
