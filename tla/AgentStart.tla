----------------------------- MODULE AgentStart -----------------------------
(***************************************************************************)
(* How the process comes up: main() reads the mode, MainManager starts a   *)
(* thread for the bridge, the broker or both, and these read the CA file,  *)
(* create their MQTT client and connect it.  The bridge connects before it *)
(* creates the sunapi_manager that its command messages are handed to, so  *)
(* commands run while it is still missing or half initialised.             *)
(*                                                                         *)
(* What happens on the links afterwards is HummingbirdSession.             *)
(***************************************************************************)
EXTENDS Integers

CONSTANTS Arguments,  (* the numbers argv[1] may stand for                 *)
          Commands    (* "command" messages of the bridge, each used once  *)

VARIABLES
  argument,    \* argv[1], or NoArgument
  agent_mode,  \* main's variable, or Undecided
  caFile,      \* external: what config/ca-file_info.cfg holds
  bridge,      \* where StartBridgeManager is
  broker,      \* where StartBrokerManager is
  sunapi,      \* mSUNAPI_manager_: null, created or with its channel arrays
  command,     \* the threads of command messages
  proc         \* how the process stands

vars == <<argument, agent_mode, caFile, bridge, broker, sunapi, command, proc>>

NoArgument == -1000
Undecided == -1001

ASSUME StartAssumption == /\ Arguments \subseteq Int
                          /\ Arguments \cap {NoArgument, Undecided} = {}

BridgeStages == {"off", "config", "init", "start", "create", "probe", "up"}
BrokerStages == {"off", "init", "start", "up"}
CommandStates ==
  {"absent", "arrived", "asking", "answered", "ignored", "crashed"}

\* The CA file has a path, or is JSON without one, or there is none.  One
\* that is no JSON counts as a file with a path: CA_FILE_PATH is used.
CAFiles == {"path", "noPath", "missing"}

Init ==
  /\ argument \in Arguments \cup {NoArgument}
  /\ agent_mode = Undecided
  /\ caFile \in CAFiles
  /\ bridge = "off" /\ broker = "off"
  /\ sunapi = "null"
  /\ command = [m \in Commands |-> "absent"]
  /\ proc = "running"

Running == proc = "running"

-----------------------------------------------------------------------------
\* Mutant: agent_mode is left alone when there is no argument.
ModeOfUnset(n) == n

\* Without an argument the mode is 2.  The test for a mode that is out of
\* range asks for a number both below 0 and above 2.
ModeOf(n) ==
  IF n = NoArgument THEN 2
  ELSE IF n < 0 /\ n > 2 THEN 0 ELSE n

\* main() up to its endless loop, with StartMainManager's switch.
main ==
  /\ Running /\ agent_mode = Undecided
  /\ agent_mode' = ModeOf(argument)
  /\ bridge' = IF agent_mode' \in {0, 1} THEN "config" ELSE "off"
  /\ broker' = IF agent_mode' \in {0, 2} THEN "init" ELSE "off"
  /\ UNCHANGED <<argument, caFile, sunapi, command, proc>>

\* GetConfigModelDevice (not in this repository) is asked for the identity;
\* the server is localhost in every case.
BridgeConfig ==
  /\ Running /\ bridge = "config"
  /\ bridge' = "init"
  /\ UNCHANGED <<argument, agent_mode, caFile, sunapi, broker, command, proc>>

\* BridgeManager::Init_MQTT, and exit(1) when it returns false.
BridgeInit ==
  /\ Running /\ bridge = "init"
  /\ IF caFile = "path"
     THEN bridge' = "start" /\ UNCHANGED proc
     ELSE proc' = "exit1" /\ UNCHANGED bridge
  /\ UNCHANGED <<argument, agent_mode, caFile, sunapi, broker, command>>

\* Start_MQTT: from here on commands may arrive.
BridgeStart ==
  /\ Running /\ bridge = "start"
  /\ bridge' = "create"
  /\ UNCHANGED <<argument, agent_mode, caFile, sunapi, broker, command, proc>>

\* Mutant: SunapiManagerInit gets a thread of its own.
BridgeCreateDetached ==
  /\ Running /\ bridge = "create"
  /\ sunapi' = "created"
  /\ bridge' = "up"
  /\ UNCHANGED <<argument, agent_mode, caFile, broker, command, proc>>

\* make_unique<sunapi_manager>.
BridgeCreate ==
  /\ Running /\ bridge = "create"
  /\ sunapi' = "created"
  /\ bridge' = "probe"
  /\ UNCHANGED <<argument, agent_mode, caFile, broker, command, proc>>

\* SunapiManagerInit asks the gateway and then allocates the channel arrays.
SunapiManagerInit ==
  /\ Running /\ bridge = "probe"
  /\ sunapi' = "ready"
  /\ bridge' = "up"
  /\ UNCHANGED <<argument, agent_mode, caFile, broker, command, proc>>

\* Mutant: without a path the broker's thread returns.
BrokerInitReturns ==
  /\ Running /\ broker = "init"
  /\ broker' = IF caFile = "path" THEN "start" ELSE "off"
  /\ UNCHANGED <<argument, agent_mode, caFile, sunapi, bridge, command, proc>>

\* BrokerManager::Init_MQTT does not fail without a path, but it releases the
\* JSON object of such a file twice, which may end the process.
BrokerInit ==
  /\ Running /\ broker = "init"
  /\ \/ broker' = "start" /\ UNCHANGED proc
     \/ caFile = "noPath" /\ proc' = "crashed" /\ UNCHANGED broker
  /\ UNCHANGED <<argument, agent_mode, caFile, sunapi, bridge, command>>

BrokerStart ==
  /\ Running /\ broker = "start"
  /\ broker' = "up"
  /\ UNCHANGED <<argument, agent_mode, caFile, sunapi, bridge, command, proc>>

-----------------------------------------------------------------------------
\* message_arrived starts a thread, which runs process_command.
CommandArrives(m) ==
  /\ Running /\ bridge \in {"create", "probe", "up"}
  /\ command[m] = "absent"
  /\ command' = [command EXCEPT ![m] = "arrived"]
  /\ UNCHANGED <<argument, agent_mode, caFile, sunapi, bridge, broker, proc>>

Crash(m) ==
  /\ command' = [command EXCEPT ![m] = "crashed"]
  /\ proc' = "crashed"

\* Payload that is no JSON is dropped before mSUNAPI_manager_ is used; else
\* the address of the gateway is read from it.
CommandReads(m) ==
  /\ Running /\ command[m] = "arrived"
  /\ \/ command' = [command EXCEPT ![m] = "ignored"] /\ UNCHANGED proc
     \/ IF sunapi = "null"
        THEN Crash(m)
        ELSE command' = [command EXCEPT ![m] = "asking"] /\ UNCHANGED proc
  /\ UNCHANGED <<argument, agent_mode, caFile, sunapi, bridge, broker>>

\* The gateway's answer is written to the channel arrays, if it answers.
CommandWrites(m) ==
  /\ Running /\ command[m] = "asking"
  /\ \/ command' = [command EXCEPT ![m] = "answered"] /\ UNCHANGED proc
     \/ sunapi = "created" /\ Crash(m)
  /\ UNCHANGED <<argument, agent_mode, caFile, sunapi, bridge, broker>>

-----------------------------------------------------------------------------
Bridge == BridgeConfig \/ BridgeInit \/ BridgeStart \/ BridgeCreate
          \/ SunapiManagerInit

Broker == BrokerInit \/ BrokerStart

Next ==
  \/ main \/ Bridge \/ Broker
  \/ \E m \in Commands :
       CommandArrives(m) \/ CommandReads(m) \/ CommandWrites(m)

Spec == Init /\ [][Next]_vars

FairSpec == Spec /\ WF_vars(main) /\ WF_vars(Bridge) /\ WF_vars(Broker)

-----------------------------------------------------------------------------
(* Properties.                                                             *)

TypeOK ==
  /\ argument \in Arguments \cup {NoArgument}
  /\ agent_mode \in Arguments \cup {0, 2, Undecided}
  /\ caFile \in CAFiles
  /\ bridge \in BridgeStages /\ broker \in BrokerStages
  /\ sunapi \in {"null", "created", "ready"}
  /\ command \in [Commands -> CommandStates]
  /\ proc \in {"running", "exit1", "crashed"}

\* Once StartBridgeManager has returned, nothing of the start-up ends the
\* process any more: no command finds the sunapi_manager or its arrays
\* missing, and the broker's thread, which in mode 0 reads the same CA file,
\* cannot get to its double release.
UpIsSafe ==
  [][bridge = "up" /\ proc = "running" => proc' = "running"]_vars

\* Every link of a mode from 0 to 2 is started, or the process ends: no
\* half-started agent runs on with one of its links missing.
LinksComeUp ==
  /\ agent_mode \in {0, 1} ~> bridge = "up" \/ proc # "running"
  /\ agent_mode \in {0, 2} ~> broker = "up" \/ proc # "running"

\* main.cc: an agent_mode out of range becomes 0, "test -> bridge & broker
\* mode".
OutOfRangeStartsBoth ==
  agent_mode # Undecided /\ argument \notin (0..2) \cup {NoArgument} =>
    bridge # "off" /\ broker # "off"
=============================================================================
