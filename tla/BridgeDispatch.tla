---------------------------- MODULE BridgeDispatch ----------------------------
(***************************************************************************)
(* The bridge's messages (bridge_manager.cc).  The thread of the MQTT      *)
(* library calls ReceiveMessageFromPeer for one message after the other,   *)
(* which starts a detached thread for it.  By its topic that thread goes   *)
(* to the sunapi_manager (GatewayCommands) or to the APIManager            *)
(* (Tunneling).  All threads live in one process, which a crash of any of  *)
(* them ends.  Init is the bridge right after it created the               *)
(* sunapi_manager; what a command does before that is in AgentStart.       *)
(***************************************************************************)
EXTENDS GatewayCommands, Sequences

CONSTANTS Tunnels, Base, MessageSizes, HeaderSizes, BodySizes

ASSUME BridgeAssumption == Msgs \cap Tunnels = {}

VARIABLES
  tunnel, sent,  \* of Tunneling
  inbox,         \* messages that arrived, in the library's queue
  started        \* messages whose thread was started

T == INSTANCE Tunneling

tunnelVars == <<tunnel, sent>>
inboxVars == <<inbox, started>>
bridgeVars == <<vars, tunnelVars, inboxVars>>

Messages == Msgs \cup Tunnels
Waits(m) == \E i \in 1..Len(inbox) : inbox[i] = m

BridgeInit == Init /\ T!Init /\ inbox = <<>> /\ started = {}

\* The broker delivers a message.
Deliver(m) ==
  /\ m \notin started /\ ~Waits(m)
  /\ inbox' = Append(inbox, m)
  /\ UNCHANGED <<vars, tunnelVars, started>>

\* The thread of a message is done.
Over(m) ==
  \/ m \in Msgs /\ stage[m] \in Ended
  \/ m \in Tunnels /\ tunnel[m] \in {"answered", "dropped", "silent"}

\* Mutant: the thread is joined, so that the next message waits for its end.
ReceiveMessageFromPeerJoins ==
  /\ inbox # <<>>
  /\ \A m \in started : Over(m)
  /\ inbox' = Tail(inbox)
  /\ started' = started \cup {Head(inbox)}
  /\ UNCHANGED <<vars, tunnelVars>>

\* The library's callback: ThreadStartForMQTTMsg starts a thread and does not
\* wait for it.
ReceiveMessageFromPeer ==
  /\ inbox # <<>>
  /\ inbox' = Tail(inbox)
  /\ started' = started \cup {Head(inbox)}
  /\ UNCHANGED <<vars, tunnelVars>>

\* thread_function_for_MQTTMsg up to the first request of a message.
ThreadFunction(m) ==
  /\ m \in started
  /\ \/ m \in Msgs /\ Arrive(m) /\ UNCHANGED tunnelVars
     \/ /\ m \in Tunnels
        /\ \/ \E r \in T!Requests, flaw \in T!Flaws : T!Receive(m, r, flaw)
           \/ T!Ignore(m)
        /\ UNCHANGED commandVars
  /\ UNCHANGED inboxVars

\* What was started goes on.
StartContinues == BootStep /\ UNCHANGED <<tunnelVars, inboxVars>>
CommandContinues(m) == MessageStep(m) /\ UNCHANGED <<tunnelVars, inboxVars>>
TunnelContinues(m) == T!Returns(m) /\ UNCHANGED <<commandVars, inboxVars>>

BridgeNext ==
  /\ proc = "running"
  /\ \/ \E m \in Messages : Deliver(m) \/ ThreadFunction(m)
     \/ ReceiveMessageFromPeer
     \/ StartContinues
     \/ \E m \in Msgs : CommandContinues(m)
     \/ \E m \in Tunnels : TunnelContinues(m)

BridgeSpec == BridgeInit /\ [][BridgeNext]_bridgeVars

\* The library's thread and the threads that were started run, and every
\* request ends within its timeout: one without a timeout may take for ever.
BridgeFairness ==
  /\ WF_bridgeVars(proc = "running" /\ ReceiveMessageFromPeer)
  /\ \A m \in Messages : WF_bridgeVars(proc = "running" /\ ThreadFunction(m))
  /\ WF_bridgeVars(StartContinues)
  /\ \A m \in Msgs : WF_bridgeVars(CommandContinues(m))
  /\ \A m \in Tunnels :
       WF_bridgeVars(/\ proc = "running" /\ tunnel[m] # "discovery"
                     /\ TunnelContinues(m))

FairBridgeSpec == BridgeSpec /\ BridgeFairness

-----------------------------------------------------------------------------
(* Properties of the tunnels, see Tunneling, and of the whole.             *)

\* The types of the tunnels and of the library's queue.
BridgeTypeOK ==
  /\ T!TypeOK
  /\ inbox \in Seq(Messages)
  /\ started \subseteq Messages

FramesTakeApart == T!FramesTakeApart
SunapiAnswered == T!SunapiAnswered

\* Every message that the broker delivers is served to its end, whatever came
\* before it: a "cameradiscovery" that waits for ever holds up its own thread
\* and no other message, command or tunnel.
EveryMessageServed ==
  \A m \in Messages :
    Waits(m) ~> \/ Over(m) \/ proc = "crashed"
                \/ m \in Tunnels /\ tunnel[m] = "discovery"
=============================================================================
