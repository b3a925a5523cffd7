-------------------------- MODULE AgentStart_proofs --------------------------
(***************************************************************************)
(* The start-up for any arguments and any commands.                        *)
(***************************************************************************)
EXTENDS AgentStart, TLAPS

\* What the bridge's place in the start says: nothing has been started before
\* main has run, Init_MQTT has read a path when it is passed, and the
\* sunapi_manager comes with the last two steps.
BridgeInv ==
  /\ agent_mode = Undecided => bridge = "off"
  /\ bridge \in {"start", "create", "probe", "up"} => caFile = "path"
  /\ bridge = "up" => sunapi = "ready"

IInv == TypeOK /\ BridgeInv

LEMMA InitIInv == Init => IInv
BY DEF Init, IInv, TypeOK, BridgeInv, BridgeStages, BrokerStages, CommandStates

LEMMA ModeType == ASSUME NEW n \in Arguments \cup {NoArgument}
                  PROVE  ModeOf(n) \in Arguments \cup {0, 2} /\ ModeOf(n) # Undecided
BY StartAssumption DEF ModeOf, NoArgument, Undecided

LEMMA NextIInv == IInv /\ [Next]_vars => IInv'
<1> SUFFICES ASSUME IInv, [Next]_vars PROVE IInv'
  OBVIOUS
<1> USE DEF IInv, TypeOK, BridgeInv, BridgeStages, BrokerStages
<1>1. CASE main
  BY <1>1, ModeType DEF main
<1>2. CASE BridgeConfig
  BY <1>2 DEF BridgeConfig
<1>3. CASE BridgeInit
  BY <1>3 DEF BridgeInit
<1>4. CASE BridgeStart
  BY <1>4 DEF BridgeStart
<1>5. CASE BridgeCreate
  BY <1>5 DEF BridgeCreate
<1>6. CASE SunapiManagerInit
  BY <1>6 DEF SunapiManagerInit
<1>7. CASE BrokerInit
  BY <1>7 DEF BrokerInit
<1>8. CASE BrokerStart
  BY <1>8 DEF BrokerStart
<1>9. ASSUME NEW m \in Commands, CommandArrives(m) PROVE IInv'
  BY <1>9 DEF CommandArrives, CommandStates
<1>10. ASSUME NEW m \in Commands, CommandReads(m) PROVE IInv'
  BY <1>10 DEF CommandReads, CommandStates, Crash
<1>11. ASSUME NEW m \in Commands, CommandWrites(m) PROVE IInv'
  BY <1>11 DEF CommandWrites, CommandStates, Crash
<1>12. CASE UNCHANGED vars
  BY <1>12 DEF vars
<1> QED
  BY <1>1, <1>2, <1>3, <1>4, <1>5, <1>6, <1>7, <1>8, <1>9, <1>10, <1>11, <1>12
     DEF Next, Bridge, Broker

\* The invariant holds from the first argument to the last command.
THEOREM Invariance == Spec => []IInv
BY InitIInv, NextIInv, PTL DEF Spec

\* Type correctness: no mode but one of the arguments, 0 or 2.
THEOREM TypeCorrect == Spec => []TypeOK
<1>1. IInv => TypeOK
  BY DEF IInv
<1> QED
  BY Invariance, <1>1, PTL

\* No step of the start, of the broker's thread or of a command ends the
\* process once the bridge is up.
THEOREM UpStaysUp == Spec => UpIsSafe
<1>1. IInv /\ [Next]_vars =>
        (bridge = "up" /\ proc = "running" => proc' = "running")
  <2> SUFFICES ASSUME IInv, [Next]_vars, bridge = "up", proc = "running"
               PROVE  proc' = "running"
    OBVIOUS
  <2>1. agent_mode # Undecided /\ caFile = "path" /\ sunapi = "ready"
    BY DEF IInv, BridgeInv
  <2>2. CASE main \/ Bridge
    BY <2>1, <2>2 DEF main, Bridge, BridgeConfig, BridgeInit, BridgeStart,
       BridgeCreate, SunapiManagerInit
  <2>3. CASE Broker
    BY <2>1, <2>3 DEF Broker, BrokerInit, BrokerStart
  <2>4. ASSUME NEW m \in Commands, CommandArrives(m) \/ CommandReads(m) \/ CommandWrites(m)
        PROVE  proc' = "running"
    BY <2>1, <2>4 DEF CommandArrives, CommandReads, CommandWrites
  <2>5. CASE UNCHANGED vars
    BY <2>5 DEF vars
  <2> QED
    BY <2>2, <2>3, <2>4, <2>5 DEF Next
<1>2. IInv /\ [Next]_vars =>
        [bridge = "up" /\ proc = "running" => proc' = "running"]_vars
  BY <1>1
<1> QED
  BY Invariance, <1>2, PTL DEF Spec, UpIsSafe
=============================================================================
