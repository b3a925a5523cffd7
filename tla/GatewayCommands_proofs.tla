----------------------- MODULE GatewayCommands_proofs -----------------------
(***************************************************************************)
(* The invariants of GatewayCommands, for any messages and any number of   *)
(* channels up to the default.                                             *)
(***************************************************************************)
EXTENDS GatewayCommands, TLAPS

\* Before the arrays: SunapiManagerInit has not begun to allocate them.
BeforeArrays == {"attributes", "info", "network", "networkAsked", "device",
                 "deviceAsked", "fallback"}

\* Where the bridge's thread can be, and how many arrays there are then.
BootInv ==
  /\ stage[Boot] \in BeforeArrays \cup {"alloc", "register", "up"}
  /\ stage[Boot] \in BeforeArrays => arrays = 0
  /\ stage[Boot] = "alloc" => arrays < Firmware

\* Every array of more than one entry has room for the number that the gateway
\* says, too: this is what g_Max_Channel falls back to when a checkPassword is
\* accepted.
ArraysInv ==
  /\ \A a \in Arrays : a <= arrays /\ size[a] > 1 =>
       size[a] > g_Max_Channel /\ size[a] > MaxChannel
  /\ \A m \in Msgs : stage[m] \in {"send", "shown"} =>
       /\ Needs(kind[m]) <= arrays
       /\ \A a \in Arrays : a <= Needs(kind[m]) /\ size[a] > 1 => size[a] > maxCh[m]

\* What a checkPassword knows from GetMaxChannelByAttribute to its answer.
AcceptedInv ==
  \A m \in Msgs :
    /\ stage[m] \in {"device", "deviceAsked", "answer"} =>
         verdict[m] = "accepted" /\ maxCh[m] = MaxChannel
    /\ reply[m].code = "200" =>
         /\ stage[m] = "answered" /\ verdict[m] = "accepted"
         /\ reply[m].channels = MaxChannel

\* A thread that has ended writes no more, so that what a message has asked
\* for can only be overwritten by its contemporaries.
FreshInv ==
  \A m \in Msgs :
    /\ \A t \in before[m] : t \in Threads /\ stage[t] \in Ended
    /\ stage[m] \in {"deviceAsked", "answer"} => device.by \notin before[m]
    /\ reply[m].code = "200" => reply[m].shows.by \notin before[m]
-----------------------------------------------------------------------------
LEMMA NothingType == Nothing \in Facts
BY DEF Nothing, NoAnswer, Facts, Threads

LEMMA TypeInit == Init => TypeOK /\ BootInv
<1> SUFFICES ASSUME Init PROVE TypeOK /\ BootInv
  OBVIOUS
<1>1. stage \in [Threads -> Stages] /\ stage[Boot] = "attributes"
  BY DEF Init, Threads, Stages
<1>2. kind \in [Msgs -> Kinds] /\ maxCh \in [Msgs -> Nat]
  BY DEF Init, Kinds
<1>3. size \in [Arrays -> Nat] /\ arrays = 0 /\ arrays \in 0..Firmware
  <2>1. size \in [Arrays -> Nat]
    BY DEF Init
  <2>2. arrays = 0
    BY DEF Init
  <2> QED
    BY <2>1, <2>2 DEF Firmware
<1>4. device \in Facts /\ link \in Links
  BY DEF Init, Facts, Links, Threads
<1>5. reply \in [Msgs -> [code : Codes, channels : Nat, shows : Facts]]
  BY NothingType DEF Init, NoAnswer, Codes, Nothing
<1>6. verdict \in [Msgs -> Verdicts \cup {"none"}] /\ failed \in BOOLEAN
  BY DEF Init
<1>7. before \in [Msgs -> SUBSET Threads]
  BY DEF Init
<1>8. proc \in {"running", "crashed"} /\ g_Max_Channel = 0
  BY DEF Init
<1>9. TypeOK
  BY <1>1, <1>2, <1>3, <1>4, <1>5, <1>6, <1>7, <1>8 DEF TypeOK
<1> QED
  BY <1>1, <1>3, <1>9 DEF BootInv, BeforeArrays

LEMMA AfterRegisterType == ASSUME NEW k PROVE AfterRegister(k) \in Stages
BY DEF AfterRegister, Stages, Ended

LEMMA TypeNext == TypeOK /\ BootInv /\ [Next]_vars => TypeOK'
<1> SUFFICES ASSUME TypeOK, BootInv, [Next]_vars PROVE TypeOK'
  OBVIOUS
<1> USE GatewayAssumption DEF TypeOK, Threads
<1>1. CASE BootAttributes
  BY <1>1 DEF Stages, BootAttributes, Goes
<1>2. CASE BootInfo
  BY <1>2 DEF Stages, Facts, Links, BootInfo, Goes
<1>3. CASE BootAskNetwork
  BY <1>3 DEF Stages, Links, BootAskNetwork, Goes
<1>4. CASE BootNetwork
  BY <1>4 DEF Stages, Links, BootNetwork, Goes, Outcomes, Linked
<1>5. ASSUME NEW t \in Threads, AskDevice(t) PROVE TypeOK'
  <2>1. CASE InfoExists
    <3>1. device' = [by |-> t, what |-> "timeout"] /\ link' = "timeout"
      BY <1>5, <2>1 DEF AskDevice
    <3>2. device' \in Facts /\ link' \in Links
      BY <3>1 DEF Facts, Links
    <3>3. stage' \in [Threads -> Stages]
      BY <1>5, <2>1 DEF AskDevice, Goes, Stages, Ended
    <3> QED
      BY <1>5, <2>1, <3>2, <3>3 DEF AskDevice
  <2>2. CASE ~InfoExists
    BY <1>5, <2>2 DEF AskDevice, Crash, commandVars
  <2> QED
    BY <2>1, <2>2
<1>6. ASSUME NEW t \in Threads, DeviceTold(t) PROVE TypeOK'
  <2> PICK o \in Outcomes :
        /\ device' = IF o = "timeout" THEN device
                     ELSE [by |-> t, what |-> IF o = "unreadable" THEN "" ELSE o]
        /\ link' = IF o = "timeout" THEN link ELSE Linked(o)
        /\ failed' = (failed \/ Linked(o) # "on")
        /\ AfterDevice(t, o)
    BY <1>6 DEF DeviceTold
  <2>1. device' \in Facts /\ link' \in Links
    BY DEF Facts, Links, Outcomes, Linked
  <2>2. failed' \in BOOLEAN
    OBVIOUS
  <2>3. stage' \in [Threads -> Stages]
    BY <1>6 DEF DeviceTold, AfterDevice, Goes, Stages, Ended
  <2> QED
    BY <1>6, <2>1, <2>2, <2>3 DEF DeviceTold
<1>7. CASE BootFallback
  BY <1>7 DEF Stages, Facts, BootFallback, Goes
<1>8. CASE BootAllocate
  BY <1>8 DEF Stages, BootInv, Arrays, Storage, Firmware, BootAllocate, Goes
<1>9. CASE BootRegister
  BY <1>9 DEF Stages, Ended, BootRegister, Goes
<1>10. ASSUME NEW m \in Msgs, Arrive(m) PROVE TypeOK'
  <2>1. stage' \in [Threads -> Stages]
    BY <1>10 DEF Arrive, Goes, Answers, Stages, Ended
  <2>2. kind' \in [Msgs -> Kinds] /\ before' \in [Msgs -> SUBSET Threads]
    BY <1>10 DEF Arrive
  <2>3. \/ reply' = reply
        \/ reply' = [reply EXCEPT ![m] = [code |-> "600", channels |-> 0, shows |-> Nothing]]
    BY <1>10 DEF Arrive, Answers
  <2>4. reply' \in [Msgs -> [code : Codes, channels : Nat, shows : Facts]]
    BY <2>3, NothingType DEF Codes
  <2> QED
    BY <1>10, <2>1, <2>2, <2>4 DEF Arrive
<1>11. ASSUME NEW m \in Msgs, Attributes(m) PROVE TypeOK'
  <2> PICK v \in Verdicts :
        /\ verdict' = [verdict EXCEPT ![m] = v]
        /\ maxCh' = [maxCh EXCEPT ![m] = Told(v)]
        /\ g_Max_Channel' = Stored(v)
        /\ IF Told(v) < 1 THEN Answers(m, "403", 0, Nothing)
                         ELSE Goes(m, "device") /\ UNCHANGED reply
    BY <1>11 DEF Attributes
  <2>1. stage' \in [Threads -> Stages]
    BY DEF Goes, Answers, Stages, Ended
  <2>2. reply' \in [Msgs -> [code : Codes, channels : Nat, shows : Facts]]
    BY NothingType DEF Codes, Answers
  <2>3. verdict' \in [Msgs -> Verdicts \cup {"none"}]
    OBVIOUS
  <2>4. /\ maxCh' \in [Msgs -> Nat]
        /\ g_Max_Channel' \in {0, MaxChannel, DefaultMaxChannel}
    BY DEF Told, Stored
  <2> QED
    BY <1>11, <2>1, <2>2, <2>3, <2>4 DEF Attributes
<1>12. ASSUME NEW m \in Msgs, AnswerOk(m) PROVE TypeOK'
  BY <1>12 DEF Stages, Ended, Codes, AnswerOk, Goes, Answers
<1>13. ASSUME NEW m \in Msgs, Register(m) PROVE TypeOK'
  <2>1. stage' \in [Threads -> Stages]
    <3>1. CASE \E s \in Stages : Registers(m, s)
      BY <3>1 DEF Registers, Goes, Crash, commandVars
    <3>2. CASE RegisterFails(m, "dropped")
      BY <3>2 DEF RegisterFails, Goes, Stages, Ended
    <3>3. CASE Answers(m, "error", 0, Nothing)
      BY <3>3 DEF Answers, Goes, Stages, Ended
    <3> QED
      BY <1>13, <3>1, <3>2, <3>3, AfterRegisterType DEF Register, RegisterError
  <2>2. reply' \in [Msgs -> [code : Codes, channels : Nat, shows : Facts]]
    <3>1. \/ reply' = reply
          \/ reply' = [reply EXCEPT ![m] = [code |-> "error", channels |-> 0, shows |-> Nothing]]
      BY <1>13 DEF Register, RegisterError, Registers, RegisterFails, Answers, Crash, commandVars
    <3> QED
      BY <3>1, NothingType DEF Codes
  <2>3. /\ proc' \in {"running", "crashed"}
        /\ UNCHANGED <<kind, g_Max_Channel, arrays, size, device, link, maxCh, verdict,
                       before, failed>>
    BY <1>13 DEF Register, RegisterError, Registers, RegisterFails, Crash, commandVars
  <2> QED
    BY <2>1, <2>2, <2>3
<1>14. ASSUME NEW m \in Msgs, ViewPolls(m) PROVE TypeOK'
  BY <1>14 DEF Stages, Ended, ViewPolls, Goes, Crash, commandVars
<1>15. ASSUME NEW m \in Msgs, ViewSends(m) PROVE TypeOK'
  BY <1>15 DEF Stages, Ended, ViewSends, Goes
<1>16. ASSUME NEW m \in Msgs, ViewAnswers(m) PROVE TypeOK'
  BY <1>16 DEF Stages, Ended, Codes, ViewAnswers, Goes, Answers
<1>17. ASSUME NEW m \in Msgs, UpdateAsks(m) PROVE TypeOK'
  BY <1>17 DEF Stages, Ended, UpdateAsks, Goes
<1>18. ASSUME NEW m \in Msgs, UpdateAnswers(m) PROVE TypeOK'
  BY <1>18 DEF Stages, Ended, Codes, Facts, UpdateAnswers, Goes, Answers, Nothing, NoAnswer
<1>19. CASE Ends
  BY <1>19 DEF Ends, commandVars
<1>20. CASE UNCHANGED vars
  BY <1>20 DEF vars, commandVars
<1> QED
  BY <1>1, <1>2, <1>3, <1>4, <1>5, <1>6, <1>7, <1>8, <1>9, <1>10,
     <1>11, <1>12, <1>13, <1>14, <1>15, <1>16, <1>17, <1>18, <1>19, <1>20
     DEF Next, CommandNext, BootStep, MessageStep, Threads

LEMMA BootNext == TypeOK /\ BootInv /\ [Next]_vars => BootInv'
<1> SUFFICES ASSUME TypeOK, BootInv, [Next]_vars PROVE BootInv'
  OBVIOUS
<1> USE GatewayAssumption DEF TypeOK, BootInv, BeforeArrays, Threads, Firmware
<1>1. CASE BootAttributes
  BY <1>1 DEF BootAttributes, Goes
<1>2. CASE BootInfo
  BY <1>2 DEF BootInfo, Goes
<1>3. CASE BootAskNetwork
  BY <1>3 DEF BootAskNetwork, Goes
<1>4. CASE BootNetwork
  BY <1>4 DEF BootNetwork, Goes, Outcomes, Linked
<1>5. ASSUME NEW t \in Threads, AskDevice(t) PROVE BootInv'
  BY <1>5 DEF AskDevice, Goes, Crash, commandVars
<1>6. ASSUME NEW t \in Threads, DeviceTold(t) PROVE BootInv'
  <2>1. \E o \in Outcomes : AfterDevice(t, o)
    BY <1>6 DEF DeviceTold
  <2>2. \/ stage'[Boot] = stage[Boot]
        \/ stage[Boot] = "deviceAsked" /\ stage'[Boot] \in {"alloc", "fallback"}
    BY <1>6, <2>1 DEF DeviceTold, AfterDevice, Goes
  <2>3. arrays' = arrays
    BY <1>6 DEF DeviceTold
  <2>4. CASE stage'[Boot] = stage[Boot]
    BY <2>3, <2>4
  <2>5. CASE stage[Boot] = "deviceAsked" /\ stage'[Boot] \in {"alloc", "fallback"}
    BY <2>3, <2>5
  <2> QED
    BY <2>2, <2>4, <2>5
<1>7. CASE BootFallback
  BY <1>7 DEF BootFallback, Goes
<1>8. CASE BootAllocate
  BY <1>8 DEF BootAllocate, Goes
<1>9. CASE BootRegister
  BY <1>9 DEF BootRegister, Goes
<1>10. ASSUME NEW m \in Msgs, Arrive(m) PROVE BootInv'
  BY <1>10 DEF Arrive, Goes, Answers, Nothing, NoAnswer
<1>11. ASSUME NEW m \in Msgs, Attributes(m) PROVE BootInv'
  BY <1>11 DEF Attributes, Goes, Answers, Nothing, NoAnswer
<1>12. ASSUME NEW m \in Msgs, AnswerOk(m) PROVE BootInv'
  BY <1>12 DEF AnswerOk, Goes, Answers
<1>13. ASSUME NEW m \in Msgs, Register(m) PROVE BootInv'
  BY <1>13 DEF Register, RegisterError, Registers, RegisterFails, Goes, Answers,
     Nothing, NoAnswer, Crash, commandVars
<1>14. ASSUME NEW m \in Msgs, ViewPolls(m) PROVE BootInv'
  BY <1>14 DEF ViewPolls, Goes, Crash, commandVars
<1>15. ASSUME NEW m \in Msgs, ViewSends(m) PROVE BootInv'
  BY <1>15 DEF ViewSends, Goes
<1>16. ASSUME NEW m \in Msgs, ViewAnswers(m) PROVE BootInv'
  BY <1>16 DEF ViewAnswers, Goes, Answers
<1>17. ASSUME NEW m \in Msgs, UpdateAsks(m) PROVE BootInv'
  BY <1>17 DEF UpdateAsks, Goes
<1>18. ASSUME NEW m \in Msgs, UpdateAnswers(m) PROVE BootInv'
  BY <1>18 DEF UpdateAnswers, Goes, Answers, Nothing, NoAnswer
<1>19. CASE Ends
  BY <1>19 DEF Ends, commandVars
<1>20. CASE UNCHANGED vars
  BY <1>20 DEF vars, commandVars
<1> QED
  BY <1>1, <1>2, <1>3, <1>4, <1>5, <1>6, <1>7, <1>8, <1>9, <1>10,
     <1>11, <1>12, <1>13, <1>14, <1>15, <1>16, <1>17, <1>18, <1>19, <1>20
     DEF Next, CommandNext, BootStep, MessageStep, Threads

-----------------------------------------------------------------------------
\* What the steps with many outcomes have in common.
LEMMA ArriveEffect ==
  ASSUME TypeOK, NEW m \in Msgs, Arrive(m)
  PROVE  /\ stage[m] = "absent"
         /\ \E s \in {"dropped", "answered", "attributes", "register"} :
              stage' = [stage EXCEPT ![m] = s]
         /\ \/ reply' = reply
            \/ reply' = [reply EXCEPT ![m] =
                          [code |-> "600", channels |-> 0, shows |-> Nothing]]
         /\ before' = [before EXCEPT ![m] = {t \in Threads : stage[t] \in Ended}]
         /\ \E k : kind' = [kind EXCEPT ![m] = k]
         /\ UNCHANGED <<g_Max_Channel, arrays, size, device, link, maxCh, verdict,
                        failed>>
<1>1. /\ stage[m] = "absent"
      /\ \E s \in {"dropped", "answered", "attributes", "register"} :
           stage' = [stage EXCEPT ![m] = s]
  BY DEF Arrive, Goes, Answers
<1>2. \/ reply' = reply
      \/ reply' = [reply EXCEPT ![m] =
                    [code |-> "600", channels |-> 0, shows |-> Nothing]]
  BY DEF Arrive, Answers
<1>3. \E k : kind' = [kind EXCEPT ![m] = k]
  BY DEF Arrive
<1> QED
  BY <1>1, <1>2, <1>3 DEF Arrive

LEMMA AttributesEffect ==
  ASSUME TypeOK, NEW m \in Msgs, Attributes(m)
  PROVE  \E v \in Verdicts :
         /\ stage[m] = "attributes"
         /\ verdict' = [verdict EXCEPT ![m] = v]
         /\ maxCh' = [maxCh EXCEPT ![m] = Told(v)]
         /\ g_Max_Channel' \in {0, MaxChannel, g_Max_Channel}
         /\ stage' = [stage EXCEPT ![m] = IF v = "accepted" THEN "device" ELSE "answered"]
         /\ \/ reply' = reply
            \/ reply' = [reply EXCEPT ![m] =
                          [code |-> "403", channels |-> 0, shows |-> Nothing]]
         /\ UNCHANGED <<kind, arrays, size, device, link, before, failed>>
<1> PICK v \in Verdicts :
      /\ verdict' = [verdict EXCEPT ![m] = v]
      /\ maxCh' = [maxCh EXCEPT ![m] = Told(v)]
      /\ g_Max_Channel' = Stored(v)
      /\ IF Told(v) < 1 THEN Answers(m, "403", 0, Nothing)
                       ELSE Goes(m, "device") /\ UNCHANGED reply
  BY DEF Attributes
<1>1. /\ Told(v) < 1 <=> v # "accepted"
      /\ g_Max_Channel' \in {0, MaxChannel, g_Max_Channel}
  BY GatewayAssumption DEF Told, Stored
<1>2. CASE v = "accepted"
  BY <1>1, <1>2 DEF Attributes, Goes
<1>3. CASE v # "accepted"
  BY <1>1, <1>3 DEF Attributes, Answers, Goes
<1> QED
  BY <1>2, <1>3

LEMMA RegisterEffect ==
  ASSUME TypeOK, NEW m \in Msgs, Register(m)
  PROVE  /\ stage[m] \in {"register", "again"}
         /\ \E s \in {"register", "again", "view", "update", "dropped", "answered"} :
              stage' = [stage EXCEPT ![m] = s]
         /\ \/ reply' = reply
            \/ reply' = [reply EXCEPT ![m] =
                          [code |-> "error", channels |-> 0, shows |-> Nothing]]
         /\ UNCHANGED <<kind, g_Max_Channel, arrays, size, device, link, maxCh,
                        verdict, before, failed>>
<1>1. stage[m] \in {"register", "again"}
  BY DEF Register, RegisterError, Registers, RegisterFails
<1>2. \E s \in {"register", "again", "view", "update", "dropped", "answered"} :
        stage' = [stage EXCEPT ![m] = s]
  <2>1. CASE Registers(m, AfterRegister(kind[m]))
    <3>1. CASE stage' = stage
      BY <1>1, <3>1 DEF TypeOK, Threads
    <3>2. CASE Goes(m, AfterRegister(kind[m]))
      BY <3>2 DEF Goes, AfterRegister
    <3> QED
      BY <2>1, <3>1, <3>2 DEF Registers, Crash, commandVars
  <2>2. CASE RegisterFails(m, "dropped")
    BY <2>2 DEF RegisterFails, Goes
  <2>3. CASE Answers(m, "error", 0, Nothing)
    BY <2>3 DEF Answers, Goes
  <2> QED
    BY <2>1, <2>2, <2>3 DEF Register, RegisterError
<1>3. \/ reply' = reply
      \/ reply' = [reply EXCEPT ![m] =
                    [code |-> "error", channels |-> 0, shows |-> Nothing]]
  BY DEF Register, RegisterError, Registers, RegisterFails, Answers, Crash, commandVars
<1>4. UNCHANGED <<kind, g_Max_Channel, arrays, size, device, link, maxCh, verdict,
                  before, failed>>
  BY DEF Register, RegisterError, Registers, RegisterFails, Crash, commandVars
<1> QED
  BY <1>1, <1>2, <1>3, <1>4

LEMMA ArraysNext == TypeOK /\ BootInv /\ ArraysInv /\ [Next]_vars => ArraysInv'
<1> SUFFICES ASSUME TypeOK, BootInv, ArraysInv, [Next]_vars PROVE ArraysInv'
  OBVIOUS
<1> USE GatewayAssumption DEF TypeOK, BootInv, ArraysInv, BeforeArrays, Threads, Arrays,
        Storage, SubDevice, Firmware, Needs
<1>1. CASE BootAttributes
  BY <1>1 DEF BootAttributes, Goes
<1>2. CASE BootInfo
  BY <1>2 DEF BootInfo, Goes
<1>3. CASE BootAskNetwork
  BY <1>3 DEF BootAskNetwork, Goes
<1>4. CASE BootNetwork
  BY <1>4 DEF BootNetwork, Goes, Outcomes, Linked
<1>5. ASSUME NEW t \in Threads, AskDevice(t) PROVE ArraysInv'
  BY <1>5 DEF AskDevice, Goes, Crash, commandVars
<1>6. ASSUME NEW t \in Threads, DeviceTold(t) PROVE ArraysInv'
  BY <1>6 DEF DeviceTold, AfterDevice, Goes, Outcomes, Linked
<1>7. CASE BootFallback
  BY <1>7 DEF BootFallback, Goes
<1>8. CASE BootAllocate
  BY <1>8 DEF BootAllocate, Goes
<1>9. CASE BootRegister
  BY <1>9 DEF BootRegister, Goes
<1>10. ASSUME NEW m \in Msgs, Arrive(m) PROVE ArraysInv'
  <2>1. \A n \in Msgs : stage'[n] \in {"send", "shown"} =>
          stage'[n] = stage[n] /\ kind'[n] = kind[n]
    BY <1>10, ArriveEffect
  <2>2. UNCHANGED <<g_Max_Channel, arrays, size, maxCh>>
    BY <1>10, ArriveEffect
  <2> QED
    BY <2>1, <2>2
<1>11. ASSUME NEW m \in Msgs, Attributes(m) PROVE ArraysInv'
  BY <1>11, AttributesEffect
<1>12. ASSUME NEW m \in Msgs, AnswerOk(m) PROVE ArraysInv'
  BY <1>12 DEF AnswerOk, Goes, Answers
<1>13. ASSUME NEW m \in Msgs, Register(m) PROVE ArraysInv'
  BY <1>13, RegisterEffect
<1>14. ASSUME NEW m \in Msgs, ViewPolls(m) PROVE ArraysInv'
  BY <1>14 DEF ViewPolls, Goes, Crash, commandVars
<1>15. ASSUME NEW m \in Msgs, ViewSends(m) PROVE ArraysInv'
  BY <1>15 DEF ViewSends, Goes
<1>16. ASSUME NEW m \in Msgs, ViewAnswers(m) PROVE ArraysInv'
  BY <1>16 DEF ViewAnswers, Goes, Answers
<1>17. ASSUME NEW m \in Msgs, UpdateAsks(m) PROVE ArraysInv'
  BY <1>17 DEF UpdateAsks, Goes
<1>18. ASSUME NEW m \in Msgs, UpdateAnswers(m) PROVE ArraysInv'
  BY <1>18 DEF UpdateAnswers, Goes, Answers, Nothing, NoAnswer
<1>19. CASE Ends
  BY <1>19 DEF Ends, commandVars
<1>20. CASE UNCHANGED vars
  BY <1>20 DEF vars, commandVars
<1> QED
  BY <1>1, <1>2, <1>3, <1>4, <1>5, <1>6, <1>7, <1>8, <1>9, <1>10,
     <1>11, <1>12, <1>13, <1>14, <1>15, <1>16, <1>17, <1>18, <1>19, <1>20
     DEF Next, CommandNext, BootStep, MessageStep, Threads

LEMMA AcceptedNext == TypeOK /\ BootInv /\ AcceptedInv /\ [Next]_vars => AcceptedInv'
<1> SUFFICES ASSUME TypeOK, BootInv, AcceptedInv, [Next]_vars PROVE AcceptedInv'
  OBVIOUS
<1> USE GatewayAssumption DEF TypeOK, BootInv, AcceptedInv, Threads
<1>1. CASE BootAttributes
  BY <1>1 DEF BootAttributes, Goes
<1>2. CASE BootInfo
  BY <1>2 DEF BootInfo, Goes
<1>3. CASE BootAskNetwork
  BY <1>3 DEF BootAskNetwork, Goes
<1>4. CASE BootNetwork
  BY <1>4 DEF BootNetwork, Goes, Outcomes, Linked
<1>5. ASSUME NEW t \in Threads, AskDevice(t) PROVE AcceptedInv'
  BY <1>5 DEF AskDevice, Goes, Crash, commandVars
<1>6. ASSUME NEW t \in Threads, DeviceTold(t) PROVE AcceptedInv'
  BY <1>6 DEF DeviceTold, AfterDevice, Goes, Outcomes, Linked
<1>7. CASE BootFallback
  BY <1>7 DEF BootFallback, Goes
<1>8. CASE BootAllocate
  BY <1>8 DEF BootAllocate, Goes
<1>9. CASE BootRegister
  BY <1>9 DEF BootRegister, Goes
<1>10. ASSUME NEW m \in Msgs, Arrive(m) PROVE AcceptedInv'
  BY <1>10, ArriveEffect
<1>11. ASSUME NEW m \in Msgs, Attributes(m) PROVE AcceptedInv'
  <2> PICK v \in Verdicts :
        /\ stage[m] = "attributes"
        /\ verdict' = [verdict EXCEPT ![m] = v]
        /\ maxCh' = [maxCh EXCEPT ![m] = Told(v)]
        /\ stage' = [stage EXCEPT ![m] = IF v = "accepted" THEN "device" ELSE "answered"]
        /\ \/ reply' = reply
           \/ reply' = [reply EXCEPT ![m] =
                         [code |-> "403", channels |-> 0, shows |-> Nothing]]
    BY <1>11, AttributesEffect
  <2>1. reply[m].code # "200"
    OBVIOUS
  <2>2. \A n \in Msgs : n # m => /\ verdict'[n] = verdict[n] /\ maxCh'[n] = maxCh[n]
                                 /\ stage'[n] = stage[n] /\ reply'[n] = reply[n]
    OBVIOUS
  <2>3. reply'[m].code # "200"
    BY <2>1
  <2>4. stage'[m] = "device" => verdict'[m] = "accepted" /\ maxCh'[m] = MaxChannel
    BY DEF Told
  <2>5. stage'[m] \in {"device", "answered"}
    OBVIOUS
  <2> QED
    BY <2>2, <2>3, <2>4, <2>5
<1>12. ASSUME NEW m \in Msgs, AnswerOk(m) PROVE AcceptedInv'
  BY <1>12 DEF AnswerOk, Goes, Answers
<1>13. ASSUME NEW m \in Msgs, Register(m) PROVE AcceptedInv'
  BY <1>13, RegisterEffect
<1>14. ASSUME NEW m \in Msgs, ViewPolls(m) PROVE AcceptedInv'
  BY <1>14 DEF ViewPolls, Goes, Crash, commandVars
<1>15. ASSUME NEW m \in Msgs, ViewSends(m) PROVE AcceptedInv'
  BY <1>15 DEF ViewSends, Goes
<1>16. ASSUME NEW m \in Msgs, ViewAnswers(m) PROVE AcceptedInv'
  BY <1>16 DEF ViewAnswers, Goes, Answers
<1>17. ASSUME NEW m \in Msgs, UpdateAsks(m) PROVE AcceptedInv'
  BY <1>17 DEF UpdateAsks, Goes
<1>18. ASSUME NEW m \in Msgs, UpdateAnswers(m) PROVE AcceptedInv'
  BY <1>18 DEF UpdateAnswers, Goes, Answers, Nothing, NoAnswer
<1>19. CASE Ends
  BY <1>19 DEF Ends, commandVars
<1>20. CASE UNCHANGED vars
  BY <1>20 DEF vars, commandVars
<1> QED
  BY <1>1, <1>2, <1>3, <1>4, <1>5, <1>6, <1>7, <1>8, <1>9, <1>10,
     <1>11, <1>12, <1>13, <1>14, <1>15, <1>16, <1>17, <1>18, <1>19, <1>20
     DEF Next, CommandNext, BootStep, MessageStep, Threads

LEMMA FreshNext ==
  TypeOK /\ BootInv /\ AcceptedInv /\ FreshInv /\ [Next]_vars => FreshInv'
<1> SUFFICES ASSUME TypeOK, BootInv, AcceptedInv, FreshInv, [Next]_vars
             PROVE  FreshInv'
  OBVIOUS
<1> USE GatewayAssumption DEF TypeOK, BootInv, FreshInv, Threads, Ended, BeforeArrays
<1>1. CASE BootAttributes
  BY <1>1 DEF BootAttributes, Goes
<1>2. CASE BootInfo
  BY <1>2 DEF BootInfo, Goes
<1>3. CASE BootAskNetwork
  BY <1>3 DEF BootAskNetwork, Goes
<1>4. CASE BootNetwork
  BY <1>4 DEF BootNetwork, Goes, Outcomes, Linked
<1>5. ASSUME NEW t \in Threads, AskDevice(t) PROVE FreshInv'
  BY <1>5 DEF AskDevice, Goes, Crash, commandVars
<1>6. ASSUME NEW t \in Threads, DeviceTold(t) PROVE FreshInv'
  <2>1. \A n \in Msgs : t \notin before[n]
    BY <1>6 DEF DeviceTold
  <2>2. device'.by \in {device.by, t}
    <3>1. device' = device \/ \E w : device' = [by |-> t, what |-> w]
      BY <1>6 DEF DeviceTold
    <3> QED
      BY <3>1
  <2>3. /\ stage[t] = "deviceAsked" /\ UNCHANGED <<reply, before>>
        /\ \E s \in {"answer", "alloc", "fallback"} : stage' = [stage EXCEPT ![t] = s]
    BY <1>6 DEF DeviceTold, AfterDevice, Goes
  <2>4. \A n \in Msgs : stage'[n] \in {"deviceAsked", "answer"} =>
          stage[n] \in {"deviceAsked", "answer"}
    BY <2>3
  <2>5. \A u \in Threads : stage[u] \in Ended => stage'[u] \in Ended
    BY <2>3
  <2> QED
    BY <2>1, <2>2, <2>3, <2>4, <2>5
<1>7. CASE BootFallback
  BY <1>7 DEF BootFallback, Goes
<1>8. CASE BootAllocate
  BY <1>8 DEF BootAllocate, Goes
<1>9. CASE BootRegister
  BY <1>9 DEF BootRegister, Goes
<1>10. ASSUME NEW m \in Msgs, Arrive(m) PROVE FreshInv'
  <2>1. /\ \A t \in Threads : stage[t] \in Ended => stage'[t] = stage[t]
        /\ \A n \in Msgs : stage'[n] \in {"deviceAsked", "answer"} =>
             n # m /\ stage'[n] = stage[n]
    BY <1>10, ArriveEffect
  <2>2. \A n \in Msgs : reply'[n].code = "200" => n # m /\ reply'[n] = reply[n]
    <3> SUFFICES ASSUME NEW n \in Msgs, reply'[n].code = "200"
                 PROVE  n # m /\ reply'[n] = reply[n]
      OBVIOUS
    <3>1. stage[m] = "absent" /\ reply[m].code # "200"
      BY <1>10, ArriveEffect DEF AcceptedInv
    <3> QED
      BY <3>1, <1>10, ArriveEffect
  <2>3. /\ \A n \in Msgs : n # m => before'[n] = before[n]
        /\ before'[m] = {t \in Threads : stage[t] \in Ended}
        /\ UNCHANGED device
    BY <1>10, ArriveEffect
  <2> QED
    BY <2>1, <2>2, <2>3
<1>11. ASSUME NEW m \in Msgs, Attributes(m) PROVE FreshInv'
  <2> PICK v \in Verdicts :
        /\ stage[m] = "attributes"
        /\ stage' = [stage EXCEPT ![m] = IF v = "accepted" THEN "device" ELSE "answered"]
        /\ \/ reply' = reply
           \/ reply' = [reply EXCEPT ![m] =
                         [code |-> "403", channels |-> 0, shows |-> Nothing]]
        /\ UNCHANGED <<device, before>>
    BY <1>11, AttributesEffect
  <2>1. /\ \A t \in Threads : stage[t] \in Ended => stage'[t] \in Ended
        /\ \A n \in Msgs : stage'[n] \in {"deviceAsked", "answer"} => stage'[n] = stage[n]
    OBVIOUS
  <2>2. \A n \in Msgs : reply'[n].code = "200" => reply'[n] = reply[n]
    OBVIOUS
  <2> QED
    BY <2>1, <2>2
<1>12. ASSUME NEW m \in Msgs, AnswerOk(m) PROVE FreshInv'
  BY <1>12 DEF AnswerOk, Goes, Answers
<1>13. ASSUME NEW m \in Msgs, Register(m) PROVE FreshInv'
  <2>1. /\ stage[m] \notin Ended
        /\ \A t \in Threads : stage[t] \in Ended => stage'[t] \in Ended
        /\ \A n \in Msgs : stage'[n] \in {"deviceAsked", "answer"} => stage'[n] = stage[n]
    BY <1>13, RegisterEffect
  <2>2. \A n \in Msgs : reply'[n].code = "200" => reply'[n] = reply[n]
    BY <1>13, RegisterEffect
  <2>3. UNCHANGED <<device, before>>
    BY <1>13, RegisterEffect
  <2> QED
    BY <2>1, <2>2, <2>3
<1>14. ASSUME NEW m \in Msgs, ViewPolls(m) PROVE FreshInv'
  BY <1>14 DEF ViewPolls, Goes, Crash, commandVars
<1>15. ASSUME NEW m \in Msgs, ViewSends(m) PROVE FreshInv'
  BY <1>15 DEF ViewSends, Goes
<1>16. ASSUME NEW m \in Msgs, ViewAnswers(m) PROVE FreshInv'
  BY <1>16 DEF ViewAnswers, Goes, Answers
<1>17. ASSUME NEW m \in Msgs, UpdateAsks(m) PROVE FreshInv'
  BY <1>17 DEF UpdateAsks, Goes
<1>18. ASSUME NEW m \in Msgs, UpdateAnswers(m) PROVE FreshInv'
  BY <1>18 DEF UpdateAnswers, Goes, Answers, Nothing, NoAnswer
<1>19. CASE Ends
  BY <1>19 DEF Ends, commandVars
<1>20. CASE UNCHANGED vars
  BY <1>20 DEF vars, commandVars
<1> QED
  BY <1>1, <1>2, <1>3, <1>4, <1>5, <1>6, <1>7, <1>8, <1>9, <1>10,
     <1>11, <1>12, <1>13, <1>14, <1>15, <1>16, <1>17, <1>18, <1>19, <1>20
     DEF Next, CommandNext, BootStep, MessageStep, Threads

LEMMA SettlesNext == TypeOK /\ BootInv /\ ConnectionSettles /\ [Next]_vars => ConnectionSettles'
<1> SUFFICES ASSUME TypeOK, BootInv, ConnectionSettles, [Next]_vars PROVE ConnectionSettles'
  OBVIOUS
<1> USE GatewayAssumption DEF TypeOK, BootInv, ConnectionSettles, InfoExists, Threads,
        BeforeArrays
<1>1. CASE BootAttributes
  BY <1>1 DEF BootAttributes, Goes
<1>2. CASE BootInfo
  BY <1>2 DEF BootInfo, Goes
<1>3. CASE BootAskNetwork
  BY <1>3 DEF BootAskNetwork, Goes
<1>4. CASE BootNetwork
  BY <1>4 DEF BootNetwork, Goes, Outcomes, Linked
<1>5. ASSUME NEW t \in Threads, AskDevice(t) PROVE ConnectionSettles'
  BY <1>5 DEF AskDevice, Goes, Crash, commandVars
<1>6. ASSUME NEW t \in Threads, DeviceTold(t) PROVE ConnectionSettles'
  BY <1>6 DEF DeviceTold, AfterDevice, Goes, Outcomes, Linked
<1>7. CASE BootFallback
  BY <1>7 DEF BootFallback, Goes
<1>8. CASE BootAllocate
  BY <1>8 DEF BootAllocate, Goes
<1>9. CASE BootRegister
  BY <1>9 DEF BootRegister, Goes
<1>10. ASSUME NEW m \in Msgs, Arrive(m) PROVE ConnectionSettles'
  BY <1>10, ArriveEffect
<1>11. ASSUME NEW m \in Msgs, Attributes(m) PROVE ConnectionSettles'
  BY <1>11, AttributesEffect
<1>12. ASSUME NEW m \in Msgs, AnswerOk(m) PROVE ConnectionSettles'
  BY <1>12 DEF AnswerOk, Goes, Answers
<1>13. ASSUME NEW m \in Msgs, Register(m) PROVE ConnectionSettles'
  BY <1>13, RegisterEffect
<1>14. ASSUME NEW m \in Msgs, ViewPolls(m) PROVE ConnectionSettles'
  BY <1>14 DEF ViewPolls, Goes, Crash, commandVars
<1>15. ASSUME NEW m \in Msgs, ViewSends(m) PROVE ConnectionSettles'
  BY <1>15 DEF ViewSends, Goes
<1>16. ASSUME NEW m \in Msgs, ViewAnswers(m) PROVE ConnectionSettles'
  BY <1>16 DEF ViewAnswers, Goes, Answers
<1>17. ASSUME NEW m \in Msgs, UpdateAsks(m) PROVE ConnectionSettles'
  BY <1>17 DEF UpdateAsks, Goes
<1>18. ASSUME NEW m \in Msgs, UpdateAnswers(m) PROVE ConnectionSettles'
  BY <1>18 DEF UpdateAnswers, Goes, Answers, Nothing, NoAnswer
<1>19. CASE Ends
  BY <1>19 DEF Ends, commandVars
<1>20. CASE UNCHANGED vars
  BY <1>20 DEF vars, commandVars
<1> QED
  BY <1>1, <1>2, <1>3, <1>4, <1>5, <1>6, <1>7, <1>8, <1>9, <1>10,
     <1>11, <1>12, <1>13, <1>14, <1>15, <1>16, <1>17, <1>18, <1>19, <1>20
     DEF Next, CommandNext, BootStep, MessageStep, Threads

-----------------------------------------------------------------------------
(* The properties of every behaviour.                                      *)

IInv == TypeOK /\ BootInv /\ ArraysInv /\ AcceptedInv /\ FreshInv /\ ConnectionSettles

LEMMA IInvInit == Init => IInv
<1> SUFFICES ASSUME Init PROVE IInv
  OBVIOUS
<1>1. TypeOK /\ BootInv
  BY TypeInit
<1>2. ArraysInv
  <2>1. arrays = 0 /\ \A m \in Msgs : stage[m] = "absent"
    BY GatewayAssumption DEF Init, Threads
  <2> QED
    BY <2>1 DEF ArraysInv, Arrays, Storage, Firmware
<1>3. AcceptedInv /\ FreshInv
  BY DEF Init, AcceptedInv, FreshInv, NoAnswer, Threads
<1>4. ConnectionSettles
  BY DEF Init, ConnectionSettles, InfoExists, Threads
<1> QED
  BY <1>1, <1>2, <1>3, <1>4 DEF IInv

THEOREM Invariance == Spec => []IInv
<1>1. IInv /\ [Next]_vars => IInv'
  BY TypeNext, BootNext, ArraysNext, AcceptedNext, FreshNext, SettlesNext DEF IInv
<1> QED
  BY IInvInit, <1>1, PTL DEF Spec

\* Type correctness: g_Max_Channel is the gateway's number, the default or 0,
\* and never an error of a request.
THEOREM TypeCorrect == Spec => []TypeOK
<1>1. IInv => TypeOK
  BY DEF IInv
<1> QED
  BY Invariance, <1>1, PTL

\* No loop over the channels leaves an array, whenever the views and the
\* checkPasswords come: the arrays are longer than the number that any thread
\* has read or will read, but for those that were allocated while a
\* checkPassword had left 0 there.
THEOREM LoopsInArrays == Spec => []ArraysCoverChannels
<1>1. IInv => ArraysCoverChannels
  <2> SUFFICES ASSUME IInv PROVE ArraysCoverChannels
    OBVIOUS
  <2>1. \A a \in 1..arrays : a \in Arrays /\ a <= arrays
    BY DEF IInv, TypeOK, Arrays, Storage, Firmware
  <2>2. \A m \in Msgs : \A a \in 1..Needs(kind[m]) : a \in Arrays /\ a <= Needs(kind[m])
    BY DEF Needs, Arrays, Storage, SubDevice, Firmware
  <2> QED
    BY <2>1, <2>2 DEF IInv, ArraysInv, ArraysCoverChannels
<1> QED
  BY Invariance, <1>1, PTL

\* A 200 of checkPassword means that the gateway accepted this message's
\* password and named its number of channels.
THEOREM PasswordAccepted == Spec => []OkMeansAccepted
<1>1. IInv => OkMeansAccepted
  BY DEF IInv, AcceptedInv, OkMeansAccepted
<1> QED
  BY Invariance, <1>1, PTL

\* What a 200 shows of the gateway is from no thread that had ended before
\* the message came, however many checkPasswords share g_Gateway_info_.
THEOREM AnswersFresh == Spec => []PasswordAnswerFresh
<1>1. IInv => PasswordAnswerFresh
  BY DEF IInv, FreshInv, PasswordAnswerFresh
<1> QED
  BY Invariance, <1>1, PTL

\* A gateway that always answered is shown as connected as soon as no
\* question to it is under way.
THEOREM GatewaySettles == Spec => []ConnectionSettles
<1>1. IInv => ConnectionSettles
  BY DEF IInv
<1> QED
  BY Invariance, <1>1, PTL
=============================================================================
