------------------------ MODULE BridgeDispatch_proofs ------------------------
(***************************************************************************)
(* Together, the two parts of the bridge do what each of them does alone:  *)
(* the other part is an environment that at most ends the process.  With   *)
(* it, the types of the bridge and the frames of HttpTunnelingCommand, for *)
(* replies of any sizes.                                                   *)
(***************************************************************************)
EXTENDS BridgeDispatch, GatewayCommands_proofs, TLAPS

\* What is proved of GatewayCommands alone holds beside the tunnels.
THEOREM CommandsBeside == BridgeSpec => Spec
<1>1. BridgeInit => Init
  BY DEF BridgeInit
<1>2. [BridgeNext]_bridgeVars => [Next]_vars
  <2> SUFFICES ASSUME [BridgeNext]_bridgeVars PROVE [Next]_vars
    OBVIOUS
  <2>1. ASSUME proc = "running", NEW m \in Messages, ThreadFunction(m) PROVE [Next]_vars
    <3>1. CASE m \in Msgs /\ Arrive(m)
      BY <2>1, <3>1 DEF Next, CommandNext
    <3>2. CASE UNCHANGED commandVars /\ proc' \in {proc, "crashed"}
      BY <2>1, <3>2 DEF Next, Ends, vars
    <3> QED
      BY <2>1, <3>1, <3>2 DEF ThreadFunction, T!Receive, T!Ignore
  <2>2. ASSUME proc = "running", NEW m \in Tunnels, TunnelContinues(m) PROVE [Next]_vars
    <3>1. UNCHANGED commandVars /\ proc' \in {proc, "crashed"}
      BY <2>2 DEF TunnelContinues, T!Returns, T!SunapiReturns, T!SunapiGarbled,
         T!HttpReturns, T!HttpThrows
    <3> QED
      BY <2>2, <3>1 DEF Next, Ends, vars
  <2>3. StartContinues => [Next]_vars
    BY DEF StartContinues, Next, CommandNext
  <2>4. ASSUME NEW m \in Msgs, CommandContinues(m) PROVE [Next]_vars
    BY <2>4 DEF CommandContinues, Next, CommandNext
  <2>5. ASSUME NEW m \in Messages, Deliver(m) PROVE UNCHANGED vars
    BY <2>5 DEF Deliver
  <2>6. ReceiveMessageFromPeer => UNCHANGED vars
    BY DEF ReceiveMessageFromPeer
  <2>7. UNCHANGED bridgeVars => UNCHANGED vars
    BY DEF bridgeVars
  <2> QED
    BY <2>1, <2>2, <2>3, <2>4, <2>5, <2>6, <2>7 DEF BridgeNext
<1> QED
  BY <1>1, <1>2, PTL DEF BridgeSpec, Spec

\* So nothing that the start and the commands promise is lost when tunneled
\* requests come in between, and may end the process, in any number.
THEOREM CommandsSafeBeside ==
  BridgeSpec => [](/\ TypeOK /\ ArraysCoverChannels /\ PasswordAnswerFresh
                   /\ OkMeansAccepted /\ ConnectionSettles)
BY CommandsBeside, TypeCorrect, LoopsInArrays, AnswersFresh, PasswordAccepted,
   GatewaySettles, PTL

\* What is proved of Tunneling alone holds beside the commands.
THEOREM TunnelsBeside == BridgeSpec => T!Spec
<1>1. BridgeInit => T!Init
  BY DEF BridgeInit
<1>2. [BridgeNext]_bridgeVars => [T!Next]_(T!vars)
  <2> SUFFICES ASSUME [BridgeNext]_bridgeVars PROVE [T!Next]_(T!vars)
    OBVIOUS
  <2>1. ASSUME proc = "running", UNCHANGED tunnelVars, proc' \in {proc, "crashed"}
        PROVE  [T!Next]_(T!vars)
    BY <2>1 DEF T!Next, T!Ends, T!vars, T!tunnelVars, tunnelVars
  <2>2. ASSUME proc = "running", NEW m \in Messages, ThreadFunction(m)
        PROVE  [T!Next]_(T!vars)
    <3>1. CASE m \in Msgs /\ Arrive(m) /\ UNCHANGED tunnelVars
      BY <2>1, <2>2, <3>1 DEF Arrive
    <3>2. CASE /\ m \in Tunnels
               /\ \/ \E r \in T!Requests, flaw \in T!Flaws : T!Receive(m, r, flaw)
                  \/ T!Ignore(m)
      BY <2>2, <3>2 DEF T!Next, T!TunnelNext
    <3> QED
      BY <2>2, <3>1, <3>2 DEF ThreadFunction
  <2>3. ASSUME proc = "running", NEW m \in Tunnels, TunnelContinues(m)
        PROVE  [T!Next]_(T!vars)
    BY <2>3 DEF TunnelContinues, T!Next, T!TunnelNext
  <2>4. ASSUME StartContinues PROVE [T!Next]_(T!vars)
    <3>1. proc = "running" /\ proc' \in {proc, "crashed"} /\ UNCHANGED tunnelVars
      BY <2>4 DEF StartContinues, BootStep, BootAttributes, BootInfo, BootAskNetwork,
         BootNetwork, AskDevice, DeviceTold, BootFallback, BootAllocate, BootRegister, Crash
    <3> QED
      BY <2>1, <3>1
  <2>5. ASSUME NEW m \in Msgs, CommandContinues(m) PROVE [T!Next]_(T!vars)
    <3>1. proc = "running" /\ proc' \in {proc, "crashed"} /\ UNCHANGED tunnelVars
      BY <2>5 DEF CommandContinues, MessageStep, AskDevice, DeviceTold, Attributes,
         AnswerOk, Register, RegisterError, Registers, RegisterFails, ViewPolls,
         ViewSends, ViewAnswers, UpdateAsks, UpdateAnswers, Crash
    <3> QED
      BY <2>1, <3>1
  <2>6. ASSUME UNCHANGED <<vars, tunnelVars>> PROVE UNCHANGED T!vars
    BY <2>6 DEF vars, tunnelVars, T!vars, T!tunnelVars
  <2>7. ASSUME NEW m \in Messages, Deliver(m) PROVE UNCHANGED <<vars, tunnelVars>>
    BY <2>7 DEF Deliver
  <2>8. ReceiveMessageFromPeer => UNCHANGED <<vars, tunnelVars>>
    BY DEF ReceiveMessageFromPeer
  <2>9. UNCHANGED bridgeVars => UNCHANGED <<vars, tunnelVars>>
    BY DEF bridgeVars
  <2> QED
    BY <2>2, <2>3, <2>4, <2>5, <2>6, <2>7, <2>8, <2>9 DEF BridgeNext
<1> QED
  BY <1>1, <1>2, PTL DEF BridgeSpec, T!Spec

-----------------------------------------------------------------------------
(* The binary answers, for bytes of 256 values.                            *)

\* The sizes are numbers: none is too large.
SizesAreNumbers ==
  /\ Base = 256
  /\ MessageSizes \subseteq Nat /\ HeaderSizes \subseteq Nat /\ BodySizes \subseteq Nat

LEMMA LimitValue == Base = 256 => T!H!Limit = 4294967296
BY SMT DEF T!H!Limit

LEMMA ByteValues ==
  ASSUME Base = 256
  PROVE  T!H!Byte(0) = 1 /\ T!H!Byte(1) = 256 /\ T!H!Byte(2) = 65536 /\ T!H!Byte(3) = 16777216
BY SMT DEF T!H!Byte

\* Four bytes hold every number of 32 bits.
LEMMA NumberOfBytes ==
  ASSUME Base = 256, NEW n \in Nat, n < T!H!Limit
  PROVE  T!H!Number(T!H!Bytes(n)) = n
<1>1. n % T!H!Limit = n
  BY LimitValue, SMT
<1>2. T!H!Bytes(n) = [k \in 0..3 |-> (n \div T!H!Byte(k)) % Base]
  BY <1>1, SMT DEF T!H!Bytes
<1>3. /\ T!H!Bytes(n)[0] = n % 256
      /\ T!H!Bytes(n)[1] = (n \div 256) % 256
      /\ T!H!Bytes(n)[2] = (n \div 65536) % 256
      /\ T!H!Bytes(n)[3] = (n \div 16777216) % 256
  BY <1>2, ByteValues, SMT
<1> DEFINE a == n \div 256
           b == n \div 65536
           c == n \div 16777216
<1>4. n = 256 * a + (n % 256) /\ a \in Nat
  BY SMT
<1>5. a = 256 * b + (a % 256) /\ b \in Nat
  BY SMT
<1>6. b = 256 * c + (b % 256) /\ c \in Nat
  BY SMT
<1>7. c = c % 256
  BY LimitValue, SMT
<1>8. /\ T!H!Bytes(n)[0] = n % 256 /\ T!H!Bytes(n)[1] = a % 256
      /\ T!H!Bytes(n)[2] = b % 256 /\ T!H!Bytes(n)[3] = c % 256
  BY <1>3
<1> HIDE DEF a, b, c
<1>9. T!H!Number(T!H!Bytes(n)) = (c % 256) * 16777216 + (b % 256) * 65536 + (a % 256) * 256 + (n % 256)
  BY <1>8, ByteValues, SMT DEF T!H!Number
<1> QED
  BY <1>4, <1>5, <1>6, <1>7, <1>9, SMT

\* An int that is not negative is the size itself, below 2^32.
LEMMA IntOfSize ==
  ASSUME Base = 256, NEW n \in Nat, n < T!H!Limit, T!H!AsInt(n) >= 0
  PROVE  T!H!AsInt(n) = n
<1>1. n % T!H!Limit = n
  BY LimitValue, SMT
<1>2. T!H!AsInt(n) = IF n < T!H!Limit \div 2 THEN n ELSE n - T!H!Limit
  BY <1>1 DEF T!H!AsInt
<1>3. n - T!H!Limit < 0
  BY LimitValue, SMT
<1> QED
  BY <1>2, <1>3, LimitValue, SMT

\* The parts of a frame are found again.
LEMMA FrameTakesApart ==
  ASSUME Base = 256, NEW m \in Nat, NEW h \in Nat, NEW b \in Nat,
         T!H!Frame(m, h, b).size < T!H!Limit
  PROVE  T!H!TakeApart(T!H!Frame(m, h, b)) = <<m, h, b>>
<1>0. m + h + b + 16 < T!H!Limit
  <2>1. T!H!Frame(m, h, b).size = m + h + b + 16
    BY SMT DEF T!H!Frame, T!H!Protocol, T!H!Borderline
  <2> QED
    BY <2>1
<1>1. /\ T!H!Number(T!H!Bytes(m + 12)) = m + 12
      /\ T!H!Number(T!H!Bytes(m + 12 + h + 4)) = m + 12 + h + 4
  <2>1. /\ m + 12 \in Nat /\ m + 12 < T!H!Limit
        /\ m + 12 + h + 4 \in Nat /\ m + 12 + h + 4 < T!H!Limit
    BY <1>0, LimitValue, SMT
  <2> QED
    BY <2>1, NumberOfBytes
<1>2. /\ T!H!Frame(m, h, b).message = T!H!Bytes(m + 12)
      /\ T!H!Frame(m, h, b).header = T!H!Bytes(m + 12 + h + 4)
      /\ T!H!Frame(m, h, b).size = m + 12 + h + 4 + b
  BY SMT DEF T!H!Frame, T!H!Protocol, T!H!Borderline
<1> QED
  BY <1>1, <1>2, SMT DEF T!H!TakeApart, T!H!Protocol, T!H!Borderline

-----------------------------------------------------------------------------
(* The answers of every behaviour.                                         *)

\* What is given of a frame, and the frames that are sent: those whose size is
\* not negative as an int.
Given(p) == T!Given(T!FrameOf(p))
SentFrames == {[frame |-> Given(p), parts |-> p] : p \in {q \in T!Parts : Given(q).size >= 0}}
TunnelAnswers == T!Texts \cup SentFrames

TunnelInv ==
  /\ tunnel \in [Tunnels -> T!Places]
  /\ sent \in [Tunnels -> TunnelAnswers]
  /\ \A m \in Tunnels : tunnel[m] = "answered" <=> sent[m] # T!Unsent

LEMMA FrameUnlikeText ==
  ASSUME NEW f, NEW p, NEW c
  PROVE  [frame |-> f, parts |-> p] # [status |-> c]
<1>1. "frame" \in DOMAIN [frame |-> f, parts |-> p]
  OBVIOUS
<1>2. "frame" \notin DOMAIN [status |-> c]
  OBVIOUS
<1> QED
  BY <1>1, <1>2

LEMMA SendsKeeps ==
  ASSUME TunnelInv, NEW m \in Tunnels, NEW a \in TunnelAnswers, a # T!Unsent, T!Sends(m, a)
  PROVE  TunnelInv'
BY DEF TunnelInv, T!Sends, T!Moves, T!Places

LEMMA MovesKeeps ==
  ASSUME TunnelInv, NEW m \in Tunnels, tunnel[m] # "answered",
         NEW s \in T!Places \ {"answered"}, T!Moves(m, s), UNCHANGED sent
  PROVE  TunnelInv'
BY DEF TunnelInv, T!Moves, T!Places

LEMMA TunnelsKeep == TunnelInv /\ [T!Next]_(T!vars) => TunnelInv'
<1> SUFFICES ASSUME TunnelInv, [T!Next]_(T!vars) PROVE TunnelInv'
  OBVIOUS
<1>1. CASE UNCHANGED T!tunnelVars
  BY <1>1 DEF TunnelInv, T!tunnelVars
<1>2. ASSUME NEW m \in Tunnels, NEW r \in T!Requests, NEW flaw \in T!Flaws, T!Receive(m, r, flaw)
      PROVE  TunnelInv'
  <2>1. CASE UNCHANGED tunnel
    BY <1>1, <1>2, <2>1 DEF T!Receive, T!tunnelVars
  <2>2. CASE T!Moves(m, IF flaw \in {"unreadable", "noBody"} THEN "dropped" ELSE r)
    BY <1>2, <2>2, MovesKeeps DEF T!Receive, T!Requests, T!Places
  <2> QED
    BY <1>2, <2>1, <2>2 DEF T!Receive
<1>3. ASSUME NEW m \in Tunnels, T!Ignore(m) PROVE TunnelInv'
  BY <1>3, MovesKeeps DEF T!Ignore, T!Places
<1>4. ASSUME NEW m \in Tunnels, T!SunapiReturns(m) PROVE TunnelInv'
  <2> PICK c \in T!Statuses : T!Sends(m, [status |-> c])
    BY <1>4 DEF T!SunapiReturns
  <2>1. [status |-> c] \in TunnelAnswers /\ [status |-> c] # T!Unsent
    BY DEF TunnelAnswers, T!Texts, T!Statuses, T!Unsent
  <2> QED
    BY <2>1, SendsKeeps
<1>5. ASSUME NEW m \in Tunnels, T!SunapiGarbled(m) PROVE TunnelInv'
  <2>1. [status |-> "garbage"] \in TunnelAnswers /\ [status |-> "garbage"] # T!Unsent
    BY DEF TunnelAnswers, T!Texts, T!Unsent
  <2>2. CASE T!Sends(m, [status |-> "garbage"])
    BY <2>1, <2>2, SendsKeeps
  <2> QED
    BY <1>1, <1>5, <2>2 DEF T!SunapiGarbled, T!tunnelVars
<1>6. ASSUME NEW m \in Tunnels, T!HttpThrows(m) PROVE TunnelInv'
  BY <1>1, <1>6 DEF T!HttpThrows
<1>7. ASSUME NEW m \in Tunnels, T!HttpReturns(m) PROVE TunnelInv'
  <2>1. CASE T!Moves(m, "silent") /\ UNCHANGED sent
    BY <1>7, <2>1, MovesKeeps DEF T!HttpReturns, T!Places
  <2>2. ASSUME NEW p \in T!Parts, Given(p).size >= 0,
               T!Sends(m, [frame |-> Given(p), parts |-> p])
        PROVE  TunnelInv'
    <3>1. [frame |-> Given(p), parts |-> p] \in TunnelAnswers
      BY <2>2 DEF TunnelAnswers, SentFrames
    <3>2. [frame |-> Given(p), parts |-> p] # T!Unsent
      BY FrameUnlikeText DEF T!Unsent
    <3> QED
      BY <2>2, <3>1, <3>2, SendsKeeps
  <2> QED
    BY <1>7, <2>1, <2>2 DEF T!HttpReturns, Given
<1> QED
  BY <1>1, <1>2, <1>3, <1>4, <1>5, <1>6, <1>7
     DEF T!Next, T!TunnelNext, T!Returns, T!Ends, T!vars, T!tunnelVars

LEMMA TunnelsStart == T!Init => TunnelInv
BY DEF T!Init, TunnelInv, T!Places, TunnelAnswers, T!Texts, T!Unsent

THEOREM TunnelsInvariant == BridgeSpec => []TunnelInv
<1>1. T!Spec => []TunnelInv
  BY TunnelsStart, TunnelsKeep, PTL DEF T!Spec
<1> QED
  BY <1>1, TunnelsBeside, PTL

\* What waits in the library's queue or was started is a message.
InboxInv == inbox \in Seq(Messages) /\ started \subseteq Messages

LEMMA InboxKeeps == InboxInv /\ [BridgeNext]_bridgeVars => InboxInv'
<1> SUFFICES ASSUME InboxInv, [BridgeNext]_bridgeVars PROVE InboxInv'
  OBVIOUS
<1> USE DEF InboxInv
<1>1. ASSUME NEW m \in Messages, Deliver(m) PROVE InboxInv'
  BY <1>1 DEF Deliver
<1>2. ASSUME ReceiveMessageFromPeer PROVE InboxInv'
  <2>1. Head(inbox) \in Messages /\ Tail(inbox) \in Seq(Messages)
    BY <1>2 DEF ReceiveMessageFromPeer
  <2> QED
    BY <1>2, <2>1 DEF ReceiveMessageFromPeer
<1>3. CASE UNCHANGED inboxVars
  BY <1>3 DEF inboxVars
<1> QED
  BY <1>1, <1>2, <1>3 DEF BridgeNext, ThreadFunction, StartContinues, CommandContinues,
     TunnelContinues, bridgeVars

\* The types: a request is answered by one text or one frame, and only when
\* its thread is done; only messages wait or are started.
THEOREM BridgeTyped == BridgeSpec => []BridgeTypeOK
<1>1. TunnelInv /\ InboxInv => BridgeTypeOK
  <2>1. TunnelAnswers \subseteq T!Texts \cup T!Frames
    BY DEF TunnelAnswers, SentFrames, Given, T!Frames
  <2> QED
    BY <2>1 DEF TunnelInv, InboxInv, BridgeTypeOK, T!TypeOK
<1>2. BridgeInit => InboxInv
  BY DEF BridgeInit, InboxInv
<1> QED
  BY TunnelsInvariant, InboxKeeps, <1>1, <1>2, PTL DEF BridgeSpec

\* Every binary answer of HttpTunnelingCommand below 2^32 bytes is taken apart
\* into the parts it was made of, for messages, headers and bodies of any
\* sizes: what would be cut to a negative int is not sent at all.
THEOREM FramesReadable ==
  ASSUME SizesAreNumbers
  PROVE  BridgeSpec => []FramesTakeApart
<1>1. TunnelInv => FramesTakeApart
  <2> SUFFICES ASSUME TunnelInv, NEW m \in Tunnels, "frame" \in DOMAIN sent[m],
                      T!FrameOf(sent[m].parts).size < T!H!Limit
               PROVE  T!H!TakeApart(sent[m].frame) = sent[m].parts
    BY DEF FramesTakeApart, T!FramesTakeApart
  <2>1. sent[m] \notin T!Texts
    BY DEF T!Texts
  <2>2. PICK p \in T!Parts : sent[m] = [frame |-> Given(p), parts |-> p] /\ Given(p).size >= 0
    BY <2>1 DEF TunnelInv, TunnelAnswers, SentFrames
  <2>3. /\ p = <<p[1], p[2], p[3]>>
        /\ p[1] \in Nat /\ p[2] \in Nat /\ p[3] \in Nat
    <3>1. /\ p = <<p[1], p[2], p[3]>>
          /\ p[1] \in MessageSizes /\ p[2] \in HeaderSizes /\ p[3] \in BodySizes
      BY DEF T!Parts
    <3> QED
      BY <3>1 DEF SizesAreNumbers
  <2>4. T!FrameOf(p).size \in Nat /\ T!FrameOf(p).size < T!H!Limit
    BY <2>2, <2>3 DEF T!FrameOf, T!H!Frame, T!H!Protocol, T!H!Borderline
  <2>5. Given(p) = T!FrameOf(p)
    <3> DEFINE f == T!FrameOf(p)
    <3>1. f = [message |-> f.message, header |-> f.header, size |-> f.size]
      BY DEF T!FrameOf, T!H!Frame
    <3>2. Given(p) = [f EXCEPT !.size = T!H!AsInt(f.size)]
      BY DEF Given, T!Given
    <3> HIDE DEF f
    <3>3. Given(p).size = T!H!AsInt(f.size)
      BY <3>1, <3>2
    <3>4. T!H!AsInt(f.size) = f.size
      BY <2>2, <2>4, <3>3, IntOfSize DEF SizesAreNumbers, f
    <3> QED
      BY <3>1, <3>2, <3>4 DEF f
  <2>6. T!H!TakeApart(T!FrameOf(p)) = <<p[1], p[2], p[3]>>
    BY <2>3, <2>4, FrameTakesApart DEF SizesAreNumbers, T!FrameOf
  <2> QED
    BY <2>2, <2>3, <2>5, <2>6
<1> QED
  BY TunnelsInvariant, <1>1, PTL
=============================================================================
