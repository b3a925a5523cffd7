---------------------- MODULE HummingbirdSession_proofs ----------------------
(***************************************************************************)
(* Proofs about HummingbirdSession for every set of links, every number of *)
(* topics, every give-up time and every longest pause.  The properties are *)
(* not inductive: what makes them so is that the position of a callback    *)
(* tells how far the session is restored (SessionInv) and how the retry    *)
(* count compares with the outage's clock (ClockInv).                      *)
(***************************************************************************)
EXTENDS HummingbirdSession, TLAPS

\* What the connection and the running callback say of the subscriptions.
SessionInv(l) ==
  /\ conn[l] # "up" => subscribed[l] = 0
  /\ cb[l] = "announce" => subscribed[l] = 0
  /\ cb[l] = "subscribe" => subscribed[l] < SubTopics[l]
  /\ cb[l] = "finish" /\ conn[l] = "up" => subscribed[l] = SubTopics[l]
  /\ cb[l] = "backoff" => conn[l] = "offline"
  /\ cb[l] \in {"announce", "subscribe", "finish"} => conn[l] \in {"up", "down"}
  /\ InService(l) => /\ subscribed[l] = SubTopics[l]
                     /\ conn_status[l]
                     /\ outage[l] = NotLost
                     /\ nretry_[l] = 0

\* The outage's clock is no later than the true one, and every retry but
\* the one being paused for has cost at least a second.
ClockInv(l) ==
  /\ outage[l] = NotLost => nretry_[l] = 0
  /\ outage[l] # NotLost => /\ ~conn_status[l]
                            /\ outage[l] <= unserved[l]
                            /\ nretry_[l] <= outage[l] + 1
                            /\ cb[l] # "backoff" \/ backoff[l] = 0
                                 => nretry_[l] <= outage[l]

IInv ==
  /\ TypeOK
  /\ \A l \in Links : SessionInv(l) /\ ClockInv(l)
  /\ GiveUpOnlyAfterOutage

-----------------------------------------------------------------------------
(* The initial states and every step keep the invariant. *)

\* The initial states satisfy the invariant.
LEMMA InitIInv == Init => IInv
  BY LinksAssumption DEF Init, IInv, TypeOK, SessionInv, ClockInv,
     GiveUpOnlyAfterOutage, InService, NotLost, ConnStates, CallbackStates,
     ReplyStates, ProcStates

\* A deliberate exit happens inside on_failure or connection_lost, when the
\* clock of that link has reached GiveUp; no other step makes one.
LEMMA GiveUpStep == IInv /\ [Next]_vars => GiveUpOnlyAfterOutage'
<1> SUFFICES ASSUME IInv, [Next]_vars, proc' = "exit0"
             PROVE  \E l \in Links : ~InService(l)' /\ unserved'[l] >= GiveUp
  BY DEF GiveUpOnlyAfterOutage
<1> USE LinksAssumption DEF IInv, TypeOK, NotLost
<1>1. ASSUME NEW l \in Links, on_failure(l) \/ connection_lost(l)
      PROVE  ~InService(l)' /\ unserved'[l] >= GiveUp
  <2>1. conn'[l] = "offline" /\ unserved' = unserved
    BY <1>1 DEF on_failure, connection_lost, NoticeLoss
  <2>2. outage[l] # NotLost /\ outage[l] >= GiveUp
    BY <1>1 DEF on_failure, connection_lost, NoticeLoss, reconnect, diff_sec
  <2> QED
    BY <2>1, <2>2 DEF ClockInv, InService
<1>2. CASE UNCHANGED vars
  BY <1>2 DEF vars, session, GiveUpOnlyAfterOutage, InService
<1>3. CASE Next /\ ~(\E l \in Links : on_failure(l) \/ connection_lost(l))
  BY <1>3 DEF Next, Library, MQTT_Start, RetryConnect, on_success, SendPresence,
     SubscribeNext, CallbackThrows, FinishSuccess, message_arrived, NetChange,
     Drop, CheckStatus, Publish, Second
<1> QED
  BY <1>1, <1>2, <1>3

\* Every step keeps the invariant: one step per action, and under it its type
\* and the two parts that speak of each link.
LEMMA NextIInv == IInv /\ [Next]_vars => IInv'
<1> SUFFICES ASSUME IInv, [Next]_vars
             PROVE  IInv'
  OBVIOUS
<1> USE LinksAssumption DEF IInv, TypeOK, NotLost, ConnStates, CallbackStates,
        ReplyStates, ProcStates, session
<1>1. ASSUME NEW l \in Links, MQTT_Start(l)
      PROVE  IInv'
  <2>1. TypeOK'
    BY <1>1 DEF MQTT_Start, SessionInv, ClockInv
  <2>2. ASSUME NEW k \in Links
        PROVE  SessionInv(k)'
    BY <1>1 DEF MQTT_Start, SessionInv, ClockInv, InService
  <2>3. ASSUME NEW k \in Links
        PROVE  ClockInv(k)'
    BY <1>1 DEF MQTT_Start, SessionInv, ClockInv, InService
  <2> QED
    BY <2>1, <2>2, <2>3, GiveUpStep
<1>2. ASSUME NEW l \in Links, on_failure(l)
      PROVE  IInv'
  <2>1. TypeOK'
    BY <1>2 DEF on_failure, NoticeLoss, reconnect, diff_sec, SessionInv,
       ClockInv
  <2>2. ASSUME NEW k \in Links
        PROVE  SessionInv(k)'
    BY <1>2 DEF on_failure, NoticeLoss, reconnect, diff_sec, SessionInv,
       ClockInv, InService
  <2>3. ASSUME NEW k \in Links
        PROVE  ClockInv(k)'
    BY <1>2 DEF on_failure, NoticeLoss, reconnect, diff_sec, SessionInv,
       ClockInv, InService
  <2> QED
    BY <2>1, <2>2, <2>3, GiveUpStep
<1>3. ASSUME NEW l \in Links, connection_lost(l)
      PROVE  IInv'
  <2>1. TypeOK'
    BY <1>3 DEF connection_lost, NoticeLoss, reconnect, diff_sec, SessionInv,
       ClockInv
  <2>2. ASSUME NEW k \in Links
        PROVE  SessionInv(k)'
    BY <1>3 DEF connection_lost, NoticeLoss, reconnect, diff_sec, SessionInv,
       ClockInv, InService
  <2>3. ASSUME NEW k \in Links
        PROVE  ClockInv(k)'
    BY <1>3 DEF connection_lost, NoticeLoss, reconnect, diff_sec, SessionInv,
       ClockInv, InService
  <2> QED
    BY <2>1, <2>2, <2>3, GiveUpStep
<1>4. ASSUME NEW l \in Links, RetryConnect(l)
      PROVE  IInv'
  <2>1. TypeOK'
    BY <1>4 DEF RetryConnect, SessionInv, ClockInv
  <2>2. ASSUME NEW k \in Links
        PROVE  SessionInv(k)'
    BY <1>4 DEF RetryConnect, SessionInv, ClockInv, InService
  <2>3. ASSUME NEW k \in Links
        PROVE  ClockInv(k)'
    BY <1>4 DEF RetryConnect, SessionInv, ClockInv, InService
  <2> QED
    BY <2>1, <2>2, <2>3, GiveUpStep
<1>5. ASSUME NEW l \in Links, on_success(l)
      PROVE  IInv'
  <2>1. TypeOK'
    BY <1>5 DEF on_success, presence_str, SessionInv, ClockInv
  <2>2. ASSUME NEW k \in Links
        PROVE  SessionInv(k)'
    BY <1>5 DEF on_success, presence_str, SessionInv, ClockInv, InService
  <2>3. ASSUME NEW k \in Links
        PROVE  ClockInv(k)'
    BY <1>5 DEF on_success, presence_str, SessionInv, ClockInv, InService
  <2> QED
    BY <2>1, <2>2, <2>3, GiveUpStep
<1>6. ASSUME NEW l \in Links, SendPresence(l)
      PROVE  IInv'
  <2>1. TypeOK'
    BY <1>6 DEF SendPresence, SessionInv, ClockInv
  <2>2. ASSUME NEW k \in Links
        PROVE  SessionInv(k)'
    BY <1>6 DEF SendPresence, SessionInv, ClockInv, InService
  <2>3. ASSUME NEW k \in Links
        PROVE  ClockInv(k)'
    BY <1>6 DEF SendPresence, SessionInv, ClockInv, InService
  <2> QED
    BY <2>1, <2>2, <2>3, GiveUpStep
<1>7. ASSUME NEW l \in Links, SubscribeNext(l)
      PROVE  IInv'
  <2>1. TypeOK'
    BY <1>7 DEF SubscribeNext, SessionInv, ClockInv
  <2>2. ASSUME NEW k \in Links
        PROVE  SessionInv(k)'
    BY <1>7 DEF SubscribeNext, SessionInv, ClockInv, InService
  <2>3. ASSUME NEW k \in Links
        PROVE  ClockInv(k)'
    BY <1>7 DEF SubscribeNext, SessionInv, ClockInv, InService
  <2> QED
    BY <2>1, <2>2, <2>3, GiveUpStep
<1>8. ASSUME NEW l \in Links, CallbackThrows(l)
      PROVE  IInv'
  <2>1. TypeOK'
    BY <1>8 DEF CallbackThrows, SessionInv, ClockInv
  <2>2. ASSUME NEW k \in Links
        PROVE  SessionInv(k)'
    BY <1>8 DEF CallbackThrows, SessionInv, ClockInv, InService
  <2>3. ASSUME NEW k \in Links
        PROVE  ClockInv(k)'
    BY <1>8 DEF CallbackThrows, SessionInv, ClockInv, InService
  <2> QED
    BY <2>1, <2>2, <2>3, GiveUpStep
<1>9. ASSUME NEW l \in Links, FinishSuccess(l)
      PROVE  IInv'
  <2>1. TypeOK'
    BY <1>9 DEF FinishSuccess, SessionInv, ClockInv
  <2>2. ASSUME NEW k \in Links
        PROVE  SessionInv(k)'
    BY <1>9 DEF FinishSuccess, SessionInv, ClockInv, InService
  <2>3. ASSUME NEW k \in Links
        PROVE  ClockInv(k)'
    BY <1>9 DEF FinishSuccess, SessionInv, ClockInv, InService
  <2> QED
    BY <2>1, <2>2, <2>3, GiveUpStep
<1>10. ASSUME NEW l \in Links, NetChange(l)
      PROVE  IInv'
  <2>1. TypeOK'
    BY <1>10 DEF NetChange, SessionInv, ClockInv
  <2>2. ASSUME NEW k \in Links
        PROVE  SessionInv(k)'
    BY <1>10 DEF NetChange, SessionInv, ClockInv, InService
  <2>3. ASSUME NEW k \in Links
        PROVE  ClockInv(k)'
    BY <1>10 DEF NetChange, SessionInv, ClockInv, InService
  <2> QED
    BY <2>1, <2>2, <2>3, GiveUpStep
<1>11. ASSUME NEW l \in Links, Drop(l)
      PROVE  IInv'
  <2>1. TypeOK'
    BY <1>11 DEF Drop, SessionInv, ClockInv
  <2>2. ASSUME NEW k \in Links
        PROVE  SessionInv(k)'
    BY <1>11 DEF Drop, SessionInv, ClockInv, InService
  <2>3. ASSUME NEW k \in Links
        PROVE  ClockInv(k)'
    BY <1>11 DEF Drop, SessionInv, ClockInv, InService
  <2> QED
    BY <2>1, <2>2, <2>3, GiveUpStep
<1>12. ASSUME NEW l \in Links, NEW i \in 1..SubTopics[l],
             message_arrived(l, i)
      PROVE  IInv'
  <2>1. TypeOK'
    BY <1>12 DEF message_arrived, SessionInv, ClockInv
  <2>2. ASSUME NEW k \in Links
        PROVE  SessionInv(k)'
    BY <1>12 DEF message_arrived, SessionInv, ClockInv, InService
  <2>3. ASSUME NEW k \in Links
        PROVE  ClockInv(k)'
    BY <1>12 DEF message_arrived, SessionInv, ClockInv, InService
  <2> QED
    BY <2>1, <2>2, <2>3, GiveUpStep
<1>13. ASSUME NEW m \in Msgs, CheckStatus(m)
      PROVE  IInv'
  <2>1. TypeOK'
    BY <1>13 DEF CheckStatus, SessionInv, ClockInv
  <2>2. ASSUME NEW k \in Links
        PROVE  SessionInv(k)'
    BY <1>13 DEF CheckStatus, SessionInv, ClockInv, InService
  <2>3. ASSUME NEW k \in Links
        PROVE  ClockInv(k)'
    BY <1>13 DEF CheckStatus, SessionInv, ClockInv, InService
  <2> QED
    BY <2>1, <2>2, <2>3, GiveUpStep
<1>14. ASSUME NEW m \in Msgs, Publish(m)
      PROVE  IInv'
  <2>1. TypeOK'
    BY <1>14 DEF Publish, SessionInv, ClockInv
  <2>2. ASSUME NEW k \in Links
        PROVE  SessionInv(k)'
    BY <1>14 DEF Publish, SessionInv, ClockInv, InService
  <2>3. ASSUME NEW k \in Links
        PROVE  ClockInv(k)'
    BY <1>14 DEF Publish, SessionInv, ClockInv, InService
  <2> QED
    BY <2>1, <2>2, <2>3, GiveUpStep
<1>15. ASSUME Second
      PROVE  IInv'
  <2>1. TypeOK'
    BY <1>15 DEF Second, Upto, SessionInv, ClockInv
  <2>2. ASSUME NEW k \in Links
        PROVE  SessionInv(k)'
    BY <1>15 DEF Second, Upto, SessionInv, ClockInv, InService
  <2>3. ASSUME NEW k \in Links
        PROVE  ClockInv(k)'
    BY <1>15 DEF Second, Upto, SessionInv, ClockInv, InService
  <2> QED
    BY <2>1, <2>2, <2>3, GiveUpStep
<1>16. ASSUME UNCHANGED vars
      PROVE  IInv'
  <2>1. TypeOK'
    BY <1>16 DEF vars, SessionInv, ClockInv
  <2>2. ASSUME NEW k \in Links
        PROVE  SessionInv(k)'
    BY <1>16 DEF vars, SessionInv, ClockInv, InService
  <2>3. ASSUME NEW k \in Links
        PROVE  ClockInv(k)'
    BY <1>16 DEF vars, SessionInv, ClockInv, InService
  <2> QED
    BY <2>1, <2>2, <2>3, GiveUpStep
<1> QED
  BY <1>1, <1>2, <1>3, <1>4, <1>5, <1>6, <1>7, <1>8, <1>9, <1>10, <1>11,
       <1>12, <1>13, <1>14, <1>15, <1>16 DEF Next, Library
\* Every reachable state satisfies the invariant.
THEOREM SpecIInv == Spec => []IInv
  BY InitIInv, NextIInv, PTL DEF Spec

-----------------------------------------------------------------------------
(* The properties follow.                                                  *)

\* Every variable keeps its type: in particular nretry_ never exceeds the
\* seconds after which the code gives up, and no topic is subscribed twice.
THEOREM TypeCorrect == Spec => []TypeOK
<1>1. IInv => TypeOK
  BY DEF IInv
<1> QED
  BY <1>1, SpecIInv, PTL

\* conn_status is FALSE from the moment an outage is noticed until on_success
\* has subscribed the last topic.
THEOREM StatusCorrect == Spec => []StatusFalseInOutage
<1>1. IInv => StatusFalseInOutage
  BY DEF IInv, ClockInv, StatusFalseInOutage
<1> QED
  BY <1>1, SpecIInv, PTL

\* A link between callbacks of a live connection has every topic of its
\* sub_topic_list and nothing left of an earlier outage.
THEOREM ServiceCorrect == Spec => []ServiceComplete
<1>1. IInv => ServiceComplete
  BY DEF IInv, SessionInv, ServiceComplete
<1> QED
  BY <1>1, SpecIInv, PTL

\* reconnect() counts at most one retry per second of an outage, and one.
THEOREM RetriesCorrect == Spec => []RetriesPaced
<1>1. IInv => RetriesPaced
  BY DEF IInv, ClockInv, RetriesPaced
<1> QED
  BY <1>1, SpecIInv, PTL

\* exit(0) in reconnect() is reached only when some link had no service for
\* GiveUp seconds.
THEOREM GiveUpCorrect == Spec => []GiveUpOnlyAfterOutage
<1>1. IInv => GiveUpOnlyAfterOutage
  BY DEF IInv
<1> QED
  BY <1>1, SpecIInv, PTL

\* lastConnectionTime, once set, is only cleared by the end of on_success.
THEOREM ClockCorrect == Spec => OutageClockNeverRestarted
<1> DEFINE ClockKept == \A l \in Links : outage[l] # NotLost =>
                          outage'[l] >= outage[l] \/ cb[l] = "finish"
<1>1. ASSUME TypeOK, [Next]_vars
      PROVE  [ClockKept]_vars
  <2> SUFFICES ASSUME Next, NEW k \in Links, outage[k] # NotLost,
                      cb[k] # "finish"
               PROVE  outage'[k] >= outage[k]
    BY <1>1
  <2> USE <1>1, LinksAssumption DEF TypeOK, NotLost
  <2>1. ASSUME NEW l \in Links, on_failure(l) \/ connection_lost(l)
        PROVE  outage'[k] >= outage[k]
    BY <2>1 DEF on_failure, connection_lost, NoticeLoss, diff_sec
  <2>2. ASSUME NEW l \in Links, FinishSuccess(l)
        PROVE  outage'[k] >= outage[k]
    BY <2>2 DEF FinishSuccess
  <2>3. ASSUME Second
        PROVE  outage'[k] >= outage[k]
    BY <2>3 DEF Second, Upto
  <2>4. ASSUME UNCHANGED outage
        PROVE  outage'[k] >= outage[k]
    BY <2>4
  <2> QED
    BY <2>1, <2>2, <2>3, <2>4
    DEF Next, Library, MQTT_Start, RetryConnect, on_success, SendPresence,
        SubscribeNext, CallbackThrows, message_arrived, CheckStatus, Publish,
        NetChange, Drop, session
<1> QED
  BY <1>1, TypeCorrect, PTL DEF Spec, OutageClockNeverRestarted

-----------------------------------------------------------------------------
(* The refinement of AgentService.                                         *)

\* A step that touches neither the connections nor the positions of the
\* callbacks, nor the clock and the process, is a stutter of AgentService.
LEMMA QuietStep ==
  ASSUME UNCHANGED <<unserved, proc>>,
         \A l \in Links : InService(l)' = InService(l)
  PROVE  UNCHANGED Service!vars
  BY DEF Service!vars

\* Every step of a link's callbacks and of the replies is a step of
\* AgentService or a stutter.
LEMMA NextRefines == IInv /\ Next => Service!Next \/ UNCHANGED Service!vars
<1> SUFFICES ASSUME IInv, Next
             PROVE  Service!Next \/ UNCHANGED Service!vars
  OBVIOUS
<1> USE LinksAssumption DEF IInv, TypeOK
<1> DEFINE Serving == {l \in Links : InService(l)}
<1>1. proc = "running"
  BY DEF Next, Library, MQTT_Start, on_failure, connection_lost, RetryConnect,
         on_success, SendPresence, SubscribeNext, CallbackThrows,
         FinishSuccess, message_arrived, NetChange, Drop, CheckStatus,
         Publish, Second
<1>2. ASSUME NEW l \in Links,
             \/ MQTT_Start(l) \/ on_success(l) \/ SendPresence(l)
             \/ SubscribeNext(l) \/ NetChange(l)
      PROVE  UNCHANGED Service!vars
  BY <1>2, QuietStep DEF InService, MQTT_Start, on_success, presence_str,
     SendPresence, SubscribeNext, NetChange, session
<1>3. ASSUME NEW l \in Links, on_failure(l) \/ connection_lost(l)
      PROVE  Service!Next \/ UNCHANGED Service!vars
  <2>1. \A k \in Links : InService(k)' = InService(k)
    BY <1>3 DEF InService, on_failure, connection_lost, NoticeLoss, reconnect
  <2>2. CASE proc' = proc
    BY <1>3, <2>1, <2>2, QuietStep DEF on_failure, connection_lost, NoticeLoss
  <2>3. CASE proc' # proc
    <3>1. proc' = "exit0" /\ unserved' = unserved /\ diff_sec(l) >= GiveUp
      BY <1>3, <2>3 DEF on_failure, connection_lost, NoticeLoss, reconnect
    <3>2. l \notin Serving /\ unserved[l] >= GiveUp
      BY <1>3, <3>1 DEF diff_sec, ClockInv, InService, on_failure,
         connection_lost, NotLost
    <3>3. Serving' = Serving
      BY <2>1
    <3> QED
      BY <1>1, <3>1, <3>2, <3>3 DEF Service!Next, Service!Abandon
  <2> QED
    BY <2>2, <2>3
<1>4. ASSUME NEW l \in Links, RetryConnect(l) \/ CallbackThrows(l)
      PROVE  Service!Next \/ UNCHANGED Service!vars
  <2>1. \A k \in Links : InService(k)' = InService(k)
    BY <1>4 DEF InService, SessionInv, RetryConnect, CallbackThrows, session
  <2>2. l \notin Serving /\ unserved' = unserved
    BY <1>4 DEF InService, RetryConnect, CallbackThrows
  <2>3. proc' = proc \/ proc' \in {"exit1", "terminated"}
    BY <1>4 DEF RetryConnect, CallbackThrows
  <2>4. Serving' = Serving
    BY <2>1
  <2> QED
    BY <1>1, <2>1, <2>2, <2>3, <2>4, QuietStep DEF Service!Next, Service!Fail
<1>5. ASSUME NEW l \in Links, FinishSuccess(l)
      PROVE  Service!Next \/ UNCHANGED Service!vars
  <2>1. CASE conn[l] = "up"
    <3>1. /\ l \notin Serving
          /\ Serving' = Serving \cup {l}
          /\ unserved' = [unserved EXCEPT ![l] = 0]
          /\ proc' = proc
      BY <1>5, <2>1 DEF InService, FinishSuccess
    <3> QED
      BY <1>1, <3>1 DEF Service!Next, Service!Enter
  <2>2. CASE conn[l] # "up"
    <3>1. \A k \in Links : InService(k)' = InService(k)
      BY <1>5, <2>2 DEF InService, FinishSuccess
    <3>2. unserved' = unserved /\ proc' = proc
      BY <1>5, <2>2 DEF FinishSuccess
    <3> QED
      BY <3>1, <3>2, QuietStep
  <2> QED
    BY <2>1, <2>2
<1>6. ASSUME NEW l \in Links, Drop(l)
      PROVE  Service!Next \/ UNCHANGED Service!vars
  <2>1. proc' = proc /\ unserved' = unserved
    BY <1>6 DEF Drop
  <2>2. CASE cb[l] = "none"
    <3>1. l \in Serving /\ Serving' = Serving \ {l}
      BY <1>6, <2>2 DEF InService, Drop
    <3> QED
      BY <1>1, <2>1, <3>1 DEF Service!Next, Service!Leave
  <2>3. CASE cb[l] # "none"
    <3>1. \A k \in Links : InService(k)' = InService(k)
      BY <1>6, <2>3 DEF InService, Drop
    <3> QED
      BY <2>1, <3>1, QuietStep
  <2> QED
    BY <2>2, <2>3
<1>7. ASSUME NEW l \in Links, NEW i \in 1..SubTopics[l], message_arrived(l, i)
      PROVE  UNCHANGED Service!vars
  BY <1>7, QuietStep DEF InService, message_arrived
<1>8. ASSUME NEW m \in Msgs, CheckStatus(m)
      PROVE  UNCHANGED Service!vars
  BY <1>8, QuietStep DEF InService, CheckStatus, session
<1>9. ASSUME NEW m \in Msgs, Publish(m)
      PROVE  Service!Next \/ UNCHANGED Service!vars
  <2>1. \A k \in Links : InService(k)' = InService(k)
    BY <1>9 DEF InService, Publish, session
  <2>2. unserved' = unserved /\ Serving' = Serving
    BY <1>9, <2>1 DEF Publish
  <2>3. CASE conn[Bridge] = "up"
    BY <1>9, <2>1, <2>2, <2>3, QuietStep DEF Publish
  <2>4. CASE conn[Bridge] # "up"
    <3>1. Bridge \in Links /\ Bridge \notin Serving /\ proc' = "terminated"
      BY <1>9, <2>4 DEF Publish, InService
    <3> QED
      BY <1>1, <2>2, <3>1 DEF Service!Next, Service!Fail
  <2> QED
    BY <2>3, <2>4
<1>10. ASSUME Second
       PROVE  Service!Next
  <2>1. proc' = proc /\ Serving' = Serving
    BY <1>10 DEF Second, InService
  <2>2. unserved' = [l \in Links |->
                       IF l \in Serving \/ unserved[l] >= GiveUp
                       THEN unserved[l] ELSE unserved[l] + 1]
    BY <1>10 DEF Second, Upto
  <2> QED
    BY <1>1, <2>1, <2>2 DEF Service!Next, Service!Second
<1> QED
  BY <1>2, <1>3, <1>4, <1>5, <1>6, <1>7, <1>8, <1>9, <1>10 DEF Next, Library

\* The links' callbacks, their retries and the replies implement
\* AgentService: a link leaves service only by losing its connection, enters
\* it only completely restored, and the process ends for no other reason
\* than a link without service.
THEOREM Refinement == Spec => ServiceSpec
<1>1. Init => Service!Init
  BY DEF Init, InService, Service!Init
<1>2. IInv /\ [Next]_vars => [Service!Next]_Service!vars
  <2>1. ASSUME UNCHANGED vars
        PROVE  UNCHANGED Service!vars
    BY <2>1, QuietStep DEF vars, session, InService
  <2> QED
    BY <2>1, NextRefines
<1> QED
  BY <1>1, <1>2, SpecIInv, PTL DEF Spec, ServiceSpec, Service!Spec
=============================================================================
