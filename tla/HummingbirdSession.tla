------------------------- MODULE HummingbirdSession -------------------------
(***************************************************************************)
(* The life of the agent's MQTT links: class hummingbird, the callback     *)
(* object of the Paho client (mqtt/hummingbird_01/hummingbird.h, .cpp),    *)
(* and the reply path that consults its conn_status before publishing      *)
(* (mqtt/mqtt_interface.cc).  hummingbird_for_broker is the same code for  *)
(* the second link; both links run in one process.                         *)
(*                                                                         *)
(* The code keeps lastConnectionTime, the time at which an outage was      *)
(* first noticed (0: no outage), and compares time(NULL) with it.  Here    *)
(* outage[l] is that difference: NotLost for lastConnectionTime = 0, else  *)
(* the seconds since, saturating at GiveUp because the code only asks      *)
(* whether the difference is below GiveUp.                                 *)
(*                                                                         *)
(* The client library is external.  It runs at most one callback of a      *)
(* link at a time, ends every connect attempt with on_success or           *)
(* on_failure, reports every loss of an established connection, and        *)
(* throws mqtt::exception from publish and subscribe when it is not        *)
(* connected.                                                              *)
(***************************************************************************)
EXTENDS Integers

CONSTANTS Links,       (* the links of this process                        *)
          Bridge,      (* the link whose messages are answered             *)
          Msgs,        (* message threads of the bridge, each used once    *)
          SubTopics,   (* number of topics in each link's sub_topic_list   *)
          GiveUp,      (* seconds of outage before exit(0); 1200 in the code *)
          MaxBackoff   (* longest pause before a retry; 10 in the code     *)

ASSUME LinksAssumption ==
  /\ Bridge \in Links
  /\ SubTopics \in [Links -> Nat \ {0}]
  /\ GiveUp \in Nat \ {0}
  /\ MaxBackoff \in Nat \ {0}

VARIABLES
  net,          \* external: is the broker reachable over each link?
  conn,         \* external: the client's connection
  subscribed,   \* external: how many topics the broker session has
  cb,           \* where each link's library thread is inside a callback
  backoff,      \* seconds left of the sleep_for in reconnect()
  outage,       \* now - lastConnectionTime, or NotLost
  nretry_,
  conn_status,
  reply,        \* the threads started for messages of the bridge link
  proc,         \* how the process stands
  unserved      \* history: seconds since each link was last in service

session == <<conn, subscribed, cb, backoff, outage, nretry_, conn_status>>
vars == <<net, session, reply, proc, unserved>>

NotLost == -1

ConnStates == {"idle", "connecting", "up", "down", "offline", "abandoned"}
CallbackStates == {"none", "announce", "subscribe", "finish", "backoff"}
ReplyStates == {"absent", "working", "checked", "sent", "dropped", "threw"}
ProcStates == {"running", "exit0", "exit1", "terminated"}

TypeOK ==
  /\ net \in [Links -> BOOLEAN]
  /\ conn \in [Links -> ConnStates]
  /\ subscribed \in [Links -> Nat]
  /\ \A l \in Links : subscribed[l] <= SubTopics[l]
  /\ cb \in [Links -> CallbackStates]
  /\ backoff \in [Links -> 0..MaxBackoff]
  /\ outage \in [Links -> {NotLost} \cup 0..GiveUp]
  /\ nretry_ \in [Links -> 0..GiveUp]
  /\ conn_status \in [Links -> BOOLEAN]
  /\ reply \in [Msgs -> ReplyStates]
  /\ proc \in ProcStates
  /\ unserved \in [Links -> 0..GiveUp]

\* Connected, and no callback of the link is running.
InService(l) == conn[l] = "up" /\ cb[l] = "none"

-----------------------------------------------------------------------------
(* The constructor leaves conn_status unset: its first value is arbitrary. *)
Init ==
  /\ net \in [Links -> BOOLEAN]
  /\ conn = [l \in Links |-> "idle"]
  /\ subscribed = [l \in Links |-> 0]
  /\ cb = [l \in Links |-> "none"]
  /\ backoff = [l \in Links |-> 0]
  /\ outage = [l \in Links |-> NotLost]
  /\ nretry_ = [l \in Links |-> 0]
  /\ conn_status \in [Links -> BOOLEAN]
  /\ reply = [m \in Msgs |-> "absent"]
  /\ proc = "running"
  /\ unserved = [l \in Links |-> 0]

\* Mutant: MQTT_Init forgets SetDeviceStatus.
NoPresence == ""

\* MQTT_Init gives every link a presence message.
presence_str == "Agent Start ... Device ON"

\* MQTT_Start: connect() is called once; an exception is caught and the
\* result is looked at by nobody, so the link is then never tried again.
MQTT_Start(l) ==
  /\ proc = "running"
  /\ conn[l] = "idle"
  /\ \E outcome \in {"connecting", "abandoned"} :
       conn' = [conn EXCEPT ![l] = outcome]
  /\ UNCHANGED <<net, subscribed, cb, backoff, outage, nretry_, conn_status,
                 reply, proc, unserved>>

\* now - lastConnectionTime after "if (lastConnectionTime == 0) ... = now".
diff_sec(l) == IF outage[l] = NotLost THEN 0 ELSE outage[l]

\* Mutant: gives up a second early.
reconnectOffByOne(l) ==
  \/ /\ diff_sec(l) < GiveUp - 1
     /\ \E sec \in 1..MaxBackoff : backoff' = [backoff EXCEPT ![l] = sec]
     /\ nretry_' = [nretry_ EXCEPT ![l] = @ + 1]
     /\ cb' = [cb EXCEPT ![l] = "backoff"]
     /\ UNCHANGED proc
  \/ /\ diff_sec(l) >= GiveUp - 1
     /\ proc' = "exit0"
     /\ UNCHANGED <<backoff, nretry_, cb>>

\* reconnect() up to its sleep_for: count the retry and pause, or exit(0).
reconnect(l) ==
  \/ /\ diff_sec(l) < GiveUp
     /\ \E sec \in 1..MaxBackoff : backoff' = [backoff EXCEPT ![l] = sec]
     /\ nretry_' = [nretry_ EXCEPT ![l] = @ + 1]
     /\ cb' = [cb EXCEPT ![l] = "backoff"]
     /\ UNCHANGED proc
  \/ /\ diff_sec(l) >= GiveUp
     /\ proc' = "exit0"
     /\ UNCHANGED <<backoff, nretry_, cb>>

\* Mutant: lastConnectionTime is assigned without the test for zero.
NoticeLossRestartsClock(l) ==
  /\ conn_status' = [conn_status EXCEPT ![l] = FALSE]
  /\ outage' = [outage EXCEPT ![l] = 0]
  /\ reconnect(l)
  /\ conn' = [conn EXCEPT ![l] = "offline"]
  /\ UNCHANGED <<net, subscribed, reply, unserved>>

\* What on_failure and connection_lost share.
NoticeLoss(l) ==
  /\ conn_status' = [conn_status EXCEPT ![l] = FALSE]
  /\ outage' = [outage EXCEPT ![l] = diff_sec(l)]
  /\ reconnect(l)
  /\ conn' = [conn EXCEPT ![l] = "offline"]
  /\ UNCHANGED <<net, subscribed, reply, unserved>>

\* The connect token fails.
on_failure(l) ==
  /\ proc = "running"
  /\ conn[l] = "connecting" /\ cb[l] = "none"
  /\ ~net[l]
  /\ NoticeLoss(l)

\* Mutant: the loss is recorded and nobody reconnects.
connection_lostPassive(l) ==
  /\ proc = "running"
  /\ conn[l] = "down" /\ cb[l] = "none"
  /\ conn_status' = [conn_status EXCEPT ![l] = FALSE]
  /\ conn' = [conn EXCEPT ![l] = "offline"]
  /\ UNCHANGED <<net, subscribed, cb, backoff, outage, nretry_, reply, proc,
                 unserved>>

\* The library reports that an established connection is gone.
connection_lost(l) ==
  /\ proc = "running"
  /\ conn[l] = "down" /\ cb[l] = "none"
  /\ NoticeLoss(l)

\* Mutant: the pause ends without a connect().
RetryConnectSkipped(l) ==
  /\ proc = "running"
  /\ cb[l] = "backoff" /\ backoff[l] = 0
  /\ cb' = [cb EXCEPT ![l] = "none"]
  /\ UNCHANGED <<net, conn, subscribed, backoff, outage, nretry_, conn_status,
                 reply, proc, unserved>>

\* reconnect() after its sleep_for: connect again, or exit(1) on an exception.
RetryConnect(l) ==
  /\ proc = "running"
  /\ cb[l] = "backoff" /\ backoff[l] = 0
  /\ \/ /\ conn' = [conn EXCEPT ![l] = "connecting"]
        /\ cb' = [cb EXCEPT ![l] = "none"]
        /\ UNCHANGED proc
     \/ /\ proc' = "exit1"
        /\ UNCHANGED <<conn, cb>>
  /\ UNCHANGED <<net, subscribed, backoff, outage, nretry_, conn_status,
                 reply, unserved>>

-----------------------------------------------------------------------------
(* on_success makes library calls one by one: the presence message, one    *)
(* subscribe per topic, and only then the assignments.                     *)

\* Mutant: the status is set first, as in many callbacks of this kind.
on_successStatusFirst(l) ==
  /\ proc = "running"
  /\ conn[l] = "connecting" /\ cb[l] = "none"
  /\ net[l]
  /\ conn' = [conn EXCEPT ![l] = "up"]
  /\ cb' = [cb EXCEPT ![l] = "announce"]
  /\ conn_status' = [conn_status EXCEPT ![l] = TRUE]
  /\ UNCHANGED <<net, subscribed, backoff, outage, nretry_, reply, proc,
                 unserved>>

\* on_success starts; it returns at once when there is no presence message.
on_success(l) ==
  /\ proc = "running"
  /\ conn[l] = "connecting" /\ cb[l] = "none"
  /\ net[l]
  /\ conn' = [conn EXCEPT ![l] = "up"]
  /\ cb' = [cb EXCEPT ![l] = IF presence_str = "" THEN "none" ELSE "announce"]
  /\ UNCHANGED <<net, subscribed, backoff, outage, nretry_, conn_status,
                 reply, proc, unserved>>

SendPresence(l) ==
  /\ proc = "running"
  /\ cb[l] = "announce" /\ conn[l] = "up"
  /\ cb' = [cb EXCEPT ![l] = "subscribe"]
  /\ UNCHANGED <<net, conn, subscribed, backoff, outage, nretry_,
                 conn_status, reply, proc, unserved>>

\* Mutant: the loop runs to i <= sub_topic_list.size().
SubscribeNextTooFar(l) ==
  /\ proc = "running"
  /\ cb[l] = "subscribe" /\ conn[l] = "up"
  /\ subscribed' = [subscribed EXCEPT ![l] = @ + 1]
  /\ cb' = [cb EXCEPT ![l] =
              IF subscribed[l] = SubTopics[l] THEN "finish" ELSE @]
  /\ UNCHANGED <<net, conn, backoff, outage, nretry_, conn_status, reply,
                 proc, unserved>>

SubscribeNext(l) ==
  /\ proc = "running"
  /\ cb[l] = "subscribe" /\ conn[l] = "up"
  /\ subscribed' = [subscribed EXCEPT ![l] = @ + 1]
  /\ cb' = [cb EXCEPT ![l] =
              IF subscribed[l] + 1 = SubTopics[l] THEN "finish" ELSE @]
  /\ UNCHANGED <<net, conn, backoff, outage, nretry_, conn_status, reply,
                 proc, unserved>>

\* publish or subscribe throws in the callback: nothing catches it.
CallbackThrows(l) ==
  /\ proc = "running"
  /\ cb[l] \in {"announce", "subscribe"} /\ conn[l] # "up"
  /\ proc' = "terminated"
  /\ UNCHANGED <<net, session, reply, unserved>>

\* Mutant: lastConnectionTime keeps its value.
FinishSuccessKeepsClock(l) ==
  /\ proc = "running"
  /\ cb[l] = "finish"
  /\ nretry_' = [nretry_ EXCEPT ![l] = 0]
  /\ conn_status' = [conn_status EXCEPT ![l] = TRUE]
  /\ cb' = [cb EXCEPT ![l] = "none"]
  /\ unserved' = [unserved EXCEPT ![l] = IF conn[l] = "up" THEN 0 ELSE @]
  /\ UNCHANGED <<net, conn, subscribed, backoff, outage, reply, proc>>

\* Mutant: nretry_ keeps its value.
FinishSuccessKeepsCount(l) ==
  /\ proc = "running"
  /\ cb[l] = "finish"
  /\ outage' = [outage EXCEPT ![l] = NotLost]
  /\ conn_status' = [conn_status EXCEPT ![l] = TRUE]
  /\ cb' = [cb EXCEPT ![l] = "none"]
  /\ unserved' = [unserved EXCEPT ![l] = IF conn[l] = "up" THEN 0 ELSE @]
  /\ UNCHANGED <<net, conn, subscribed, backoff, nretry_, reply, proc>>

\* The assignments at the end of on_success.
FinishSuccess(l) ==
  /\ proc = "running"
  /\ cb[l] = "finish"
  /\ outage' = [outage EXCEPT ![l] = NotLost]
  /\ nretry_' = [nretry_ EXCEPT ![l] = 0]
  /\ conn_status' = [conn_status EXCEPT ![l] = TRUE]
  /\ cb' = [cb EXCEPT ![l] = "none"]
  /\ unserved' = [unserved EXCEPT ![l] = IF conn[l] = "up" THEN 0 ELSE @]
  /\ UNCHANGED <<net, conn, subscribed, backoff, reply, proc>>

-----------------------------------------------------------------------------
(* Messages and replies.                                                   *)

\* message_arrived for the i-th topic.  Topic 1 is "connection", for which
\* the bridge has no branch; it starts a thread for each of the others.  The
\* threads that the broker starts do nothing.
message_arrived(l, i) ==
  /\ proc = "running"
  /\ conn[l] = "up" /\ cb[l] = "none"
  /\ i \in 1..subscribed[l]
  /\ conn_status' = [conn_status EXCEPT ![l] = TRUE]
  /\ IF l = Bridge /\ i > 1
     THEN \E m \in Msgs : /\ reply[m] = "absent"
                          /\ reply' = [reply EXCEPT ![m] = "working"]
     ELSE UNCHANGED reply
  /\ UNCHANGED <<net, conn, subscribed, cb, backoff, outage, nretry_, proc,
                 unserved>>

\* OnResponseCommandMessage reads conn_status and returns if it is false.
CheckStatus(m) ==
  /\ proc = "running"
  /\ reply[m] = "working"
  /\ reply' = [reply EXCEPT ![m] =
                 IF conn_status[Bridge] THEN "checked" ELSE "dropped"]
  /\ UNCHANGED <<net, session, proc, unserved>>

\* ... and publishes later, from the message's own thread.
Publish(m) ==
  /\ proc = "running"
  /\ reply[m] = "checked"
  /\ IF conn[Bridge] = "up"
     THEN /\ reply' = [reply EXCEPT ![m] = "sent"]
          /\ UNCHANGED proc
     ELSE /\ reply' = [reply EXCEPT ![m] = "threw"]
          /\ proc' = "terminated"
  /\ UNCHANGED <<net, session, unserved>>

-----------------------------------------------------------------------------
(* The environment: the network, the library's view of it, and time.       *)

NetChange(l) ==
  /\ proc = "running"
  /\ net' = [net EXCEPT ![l] = ~@]
  /\ UNCHANGED <<session, reply, proc, unserved>>

\* The client's connection breaks; with clean_session the broker forgets
\* the subscriptions.
Drop(l) ==
  /\ proc = "running"
  /\ conn[l] = "up" /\ ~net[l]
  /\ conn' = [conn EXCEPT ![l] = "down"]
  /\ subscribed' = [subscribed EXCEPT ![l] = 0]
  /\ UNCHANGED <<net, cb, backoff, outage, nretry_, conn_status, reply, proc,
                 unserved>>

Upto(n) == IF n < GiveUp THEN n + 1 ELSE n

Second ==
  /\ proc = "running"
  /\ outage' = [l \in Links |->
                  IF outage[l] = NotLost THEN NotLost ELSE Upto(outage[l])]
  /\ backoff' = [l \in Links |-> IF backoff[l] > 0 THEN backoff[l] - 1 ELSE 0]
  /\ unserved' = [l \in Links |->
                    IF InService(l) THEN unserved[l] ELSE Upto(unserved[l])]
  /\ UNCHANGED <<net, conn, subscribed, cb, nretry_, conn_status, reply, proc>>

-----------------------------------------------------------------------------
\* The callbacks of a link: hummingbird_for_broker has the same ones.
Library(l) ==
  \/ MQTT_Start(l)
  \/ on_failure(l) \/ connection_lost(l) \/ RetryConnect(l)
  \/ on_success(l) \/ SendPresence(l) \/ SubscribeNext(l)
  \/ CallbackThrows(l) \/ FinishSuccess(l)

Next ==
  \/ \E l \in Links : \/ Library(l)
                      \/ \E i \in 1..SubTopics[l] : message_arrived(l, i)
                      \/ NetChange(l)
                      \/ Drop(l)
  \/ \E m \in Msgs : CheckStatus(m) \/ Publish(m)
  \/ Second

Spec == Init /\ [][Next]_vars

\* Callbacks are delivered, sleeps end, broken connections are noticed
\* (keep-alive) and time passes.
Fairness ==
  /\ \A l \in Links : WF_vars(Library(l)) /\ WF_vars(Drop(l))
  /\ WF_vars(Second)

FairSpec == Spec /\ Fairness

-----------------------------------------------------------------------------
(* Properties.                                                             *)

\* The status that replies rely on stays FALSE from the moment a loss is
\* noticed until every topic is subscribed again: on_success assigns it last.
StatusFalseInOutage ==
  \A l \in Links : outage[l] # NotLost => ~conn_status[l]

\* A link between callbacks of a live connection is completely restored:
\* every topic of sub_topic_list is subscribed again, the status is TRUE and
\* no outage or retry count is left over from before.
ServiceComplete ==
  \A l \in Links : InService(l) =>
    /\ subscribed[l] = SubTopics[l]
    /\ conn_status[l]
    /\ outage[l] = NotLost
    /\ nretry_[l] = 0

\* Retries are paced: at any point of an outage there were no more retries
\* than seconds (and one), and never more than GiveUp of them.
RetriesPaced ==
  \A l \in Links : /\ outage[l] = NotLost => nretry_[l] = 0
                   /\ outage[l] # NotLost => nretry_[l] <= outage[l] + 1

\* exit(0) happens only when some link really had no service for GiveUp
\* seconds: a lastConnectionTime left from an earlier outage, or from before
\* a recovery, would end a process whose links work.
GiveUpOnlyAfterOutage ==
  proc = "exit0" =>
    \E l \in Links : ~InService(l) /\ unserved[l] >= GiveUp

\* While an outage lasts its clock is never restarted, however many attempts
\* fail meanwhile: only the end of an on_success clears it.
OutageClockNeverRestarted ==
  [][\A l \in Links : outage[l] # NotLost =>
       outage'[l] >= outage[l] \/ cb[l] = "finish"]_vars

\* An outage that was noticed ends: by a restored session or by the end of
\* the process, whatever the network does.
OutageResolves ==
  \A l \in Links :
    outage[l] # NotLost ~> (outage[l] = NotLost \/ proc # "running")

\* If the broker stays reachable from some point on, the link ends up in
\* service for good, unless the process ended or the very first connect()
\* threw (nothing retries that one).
ReachableBrokerServes ==
  \A l \in Links :
    <>[]net[l] => <>[]( \/ InService(l) /\ conn_status[l]
                        \/ conn[l] = "abandoned"
                        \/ proc # "running" )

\* The links and the process refine what AgentService promises.
Service == INSTANCE AgentService WITH inService <- {l \in Links : InService(l)}
ServiceSpec == Service!Spec

\* hummingbird.h: "If the connection is lost, it will attempt to restore the
\* connection and re-subscribe to the topic" (or give up, or report an error).
RestoreAttempted ==
  \A l \in Links :
    conn[l] = "down" ~> conn[l] = "connecting" \/ proc \in {"exit0", "exit1"}

\* "The connection was lost ... -> return": a reply is not published once
\* the connection is lost (OnResponseCommandMessage).
NoReplyThrows == \A m \in Msgs : reply[m] # "threw"
=============================================================================
