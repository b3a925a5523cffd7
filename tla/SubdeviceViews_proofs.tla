------------------------ MODULE SubdeviceViews_proofs ------------------------
(***************************************************************************)
(* The deviceinfo and firmware views for any number of channels and        *)
(* requests, and any timeouts with CURL_TIMEOUT <= WAIT_TIMEOUT: what a    *)
(* request that nothing overlaps is answered with, and when.               *)
(***************************************************************************)
EXTENDS SubdeviceService, TLAPS

Under == spawned \cup asking

\* Where a request has not polled, or will not.
Unpolled == {"register", "again", "decide", "chosen", "unpack"}
Decided == {"decide", "chosen", "named", "settle", "unpack", "scan", "copy",
            "respond", "reset"}

\* A "timeout" written beforehand stays only while a worker asks that was
\* started for the same request; the status that the sender looks at is the
\* one that the poll has gone by; and the place of a request fits its message.
SharedInv ==
  /\ \A o \in Owners, c \in Channels :
       /\ wsub[c].name = <<o, "pending">> =>
            <<o, "info", c>> \in asking \/ <<o, "version", c>> \in asking
       /\ wsub[c].net = <<o, "pending">> => <<o, "net", c>> \in asking
       /\ wfw[c].version = <<o, "pending">> => <<o, "version", c>> \in asking
  /\ \A c \in Channels : sub[c].status = wsub[c].status
  /\ \A r \in Requests :
       /\ stage[r] \in {"absent"} \cup Unpolled => ~answer[r].polled
       /\ stage[r] = "absent" => ~answer[r].timeover
       /\ stage[r] \in Decided => msg[r].command \in {"deviceinfo", "firmware"}
       /\ stage[r] = "named" => msg[r].command = "deviceinfo"
       /\ stage[r] = "settle" => answer[r].polled

\* No other request is under way, and no worker that was started for another.
Alone(r) ==
  /\ \A q \in Requests \ {r} : ~Busy(q)
  /\ \A o \in Owners \ {r}, k \in Kinds, c \in Channels :
       <<o, k, c>> \notin Under

\* The kinds of workers that have been started.
Polled(r) ==
  IF stage[r] = "named" THEN {"info"}
  ELSE IF stage[r] \in {"settle", "scan", "copy"} /\ answer[r].polled
  THEN IF Command(r, "deviceinfo") THEN {"info", "net"} ELSE {"version"}
  ELSE {}

\* The channels asked, the mark of a kind and what it comes with.
Asks(kind, c) ==
  IF kind = "version" THEN wsub[c].status = 1 ELSE wsub[c].status # 0

Marked(kind, c) ==
  CASE kind = "info"    -> wsub[c].infoChecked
    [] kind = "net"     -> wsub[c].netChecked
    [] kind = "version" -> wfw[c].checked

Found(kind, c) ==
  CASE kind = "info"    -> wsub[c].name
    [] kind = "net"     -> wsub[c].net
    [] kind = "version" -> wfw[c].version

\* The mark and the strings of a channel are those of the request's workers.
PollInv(r) ==
  \A k \in Kinds, c \in Channels :
    IF k \in Polled(r) /\ Asks(k, c)
    THEN /\ <<r, k, c>> \in asking => ~Marked(k, c)
         /\ <<r, k, c>> \notin Under =>
              Marked(k, c) /\ Found(k, c) = <<r, "answered">>
    ELSE stage[r] \in Unpolled \cup {"named", "settle", "scan", "copy"} =>
           <<r, k, c>> \notin Under

\* How long the cameras have taken.
TimeInv(r) ==
  \A k \in Kinds, c \in Channels :
    /\ (stage[r] = "settle" /\ wait[r] > 0) \/ stage[r] \in {"scan", "copy"} =>
         <<r, k, c>> \notin spawned
    /\ <<r, k, c>> \in asking =>
         /\ stage[r] = "settle" => wait[r] <= age[r][k]
         /\ stage[r] = "scan" => wait[r] < age[r][k]

\* The sender waits for no mark in vain, and what it shows is complete.
SenderInv(r) ==
  /\ stage[r] \in {"unpack", "scan"} /\ ~answer[r].polled => AllChecked(r)
  /\ stage[r] = "copy" => AllChecked(r)
  /\ stage[r] = "respond" =>
       \A c \in DOMAIN Shows(r) : \A f \in Shows(r)[c] :
         /\ f[2] = "answered"
         /\ /\ answer[r].polled
            /\ Command(r, "deviceinfo") \/ sub[c].status = 1
            => f[1] = r

BusyInv(r) == Alone(r) /\ PollInv(r) /\ TimeInv(r) /\ SenderInv(r)

\* A request that is or was on its own.
LoneInv(r) ==
  /\ stage[r] # "absent"
  /\ ~answer[r].timeover
  /\ Busy(r) => BusyInv(r)

IInv == TypeOK /\ SharedInv /\ \A r \in Requests : lone[r] => LoneInv(r)

-----------------------------------------------------------------------------
(* The initial states.                                                     *)

Rec == [status : Statuses, name : Findings, net : Findings,
        infoChecked : BOOLEAN, netChecked : BOOLEAN]

LEMMA Bounds ==
  /\ 0 \in 0..CurlTimeout /\ 0 \in 0..WaitTimeout + 1
  /\ 0 \in 0..UpdateTimeOut + 1
  /\ Blank \in Rec /\ Unknown \in Findings
  /\ NotYet \in [polled : BOOLEAN, timeover : BOOLEAN]
  /\ \A o \in Owners :
       <<o, "pending">> \in Findings /\ <<o, "answered">> \in Findings
BY SubdeviceAssumption DEF Blank, Rec, Statuses, Findings, Unknown, NotYet

LEMMA PublishedType ==
  ASSUME NEW w \in [Channels -> Rec]
  PROVE  /\ Published(w) \in
             [Channels -> [status : Statuses, name : Findings, net : Findings]]
         /\ \A c \in Channels : /\ Published(w)[c].status = w[c].status
                                /\ Published(w)[c].name = w[c].name
                                /\ Published(w)[c].net = w[c].net
BY DEF Published, Rec

LEMMA InitIInv == Init => IInv
<1> SUFFICES ASSUME Init PROVE IInv
  OBVIOUS
<1>1. PICK status \in [Channels -> Statuses] :
        wsub = [c \in Channels |-> [Blank EXCEPT !.status = status[c]]]
  BY DEF Init
<1>2. \A c \in Channels : [Blank EXCEPT !.status = status[c]] \in Rec
  BY DEF Blank, Rec, Unknown, Findings
<1>3. wsub \in [Channels -> Rec]
  BY <1>1, <1>2
<1>4. sub = Published(wsub)
  BY DEF Init
<1>5. \A c \in Channels : wsub[c].name = Unknown /\ wsub[c].net = Unknown
  BY <1>1 DEF Blank
<1>6. spawned \subseteq Workers /\ asking \subseteq Workers
  BY DEF Init, Poll, Workers, Owners, Kinds
<1>7. TypeOK
  <2>1. wfw \in [Channels -> [version : Findings, checked : BOOLEAN]]
    BY Bounds DEF Init
  <2>2. since \in [{"deviceinfo", "firmware"} -> 0..UpdateTimeOut + 1]
    BY Bounds DEF Init
  <2>3. age \in [Owners -> [Kinds -> 0..CurlTimeout]]
    BY Bounds DEF Init
  <2>4. stage \in [Requests -> Stages \cup Finished]
    BY DEF Init, Stages
  <2>5. wait \in [Requests -> 0..WaitTimeout + 1]
    BY Bounds DEF Init
  <2>6. answer \in [Requests -> [polled : BOOLEAN, timeover : BOOLEAN]]
    BY Bounds DEF Init
  <2>7. fw \in [Channels -> Findings]
    BY Bounds DEF Init
  <2>8. msg \in [Requests -> Messages] /\ lone \in [Requests -> BOOLEAN]
    BY DEF Init
  <2> QED
    BY <1>3, <1>4, <1>6, PublishedType, <2>1, <2>2, <2>3, <2>4, <2>5, <2>6,
       <2>7, <2>8 DEF TypeOK, Rec
<1>8. SharedInv
  <2>1. \A r \in Requests : /\ stage[r] = "absent"
                            /\ ~answer[r].polled /\ ~answer[r].timeover
    BY DEF Init, NotYet
  <2>2. ASSUME NEW c \in Channels
        PROVE  wfw[c].version = Unknown /\ sub[c].status = wsub[c].status
    <3>1. wfw[c].version = Unknown
      BY DEF Init
    <3> QED
      BY <1>3, <1>4, <3>1, PublishedType
  <2> QED
    BY <1>5, <2>1, <2>2 DEF SharedInv, Unknown, Decided
<1>9. \A r \in Requests : ~lone[r]
  BY DEF Init
<1> QED
  BY <1>7, <1>8, <1>9 DEF IInv

-----------------------------------------------------------------------------
(* The steps.  Those of a request, and of its workers, can disturb only    *)
(* what the invariant says of the request itself.                          *)

LEMMA OthersRest ==
  ASSUME IInv, NEW o \in Owners,
         (o \in Requests /\ Busy(o)) \/ \E k \in Kinds, c \in Channels :
           <<o, k, c>> \in Under,
         \A q \in Requests \ {o} :
           stage'[q] = stage[q] /\ answer'[q] = answer[q],
         lone' = lone,
         TypeOK', SharedInv',
         o \in Requests /\ lone[o] => LoneInv(o)'
  PROVE  IInv'
<1>1. ASSUME NEW q \in Requests, q # o, lone[q] PROVE LoneInv(q)'
  <2>1. ~Busy(q)
    <3>1. Busy(q) => Alone(q)
      BY <1>1 DEF IInv, LoneInv, BusyInv
    <3> QED
      BY <1>1, <3>1 DEF Alone, Owners
  <2>2. stage'[q] = stage[q] /\ answer'[q] = answer[q]
    BY <1>1
  <2> QED
    BY <1>1, <2>1, <2>2 DEF IInv, LoneInv, Busy
<1> QED
  BY <1>1 DEF IInv

LEMMA AloneKept ==
  ASSUME NEW r \in Requests, Alone(r),
         \A q \in Requests \ {r} : stage'[q] = stage[q],
         \A o \in Owners \ {r}, k \in Kinds, c \in Channels :
           <<o, k, c>> \in Under' => <<o, k, c>> \in Under
  PROVE  Alone(r)'
BY DEF Alone, Busy

\* A worker that a lone sender waits for is asking its camera, and has done so
\* for longer than the sender has waited: so the sender never waits too long.
LEMMA SlowestWorker ==
  ASSUME IInv, NEW r \in Requests, stage[r] = "scan", BusyInv(r),
         wait[r] > WaitTimeout
  PROVE  AllChecked(r)
<1>1. CASE ~answer[r].polled
  BY <1>1 DEF BusyInv, SenderInv
<1>2. CASE answer[r].polled
  <2>1. ASSUME NEW k \in Polled(r), NEW c \in Channels, Asks(k, c)
        PROVE  Marked(k, c)
    <3>0. k \in Kinds
      BY DEF Polled, Kinds
    <3>1. <<r, k, c>> \notin asking
      <4>1. SUFFICES ASSUME <<r, k, c>> \in asking PROVE FALSE
        OBVIOUS
      <4>2. wait[r] < age[r][k]
        BY <3>0, <4>1 DEF BusyInv, TimeInv
      <4>3. age[r][k] \in 0..CurlTimeout /\ wait[r] \in 0..WaitTimeout + 1
        BY <3>0 DEF IInv, TypeOK, Owners
      <4> QED
        BY <4>2, <4>3, SubdeviceAssumption
    <3>2. <<r, k, c>> \notin spawned
      BY <3>0 DEF BusyInv, TimeInv
    <3> QED
      BY <2>1, <3>0, <3>1, <3>2 DEF BusyInv, PollInv, Under
  <2>2. CASE Command(r, "deviceinfo")
    <3>1. ASSUME NEW c \in Channels, sub[c].status # 0
          PROVE  wsub[c].infoChecked /\ wsub[c].netChecked
      <4>1. Asks("info", c) /\ Asks("net", c)
        BY <3>1 DEF Asks, IInv, SharedInv
      <4>2. "info" \in Polled(r) /\ "net" \in Polled(r)
        BY <1>2, <2>2 DEF Polled
      <4>3. Marked("info", c) /\ Marked("net", c)
        BY <2>1, <4>1, <4>2
      <4> QED
        BY <4>3 DEF Marked
    <3> QED
      BY <2>2, <3>1 DEF AllChecked
  <2>3. CASE ~Command(r, "deviceinfo")
    <3>1. ASSUME NEW c \in Channels, sub[c].status = 1
          PROVE  wfw[c].checked
      <4>1. Asks("version", c)
        BY <3>1 DEF Asks, IInv, SharedInv
      <4>2. "version" \in Polled(r)
        BY <1>2, <2>3 DEF Polled
      <4>3. Marked("version", c)
        BY <2>1, <4>1, <4>2
      <4> QED
        BY <4>3 DEF Marked
    <3> QED
      BY <2>3, <3>1 DEF AllChecked
  <2> QED
    BY <2>2, <2>3
<1> QED
  BY <1>1, <1>2 DEF IInv, TypeOK

\* What a step of a request does to the places of the others.
LEMMA GotoOnly ==
  ASSUME TypeOK, NEW r \in Requests, NEW s \in Stages \cup Finished, Goto(r, s)
  PROVE  /\ stage' \in [Requests -> Stages \cup Finished]
         /\ stage'[r] = s
         /\ \A q \in Requests \ {r} : stage'[q] = stage[q]
BY DEF TypeOK, Goto

\* No worker is asking when a lone sender copies: all marks it waits for are
\* set.
LEMMA Idle ==
  ASSUME IInv, NEW r \in Requests, stage[r] = "copy",
         Alone(r), PollInv(r), SenderInv(r)
  PROVE  \A o \in Owners, k \in Kinds, c \in Channels :
           <<o, k, c>> \notin asking
<1>1. SUFFICES ASSUME NEW k \in Kinds, NEW c \in Channels,
                      <<r, k, c>> \in asking
               PROVE  FALSE
  BY DEF Alone, Under
<1>2. k \in Polled(r) /\ Asks(k, c) /\ ~Marked(k, c)
  BY <1>1 DEF PollInv, Under
<1>3. AllChecked(r)
  BY DEF SenderInv
<1>4. IF Command(r, "deviceinfo") THEN k \in {"info", "net"} ELSE k = "version"
  BY <1>2 DEF Polled
<1>5. sub[c].status = wsub[c].status
  BY DEF IInv, SharedInv
<1> QED
  BY <1>2, <1>3, <1>4, <1>5 DEF AllChecked, Asks, Marked

\* What a worker that begins or ends does to the strings of all channels.
Writes(o, kind, c, what, mark) ==
  /\ wsub' \in [Channels -> Rec]
  /\ wfw' \in [Channels -> [version : Findings, checked : BOOLEAN]]
  /\ \A d \in Channels : wsub'[d].status = wsub[d].status
  /\ Marked(kind, c)' = mark
  /\ \A k \in Kinds, d \in Channels :
       /\ k # kind \/ d # c => Marked(k, d)' = Marked(k, d)
       /\ Found(k, d)' =
            IF d = c /\ (k = kind \/ (kind = "version" /\ k = "info"))
            THEN <<o, what>> ELSE Found(k, d)

LEMMA Pending ==
  SharedInv <=>
  /\ \A o \in Owners, c \in Channels :
       /\ Found("info", c) = <<o, "pending">> =>
            <<o, "info", c>> \in asking \/ <<o, "version", c>> \in asking
       /\ Found("net", c) = <<o, "pending">> => <<o, "net", c>> \in asking
       /\ Found("version", c) = <<o, "pending">> =>
            <<o, "version", c>> \in asking
  /\ \A c \in Channels : sub[c].status = wsub[c].status
  /\ \A r \in Requests :
       /\ stage[r] \in {"absent"} \cup Unpolled => ~answer[r].polled
       /\ stage[r] = "absent" => ~answer[r].timeover
       /\ stage[r] \in Decided => msg[r].command \in {"deviceinfo", "firmware"}
       /\ stage[r] = "named" => msg[r].command = "deviceinfo"
       /\ stage[r] = "settle" => answer[r].polled
BY DEF SharedInv, Found

\* A lone request's sender that waits for nothing has no workers.
LEMMA Waiting ==
  ASSUME IInv, NEW r \in Requests, Alone(r), PollInv(r), SenderInv(r),
         NEW k \in Kinds, NEW c \in Channels,
         <<r, k, c>> \in asking \/ (<<r, k, c>> \in spawned /\ TimeInv(r))
  PROVE  /\ stage[r] \notin Unpolled /\ stage[r] # "copy"
         /\ stage[r] = "scan" => answer[r].polled
<1>1. <<r, k, c>> \in Under
  BY DEF Under
<1>2. stage[r] \in Unpolled \cup {"named", "settle", "scan", "copy"} =>
        k \in Polled(r)
  BY <1>1 DEF PollInv
<1>3. stage[r] \notin Unpolled /\ (stage[r] = "scan" => answer[r].polled)
  BY <1>2 DEF Polled, Unpolled
<1>4. stage[r] # "copy"
  BY Idle DEF TimeInv, Owners
<1> QED
  BY <1>3, <1>4

LEMMA Begins ==
  ASSUME IInv, NEW o \in Owners, NEW kind \in Kinds, NEW c \in Channels,
         WorkerBegins(o, kind, c), Writes(o, kind, c, "pending", FALSE)
  PROVE  IInv'
<1>0. TypeOK /\ SharedInv
  BY DEF IInv
<1>1. /\ UNCHANGED <<msg, sub, fw, since, age, stage, wait, answer, lone>>
      /\ <<o, kind, c>> \in spawned
      /\ spawned' = spawned \ {<<o, kind, c>>}
      /\ asking' = asking \cup {<<o, kind, c>>}
  BY DEF WorkerBegins
<1>2. TypeOK'
  BY <1>0, <1>1 DEF TypeOK, Writes, Rec
<1>3. SharedInv'
  <2>1. "info" \in Kinds /\ "net" \in Kinds /\ "version" \in Kinds
    BY DEF Kinds
  <2>2. ASSUME NEW p \in Owners, NEW d \in Channels
        PROVE  /\ Found("info", d)' = <<p, "pending">> =>
                    <<p, "info", d>> \in asking' \/
                      <<p, "version", d>> \in asking'
               /\ Found("net", d)' = <<p, "pending">> =>
                    <<p, "net", d>> \in asking'
               /\ Found("version", d)' = <<p, "pending">> =>
                    <<p, "version", d>> \in asking'
    BY <1>0, <1>1, <2>1, Pending DEF Writes
  <2>3. \A d \in Channels : sub'[d].status = wsub'[d].status
    BY <1>0, <1>1 DEF SharedInv, Writes
  <2>4. \A r \in Requests :
       /\ stage'[r] \in {"absent"} \cup Unpolled => ~answer'[r].polled
       /\ stage'[r] = "absent" => ~answer'[r].timeover
       /\ stage'[r] \in Decided =>
            msg'[r].command \in {"deviceinfo", "firmware"}
       /\ stage'[r] = "named" => msg'[r].command = "deviceinfo"
       /\ stage'[r] = "settle" => answer'[r].polled
    BY <1>0, <1>1 DEF SharedInv
  <2> QED
    BY <2>2, <2>3, <2>4 DEF SharedInv, Found
<1>4. ASSUME NEW r \in Requests, o = r, lone[r], Busy(r) PROVE BusyInv(r)'
  <2>1. Alone(r) /\ PollInv(r) /\ TimeInv(r) /\ SenderInv(r)
    BY <1>4 DEF IInv, LoneInv, BusyInv
  <2>2. /\ stage[r] \notin Unpolled /\ stage[r] # "copy"
        /\ stage[r] = "scan" => answer[r].polled
    BY <1>1, <1>4, <2>1, Waiting
  <2>3. Under' = Under
    BY <1>1 DEF Under
  <2>4. Alone(r)'
    BY <1>1, <2>1, <2>3, AloneKept
  <2>5. PollInv(r)'
    <3>1. Polled(r)' = Polled(r)
      BY <1>1 DEF Polled, Command
    <3>2. ASSUME NEW k \in Kinds, NEW d \in Channels
          PROVE  Asks(k, d)' <=> Asks(k, d)
      BY DEF Asks, Writes
    <3>3. ASSUME NEW k \in Kinds, NEW d \in Channels,
                 k \in Polled(r), Asks(k, d)
          PROVE  /\ <<r, k, d>> \in asking' => ~Marked(k, d)'
                 /\ <<r, k, d>> \notin Under =>
                      Marked(k, d)' /\ Found(k, d)' = <<r, "answered">>
      <4>1. CASE k = kind /\ d = c
        BY <1>1, <1>4, <4>1 DEF Writes, Under
      <4>2. CASE k # kind \/ d # c
        <5>1. kind \in Polled(r)
          BY <1>1, <1>4, <2>1, <3>3 DEF PollInv, Under, Polled
        <5>2. kind = "version" => k = "version"
          BY <3>3, <5>1 DEF Polled
        <5>3. Marked(k, d)' = Marked(k, d) /\ Found(k, d)' = Found(k, d)
          BY <4>2, <5>2 DEF Writes
        <5>4. <<r, k, d>> \in asking' <=> <<r, k, d>> \in asking
          BY <1>1, <4>2
        <5> QED
          BY <2>1, <3>3, <5>3, <5>4 DEF PollInv
      <4> QED
        BY <4>1, <4>2
    <3> QED
      BY <1>1, <2>1, <2>3, <3>1, <3>2, <3>3 DEF PollInv
  <2>6. TimeInv(r)'
    <3>1. /\ stage[r] \notin {"scan", "copy"}
          /\ stage[r] = "settle" => ~(wait[r] > 0)
      BY <1>1, <1>4, <2>1 DEF TimeInv
    <3>2. wait[r] \in Nat /\ \A k \in Kinds : age[r][k] \in Nat
      BY <1>0 DEF TypeOK, Owners
    <3>3. \A k \in Kinds : stage[r] = "settle" => wait[r] <= age[r][k]
      BY <3>1, <3>2
    <3> QED
      BY <1>1, <3>1, <3>3 DEF TimeInv
  <2>7. SenderInv(r)'
    <3>1. /\ stage[r] \notin {"unpack", "copy"}
          /\ stage[r] = "scan" => answer[r].polled
      BY <2>2 DEF Unpolled
    <3>2. stage' = stage /\ answer' = answer /\ sub' = sub
      BY <1>1
    <3>3. /\ Shows(r)' = Shows(r)
          /\ Command(r, "deviceinfo")' <=> Command(r, "deviceinfo")
      BY <1>1 DEF Shows, Command
    <3> QED
      BY <2>1, <3>1, <3>2, <3>3 DEF SenderInv
  <2> QED
    BY <2>4, <2>5, <2>6, <2>7 DEF BusyInv
<1>5. o \in Requests /\ lone[o] => LoneInv(o)'
  BY <1>1, <1>4 DEF IInv, LoneInv, Busy
<1>6. <<o, kind, c>> \in Under
  BY <1>1 DEF Under
<1> QED
  BY <1>1, <1>2, <1>3, <1>5, <1>6, OthersRest

LEMMA Ends ==
  ASSUME IInv, NEW o \in Owners, NEW kind \in Kinds, NEW c \in Channels,
         WorkerEnds(o, kind, c), Writes(o, kind, c, "answered", TRUE)
  PROVE  IInv'
<1>0. TypeOK /\ SharedInv
  BY DEF IInv
<1>1. /\ UNCHANGED <<msg, sub, fw, since, spawned, age, stage, wait, answer,
                     lone>>
      /\ <<o, kind, c>> \in asking
      /\ asking' = asking \ {<<o, kind, c>>}
  BY DEF WorkerEnds
<1>2. TypeOK'
  BY <1>0, <1>1 DEF TypeOK, Writes, Rec
<1>3. SharedInv'
  <2>1. "info" \in Kinds /\ "net" \in Kinds /\ "version" \in Kinds
    BY DEF Kinds
  <2>2. ASSUME NEW p \in Owners, NEW d \in Channels
        PROVE  /\ Found("info", d)' = <<p, "pending">> =>
                    <<p, "info", d>> \in asking' \/
                      <<p, "version", d>> \in asking'
               /\ Found("net", d)' = <<p, "pending">> =>
                    <<p, "net", d>> \in asking'
               /\ Found("version", d)' = <<p, "pending">> =>
                    <<p, "version", d>> \in asking'
    BY <1>0, <1>1, <2>1, Pending DEF Writes, Kinds
  <2>3. \A d \in Channels : sub'[d].status = wsub'[d].status
    BY <1>0, <1>1 DEF SharedInv, Writes
  <2>4. \A r \in Requests :
       /\ stage'[r] \in {"absent"} \cup Unpolled => ~answer'[r].polled
       /\ stage'[r] = "absent" => ~answer'[r].timeover
       /\ stage'[r] \in Decided =>
            msg'[r].command \in {"deviceinfo", "firmware"}
       /\ stage'[r] = "named" => msg'[r].command = "deviceinfo"
       /\ stage'[r] = "settle" => answer'[r].polled
    BY <1>0, <1>1 DEF SharedInv
  <2> QED
    BY <2>2, <2>3, <2>4 DEF SharedInv, Found
<1>4. ASSUME NEW r \in Requests, o = r, lone[r], Busy(r) PROVE BusyInv(r)'
  <2>1. Alone(r) /\ PollInv(r) /\ TimeInv(r) /\ SenderInv(r)
    BY <1>4 DEF IInv, LoneInv, BusyInv
  <2>2. /\ stage[r] \notin Unpolled /\ stage[r] # "copy"
        /\ stage[r] = "scan" => answer[r].polled
    BY <1>1, <1>4, <2>1, Waiting
  <2>3. \A p \in Owners, k \in Kinds, d \in Channels :
          <<p, k, d>> \in Under' => <<p, k, d>> \in Under
    BY <1>1 DEF Under
  <2>4. Alone(r)'
    BY <1>1, <2>1, <2>3, AloneKept
  <2>5. PollInv(r)'
    <3>1. Polled(r)' = Polled(r)
      BY <1>1 DEF Polled, Command
    <3>2. ASSUME NEW k \in Kinds, NEW d \in Channels
          PROVE  Asks(k, d)' <=> Asks(k, d)
      BY DEF Asks, Writes
    <3>3. ASSUME NEW k \in Kinds, NEW d \in Channels,
                 k \in Polled(r), Asks(k, d)
          PROVE  /\ <<r, k, d>> \in asking' => ~Marked(k, d)'
                 /\ <<r, k, d>> \notin Under' =>
                      Marked(k, d)' /\ Found(k, d)' = <<r, "answered">>
      <4>1. CASE k = kind /\ d = c
        BY <1>1, <1>4, <4>1 DEF Writes
      <4>2. CASE k # kind \/ d # c
        <5>1. kind \in Polled(r)
          BY <1>1, <1>4, <2>1, <3>3 DEF PollInv, Under, Polled
        <5>2. kind = "version" => k = "version"
          BY <3>3, <5>1 DEF Polled
        <5>3. Marked(k, d)' = Marked(k, d) /\ Found(k, d)' = Found(k, d)
          BY <4>2, <5>2 DEF Writes
        <5>4. /\ <<r, k, d>> \in asking' <=> <<r, k, d>> \in asking
              /\ <<r, k, d>> \in Under' <=> <<r, k, d>> \in Under
          BY <1>1, <4>2 DEF Under
        <5> QED
          BY <2>1, <3>3, <5>3, <5>4 DEF PollInv
      <4> QED
        BY <4>1, <4>2
    <3> QED
      BY <1>1, <2>1, <2>3, <3>1, <3>2, <3>3 DEF PollInv, Owners
  <2>6. TimeInv(r)'
    BY <1>1, <2>1 DEF TimeInv
  <2>7. SenderInv(r)'
    <3>1. /\ stage[r] \notin {"unpack", "copy"}
          /\ stage[r] = "scan" => answer[r].polled
      BY <2>2 DEF Unpolled
    <3>2. stage' = stage /\ answer' = answer /\ sub' = sub
      BY <1>1
    <3>3. /\ Shows(r)' = Shows(r)
          /\ Command(r, "deviceinfo")' <=> Command(r, "deviceinfo")
      BY <1>1 DEF Shows, Command
    <3> QED
      BY <2>1, <3>1, <3>2, <3>3 DEF SenderInv
  <2> QED
    BY <2>4, <2>5, <2>6, <2>7 DEF BusyInv
<1>5. o \in Requests /\ lone[o] => LoneInv(o)'
  BY <1>1, <1>4 DEF IInv, LoneInv, Busy
<1>6. <<o, kind, c>> \in Under
  BY <1>1 DEF Under
<1> QED
  BY <1>1, <1>2, <1>3, <1>5, <1>6, OthersRest

\* A step that leaves the views and their workers where they are.
LEMMA Stays ==
  ASSUME NEW r \in Requests, PollInv(r), SenderInv(r),
         UNCHANGED <<msg, wsub, sub, wfw, fw, spawned, asking, stage, answer>>
  PROVE  PollInv(r)' /\ SenderInv(r)'
<1>1. PollInv(r)'
  <2>1. \A k \in Kinds, c \in Channels :
          /\ Asks(k, c)' <=> Asks(k, c)
          /\ Marked(k, c)' <=> Marked(k, c)
          /\ Found(k, c)' = Found(k, c)
          /\ <<r, k, c>> \in Under' <=> <<r, k, c>> \in Under
    BY DEF Asks, Marked, Found, Under
  <2>2. Polled(r)' = Polled(r)
    BY DEF Polled, Command
  <2> QED
    BY <2>1, <2>2 DEF PollInv
<1>2. SenderInv(r)'
  <2>1. AllChecked(r)' <=> AllChecked(r)
    BY DEF AllChecked, Command
  <2>2. Shows(r)' = Shows(r)
    BY DEF Shows, Command
  <2>3. Command(r, "deviceinfo")' <=> Command(r, "deviceinfo")
    BY DEF Command
  <2> QED
    BY <2>1, <2>2, <2>3 DEF SenderInv
<1> QED
  BY <1>1, <1>2

LEMMA Keeps == IInv /\ [Next]_vars => IInv'
<1> SUFFICES ASSUME IInv, [Next]_vars PROVE IInv'
  OBVIOUS
<1>0. TypeOK /\ SharedInv
  BY DEF IInv
<1>1. ASSUME NEW r \in Requests, Arrive(r) PROVE IInv'
  <2>1. /\ stage' \in [Requests -> Stages \cup Finished]
        /\ stage'[r] = "register"
        /\ \A q \in Requests \ {r} : stage'[q] = stage[q]
    BY <1>0, <1>1, GotoOnly DEF Arrive, Stages
  <2>2. /\ stage[r] = "absent"
        /\ UNCHANGED <<msg, wsub, sub, wfw, fw, since, spawned, asking, age,
                       wait, answer>>
    BY <1>1 DEF Arrive, polls
  <2>3. /\ lone' \in [Requests -> BOOLEAN]
        /\ lone'[r] => Quiet /\ \A p \in Requests : ~Busy(p)
        /\ \A q \in Requests \ {r} : lone'[q] => lone[q] /\ ~Busy(q)
    <3>1. lone' = [q \in Requests |->
                IF q = r THEN Quiet /\ \A p \in Requests : ~Busy(p)
                         ELSE lone[q] /\ ~Busy(q)]
      BY <1>1 DEF Arrive
    <3> QED
      BY <3>1
  <2>4. TypeOK'
    BY <1>0, <2>1, <2>2, <2>3 DEF TypeOK
  <2>5. SharedInv'
    BY <1>0, <2>1, <2>2 DEF SharedInv, Unpolled, Decided, Command
  <2>6. ASSUME NEW q \in Requests, q # r, lone'[q] PROVE LoneInv(q)'
    <3>1. lone[q] /\ ~Busy(q) /\ stage'[q] = stage[q] /\ answer' = answer
      BY <2>1, <2>2, <2>3, <2>6
    <3> QED
      BY <3>1 DEF IInv, LoneInv, Busy
  <2>7. ASSUME lone'[r] PROVE LoneInv(r)'
    <3>1. Quiet /\ \A p \in Requests : ~Busy(p)
      BY <2>3, <2>7
    <3>2. Under' = {}
      BY <2>2, <3>1 DEF Under, Quiet
    <3>3. Alone(r)'
      BY <2>1, <3>1, <3>2 DEF Alone, Busy
    <3>4. PollInv(r)'
      BY <2>1, <3>2 DEF PollInv, Polled
    <3>5. TimeInv(r)'
      BY <3>2 DEF TimeInv, Under
    <3>6. SenderInv(r)'
      BY <2>1 DEF SenderInv
    <3>7. ~answer[r].timeover
      BY <1>0, <2>2 DEF SharedInv
    <3> QED
      BY <2>1, <2>2, <3>3, <3>4, <3>5, <3>6, <3>7 DEF LoneInv, BusyInv
  <2> QED
    BY <2>4, <2>5, <2>6, <2>7 DEF IInv
<1>2. ASSUME NEW r \in Requests, Register(r) PROVE IInv'
  <2>1. /\ stage' \in [Requests -> Stages \cup Finished]
        /\ stage'[r] \in {"elsewhere", "decide"}
        /\ stage'[r] = "decide" => msg[r].command # "other"
        /\ \A q \in Requests \ {r} : stage'[q] = stage[q]
    <3>1. CASE Command(r, "other")
      BY <1>0, <1>2, <3>1, GotoOnly DEF Register, Finished
    <3>2. CASE ~Command(r, "other")
      BY <1>0, <1>2, <3>2, GotoOnly DEF Register, Stages, Command
    <3> QED
      BY <3>1, <3>2
  <2>2. /\ stage[r] \in {"register", "again"}
        /\ UNCHANGED <<msg, wfw, fw, since, spawned, asking, age, wait, answer,
                       lone>>
    BY <1>2 DEF Register, polls
  <2>3. /\ wsub' \in [Channels -> Rec]
        /\ \A c \in Channels : /\ wsub'[c].name \in {wsub[c].name, Unknown}
                               /\ wsub'[c].net \in {wsub[c].net, Unknown}
        /\ sub' = Published(wsub')
    <3>1. PICK named \in SUBSET Channels : \E status \in [named -> Statuses] :
            wsub' = [c \in Channels |->
                  IF c \notin named THEN wsub[c]
                  ELSE IF status[c] = 0 THEN Blank
                  ELSE [wsub[c] EXCEPT !.status = status[c]]]
      BY <1>2 DEF Register
    <3>a. PICK status \in [named -> Statuses] :
            wsub' = [c \in Channels |->
                  IF c \notin named THEN wsub[c]
                  ELSE IF status[c] = 0 THEN Blank
                  ELSE [wsub[c] EXCEPT !.status = status[c]]]
      BY <3>1
    <3>2. wsub \in [Channels -> Rec]
      BY <1>0 DEF TypeOK, Rec
    <3>3. ASSUME NEW c \in Channels
          PROVE  /\ wsub'[c] \in Rec
                 /\ wsub'[c].name \in {wsub[c].name, Unknown}
                 /\ wsub'[c].net \in {wsub[c].net, Unknown}
      <4>1. CASE c \notin named
        BY <3>a, <3>2, <4>1
      <4>2. CASE c \in named /\ status[c] = 0
        BY <3>a, <4>2, Bounds DEF Blank
      <4>3. CASE c \in named /\ status[c] # 0
        BY <3>a, <3>2, <4>3 DEF Rec
      <4> QED
        BY <4>1, <4>2, <4>3
    <3>4. sub' = Published(wsub')
      BY <1>2 DEF Register
    <3>5. wsub' = [c \in Channels |-> wsub'[c]]
      BY <3>a
    <3> QED
      BY <3>3, <3>4, <3>5
  <2>4. TypeOK'
    BY <1>0, <2>1, <2>2, <2>3, PublishedType DEF TypeOK, Rec
  <2>5. SharedInv'
    <3>1. \A c \in Channels : sub'[c].status = wsub'[c].status
      BY <2>3, PublishedType
    <3>2. msg[r].command \in {"deviceinfo", "firmware", "other"}
      BY <1>0, SubdeviceAssumption DEF TypeOK, AllMessages
    <3>3. \A o \in Owners, c \in Channels :
            /\ wsub'[c].name = <<o, "pending">> =>
                 wsub[c].name = <<o, "pending">>
            /\ wsub'[c].net = <<o, "pending">> =>
                 wsub[c].net = <<o, "pending">>
      BY <2>3 DEF Unknown
    <3> QED
      BY <1>0, <2>1, <2>2, <3>1, <3>2, <3>3 DEF SharedInv, Unpolled, Decided
  <2>6. ASSUME lone[r] PROVE LoneInv(r)'
    <3>1. Alone(r) /\ PollInv(r) /\ TimeInv(r) /\ SenderInv(r)
      BY <2>2, <2>6 DEF IInv, LoneInv, BusyInv, Busy, Finished
    <3>2. Alone(r)'
      BY <2>1, <2>2, <3>1, AloneKept DEF Under
    <3>3. PollInv(r)'
      BY <2>1, <2>2, <3>1 DEF PollInv, Polled, Under, Unpolled
    <3>4. TimeInv(r)'
      BY <2>1, <2>2, <3>1 DEF PollInv, Polled, TimeInv, Under, Unpolled
    <3>5. SenderInv(r)'
      BY <2>1 DEF SenderInv
    <3>6. stage'[r] # "absent" /\ ~answer'[r].timeover
      BY <2>1, <2>2, <2>6 DEF IInv, LoneInv
    <3> QED
      BY <3>2, <3>3, <3>4, <3>5, <3>6 DEF LoneInv, BusyInv
  <2>7. Busy(r) /\ \A q \in Requests \ {r} : answer'[q] = answer[q]
    BY <2>2 DEF Busy, Finished
  <2> QED
    BY <2>1, <2>2, <2>4, <2>5, <2>6, <2>7, OthersRest DEF Owners
<1>3. ASSUME NEW r \in Requests, RegisterFails(r) PROVE IInv'
  <2>1. /\ stage' \in [Requests -> Stages \cup Finished]
        /\ stage'[r] \in {"again", "errorSent", "dropped"}
        /\ \A q \in Requests \ {r} : stage'[q] = stage[q]
    <3>1. \E t \in {"again", "errorSent", "dropped"} : Goto(r, t)
      BY <1>3 DEF RegisterFails
    <3> QED
      BY <1>0, <3>1, GotoOnly DEF Stages, Finished
  <2>2. /\ stage[r] \in {"register", "again"}
        /\ UNCHANGED <<msg, wsub, sub, wfw, fw, since, spawned, asking, age,
                       wait, answer, lone>>
    BY <1>3 DEF RegisterFails, polls
  <2>4. TypeOK'
    BY <1>0, <2>1, <2>2 DEF TypeOK
  <2>5. SharedInv'
    BY <1>0, <2>1, <2>2 DEF SharedInv, Unpolled, Decided
  <2>6. ASSUME lone[r] PROVE LoneInv(r)'
    <3>1. Alone(r) /\ PollInv(r) /\ TimeInv(r) /\ SenderInv(r)
      BY <2>2, <2>6 DEF IInv, LoneInv, BusyInv, Busy, Finished
    <3>2. Alone(r)'
      BY <2>1, <2>2, <3>1, AloneKept DEF Under
    <3>3. PollInv(r)'
      BY <2>1, <2>2, <3>1 DEF PollInv, Polled, Under, Unpolled
    <3>4. TimeInv(r)'
      BY <2>1, <2>2, <3>1 DEF PollInv, Polled, TimeInv, Under, Unpolled
    <3>5. SenderInv(r)'
      BY <2>1 DEF SenderInv
    <3>6. stage'[r] # "absent" /\ ~answer'[r].timeover
      BY <2>1, <2>2, <2>6 DEF IInv, LoneInv
    <3> QED
      BY <3>2, <3>3, <3>4, <3>5, <3>6 DEF LoneInv, BusyInv
  <2>7. Busy(r) /\ \A q \in Requests \ {r} : answer'[q] = answer[q]
    BY <2>2 DEF Busy, Finished
  <2> QED
    BY <2>1, <2>2, <2>4, <2>5, <2>6, <2>7, OthersRest DEF Owners
<1>4. ASSUME NEW r \in Requests, DecideDeviceinfo(r) PROVE IInv'
  <2>1. /\ stage' \in [Requests -> Stages \cup Finished]
        /\ stage'[r] \in {"chosen", "unpack"}
        /\ \A q \in Requests \ {r} : stage'[q] = stage[q]
    <3>1. \E t \in {"chosen", "unpack"} : Goto(r, t)
      BY <1>4 DEF DecideDeviceinfo
    <3> QED
      BY <1>0, <3>1, GotoOnly DEF Stages, Finished
  <2>2. /\ stage[r] = "decide" /\ Command(r, "deviceinfo")
        /\ UNCHANGED <<msg, sub, wfw, fw, since, spawned, asking, age, wait,
                       answer, lone>>
    BY <1>4 DEF DecideDeviceinfo, polls
  <2>3. /\ wsub' \in [Channels -> Rec]
        /\ \A c \in Channels : /\ wsub'[c].status = wsub[c].status
                               /\ wsub'[c].name = wsub[c].name
                               /\ wsub'[c].net = wsub[c].net
        /\ stage'[r] = "unpack" => \A c \in Channels :
             wsub'[c].infoChecked /\ wsub'[c].netChecked
    <3>1. wsub \in [Channels -> Rec]
      BY <1>0 DEF TypeOK, Rec
    <3>2. CASE Goto(r, "chosen") /\ wsub' = wsub
      BY <1>0, <3>1, <3>2, GotoOnly DEF Stages
    <3>3. CASE wsub' = [c \in Channels |-> [wsub[c] EXCEPT
                          !.infoChecked = TRUE, !.netChecked = TRUE]]
      <4>1. ASSUME NEW c \in Channels
            PROVE  /\ wsub'[c] \in Rec /\ wsub'[c].status = wsub[c].status
                   /\ wsub'[c].name = wsub[c].name
                   /\ wsub'[c].net = wsub[c].net
                   /\ wsub'[c].infoChecked /\ wsub'[c].netChecked
        BY <3>1, <3>3 DEF Rec
      <4> QED
        BY <3>3, <4>1
    <3> QED
      BY <1>4, <3>2, <3>3 DEF DecideDeviceinfo
  <2>4. TypeOK'
    BY <1>0, <2>1, <2>2, <2>3 DEF TypeOK, Rec
  <2>5. SharedInv'
    <3>1. \A c \in Channels : sub'[c].status = wsub'[c].status
      BY <1>0, <2>2, <2>3 DEF SharedInv
    <3>2. \A o \in Owners, c \in Channels :
            /\ wsub'[c].name = <<o, "pending">> =>
                 \/ <<o, "info", c>> \in asking'
                 \/ <<o, "version", c>> \in asking'
            /\ wsub'[c].net = <<o, "pending">> => <<o, "net", c>> \in asking'
            /\ wfw'[c].version = <<o, "pending">> =>
                 <<o, "version", c>> \in asking'
      BY <1>0, <2>2, <2>3 DEF SharedInv
    <3>3. stage[r] \in Unpolled /\ stage[r] \in Decided
      BY <2>2 DEF Unpolled, Decided
    <3>4. stage'[r] \in Decided \ {"absent", "named", "settle"}
      BY <2>1 DEF Decided
    <3> QED
      BY <1>0, <2>1, <2>2, <3>1, <3>2, <3>3, <3>4 DEF SharedInv
  <2>6. ASSUME lone[r] PROVE LoneInv(r)'
    <3>1. Alone(r) /\ PollInv(r) /\ TimeInv(r) /\ SenderInv(r)
      BY <2>2, <2>6 DEF IInv, LoneInv, BusyInv, Busy, Finished
    <3>2. Alone(r)'
      BY <2>1, <2>2, <3>1, AloneKept DEF Under
    <3>3. PollInv(r)'
      BY <2>1, <2>2, <3>1 DEF PollInv, Polled, Under, Unpolled
    <3>4. TimeInv(r)'
      BY <2>1, <2>2, <3>1 DEF PollInv, Polled, TimeInv, Under, Unpolled
    <3>5. SenderInv(r)'
      BY <2>1, <2>2, <2>3 DEF SenderInv, AllChecked, Command
    <3>6. stage'[r] # "absent" /\ ~answer'[r].timeover
      BY <2>1, <2>2, <2>6 DEF IInv, LoneInv
    <3> QED
      BY <3>2, <3>3, <3>4, <3>5, <3>6 DEF LoneInv, BusyInv
  <2>7. Busy(r) /\ \A q \in Requests \ {r} : answer'[q] = answer[q]
    BY <2>2 DEF Busy, Finished
  <2> QED
    BY <2>1, <2>2, <2>4, <2>5, <2>6, <2>7, OthersRest DEF Owners
<1>5. ASSUME NEW r \in Requests, DecideFirmware(r) PROVE IInv'
  <2>1. /\ stage' \in [Requests -> Stages \cup Finished]
        /\ stage'[r] \in {"chosen", "unpack"}
        /\ \A q \in Requests \ {r} : stage'[q] = stage[q]
    <3>1. \E t \in {"chosen", "unpack"} : Goto(r, t)
      BY <1>5 DEF DecideFirmware
    <3> QED
      BY <1>0, <3>1, GotoOnly DEF Stages, Finished
  <2>2. /\ stage[r] = "decide" /\ Command(r, "firmware")
        /\ UNCHANGED <<msg, wsub, sub, fw, since, spawned, asking, age, wait,
                       answer, lone>>
    BY <1>5 DEF DecideFirmware, polls
  <2>3. /\ wfw' \in [Channels -> [version : Findings, checked : BOOLEAN]]
        /\ \A c \in Channels : wfw'[c].version = wfw[c].version
        /\ stage'[r] = "unpack" => \A c \in Channels : wfw'[c].checked
    <3>1. wfw \in [Channels -> [version : Findings, checked : BOOLEAN]]
      BY <1>0 DEF TypeOK
    <3>2. CASE Goto(r, "chosen") /\ wfw' = wfw
      BY <1>0, <3>1, <3>2, GotoOnly DEF Stages
    <3>3. CASE wfw' = [c \in Channels |-> [wfw[c] EXCEPT !.checked = TRUE]]
      BY <3>1, <3>3
    <3> QED
      BY <1>5, <3>2, <3>3 DEF DecideFirmware
  <2>4. TypeOK'
    BY <1>0, <2>1, <2>2, <2>3 DEF TypeOK
  <2>5. SharedInv'
    BY <1>0, <2>1, <2>2, <2>3 DEF SharedInv, Unpolled, Decided, Command
  <2>6. ASSUME lone[r] PROVE LoneInv(r)'
    <3>1. Alone(r) /\ PollInv(r) /\ TimeInv(r) /\ SenderInv(r)
      BY <2>2, <2>6 DEF IInv, LoneInv, BusyInv, Busy, Finished
    <3>2. Alone(r)'
      BY <2>1, <2>2, <3>1, AloneKept DEF Under
    <3>3. PollInv(r)'
      BY <2>1, <2>2, <3>1 DEF PollInv, Polled, Under, Unpolled
    <3>4. TimeInv(r)'
      BY <2>1, <2>2, <3>1 DEF PollInv, Polled, TimeInv, Under, Unpolled
    <3>5. SenderInv(r)'
      BY <2>1, <2>2, <2>3 DEF SenderInv, AllChecked, Command
    <3>6. stage'[r] # "absent" /\ ~answer'[r].timeover
      BY <2>1, <2>2, <2>6 DEF IInv, LoneInv
    <3> QED
      BY <3>2, <3>3, <3>4, <3>5, <3>6 DEF LoneInv, BusyInv
  <2>7. Busy(r) /\ \A q \in Requests \ {r} : answer'[q] = answer[q]
    BY <2>2 DEF Busy, Finished
  <2> QED
    BY <2>1, <2>2, <2>4, <2>5, <2>6, <2>7, OthersRest DEF Owners
<1>6. ASSUME NEW r \in Requests, PollNames(r) PROVE IInv'
  <2>1. /\ stage' \in [Requests -> Stages \cup Finished]
        /\ stage'[r] = "named"
        /\ \A q \in Requests \ {r} : stage'[q] = stage[q]
    BY <1>0, <1>6, GotoOnly DEF PollNames, Stages
  <2>2. /\ stage[r] = "chosen" /\ Command(r, "deviceinfo")
        /\ UNCHANGED <<msg, wsub, sub, wfw, fw, asking, age, lone>>
    BY <1>6 DEF PollNames
  <2>3. /\ spawned' \subseteq Workers
        /\ \A o \in Owners, k \in Kinds, c \in Channels :
             <<o, k, c>> \in spawned' <=>
             \/ <<o, k, c>> \in spawned
             \/ o = r /\ k = "info" /\ wsub[c].status \in {1, 2}
    <3>1. spawned' = spawned \cup Poll(r, "info", {1, 2})
      BY <1>6 DEF PollNames
    <3>2. \A o \in Owners, k \in Kinds, c \in Channels :
            <<o, k, c>> \in Poll(r, "info", {1, 2}) <=>
              o = r /\ k = "info" /\ wsub[c].status \in {1, 2}
      BY DEF Poll
    <3>3. Poll(r, "info", {1, 2}) \subseteq Workers
      BY DEF Poll, Workers, Owners, Kinds
    <3>4. spawned \subseteq Workers
      BY <1>0 DEF TypeOK
    <3> QED
      BY <3>1, <3>2, <3>3, <3>4
  <2>a. UNCHANGED <<since, wait, answer>>
    BY <1>6 DEF PollNames
  <2>4. TypeOK'
    BY <1>0, <2>1, <2>2, <2>3, <2>a DEF TypeOK
  <2>5. SharedInv'
    BY <1>0, <2>1, <2>2, <2>a DEF SharedInv, Unpolled, Decided, Command
  <2>6. ASSUME lone[r] PROVE LoneInv(r)'
    <3>1. Alone(r) /\ PollInv(r) /\ TimeInv(r) /\ SenderInv(r)
      BY <2>2, <2>6 DEF IInv, LoneInv, BusyInv, Busy, Finished
    <3>2. Alone(r)'
      BY <2>1, <2>2, <2>3, <3>1, AloneKept DEF Under
    <3>3. PollInv(r)'
      <4>1. Polled(r)' = {"info"} /\ Polled(r) = {}
        BY <2>1, <2>2, <2>a DEF Polled, Command
      <4>2. \A c \in Channels : wsub[c].status \in 0..2
        BY <1>0 DEF TypeOK, Statuses
      <4>3. \A k \in Kinds, c \in Channels :
              /\ Asks(k, c)' <=> Asks(k, c)
              /\ Marked(k, c)' <=> Marked(k, c)
              /\ Found(k, c)' = Found(k, c)
              /\ <<r, k, c>> \in asking' <=> <<r, k, c>> \in asking
        BY <2>2 DEF Asks, Marked, Found
      <4>4. \A c \in Channels : wsub[c].status \in {1, 2} <=> Asks("info", c)
        BY <4>2 DEF Asks
      <4>5. \A k \in Kinds, c \in Channels : <<r, k, c>> \in Under' <=>
              <<r, k, c>> \in Under \/ (k = "info" /\ Asks(k, c))
        BY <2>2, <2>3, <4>4 DEF Under, Owners
      <4>6. \A k \in Kinds, c \in Channels :
              IF k \in Polled(r) /\ Asks(k, c)
              THEN /\ <<r, k, c>> \in asking => ~Marked(k, c)
                   /\ <<r, k, c>> \notin Under =>
                        Marked(k, c) /\ Found(k, c) = <<r, "answered">>
              ELSE <<r, k, c>> \notin Under
        BY <2>2, <3>1 DEF PollInv, Unpolled
      <4>7. \A k \in Kinds, c \in Channels : <<r, k, c>> \in asking =>
              <<r, k, c>> \in Under
        BY DEF Under
      <4> QED
        BY <4>1, <4>3, <4>5, <4>6, <4>7 DEF PollInv
    <3>4. TimeInv(r)'
      BY <2>1, <2>2, <2>a, <3>1, <1>0 DEF TimeInv, TypeOK, Owners
    <3>5. SenderInv(r)'
      BY <2>1 DEF SenderInv
    <3>6. stage'[r] # "absent" /\ ~answer'[r].timeover
      BY <2>1, <2>2, <2>6, <2>a DEF IInv, LoneInv
    <3> QED
      BY <3>2, <3>3, <3>4, <3>5, <3>6 DEF LoneInv, BusyInv
  <2>7. Busy(r) /\ \A q \in Requests \ {r} : answer'[q] = answer[q]
    BY <2>2, <2>a DEF Busy, Finished
  <2> QED
    BY <2>1, <2>2, <2>4, <2>5, <2>6, <2>7, OthersRest DEF Owners
<1>7. ASSUME NEW r \in Requests, PollInterfaces(r) PROVE IInv'
  <2>1. /\ stage' \in [Requests -> Stages \cup Finished]
        /\ stage'[r] = "settle"
        /\ \A q \in Requests \ {r} : stage'[q] = stage[q]
    BY <1>0, <1>7, GotoOnly DEF PollInterfaces, Stages
  <2>2. /\ stage[r] = "named" /\ Command(r, "deviceinfo")
        /\ UNCHANGED <<msg, wsub, sub, wfw, fw, asking, age, lone>>
    BY <1>0, <1>7 DEF PollInterfaces, SharedInv, Command
  <2>3. /\ spawned' \subseteq Workers
        /\ \A o \in Owners, k \in Kinds, c \in Channels :
             <<o, k, c>> \in spawned' <=>
             \/ <<o, k, c>> \in spawned
             \/ o = r /\ k = "net" /\ wsub[c].status \in {1, 2}
    <3>1. spawned' = spawned \cup Poll(r, "net", {1, 2})
      BY <1>7 DEF PollInterfaces
    <3>2. \A o \in Owners, k \in Kinds, c \in Channels :
            <<o, k, c>> \in Poll(r, "net", {1, 2}) <=>
              o = r /\ k = "net" /\ wsub[c].status \in {1, 2}
      BY DEF Poll
    <3>3. Poll(r, "net", {1, 2}) \subseteq Workers
      BY DEF Poll, Workers, Owners, Kinds
    <3>4. spawned \subseteq Workers
      BY <1>0 DEF TypeOK
    <3> QED
      BY <3>1, <3>2, <3>3, <3>4
  <2>a. /\ answer' \in [Requests -> [polled : BOOLEAN, timeover : BOOLEAN]]
        /\ answer'[r].polled /\ answer'[r].timeover = answer[r].timeover
        /\ \A q \in Requests \ {r} : answer'[q] = answer[q]
        /\ since' \in [{"deviceinfo", "firmware"} -> 0..UpdateTimeOut + 1]
        /\ wait' \in [Requests -> 0..WaitTimeout + 1] /\ wait'[r] = 0
    <3>1. /\ answer' = [answer EXCEPT ![r].polled = TRUE]
          /\ since' = [since EXCEPT !.deviceinfo = 0]
          /\ wait' = [wait EXCEPT ![r] = 0]
      BY <1>7 DEF PollInterfaces
    <3>2. /\ answer \in [Requests -> [polled : BOOLEAN, timeover : BOOLEAN]]
          /\ since \in [{"deviceinfo", "firmware"} -> 0..UpdateTimeOut + 1]
          /\ wait \in [Requests -> 0..WaitTimeout + 1]
      BY <1>0 DEF TypeOK
    <3> QED
      BY <3>1, <3>2, Bounds
  <2>4. TypeOK'
    BY <1>0, <2>1, <2>2, <2>3, <2>a DEF TypeOK
  <2>5. SharedInv'
    BY <1>0, <2>1, <2>2, <2>a DEF SharedInv, Unpolled, Decided, Command
  <2>6. ASSUME lone[r] PROVE LoneInv(r)'
    <3>1. Alone(r) /\ PollInv(r) /\ TimeInv(r) /\ SenderInv(r)
      BY <2>2, <2>6 DEF IInv, LoneInv, BusyInv, Busy, Finished
    <3>2. Alone(r)'
      BY <2>1, <2>2, <2>3, <3>1, AloneKept DEF Under
    <3>3. PollInv(r)'
      <4>1. Polled(r)' = {"info", "net"} /\ Polled(r) = {"info"}
        BY <2>1, <2>2, <2>a DEF Polled, Command
      <4>2. \A c \in Channels : wsub[c].status \in 0..2
        BY <1>0 DEF TypeOK, Statuses
      <4>3. \A k \in Kinds, c \in Channels :
              /\ Asks(k, c)' <=> Asks(k, c)
              /\ Marked(k, c)' <=> Marked(k, c)
              /\ Found(k, c)' = Found(k, c)
              /\ <<r, k, c>> \in asking' <=> <<r, k, c>> \in asking
        BY <2>2 DEF Asks, Marked, Found
      <4>4. \A c \in Channels : wsub[c].status \in {1, 2} <=> Asks("net", c)
        BY <4>2 DEF Asks
      <4>5. \A k \in Kinds, c \in Channels : <<r, k, c>> \in Under' <=>
              <<r, k, c>> \in Under \/ (k = "net" /\ Asks(k, c))
        BY <2>2, <2>3, <4>4 DEF Under, Owners
      <4>6. \A k \in Kinds, c \in Channels :
              IF k \in Polled(r) /\ Asks(k, c)
              THEN /\ <<r, k, c>> \in asking => ~Marked(k, c)
                   /\ <<r, k, c>> \notin Under =>
                        Marked(k, c) /\ Found(k, c) = <<r, "answered">>
              ELSE <<r, k, c>> \notin Under
        BY <2>2, <3>1 DEF PollInv, Unpolled
      <4>7. \A k \in Kinds, c \in Channels : <<r, k, c>> \in asking =>
              <<r, k, c>> \in Under
        BY DEF Under
      <4> QED
        BY <4>1, <4>3, <4>5, <4>6, <4>7 DEF PollInv
    <3>4. TimeInv(r)'
      BY <2>1, <2>2, <2>a, <3>1, <1>0 DEF TimeInv, TypeOK, Owners
    <3>5. SenderInv(r)'
      BY <2>1 DEF SenderInv
    <3>6. stage'[r] # "absent" /\ ~answer'[r].timeover
      BY <2>1, <2>2, <2>6, <2>a DEF IInv, LoneInv
    <3> QED
      BY <3>2, <3>3, <3>4, <3>5, <3>6 DEF LoneInv, BusyInv
  <2>7. Busy(r) /\ \A q \in Requests \ {r} : answer'[q] = answer[q]
    BY <2>2, <2>a DEF Busy, Finished
  <2> QED
    BY <2>1, <2>2, <2>4, <2>5, <2>6, <2>7, OthersRest DEF Owners
<1>8. ASSUME NEW r \in Requests, PollVersions(r) PROVE IInv'
  <2>1. /\ stage' \in [Requests -> Stages \cup Finished]
        /\ stage'[r] = "settle"
        /\ \A q \in Requests \ {r} : stage'[q] = stage[q]
    BY <1>0, <1>8, GotoOnly DEF PollVersions, Stages
  <2>2. /\ stage[r] = "chosen" /\ Command(r, "firmware")
        /\ UNCHANGED <<msg, wsub, sub, wfw, fw, asking, age, lone>>
    BY <1>8 DEF PollVersions
  <2>3. /\ spawned' \subseteq Workers
        /\ \A o \in Owners, k \in Kinds, c \in Channels :
             <<o, k, c>> \in spawned' <=>
             \/ <<o, k, c>> \in spawned
             \/ o = r /\ k = "version" /\ wsub[c].status \in {1}
    <3>1. spawned' = spawned \cup Poll(r, "version", {1})
      BY <1>8 DEF PollVersions
    <3>2. \A o \in Owners, k \in Kinds, c \in Channels :
            <<o, k, c>> \in Poll(r, "version", {1}) <=>
              o = r /\ k = "version" /\ wsub[c].status \in {1}
      BY DEF Poll
    <3>3. Poll(r, "version", {1}) \subseteq Workers
      BY DEF Poll, Workers, Owners, Kinds
    <3>4. spawned \subseteq Workers
      BY <1>0 DEF TypeOK
    <3> QED
      BY <3>1, <3>2, <3>3, <3>4
  <2>a. /\ answer' \in [Requests -> [polled : BOOLEAN, timeover : BOOLEAN]]
        /\ answer'[r].polled /\ answer'[r].timeover = answer[r].timeover
        /\ \A q \in Requests \ {r} : answer'[q] = answer[q]
        /\ since' \in [{"deviceinfo", "firmware"} -> 0..UpdateTimeOut + 1]
        /\ wait' \in [Requests -> 0..WaitTimeout + 1] /\ wait'[r] = 0
    <3>1. /\ answer' = [answer EXCEPT ![r].polled = TRUE]
          /\ since' = [since EXCEPT !.firmware = 0]
          /\ wait' = [wait EXCEPT ![r] = 0]
      BY <1>8 DEF PollVersions
    <3>2. /\ answer \in [Requests -> [polled : BOOLEAN, timeover : BOOLEAN]]
          /\ since \in [{"deviceinfo", "firmware"} -> 0..UpdateTimeOut + 1]
          /\ wait \in [Requests -> 0..WaitTimeout + 1]
      BY <1>0 DEF TypeOK
    <3> QED
      BY <3>1, <3>2, Bounds
  <2>4. TypeOK'
    BY <1>0, <2>1, <2>2, <2>3, <2>a DEF TypeOK
  <2>5. SharedInv'
    BY <1>0, <2>1, <2>2, <2>a DEF SharedInv, Unpolled, Decided, Command
  <2>6. ASSUME lone[r] PROVE LoneInv(r)'
    <3>1. Alone(r) /\ PollInv(r) /\ TimeInv(r) /\ SenderInv(r)
      BY <2>2, <2>6 DEF IInv, LoneInv, BusyInv, Busy, Finished
    <3>2. Alone(r)'
      BY <2>1, <2>2, <2>3, <3>1, AloneKept DEF Under
    <3>3. PollInv(r)'
      <4>1. Polled(r)' = {"version"} /\ Polled(r) = {}
        BY <2>1, <2>2, <2>a DEF Polled, Command
      <4>2. \A c \in Channels : wsub[c].status \in 0..2
        BY <1>0 DEF TypeOK, Statuses
      <4>3. \A k \in Kinds, c \in Channels :
              /\ Asks(k, c)' <=> Asks(k, c)
              /\ Marked(k, c)' <=> Marked(k, c)
              /\ Found(k, c)' = Found(k, c)
              /\ <<r, k, c>> \in asking' <=> <<r, k, c>> \in asking
        BY <2>2 DEF Asks, Marked, Found
      <4>4. \A c \in Channels : wsub[c].status \in {1} <=> Asks("version", c)
        BY <4>2 DEF Asks
      <4>5. \A k \in Kinds, c \in Channels : <<r, k, c>> \in Under' <=>
              <<r, k, c>> \in Under \/ (k = "version" /\ Asks(k, c))
        BY <2>2, <2>3, <4>4 DEF Under, Owners
      <4>6. \A k \in Kinds, c \in Channels :
              IF k \in Polled(r) /\ Asks(k, c)
              THEN /\ <<r, k, c>> \in asking => ~Marked(k, c)
                   /\ <<r, k, c>> \notin Under =>
                        Marked(k, c) /\ Found(k, c) = <<r, "answered">>
              ELSE <<r, k, c>> \notin Under
        BY <2>2, <3>1 DEF PollInv, Unpolled
      <4>7. \A k \in Kinds, c \in Channels : <<r, k, c>> \in asking =>
              <<r, k, c>> \in Under
        BY DEF Under
      <4> QED
        BY <4>1, <4>3, <4>5, <4>6, <4>7 DEF PollInv
    <3>4. TimeInv(r)'
      BY <2>1, <2>2, <2>a, <3>1, <1>0 DEF TimeInv, TypeOK, Owners
    <3>5. SenderInv(r)'
      BY <2>1 DEF SenderInv
    <3>6. stage'[r] # "absent" /\ ~answer'[r].timeover
      BY <2>1, <2>2, <2>6, <2>a DEF IInv, LoneInv
    <3> QED
      BY <3>2, <3>3, <3>4, <3>5, <3>6 DEF LoneInv, BusyInv
  <2>7. Busy(r) /\ \A q \in Requests \ {r} : answer'[q] = answer[q]
    BY <2>2, <2>a DEF Busy, Finished
  <2> QED
    BY <2>1, <2>2, <2>4, <2>5, <2>6, <2>7, OthersRest DEF Owners
<1>9. ASSUME NEW r \in Requests, Unpack(r) PROVE IInv'
  <2>1. /\ stage' \in [Requests -> Stages \cup Finished]
        /\ stage'[r] \in {"dropped", "scan"}
        /\ \A q \in Requests \ {r} : stage'[q] = stage[q]
    <3>1. \E t \in {"dropped", "scan"} : Goto(r, t)
      BY <1>9 DEF Unpack
    <3> QED
      BY <1>0, <3>1, GotoOnly DEF Stages, Finished
  <2>2. /\ stage[r] = "unpack" \/ (stage[r] = "settle" /\ wait[r] > 0)
        /\ UNCHANGED <<msg, wsub, sub, wfw, fw, since, spawned, asking, age,
                       answer, lone>>
    BY <1>9 DEF Unpack, polls
  <2>3. wait' \in [Requests -> 0..WaitTimeout + 1] /\ wait'[r] = 0
    <3>1. wait' = [wait EXCEPT ![r] = 0]
      BY <1>9 DEF Unpack
    <3>2. wait \in [Requests -> 0..WaitTimeout + 1]
      BY <1>0 DEF TypeOK
    <3> QED
      BY <3>1, <3>2, Bounds
  <2>4. TypeOK'
    BY <1>0, <2>1, <2>2, <2>3 DEF TypeOK
  <2>5. SharedInv'
    BY <1>0, <2>1, <2>2 DEF SharedInv, Unpolled, Decided, Command
  <2>6. ASSUME lone[r] PROVE LoneInv(r)'
    <3>1. Alone(r) /\ PollInv(r) /\ TimeInv(r) /\ SenderInv(r)
      BY <2>2, <2>6 DEF IInv, LoneInv, BusyInv, Busy, Finished
    <3>2. Alone(r)'
      BY <2>1, <2>2, <3>1, AloneKept DEF Under
    <3>3. PollInv(r)'
      <4>1. \A k \in Kinds, c \in Channels :
              /\ Asks(k, c)' <=> Asks(k, c)
              /\ Marked(k, c)' <=> Marked(k, c)
              /\ Found(k, c)' = Found(k, c)
              /\ <<r, k, c>> \in asking' <=> <<r, k, c>> \in asking
              /\ <<r, k, c>> \in Under' <=> <<r, k, c>> \in Under
        BY <2>2 DEF Asks, Marked, Found, Under
      <4>2. stage'[r] = "scan" => Polled(r)' = Polled(r)
        BY <1>0, <2>1, <2>2 DEF Polled, Command, SharedInv, Unpolled
      <4>3. stage'[r] = "dropped" => Polled(r)' = {}
        BY <2>1 DEF Polled
      <4> QED
        BY <2>1, <2>2, <3>1, <4>1, <4>2, <4>3 DEF PollInv, Unpolled
    <3>4. TimeInv(r)'
      <4>1. stage[r] = "unpack" =>
              \A k \in Kinds, c \in Channels : <<r, k, c>> \notin Under
        BY <3>1 DEF PollInv, Polled, Unpolled
      <4>2. stage[r] = "settle" => \A k \in Kinds, c \in Channels :
              /\ <<r, k, c>> \notin spawned
              /\ <<r, k, c>> \in asking => wait[r] <= age[r][k]
        BY <2>2, <3>1 DEF TimeInv
      <4>3. wait[r] \in Nat /\ \A k \in Kinds : age[r][k] \in Nat
        BY <1>0 DEF TypeOK, Owners
      <4> QED
        BY <2>1, <2>2, <2>3, <4>1, <4>2, <4>3 DEF TimeInv, Under
    <3>5. SenderInv(r)'
      BY <1>0, <2>1, <2>2, <3>1 DEF SenderInv, AllChecked, Command, SharedInv
    <3>6. stage'[r] # "absent" /\ ~answer'[r].timeover
      BY <2>1, <2>2, <2>6 DEF IInv, LoneInv
    <3> QED
      BY <3>2, <3>3, <3>4, <3>5, <3>6 DEF LoneInv, BusyInv
  <2>7. Busy(r) /\ \A q \in Requests \ {r} : answer'[q] = answer[q]
    BY <2>2 DEF Busy, Finished
  <2> QED
    BY <2>1, <2>2, <2>4, <2>5, <2>6, <2>7, OthersRest DEF Owners
<1>10. ASSUME NEW r \in Requests, Scan(r) PROVE IInv'
  <2>1. /\ stage' \in [Requests -> Stages \cup Finished]
        /\ stage'[r] = "copy"
        /\ \A q \in Requests \ {r} : stage'[q] = stage[q]
    BY <1>0, <1>10, GotoOnly DEF Scan, Stages
  <2>2. /\ stage[r] = "scan"
        /\ UNCHANGED <<msg, wsub, sub, wfw, fw, since, spawned, asking, age,
                       wait, lone>>
    BY <1>10 DEF Scan, polls
  <2>3. /\ answer' \in [Requests -> [polled : BOOLEAN, timeover : BOOLEAN]]
        /\ answer'[r].polled = answer[r].polled
        /\ answer'[r].timeover <=> ~AllChecked(r)
        /\ \A q \in Requests \ {r} : answer'[q] = answer[q]
    <3> DEFINE timeover == ~AllChecked(r)
    <3>1. timeover \in BOOLEAN
      OBVIOUS
    <3>2. answer' = [answer EXCEPT ![r].timeover = timeover]
      BY <1>10 DEF Scan
    <3>3. answer \in [Requests -> [polled : BOOLEAN, timeover : BOOLEAN]]
      BY <1>0 DEF TypeOK
    <3>4. /\ answer' \in [Requests -> [polled : BOOLEAN, timeover : BOOLEAN]]
          /\ answer'[r].polled = answer[r].polled
          /\ answer'[r].timeover = timeover
          /\ \A q \in Requests \ {r} : answer'[q] = answer[q]
      <4> HIDE DEF timeover
      <4> QED
        BY <3>1, <3>2, <3>3
    <3> QED
      BY <3>4
  <2>4. TypeOK'
    BY <1>0, <2>1, <2>2, <2>3 DEF TypeOK
  <2>5. SharedInv'
    BY <1>0, <2>1, <2>2, <2>3 DEF SharedInv, Unpolled, Decided, Command
  <2>6. ASSUME lone[r] PROVE LoneInv(r)'
    <3>1. Alone(r) /\ PollInv(r) /\ TimeInv(r) /\ SenderInv(r)
      BY <2>2, <2>6 DEF IInv, LoneInv, BusyInv, Busy, Finished
    <3>a. AllChecked(r)
      <4>1. BusyInv(r)
        BY <3>1 DEF BusyInv
      <4> QED
        BY <1>10, <4>1, SlowestWorker DEF Scan
    <3>2. Alone(r)'
      BY <2>1, <2>2, <3>1, AloneKept DEF Under
    <3>3. PollInv(r)'
      <4>1. \A k \in Kinds, c \in Channels :
              /\ Asks(k, c)' <=> Asks(k, c)
              /\ Marked(k, c)' <=> Marked(k, c)
              /\ Found(k, c)' = Found(k, c)
              /\ <<r, k, c>> \in asking' <=> <<r, k, c>> \in asking
              /\ <<r, k, c>> \in Under' <=> <<r, k, c>> \in Under
        BY <2>2 DEF Asks, Marked, Found, Under
      <4>2. Polled(r)' = Polled(r)
        BY <2>1, <2>2, <2>3 DEF Polled, Command
      <4> QED
        BY <2>1, <2>2, <3>1, <4>1, <4>2 DEF PollInv, Unpolled
    <3>4. TimeInv(r)'
      BY <2>1, <2>2, <3>1 DEF TimeInv
    <3>5. SenderInv(r)'
      <4>1. AllChecked(r)' <=> AllChecked(r)
        BY <2>2 DEF AllChecked, Command
      <4> QED
        BY <2>1, <3>a, <4>1 DEF SenderInv
    <3>6. stage'[r] # "absent" /\ ~answer'[r].timeover
      BY <2>1, <2>3, <3>a
    <3> QED
      BY <3>2, <3>3, <3>4, <3>5, <3>6 DEF LoneInv, BusyInv
  <2>7. Busy(r) /\ \A q \in Requests \ {r} : answer'[q] = answer[q]
    BY <2>2, <2>3 DEF Busy, Finished
  <2> QED
    BY <2>1, <2>2, <2>4, <2>5, <2>6, <2>7, OthersRest DEF Owners
<1>11. ASSUME NEW r \in Requests, CopyInfos(r) PROVE IInv'
  <2>1. /\ stage' \in [Requests -> Stages \cup Finished]
        /\ stage'[r] = "respond"
        /\ \A q \in Requests \ {r} : stage'[q] = stage[q]
    BY <1>0, <1>11, GotoOnly DEF CopyInfos, Stages
  <2>2. /\ stage[r] = "copy"
        /\ UNCHANGED <<msg, wsub, wfw, since, spawned, asking, age, wait,
                       answer, lone>>
    BY <1>11 DEF CopyInfos, polls
  <2>3. /\ sub' \in
             [Channels -> [status : Statuses, name : Findings, net : Findings]]
        /\ fw' \in [Channels -> Findings]
        /\ \A c \in Channels : sub'[c].status = wsub[c].status
        /\ Command(r, "deviceinfo") => \A c \in Channels :
             sub'[c].name = wsub[c].name /\ sub'[c].net = wsub[c].net
        /\ ~Command(r, "deviceinfo") => \A c \in Channels :
             fw'[c] = wfw[c].version
    <3>1. wsub \in [Channels -> Rec]
      BY <1>0 DEF TypeOK, Rec
    <3>2. CASE Command(r, "deviceinfo")
      <4>1. sub' = Published(wsub) /\ fw' = fw
        BY <1>11, <3>2 DEF CopyInfos
      <4> QED
        BY <1>0, <3>1, <3>2, <4>1, PublishedType DEF TypeOK
    <3>3. CASE ~Command(r, "deviceinfo")
      <4>1. fw' = [c \in Channels |-> wfw[c].version] /\ sub' = sub
        BY <1>11, <3>3 DEF CopyInfos
      <4> QED
        BY <1>0, <3>3, <4>1 DEF TypeOK, SharedInv
    <3> QED
      BY <3>2, <3>3
  <2>4. TypeOK'
    BY <1>0, <2>1, <2>2, <2>3 DEF TypeOK
  <2>5. SharedInv'
    BY <1>0, <2>1, <2>2, <2>3 DEF SharedInv, Unpolled, Decided
  <2>6. ASSUME lone[r] PROVE LoneInv(r)'
    <3>1. Alone(r) /\ PollInv(r) /\ TimeInv(r) /\ SenderInv(r)
      BY <2>2, <2>6 DEF IInv, LoneInv, BusyInv, Busy, Finished
    <3>2. Alone(r)'
      BY <2>1, <2>2, <3>1, AloneKept DEF Under
    <3>3. PollInv(r)'
      BY <2>1 DEF PollInv, Polled, Unpolled
    <3>4. TimeInv(r)'
      BY <2>1 DEF TimeInv
    <3>5. SenderInv(r)'
      <4>1. ASSUME NEW k \in Kinds, NEW c \in Channels
            PROVE Found(k, c)[2] = "answered"
        <5>1. \A o \in Owners, j \in Kinds : <<o, j, c>> \notin asking
          BY <2>2, <3>1, Idle DEF IInv
        <5>2. \A o \in Owners : Found(k, c) # <<o, "pending">>
          BY <1>0, <5>1 DEF SharedInv, Found, Kinds
        <5>3. Found(k, c) \in Findings
          BY <1>0 DEF TypeOK, Found, Kinds
        <5> QED
          BY <5>2, <5>3 DEF Findings, Unknown
      <4>2. ASSUME NEW k \in Polled(r), NEW c \in Channels, Asks(k, c)
            PROVE  Found(k, c)[1] = r
        <5>1. k \in Kinds
          BY DEF Polled, Kinds
        <5>2. <<r, k, c>> \notin asking
          BY <2>2, <3>1, <5>1, Idle DEF IInv, Owners
        <5>3. <<r, k, c>> \notin spawned
          BY <2>2, <3>1, <5>1 DEF TimeInv
        <5>4. Found(k, c) = <<r, "answered">>
          BY <3>1, <4>2, <5>1, <5>2, <5>3 DEF PollInv, Under
        <5> QED
          BY <5>4
      <4>3. ASSUME NEW c \in DOMAIN Shows(r)', NEW f \in Shows(r)'[c]
            PROVE  /\ f[2] = "answered"
                   /\ /\ answer'[r].polled
                      /\ Command(r, "deviceinfo")' \/ sub'[c].status = 1
                      => f[1] = r
        <5>1. c \in Channels /\ wsub[c].status # 0
          BY <2>3 DEF Shows
        <5>2. CASE Command(r, "deviceinfo")
          <6>1. f \in {wsub[c].name, wsub[c].net}
            BY <2>2, <2>3, <4>3, <5>1, <5>2 DEF Shows, Command
          <6>2. f = Found("info", c) \/ f = Found("net", c)
            BY <6>1 DEF Found
          <6>3. Asks("info", c) /\ Asks("net", c)
            BY <5>1 DEF Asks
          <6>4. answer[r].polled => Polled(r) = {"info", "net"}
            BY <2>2, <5>2 DEF Polled
          <6>5. "info" \in Kinds /\ "net" \in Kinds
            BY DEF Kinds
          <6> QED
            BY <2>2, <4>1, <4>2, <5>1, <6>2, <6>3, <6>4, <6>5
        <5>3. CASE ~Command(r, "deviceinfo")
          <6>1. f = Found("version", c)
            BY <2>2, <2>3, <4>3, <5>1, <5>3 DEF Shows, Command, Found
          <6>2. sub'[c].status = 1 => Asks("version", c)
            BY <2>3, <5>1 DEF Asks
          <6>3. answer[r].polled => Polled(r) = {"version"}
            BY <2>2, <5>3 DEF Polled
          <6>4. "version" \in Kinds /\ ~Command(r, "deviceinfo")'
            BY <2>2, <5>3 DEF Kinds, Command
          <6> QED
            BY <2>2, <4>1, <4>2, <5>1, <6>1, <6>2, <6>3, <6>4
        <5> QED
          BY <5>2, <5>3
      <4> QED
        BY <2>1, <4>3 DEF SenderInv
    <3>6. stage'[r] # "absent" /\ ~answer'[r].timeover
      BY <2>1, <2>2, <2>6 DEF IInv, LoneInv
    <3> QED
      BY <3>2, <3>3, <3>4, <3>5, <3>6 DEF LoneInv, BusyInv
  <2>7. Busy(r) /\ \A q \in Requests \ {r} : answer'[q] = answer[q]
    BY <2>2 DEF Busy, Finished
  <2> QED
    BY <2>1, <2>2, <2>4, <2>5, <2>6, <2>7, OthersRest DEF Owners
<1>12. ASSUME NEW r \in Requests, Respond(r) PROVE IInv'
  <2>1. /\ stage' \in [Requests -> Stages \cup Finished]
        /\ stage'[r] = "reset"
        /\ \A q \in Requests \ {r} : stage'[q] = stage[q]
    BY <1>0, <1>12, GotoOnly DEF Respond, Stages
  <2>2. /\ stage[r] = "respond"
        /\ UNCHANGED <<msg, wsub, sub, wfw, fw, since, spawned, asking, age,
                       wait, lone>>
    BY <1>12 DEF Respond, polls
  <2>3. /\ answer' \in [Requests -> [polled : BOOLEAN, timeover : BOOLEAN]]
        /\ ~answer'[r].timeover
        /\ \A q \in Requests \ {r} : answer'[q] = answer[q]
    <3>1. answer' = [answer EXCEPT ![r] = NotYet]
      BY <1>12 DEF Respond
    <3>2. answer \in [Requests -> [polled : BOOLEAN, timeover : BOOLEAN]]
      BY <1>0 DEF TypeOK
    <3> QED
      BY <3>1, <3>2, Bounds DEF NotYet
  <2>4. TypeOK'
    BY <1>0, <2>1, <2>2, <2>3 DEF TypeOK
  <2>5. SharedInv'
    BY <1>0, <2>1, <2>2, <2>3 DEF SharedInv, Unpolled, Decided
  <2>6. ASSUME lone[r] PROVE LoneInv(r)'
    <3>1. Alone(r) /\ PollInv(r) /\ TimeInv(r) /\ SenderInv(r)
      BY <2>2, <2>6 DEF IInv, LoneInv, BusyInv, Busy, Finished
    <3>2. Alone(r)'
      BY <2>1, <2>2, <3>1, AloneKept DEF Under
    <3>3. PollInv(r)'
      BY <2>1 DEF PollInv, Polled, Unpolled
    <3>4. TimeInv(r)'
      BY <2>1 DEF TimeInv
    <3>5. SenderInv(r)'
      BY <2>1 DEF SenderInv
    <3>6. stage'[r] # "absent" /\ ~answer'[r].timeover
      BY <2>1, <2>3
    <3> QED
      BY <3>2, <3>3, <3>4, <3>5, <3>6 DEF LoneInv, BusyInv
  <2>7. Busy(r) /\ \A q \in Requests \ {r} : answer'[q] = answer[q]
    BY <2>2, <2>3 DEF Busy, Finished
  <2> QED
    BY <2>1, <2>2, <2>4, <2>5, <2>6, <2>7, OthersRest DEF Owners
<1>13. ASSUME NEW r \in Requests, ResetChecks(r) PROVE IInv'
  <2>1. /\ stage' \in [Requests -> Stages \cup Finished]
        /\ stage'[r] = "done"
        /\ \A q \in Requests \ {r} : stage'[q] = stage[q]
    BY <1>0, <1>13, GotoOnly DEF ResetChecks, Finished
  <2>2. /\ stage[r] = "reset"
        /\ UNCHANGED <<msg, sub, fw, since, spawned, asking, age, wait, answer,
                       lone>>
    BY <1>13 DEF ResetChecks, polls
  <2>3. /\ wsub' \in [Channels -> Rec]
        /\ wfw' \in [Channels -> [version : Findings, checked : BOOLEAN]]
        /\ \A c \in Channels : /\ wsub'[c].status = wsub[c].status
                               /\ wsub'[c].name = wsub[c].name
                               /\ wsub'[c].net = wsub[c].net
                               /\ wfw'[c].version = wfw[c].version
    <3>1. /\ wsub \in [Channels -> Rec]
          /\ wfw \in [Channels -> [version : Findings, checked : BOOLEAN]]
      BY <1>0 DEF TypeOK, Rec
    <3>2. CASE /\ wsub' = [c \in Channels |-> [wsub[c] EXCEPT
                            !.infoChecked = FALSE, !.netChecked = FALSE]]
               /\ wfw' = wfw
      <4>1. ASSUME NEW c \in Channels
            PROVE  /\ wsub'[c] \in Rec /\ wsub'[c].status = wsub[c].status
                   /\ wsub'[c].name = wsub[c].name
                   /\ wsub'[c].net = wsub[c].net
        BY <3>1, <3>2 DEF Rec
      <4> QED
        BY <3>1, <3>2, <4>1
    <3>3. CASE /\ wfw' = [c \in Channels |-> [wfw[c] EXCEPT !.checked = FALSE]]
               /\ wsub' = wsub
      BY <3>1, <3>3
    <3> QED
      BY <1>13, <3>2, <3>3 DEF ResetChecks
  <2>4. TypeOK'
    BY <1>0, <2>1, <2>2, <2>3 DEF TypeOK, Rec
  <2>5. SharedInv'
    BY <1>0, <2>1, <2>2, <2>3 DEF SharedInv, Unpolled, Decided
  <2>6. lone[r] => LoneInv(r)'
    BY <2>1, <2>2 DEF IInv, LoneInv, Busy, Finished
  <2>7. Busy(r)
    BY <2>2 DEF Busy, Finished
  <2> QED
    BY <2>1, <2>2, <2>4, <2>5, <2>6, <2>7, OthersRest DEF Owners
<1>14. ASSUME NEW o \in Owners, NEW c \in Channels, InfoStart(o, c) PROVE IInv'
  <2>1. /\ wsub \in [Channels -> Rec]
        /\ wfw \in [Channels -> [version : Findings, checked : BOOLEAN]]
    BY <1>0 DEF TypeOK, Rec
  <2>2. <<o, "pending">> \in Findings
    BY Bounds
  <2>3. wfw' = wfw
    BY <1>14 DEF InfoStart
  <2>4. /\ wsub' \in [Channels -> Rec]
        /\ wsub'[c].name = <<o, "pending">> /\ wsub'[c].infoChecked = FALSE
        /\ \A d \in Channels : /\ d # c => wsub'[d] = wsub[d]
                               /\ wsub'[d].status = wsub[d].status
                               /\ wsub'[d].net = wsub[d].net
                               /\ wsub'[d].netChecked = wsub[d].netChecked
    BY <1>14, <2>1, <2>2 DEF InfoStart, Rec
  <2>5. Writes(o, "info", c, "pending", FALSE)
    BY <2>1, <2>3, <2>4 DEF Writes, Marked, Found, Kinds
  <2>6. WorkerBegins(o, "info", c) /\ "info" \in Kinds
    BY <1>14 DEF InfoStart, Kinds
  <2> QED
    BY <2>5, <2>6, Begins
<1>15. ASSUME NEW o \in Owners, NEW c \in Channels, InfoFinish(o, c)
       PROVE IInv'
  <2>1. /\ wsub \in [Channels -> Rec]
        /\ wfw \in [Channels -> [version : Findings, checked : BOOLEAN]]
    BY <1>0 DEF TypeOK, Rec
  <2>2. <<o, "answered">> \in Findings
    BY Bounds
  <2>3. wfw' = wfw
    BY <1>15 DEF InfoFinish
  <2>4. /\ wsub' \in [Channels -> Rec]
        /\ wsub'[c].name = <<o, "answered">> /\ wsub'[c].infoChecked = TRUE
        /\ \A d \in Channels : /\ d # c => wsub'[d] = wsub[d]
                               /\ wsub'[d].status = wsub[d].status
                               /\ wsub'[d].net = wsub[d].net
                               /\ wsub'[d].netChecked = wsub[d].netChecked
    BY <1>15, <2>1, <2>2 DEF InfoFinish, Rec
  <2>5. Writes(o, "info", c, "answered", TRUE)
    BY <2>1, <2>3, <2>4 DEF Writes, Marked, Found, Kinds
  <2>6. WorkerEnds(o, "info", c) /\ "info" \in Kinds
    BY <1>15 DEF InfoFinish, Kinds
  <2> QED
    BY <2>5, <2>6, Ends
<1>16. ASSUME NEW o \in Owners, NEW c \in Channels, NetStart(o, c) PROVE IInv'
  <2>1. /\ wsub \in [Channels -> Rec]
        /\ wfw \in [Channels -> [version : Findings, checked : BOOLEAN]]
    BY <1>0 DEF TypeOK, Rec
  <2>2. <<o, "pending">> \in Findings
    BY Bounds
  <2>3. wfw' = wfw
    BY <1>16 DEF NetStart
  <2>4. /\ wsub' \in [Channels -> Rec]
        /\ wsub'[c].net = <<o, "pending">> /\ wsub'[c].netChecked = FALSE
        /\ \A d \in Channels : /\ d # c => wsub'[d] = wsub[d]
                               /\ wsub'[d].status = wsub[d].status
                               /\ wsub'[d].name = wsub[d].name
                               /\ wsub'[d].infoChecked = wsub[d].infoChecked
    BY <1>16, <2>1, <2>2 DEF NetStart, Rec
  <2>5. Writes(o, "net", c, "pending", FALSE)
    BY <2>1, <2>3, <2>4 DEF Writes, Marked, Found, Kinds
  <2>6. WorkerBegins(o, "net", c) /\ "net" \in Kinds
    BY <1>16 DEF NetStart, Kinds
  <2> QED
    BY <2>5, <2>6, Begins
<1>17. ASSUME NEW o \in Owners, NEW c \in Channels, NetFinish(o, c) PROVE IInv'
  <2>1. /\ wsub \in [Channels -> Rec]
        /\ wfw \in [Channels -> [version : Findings, checked : BOOLEAN]]
    BY <1>0 DEF TypeOK, Rec
  <2>2. <<o, "answered">> \in Findings
    BY Bounds
  <2>3. wfw' = wfw
    BY <1>17 DEF NetFinish
  <2>4. /\ wsub' \in [Channels -> Rec]
        /\ wsub'[c].net = <<o, "answered">> /\ wsub'[c].netChecked = TRUE
        /\ \A d \in Channels : /\ d # c => wsub'[d] = wsub[d]
                               /\ wsub'[d].status = wsub[d].status
                               /\ wsub'[d].name = wsub[d].name
                               /\ wsub'[d].infoChecked = wsub[d].infoChecked
    BY <1>17, <2>1, <2>2 DEF NetFinish, Rec
  <2>5. Writes(o, "net", c, "answered", TRUE)
    BY <2>1, <2>3, <2>4 DEF Writes, Marked, Found, Kinds
  <2>6. WorkerEnds(o, "net", c) /\ "net" \in Kinds
    BY <1>17 DEF NetFinish, Kinds
  <2> QED
    BY <2>5, <2>6, Ends
<1>18. ASSUME NEW o \in Owners, NEW c \in Channels, VersionStart(o, c)
       PROVE IInv'
  <2>1. /\ wsub \in [Channels -> Rec]
        /\ wfw \in [Channels -> [version : Findings, checked : BOOLEAN]]
    BY <1>0 DEF TypeOK, Rec
  <2>2. <<o, "pending">> \in Findings
    BY Bounds
  <2>3. /\ wfw' \in [Channels -> [version : Findings, checked : BOOLEAN]]
        /\ wfw'[c] = [version |-> <<o, "pending">>, checked |-> FALSE]
        /\ \A d \in Channels \ {c} : wfw'[d] = wfw[d]
    BY <1>18, <2>1, <2>2 DEF VersionStart
  <2>4. /\ wsub' \in [Channels -> Rec]
        /\ wsub'[c].name = <<o, "pending">>
        /\ \A d \in Channels : /\ d # c => wsub'[d] = wsub[d]
                               /\ wsub'[d].status = wsub[d].status
                               /\ wsub'[d].net = wsub[d].net
                               /\ wsub'[d].infoChecked = wsub[d].infoChecked
                               /\ wsub'[d].netChecked = wsub[d].netChecked
    BY <1>18, <2>1, <2>2 DEF VersionStart, Rec
  <2>5. Writes(o, "version", c, "pending", FALSE)
    <3>1. Marked("version", c)' = FALSE
      BY <2>3 DEF Marked
    <3>2. ASSUME NEW d \in Channels
          PROVE  /\ Marked("info", d)' = Marked("info", d)
                 /\ Marked("net", d)' = Marked("net", d)
                 /\ d # c => Marked("version", d)' = Marked("version", d)
                 /\ Found("info", d)' =
                      IF d = c THEN <<o, "pending">> ELSE Found("info", d)
                 /\ Found("net", d)' = Found("net", d)
                 /\ Found("version", d)' =
                      IF d = c THEN <<o, "pending">> ELSE Found("version", d)
      <4>1. /\ Marked("info", d)' = Marked("info", d)
            /\ Marked("net", d)' = Marked("net", d)
            /\ Found("net", d)' = Found("net", d)
        BY <2>4 DEF Marked, Found
      <4>2. /\ d # c => Marked("version", d)' = Marked("version", d)
            /\ Found("version", d)' =
                 IF d = c THEN <<o, "pending">> ELSE Found("version", d)
        BY <2>3 DEF Marked, Found
      <4>3. Found("info", d)' =
              IF d = c THEN <<o, "pending">> ELSE Found("info", d)
        BY <2>4 DEF Found
      <4> QED
        BY <4>1, <4>2, <4>3
    <3>3. \A d \in Channels : wsub'[d].status = wsub[d].status
      BY <2>4
    <3> QED
      BY <2>3, <2>4, <3>1, <3>2, <3>3 DEF Writes, Kinds
  <2>6. WorkerBegins(o, "version", c) /\ "version" \in Kinds
    BY <1>18 DEF VersionStart, Kinds
  <2> QED
    BY <2>5, <2>6, Begins
<1>19. ASSUME NEW o \in Owners, NEW c \in Channels, VersionFinish(o, c)
       PROVE IInv'
  <2>1. /\ wsub \in [Channels -> Rec]
        /\ wfw \in [Channels -> [version : Findings, checked : BOOLEAN]]
    BY <1>0 DEF TypeOK, Rec
  <2>2. <<o, "answered">> \in Findings
    BY Bounds
  <2>3. /\ wfw' \in [Channels -> [version : Findings, checked : BOOLEAN]]
        /\ wfw'[c] = [version |-> <<o, "answered">>, checked |-> TRUE]
        /\ \A d \in Channels \ {c} : wfw'[d] = wfw[d]
    BY <1>19, <2>1, <2>2 DEF VersionFinish
  <2>4. /\ wsub' \in [Channels -> Rec]
        /\ wsub'[c].name = <<o, "answered">>
        /\ \A d \in Channels : /\ d # c => wsub'[d] = wsub[d]
                               /\ wsub'[d].status = wsub[d].status
                               /\ wsub'[d].net = wsub[d].net
                               /\ wsub'[d].infoChecked = wsub[d].infoChecked
                               /\ wsub'[d].netChecked = wsub[d].netChecked
    BY <1>19, <2>1, <2>2 DEF VersionFinish, Rec
  <2>5. Writes(o, "version", c, "answered", TRUE)
    <3>1. Marked("version", c)' = TRUE
      BY <2>3 DEF Marked
    <3>2. ASSUME NEW d \in Channels
          PROVE  /\ Marked("info", d)' = Marked("info", d)
                 /\ Marked("net", d)' = Marked("net", d)
                 /\ d # c => Marked("version", d)' = Marked("version", d)
                 /\ Found("info", d)' =
                      IF d = c THEN <<o, "answered">> ELSE Found("info", d)
                 /\ Found("net", d)' = Found("net", d)
                 /\ Found("version", d)' =
                      IF d = c THEN <<o, "answered">> ELSE Found("version", d)
      <4>1. /\ Marked("info", d)' = Marked("info", d)
            /\ Marked("net", d)' = Marked("net", d)
            /\ Found("net", d)' = Found("net", d)
        BY <2>4 DEF Marked, Found
      <4>2. /\ d # c => Marked("version", d)' = Marked("version", d)
            /\ Found("version", d)' =
                 IF d = c THEN <<o, "answered">> ELSE Found("version", d)
        BY <2>3 DEF Marked, Found
      <4>3. Found("info", d)' =
              IF d = c THEN <<o, "answered">> ELSE Found("info", d)
        BY <2>4 DEF Found
      <4> QED
        BY <4>1, <4>2, <4>3
    <3>3. \A d \in Channels : wsub'[d].status = wsub[d].status
      BY <2>4
    <3> QED
      BY <2>3, <2>4, <3>1, <3>2, <3>3 DEF Writes, Kinds
  <2>6. WorkerEnds(o, "version", c) /\ "version" \in Kinds
    BY <1>19 DEF VersionFinish, Kinds
  <2> QED
    BY <2>5, <2>6, Ends
<1>20. CASE Second
  <2>1. /\ UNCHANGED <<msg, wsub, sub, wfw, fw, spawned, asking, stage, answer,
                       lone>>
        /\ spawned = {}
    BY <1>20 DEF Second
  <2>2. ASSUME NEW o \in Owners, NEW k \in Kinds
        PROVE  /\ age'[o][k] \in 0..CurlTimeout
               /\ \A c \in Channels : <<o, k, c>> \in asking =>
                    age'[o][k] = age[o][k] + 1
    <3>1. age'[o][k] = IF \E c \in Channels : <<o, k, c>> \in asking
                       THEN age[o][k] + 1 ELSE 0
      BY <1>20 DEF Second
    <3>2. \A c \in Channels : <<o, k, c>> \in asking => age[o][k] < CurlTimeout
      BY <1>20 DEF Second
    <3>3. age[o][k] \in 0..CurlTimeout
      BY <1>0 DEF TypeOK
    <3>4. CASE \E c \in Channels : <<o, k, c>> \in asking
      <4>1. age[o][k] < CurlTimeout /\ age'[o][k] = age[o][k] + 1
        BY <3>1, <3>2, <3>4
      <4> QED
        BY <3>3, <4>1, SubdeviceAssumption
    <3>5. CASE ~\E c \in Channels : <<o, k, c>> \in asking
      BY <3>1, <3>5, Bounds
    <3> QED
      BY <3>4, <3>5
  <2>3. age' \in [Owners -> [Kinds -> 0..CurlTimeout]]
    <3>1. age' = [o \in Owners |-> [k \in Kinds |-> age'[o][k]]]
      BY <1>20 DEF Second
    <3> QED
      BY <2>2, <3>1
  <2>4. ASSUME NEW r \in Requests
        PROVE  /\ wait'[r] \in 0..WaitTimeout + 1
               /\ wait'[r] \in {wait[r], wait[r] + 1}
               /\ wait'[r] # wait[r] /\ stage[r] = "settle" => wait[r] = 0
    <3>1. wait'[r] = IF \/ stage[r] = "settle" /\ wait[r] = 0
                        \/ stage[r] = "scan" /\ wait[r] <= WaitTimeout
                     THEN wait[r] + 1 ELSE wait[r]
      BY <1>20 DEF Second
    <3>2. wait[r] \in 0..WaitTimeout + 1
      BY <1>0 DEF TypeOK
    <3> QED
      BY <3>1, <3>2, SubdeviceAssumption
  <2>5. wait' \in [Requests -> 0..WaitTimeout + 1]
    <3>1. wait' = [r \in Requests |-> wait'[r]]
      BY <1>20 DEF Second
    <3> QED
      BY <2>4, <3>1
  <2>6. since' \in [{"deviceinfo", "firmware"} -> 0..UpdateTimeOut + 1]
    <3>1. since \in [{"deviceinfo", "firmware"} -> 0..UpdateTimeOut + 1]
      BY <1>0 DEF TypeOK
    <3>2. ASSUME NEW v \in {"deviceinfo", "firmware"}
          PROVE  (IF since[v] > UpdateTimeOut THEN since[v] ELSE since[v] + 1)
                   \in 0..UpdateTimeOut + 1
      BY <3>1, SubdeviceAssumption
    <3>3. since' = [v \in {"deviceinfo", "firmware"} |->
                      IF since[v] > UpdateTimeOut THEN since[v]
                      ELSE since[v] + 1]
      BY <1>20, <3>1 DEF Second
    <3> QED
      BY <3>2, <3>3
  <2>7. TypeOK'
    BY <1>0, <2>1, <2>3, <2>5, <2>6 DEF TypeOK
  <2>8. SharedInv'
    BY <1>0, <2>1 DEF SharedInv
  <2>9. ASSUME NEW r \in Requests, lone'[r] PROVE LoneInv(r)'
    <3>1. LoneInv(r)
      BY <2>1, <2>9 DEF IInv
    <3>2. ASSUME Busy(r) PROVE BusyInv(r)'
      <4>1. Alone(r) /\ PollInv(r) /\ TimeInv(r) /\ SenderInv(r)
        BY <3>1, <3>2 DEF LoneInv, BusyInv
      <4>2. Alone(r)'
        BY <2>1, <4>1, AloneKept DEF Under
      <4>3. PollInv(r)' /\ SenderInv(r)'
        BY <2>1, <4>1, Stays
      <4>4. TimeInv(r)'
        <5>1. /\ wait[r] \in Nat
              /\ \A k \in Kinds : age[r][k] \in Nat /\ age'[r][k] \in Nat
          BY <1>0, <2>3 DEF TypeOK, Owners
        <5>2. \A k \in Kinds, c \in Channels : <<r, k, c>> \in asking =>
                age'[r][k] = age[r][k] + 1
          BY <2>2 DEF Owners
        <5> QED
          BY <2>1, <2>4, <4>1, <5>1, <5>2 DEF TimeInv
      <4> QED
        BY <4>2, <4>3, <4>4 DEF BusyInv
    <3> QED
      BY <2>1, <3>1, <3>2 DEF LoneInv, Busy
  <2> QED
    BY <2>7, <2>8, <2>9 DEF IInv
<1>21. CASE UNCHANGED vars
  <2>1. /\ UNCHANGED <<msg, wsub, sub, wfw, fw, since, spawned, asking>>
        /\ UNCHANGED <<age, stage, wait, answer, lone>>
    BY <1>21 DEF vars, polls
  <2>2. TypeOK'
    BY <1>0, <2>1 DEF TypeOK
  <2>3. SharedInv'
    BY <1>0, <2>1 DEF SharedInv
  <2>4. ASSUME NEW r \in Requests, lone[r], Busy(r) PROVE BusyInv(r)'
    <3>1. Alone(r) /\ PollInv(r) /\ TimeInv(r) /\ SenderInv(r)
      BY <2>4 DEF IInv, LoneInv, BusyInv
    <3>2. Alone(r)'
      BY <2>1, <3>1, AloneKept DEF Under
    <3>3. PollInv(r)' /\ SenderInv(r)'
      BY <2>1, <3>1, Stays
    <3>4. TimeInv(r)'
      BY <2>1, <3>1 DEF TimeInv
    <3> QED
      BY <3>2, <3>3, <3>4 DEF BusyInv
  <2> QED
    BY <2>1, <2>2, <2>3, <2>4 DEF IInv, LoneInv, Busy
<1> QED
  BY <1>1, <1>2, <1>3, <1>4, <1>5, <1>6, <1>7, <1>8, <1>9, <1>10, <1>11,
     <1>12, <1>13, <1>14, <1>15, <1>16, <1>17, <1>18, <1>19, <1>20, <1>21
     DEF Next, Request, Sender, Worker

-----------------------------------------------------------------------------
(* The theorems.                                                           *)

\* The invariant holds in every state the agent can reach.
THEOREM Invariance == Spec => []IInv
  BY InitIInv, Keeps, PTL DEF Spec

\* The threads of the two views, and their workers, keep to their types.
THEOREM TypeCorrect == Spec => []TypeOK
<1>1. IInv => TypeOK
  BY DEF IInv
<1> QED
  BY Invariance, <1>1, PTL

\* A view that nothing overlaps shows what the cameras answered to its own
\* workers, for any number of channels and whatever marks are left behind.
THEOREM LoneComplete == Spec => []LoneViewComplete
<1>1. IInv => LoneViewComplete
  <2>1. SUFFICES ASSUME IInv, NEW r \in Requests, lone[r], stage[r] = "respond"
                 PROVE  SenderInv(r)
    BY DEF LoneViewComplete, SenderInv
  <2> QED
    BY <2>1 DEF IInv, LoneInv, BusyInv, Busy, Finished
<1> QED
  BY Invariance, <1>1, PTL

\* It is never answered by a timeover, as CURL_TIMEOUT is at most WAIT_TIMEOUT.
THEOREM LoneInTime == Spec => []LoneViewInTime
<1>1. IInv => LoneViewInTime
  BY DEF IInv, LoneInv, LoneViewInTime
<1> QED
  BY Invariance, <1>1, PTL

-----------------------------------------------------------------------------
(* The views keep the promise of ViewService.  First the questions: which  *)
(* items the workers under way ask for.                                    *)

LEMMA QuestionIn ==
  ASSUME NEW W \in SUBSET Workers, NEW o, NEW c, NEW e
  PROVE  <<o, <<c, e>>>> \in QuestionsOf(W) <=>
           \E k \in Kinds : <<o, k, c>> \in W /\ e \in Results[k]
<1>1. ASSUME <<o, <<c, e>>>> \in QuestionsOf(W)
      PROVE  \E k \in Kinds : <<o, k, c>> \in W /\ e \in Results[k]
  <2>1. PICK w \in W :
          <<o, <<c, e>>>> \in {w[1]} \X ({w[3]} \X Results[w[2]])
    BY <1>1 DEF QuestionsOf
  <2>2. w = <<w[1], w[2], w[3]>> /\ w[2] \in Kinds
    BY DEF Workers
  <2>3. o = w[1] /\ c = w[3] /\ e \in Results[w[2]]
    BY <2>1
  <2> QED
    BY <2>2, <2>3
<1>2. ASSUME NEW k \in Kinds, <<o, k, c>> \in W, e \in Results[k]
      PROVE  <<o, <<c, e>>>> \in QuestionsOf(W)
  <2> DEFINE w == <<o, k, c>>
  <2>1. <<o, <<c, e>>>> \in {w[1]} \X ({w[3]} \X Results[w[2]])
    BY <1>2
  <2> QED
    BY <1>2, <2>1 DEF QuestionsOf
<1> QED
  BY <1>1, <1>2

LEMMA QuestionType ==
  ASSUME NEW W \in SUBSET Workers
  PROVE  QuestionsOf(W) \subseteq Owners \X Items
<1> SUFFICES ASSUME NEW w \in W
             PROVE  {w[1]} \X ({w[3]} \X Results[w[2]]) \subseteq
                      Owners \X Items
  BY DEF QuestionsOf
<1>1. w[1] \in Owners /\ w[2] \in Kinds /\ w[3] \in Channels
  BY DEF Workers
<1>2. \A k \in Kinds : Results[k] \subseteq {"name", "net", "version"}
  BY DEF Kinds, Results
<1> QED
  BY <1>1, <1>2 DEF Items

\* Two sets of questions are the same if they have the same members.
LEMMA SameQuestions ==
  ASSUME NEW P \in SUBSET (Owners \X Items),
         NEW Q \in SUBSET (Owners \X Items),
         \A o \in Owners, c \in Channels, e \in {"name", "net", "version"} :
           <<o, <<c, e>>>> \in P <=> <<o, <<c, e>>>> \in Q
  PROVE  P = Q
<1>1. \A p \in Owners \X Items :
        /\ p = <<p[1], <<p[2][1], p[2][2]>>>>
        /\ p[1] \in Owners /\ p[2][1] \in Channels
        /\ p[2][2] \in {"name", "net", "version"}
  BY DEF Items
<1>2. \A p \in Owners \X Items : p \in P <=> p \in Q
  <2> SUFFICES ASSUME NEW p \in Owners \X Items
               PROVE  p \in P <=> p \in Q
    OBVIOUS
  <2>1. p = <<p[1], <<p[2][1], p[2][2]>>>>
    BY <1>1
  <2>2. <<p[1], <<p[2][1], p[2][2]>>>> \in P <=>
          <<p[1], <<p[2][1], p[2][2]>>>> \in Q
    BY <1>1
  <2> QED
    BY <2>1, <2>2
<1> QED
  BY <1>2

\* A poll adds the questions of its workers ...
LEMMA PollAdds ==
  ASSUME NEW W \in SUBSET Workers, NEW o \in Owners, NEW k \in Kinds,
         NEW C \in SUBSET Channels
  PROVE  \A V : V = W \cup ({o} \X {k} \X C) =>
           QuestionsOf(V) = QuestionsOf(W) \cup ({o} \X (C \X Results[k]))
<1> DEFINE V == W \cup ({o} \X {k} \X C)
           P == QuestionsOf(V)
           Q == QuestionsOf(W) \cup ({o} \X (C \X Results[k]))
<1>1. V \in SUBSET Workers
  BY DEF Workers
<1>2. Results[k] \subseteq {"name", "net", "version"}
  BY DEF Kinds, Results
<1>3. P \subseteq Owners \X Items /\ Q \subseteq Owners \X Items
  <2>1. QuestionsOf(W) \subseteq Owners \X Items
    BY QuestionType
  <2>2. P \subseteq Owners \X Items
    BY <1>1, QuestionType
  <2> QED
    BY <1>2, <2>1, <2>2 DEF Items
<1>4. ASSUME NEW p \in Owners, NEW c \in Channels,
             NEW e \in {"name", "net", "version"}
      PROVE  <<p, <<c, e>>>> \in P <=> <<p, <<c, e>>>> \in Q
  <2>1. <<p, <<c, e>>>> \in P <=>
          \E j \in Kinds : <<p, j, c>> \in V /\ e \in Results[j]
    <3> HIDE DEF V
    <3> QED
      BY <1>1, QuestionIn
  <2>2. <<p, <<c, e>>>> \in QuestionsOf(W) <=>
          \E j \in Kinds : <<p, j, c>> \in W /\ e \in Results[j]
    BY QuestionIn
  <2>3. \A j \in Kinds : <<p, j, c>> \in V <=>
          <<p, j, c>> \in W \/ (p = o /\ j = k /\ c \in C)
    OBVIOUS
  <2>4. <<p, <<c, e>>>> \in {o} \X (C \X Results[k]) <=>
          p = o /\ c \in C /\ e \in Results[k]
    OBVIOUS
  <2> QED
    BY <2>1, <2>2, <2>3, <2>4
<1> HIDE DEF P, Q
<1>5. P = Q
  BY <1>3, <1>4, SameQuestions
<1>6. QuestionsOf(V) = QuestionsOf(W) \cup ({o} \X (C \X Results[k]))
  BY <1>5 DEF P, Q
<1> HIDE DEF V
<1>7. \A U : U = V => QuestionsOf(U) = QuestionsOf(V)
  OBVIOUS
<1> QED
  BY <1>6, <1>7 DEF V

\* ... and a worker that ends takes its questions away, where no other worker
\* of the same owner asks for the same.
LEMMA EndRemoves ==
  ASSUME NEW W \in SUBSET Workers, NEW o \in Owners, NEW k \in Kinds,
         NEW c \in Channels, <<o, k, c>> \in W,
         \A j \in Kinds : <<o, j, c>> \in W /\ j # k =>
           Results[j] \cap Results[k] = {}
  PROVE  QuestionsOf(W \ {<<o, k, c>>}) =
           QuestionsOf(W) \ ({o} \X ({c} \X Results[k]))
<1> DEFINE V == W \ {<<o, k, c>>}
           P == QuestionsOf(V)
           Q == QuestionsOf(W) \ ({o} \X ({c} \X Results[k]))
<1>1. V \in SUBSET Workers
  OBVIOUS
<1>3. P \subseteq Owners \X Items /\ Q \subseteq Owners \X Items
  <2>1. QuestionsOf(W) \subseteq Owners \X Items
    BY QuestionType
  <2>2. P \subseteq Owners \X Items
    BY <1>1, QuestionType
  <2> QED
    BY <2>1, <2>2
<1>4. ASSUME NEW p \in Owners, NEW d \in Channels,
             NEW e \in {"name", "net", "version"}
      PROVE  <<p, <<d, e>>>> \in P <=> <<p, <<d, e>>>> \in Q
  <2>1. <<p, <<d, e>>>> \in P <=>
          \E j \in Kinds : <<p, j, d>> \in V /\ e \in Results[j]
    <3> HIDE DEF V
    <3> QED
      BY <1>1, QuestionIn
  <2>2. <<p, <<d, e>>>> \in QuestionsOf(W) <=>
          \E j \in Kinds : <<p, j, d>> \in W /\ e \in Results[j]
    BY QuestionIn
  <2>3. \A j \in Kinds : <<p, j, d>> \in V <=>
          <<p, j, d>> \in W /\ ~(p = o /\ j = k /\ d = c)
    OBVIOUS
  <2>4. <<p, <<d, e>>>> \in {o} \X ({c} \X Results[k]) <=>
          p = o /\ d = c /\ e \in Results[k]
    OBVIOUS
  <2>5. CASE p = o /\ d = c /\ e \in Results[k]
    <3>1. ASSUME NEW j \in Kinds, <<p, j, d>> \in V, e \in Results[j]
          PROVE  FALSE
      <4>1. <<o, j, c>> \in W /\ j # k
        BY <2>3, <2>5, <3>1
      <4>2. Results[j] \cap Results[k] = {}
        BY <4>1
      <4> QED
        BY <2>5, <3>1, <4>2
    <3> QED
      BY <2>1, <2>4, <2>5, <3>1
  <2>6. CASE ~(p = o /\ d = c /\ e \in Results[k])
    <3>1. \A j \in Kinds : e \in Results[j] =>
            (<<p, j, d>> \in V <=> <<p, j, d>> \in W)
      BY <2>3, <2>6
    <3> QED
      BY <2>1, <2>2, <2>4, <2>6, <3>1
  <2> QED
    BY <2>5, <2>6
<1> HIDE DEF P, Q
<1>5. P = Q
  BY <1>3, <1>4, SameQuestions
<1> QED
  BY <1>5 DEF P, Q

-----------------------------------------------------------------------------
(* Then the invariant.  An owner's workers are of the kinds that its       *)
(* command polls; the copy of each item that an answer shows has been      *)
(* current since the request came; and when a request that nothing         *)
(* overlaps is answered, no worker is under way, its copies are current.   *)

KindInv ==
  \A o \in Owners, k \in Kinds, c \in Channels : <<o, k, c>> \in Under =>
    IF o = "boot" THEN k = "net"
    ELSE IF Command(o, "deviceinfo") THEN k \in {"info", "net"}
    ELSE k = "version"

\* An owner starts a worker of a kind on a channel once only.
OnceInv ==
  /\ spawned \cap asking = {}
  /\ \A r \in Requests, k \in Kinds, c \in Channels :
       <<r, k, c>> \in Under =>
         /\ stage[r] \notin {"absent", "register", "again", "decide", "chosen"}
         /\ stage[r] = "named" => k = "info"

RestInv(r) ==
  lone[r] /\ stage[r] = "respond" =>
    Under = {} /\ \A i \in Wants(r) : Copied(i) = Current(i)

AnswerInv(r) ==
  /\ stage[r] = "respond" => Wants(r) \subseteq fresh[r]
  /\ Place(r) # "answered" => response[r] = <<>>

ServedInv ==
  /\ IInv
  /\ KindInv /\ OnceInv
  /\ response = [r \in Requests |-> response[r]]
  /\ \A r \in Requests : RestInv(r) /\ AnswerInv(r)

LEMMA InitServedInv == ServedInit => ServedInv
<1> SUFFICES ASSUME ServedInit PROVE ServedInv
  OBVIOUS
<1>1. KindInv
  BY DEF ServedInit, Init, KindInv, Under, Poll
<1>2. \A r \in Requests : stage[r] = "absent"
  BY DEF ServedInit, Init
<1>3. OnceInv
  BY SubdeviceAssumption DEF ServedInit, Init, OnceInv, Under, Poll
<1>4. response = [r \in Requests |-> <<>>]
  BY DEF ServedInit
<1> QED
  BY InitIInv, <1>1, <1>2, <1>3, <1>4
     DEF ServedInit, ServedInv, RestInv, AnswerInv

\* What an item is.
LEMMA ItemIs ==
  \A i \in Items :
    /\ i[1] \in Channels
    /\ \/ i[2] = "name" /\ Current(i) = wsub[i[1]].name
                        /\ Copied(i) = sub[i[1]].name
       \/ i[2] = "net" /\ Current(i) = wsub[i[1]].net
                       /\ Copied(i) = sub[i[1]].net
       \/ i[2] = "version" /\ Current(i) = wfw[i[1]].version
                           /\ Copied(i) = fw[i[1]]
BY DEF Items, Current, Copied

LEMMA WantsItems == \A r \in Requests : Wants(r) \in SUBSET Items
BY DEF Wants, Items

LEMMA ItemStays ==
  ASSUME \A c \in Channels : /\ wsub'[c].name = wsub[c].name
                             /\ wsub'[c].net = wsub[c].net
                             /\ wfw'[c].version = wfw[c].version
  PROVE  \A i \in Items : Current(i)' = Current(i)
BY ItemIs DEF Items, Current

LEMMA MarksOnly ==
  ASSUME NEW w \in Rec, NEW a \in BOOLEAN, NEW b \in BOOLEAN
  PROVE  /\ [w EXCEPT !.infoChecked = a, !.netChecked = b].name = w.name
         /\ [w EXCEPT !.infoChecked = a, !.netChecked = b].net = w.net
BY DEF Rec

\* A copy is overwritten with what is current only, by whichever thread ...
LEMMA Overwrites ==
  ASSUME TypeOK, Next
  PROVE  /\ sub' = sub \/ sub' = Published(wsub')
         /\ fw' = fw \/ fw' = [c \in Channels |-> wfw'[c].version]
         /\ \A r \in Requests : stage'[r] = "respond" =>
              stage[r] = "respond" \/ CopyInfos(r)
<1>1. ASSUME NEW r \in Requests, Arrive(r) \/ Request(r) \/ Sender(r)
      PROVE  /\ sub' = sub \/ sub' = Published(wsub')
             /\ fw' = fw \/ fw' = [c \in Channels |-> wfw'[c].version]
             /\ \A q \in Requests : stage'[q] = "respond" =>
                  stage[q] = "respond" \/ CopyInfos(q)
  <2>1. CASE Arrive(r) \/ RegisterFails(r)
    BY <2>1 DEF Arrive, RegisterFails, Goto, TypeOK
  <2>2. CASE Register(r)
    BY <2>2 DEF Register, Goto, TypeOK
  <2>3. CASE DecideDeviceinfo(r) \/ DecideFirmware(r)
    BY <2>3 DEF DecideDeviceinfo, DecideFirmware, Goto, TypeOK
  <2>4. CASE PollNames(r) \/ PollInterfaces(r) \/ PollVersions(r)
    BY <2>4 DEF PollNames, PollInterfaces, PollVersions, Goto, TypeOK
  <2>5. CASE Unpack(r) \/ Scan(r)
    BY <2>5 DEF Unpack, Scan, Goto, TypeOK
  <2>6. CASE CopyInfos(r)
    <3>1. /\ sub' = sub \/ sub' = Published(wsub')
          /\ fw' = fw \/ fw' = [c \in Channels |-> wfw'[c].version]
      BY <2>6 DEF CopyInfos
    <3>2. \A q \in Requests \ {r} : stage'[q] = stage[q]
      BY <2>6 DEF CopyInfos, Goto, TypeOK
    <3> QED
      BY <2>6, <3>1, <3>2
  <2>7. CASE Respond(r) \/ ResetChecks(r)
    BY <2>7 DEF Respond, ResetChecks, Goto, TypeOK
  <2> QED
    BY <1>1, <2>1, <2>2, <2>3, <2>4, <2>5, <2>6, <2>7 DEF Request, Sender
<1>2. ASSUME NEW o \in Owners, NEW c \in Channels, Worker(o, c)
      PROVE  UNCHANGED <<sub, fw, stage>>
  BY <1>2 DEF Worker, InfoStart, InfoFinish, NetStart, NetFinish,
     VersionStart, VersionFinish, WorkerBegins, WorkerEnds
<1>3. CASE Second
  BY <1>3 DEF Second
<1> QED
  BY <1>1, <1>2, <1>3 DEF Next

LEMMA CopyStep ==
  ASSUME TypeOK, Next, NEW i \in Items
  PROVE  Copied(i)' \in {Copied(i), Current(i)'}
<1>1. /\ sub' = sub \/ sub' = Published(wsub')
      /\ fw' = fw \/ fw' = [c \in Channels |-> wfw'[c].version]
  BY Overwrites
<1>2. \A c \in Channels :
        /\ sub' = Published(wsub') =>
             sub'[c].name = wsub'[c].name /\ sub'[c].net = wsub'[c].net
        /\ fw' = [d \in Channels |-> wfw'[d].version] =>
             fw'[c] = wfw'[c].version
  BY DEF Published
<1>3. i[1] \in Channels /\ i[2] \in {"name", "net", "version"}
  BY DEF Items
<1> QED
  BY <1>1, <1>2, <1>3 DEF Current, Copied

\* ... and the one that goes on to respond has copied all it wants.
LEMMA CopiesAll ==
  ASSUME NEW r \in Requests, CopyInfos(r), NEW i \in Wants(r)
  PROVE  Copied(i)' = Current(i)'
<1>1. i[1] \in Channels
  BY DEF Wants
<1>2. CASE Command(r, "deviceinfo")
  <2>1. i[2] \in {"name", "net"}
    BY <1>2 DEF Wants
  <2>2. sub' = Published(wsub')
    BY <1>2 DEF CopyInfos
  <2> QED
    BY <1>1, <2>1, <2>2 DEF Current, Copied, Published
<1>3. CASE ~Command(r, "deviceinfo")
  <2>1. i[2] = "version"
    BY <1>3 DEF Wants
  <2>2. fw' = [c \in Channels |-> wfw'[c].version]
    BY <1>3 DEF CopyInfos
  <2> QED
    BY <1>1, <2>1, <2>2 DEF Current, Copied
<1> QED
  BY <1>2, <1>3

\* A request stays the message it is, and only another makes it not a lone one.
LEMMA MsgStays ==
  Next => msg' = msg /\ (lone' = lone \/ \E r \in Requests : Arrive(r))
<1>1. ASSUME NEW r \in Requests, Arrive(r) PROVE msg' = msg
  BY <1>1 DEF Arrive
<1>2. ASSUME NEW r \in Requests, Request(r)
      PROVE  msg' = msg /\ lone' = lone
  <2>1. CASE Register(r) \/ RegisterFails(r)
    BY <2>1 DEF Register, RegisterFails
  <2>2. CASE DecideDeviceinfo(r) \/ DecideFirmware(r)
    BY <2>2 DEF DecideDeviceinfo, DecideFirmware
  <2>3. CASE PollNames(r) \/ PollInterfaces(r) \/ PollVersions(r) \/ Unpack(r)
    BY <2>3 DEF PollNames, PollInterfaces, PollVersions, Unpack
  <2> QED
    BY <1>2, <2>1, <2>2, <2>3 DEF Request
<1>3. ASSUME NEW r \in Requests, Sender(r)
      PROVE  msg' = msg /\ lone' = lone
  BY <1>3 DEF Sender, Scan, CopyInfos, Respond, ResetChecks
<1>4. ASSUME NEW o \in Owners, NEW c \in Channels, Worker(o, c)
      PROVE  msg' = msg /\ lone' = lone
  <2>1. \E k : WorkerBegins(o, k, c) \/ WorkerEnds(o, k, c)
    BY <1>4 DEF Worker, InfoStart, InfoFinish, NetStart, NetFinish,
       VersionStart, VersionFinish
  <2> QED
    BY <2>1 DEF WorkerBegins, WorkerEnds
<1>5. CASE Second
  BY <1>5 DEF Second
<1> QED
  BY <1>1, <1>2, <1>3, <1>4, <1>5 DEF Next

\* A poll starts workers of the kinds that its command polls.
LEMMA KindStep ==
  ASSUME IInv, KindInv, Next
  PROVE  KindInv'
<1>0. msg' = msg
  BY MsgStays
<1>1. ASSUME Under' \subseteq Under PROVE KindInv'
  BY <1>0, <1>1 DEF KindInv, Command
<1>2. ASSUME NEW r \in Requests, NEW k,
             Under' \subseteq Under \cup ({r} \X {k} \X Channels),
             IF Command(r, "deviceinfo") THEN k \in {"info", "net"}
                                         ELSE k = "version"
      PROVE  KindInv'
  <2>1. r # "boot"
    BY SubdeviceAssumption
  <2>2. ASSUME NEW o \in Owners, NEW j \in Kinds, NEW c \in Channels,
               <<o, j, c>> \in Under'
        PROVE  <<o, j, c>> \in Under \/ (o = r /\ j = k)
    BY <1>2, <2>2
  <2> QED
    BY <1>0, <1>2, <2>1, <2>2 DEF KindInv, Command
<1>3. ASSUME NEW r \in Requests,
             PollNames(r) \/ PollInterfaces(r) \/ PollVersions(r)
      PROVE  KindInv'
  <2>1. CASE PollNames(r)
    <3>1. Under' \subseteq Under \cup ({r} \X {"info"} \X Channels)
      BY <2>1 DEF PollNames, Under, Poll
    <3> QED
      BY <1>2, <2>1, <3>1 DEF PollNames
  <2>2. CASE PollInterfaces(r)
    <3>1. Under' \subseteq Under \cup ({r} \X {"net"} \X Channels)
      BY <2>2 DEF PollInterfaces, Under, Poll
    <3>2. Command(r, "deviceinfo")
      BY <2>2 DEF PollInterfaces, IInv, SharedInv, Command
    <3> QED
      BY <1>2, <3>1, <3>2
  <2>3. CASE PollVersions(r)
    <3>1. Under' \subseteq Under \cup ({r} \X {"version"} \X Channels)
      BY <2>3 DEF PollVersions, Under, Poll
    <3>2. ~Command(r, "deviceinfo")
      BY <2>3 DEF PollVersions, Command
    <3> QED
      BY <1>2, <3>1, <3>2
  <2> QED
    BY <1>3, <2>1, <2>2, <2>3
<1>4. ASSUME NEW r \in Requests,
             \/ Arrive(r) \/ Register(r) \/ RegisterFails(r)
             \/ DecideDeviceinfo(r) \/ DecideFirmware(r) \/ Unpack(r)
             \/ Sender(r)
      PROVE  KindInv'
  <2>1. UNCHANGED polls
    BY <1>4 DEF Arrive, Register, RegisterFails, DecideDeviceinfo,
       DecideFirmware, Unpack, Sender, Scan, CopyInfos, Respond, ResetChecks
  <2> QED
    BY <1>1, <2>1 DEF Under, polls
<1>5. ASSUME NEW o \in Owners, NEW c \in Channels, Worker(o, c)
      PROVE  KindInv'
  <2>1. \E k \in Kinds : WorkerBegins(o, k, c) \/ WorkerEnds(o, k, c)
    BY <1>5 DEF Worker, InfoStart, InfoFinish, NetStart, NetFinish,
       VersionStart, VersionFinish, Kinds
  <2> QED
    BY <1>1, <2>1 DEF Under, WorkerBegins, WorkerEnds
<1>6. CASE Second
  BY <1>1, <1>6 DEF Second, Under
<1> QED
  BY <1>3, <1>4, <1>5, <1>6 DEF Next, Request

\* The places of a request lead away from its polls.
LEMMA OnceStep ==
  ASSUME IInv, OnceInv, Next
  PROVE  OnceInv'
<1> DEFINE Before == {"absent", "register", "again", "decide", "chosen"}
<1>0. TypeOK
  BY DEF IInv
<1>1. ASSUME UNCHANGED <<spawned, asking>>,
             \A q \in Requests :
               \/ stage'[q] = stage[q]
               \/ stage[q] \in Before
               \/ stage[q] # "named" /\ stage'[q] \notin Before \cup {"named"}
      PROVE  OnceInv'
  BY <1>1 DEF OnceInv, Under
<1>2. ASSUME NEW r \in Requests,
             \/ Arrive(r) \/ Register(r) \/ RegisterFails(r)
             \/ DecideDeviceinfo(r) \/ DecideFirmware(r) \/ Unpack(r)
             \/ Sender(r)
      PROVE  OnceInv'
  <2>1. ASSUME NEW s, Goto(r, s), UNCHANGED polls,
               \/ stage[r] \in Before
               \/ stage[r] # "named" /\ s \notin Before \cup {"named"}
        PROVE  OnceInv'
    <3>1. stage'[r] = s /\ \A q \in Requests \ {r} : stage'[q] = stage[q]
      BY <1>0, <2>1 DEF Goto, TypeOK
    <3> QED
      BY <1>1, <2>1, <3>1 DEF polls
  <2> HIDE DEF Before
  <2>2. CASE Arrive(r) \/ Register(r) \/ RegisterFails(r)
    BY <2>1, <2>2 DEF Arrive, Register, RegisterFails, Before
  <2>3. CASE DecideDeviceinfo(r)
    BY <2>1, <2>3 DEF DecideDeviceinfo, Before
  <2>4. CASE DecideFirmware(r)
    BY <2>1, <2>4 DEF DecideFirmware, Before
  <2>5. CASE Unpack(r) \/ Sender(r)
    <3>1. CASE Unpack(r)
      BY <2>1, <3>1 DEF Unpack, Before
    <3>2. CASE Scan(r) \/ CopyInfos(r) \/ Respond(r) \/ ResetChecks(r)
      BY <2>1, <3>2 DEF Scan, CopyInfos, Respond, ResetChecks, Before
    <3> QED
      BY <2>5, <3>1, <3>2 DEF Sender
  <2> QED
    BY <1>2, <2>2, <2>3, <2>4, <2>5
<1>3. ASSUME NEW r \in Requests, NEW k \in Kinds, NEW C \in SUBSET Channels,
             NEW s \in {"named", "settle"}, Goto(r, s),
             spawned' = spawned \cup ({r} \X {k} \X C), asking' = asking,
             stage[r] \in {"chosen", "named"},
             s = "named" => stage[r] = "chosen" /\ k = "info",
             stage[r] = "named" => k = "net"
      PROVE  OnceInv'
  <2>1. stage'[r] = s /\ \A q \in Requests \ {r} : stage'[q] = stage[q]
    BY <1>0, <1>3 DEF Goto, TypeOK
  <2>2. spawned' \cap asking' = {}
    <3>1. \A c \in C : <<r, k, c>> \notin asking
      BY <1>3 DEF OnceInv, Under
    <3> QED
      BY <1>3, <3>1 DEF OnceInv
  <2>3. ASSUME NEW q \in Requests, NEW j \in Kinds, NEW c \in Channels,
               <<q, j, c>> \in Under'
        PROVE  <<q, j, c>> \in Under \/ (q = r /\ j = k)
    BY <1>3, <2>3 DEF Under
  <2>4. ASSUME NEW q \in Requests, NEW j \in Kinds, NEW c \in Channels,
               <<q, j, c>> \in Under'
        PROVE  stage'[q] \notin Before /\ (stage'[q] = "named" => j = "info")
    <3>1. CASE q = r
      <4>1. <<r, j, c>> \in Under => stage[r] \notin Before
        BY DEF OnceInv
      <4> QED
        BY <1>3, <2>1, <2>3, <2>4, <3>1, <4>1
    <3>2. CASE q # r
      BY <2>1, <2>3, <2>4, <3>2 DEF OnceInv
    <3> QED
      BY <3>1, <3>2
  <2> QED
    BY <2>2, <2>4 DEF OnceInv
<1>4. ASSUME NEW r \in Requests,
             PollNames(r) \/ PollInterfaces(r) \/ PollVersions(r)
      PROVE  OnceInv'
  <2>1. CASE PollNames(r)
    BY <1>3, <2>1 DEF PollNames, Poll, Kinds
  <2>2. CASE PollInterfaces(r)
    BY <1>3, <2>2 DEF PollInterfaces, Poll, Kinds
  <2>3. CASE PollVersions(r)
    BY <1>3, <2>3 DEF PollVersions, Poll, Kinds
  <2> QED
    BY <1>4, <2>1, <2>2, <2>3
<1>5. ASSUME NEW o \in Owners, NEW c \in Channels, Worker(o, c)
      PROVE  OnceInv'
  <2>1. PICK k \in Kinds : WorkerBegins(o, k, c) \/ WorkerEnds(o, k, c)
    BY <1>5 DEF Worker, InfoStart, InfoFinish, NetStart, NetFinish,
       VersionStart, VersionFinish, Kinds
  <2> QED
    BY <2>1 DEF OnceInv, Under, WorkerBegins, WorkerEnds
<1>6. CASE Second
  BY <1>1, <1>6 DEF Second
<1> QED
  BY <1>2, <1>4, <1>5, <1>6 DEF Next, Request

\* A step of a request is one of a busy one, and one of a worker takes it
\* from those under way.
LEMMA WhoSteps ==
  /\ \A r \in Requests : Request(r) \/ Sender(r) => Busy(r)
  /\ \A o \in Owners, c \in Channels : Worker(o, c) => Under # {}
<1>1. ASSUME NEW r \in Requests, Request(r) \/ Sender(r) PROVE Busy(r)
  BY <1>1 DEF Request, Sender, Register, RegisterFails, DecideDeviceinfo,
     DecideFirmware, PollNames, PollInterfaces, PollVersions, Unpack, Scan,
     CopyInfos, Respond, ResetChecks, Busy, Finished
<1>2. ASSUME NEW o \in Owners, NEW c \in Channels, Worker(o, c)
      PROVE  Under # {}
  BY <1>2 DEF Worker, InfoStart, InfoFinish, NetStart, NetFinish,
     VersionStart, VersionFinish, WorkerBegins, WorkerEnds, Under
<1> QED
  BY <1>1, <1>2

\* A lone request that has copied finds nobody who would ask again.
LEMMA RestStep ==
  ASSUME IInv, Next, NEW r \in Requests, RestInv(r)
  PROVE  RestInv(r)'
<1> SUFFICES ASSUME lone'[r], stage'[r] = "respond"
             PROVE  /\ Under' = {}
                    /\ \A i \in Wants(r)' : Copied(i)' = Current(i)'
  BY DEF RestInv
<1>0. TypeOK
  BY DEF IInv
<1>1. CASE CopyInfos(r)
  <2>1. /\ stage[r] = "copy" /\ lone[r] /\ Wants(r)' = Wants(r)
        /\ Under' = Under
    BY <1>1 DEF CopyInfos, Wants, Command, Under, polls
  <2>2. Alone(r) /\ PollInv(r) /\ TimeInv(r) /\ SenderInv(r)
    BY <2>1 DEF IInv, LoneInv, Busy, Finished, BusyInv
  <2>3. ASSUME NEW w \in Under PROVE FALSE
    <3>1. w \in Workers
      BY <1>0, <2>3 DEF Under, TypeOK
    <3>2. PICK o \in Owners, k \in Kinds, c \in Channels : w = <<o, k, c>>
      BY <3>1 DEF Workers
    <3>3. w \notin asking
      BY <2>1, <2>2, <3>2, Idle
    <3>4. o = r
      BY <2>2, <2>3, <3>2 DEF Alone
    <3> QED
      BY <2>1, <2>2, <2>3, <3>2, <3>3, <3>4 DEF TimeInv, Under
  <2>4. \A i \in Wants(r) : Copied(i)' = Current(i)'
    BY <1>1, CopiesAll
  <2> QED
    BY <2>1, <2>3, <2>4
<1>2. CASE ~CopyInfos(r)
  <2>1. stage[r] = "respond" /\ Busy(r)
    BY <1>0, <1>2, Overwrites DEF Busy, Finished
  <2>2. ASSUME NEW q \in Requests, Arrive(q) PROVE FALSE
    <3>1. q # r
      BY <2>1, <2>2 DEF Arrive
    <3> QED
      BY <2>1, <2>2, <3>1 DEF Arrive
  <2>3. lone[r]
    BY <2>2, MsgStays
  <2>4. Under = {} /\ \A i \in Wants(r) : Copied(i) = Current(i)
    BY <2>1, <2>3 DEF RestInv
  <2>5. ASSUME NEW q \in Requests, Request(q) \/ Sender(q) PROVE FALSE
    <3>1. Alone(r)
      BY <2>1, <2>3 DEF IInv, LoneInv, BusyInv
    <3>2. q = r
      BY <2>5, <3>1, WhoSteps DEF Alone
    <3>3. Respond(r)
      BY <2>1, <2>5, <3>2 DEF Request, Sender, Register, RegisterFails,
         DecideDeviceinfo, DecideFirmware, PollNames, PollInterfaces,
         PollVersions, Unpack, Scan, CopyInfos, ResetChecks
    <3> QED
      BY <1>0, <3>3 DEF Respond, Goto, TypeOK
  <2>6. Second
    BY <2>2, <2>4, <2>5, WhoSteps DEF Next
  <2>7. UNCHANGED <<msg, wsub, sub, wfw, fw, spawned, asking>>
    BY <2>6 DEF Second
  <2>8. Under' = Under /\ Wants(r)' = Wants(r)
    BY <2>7 DEF Under, Wants, Command
  <2>9. \A i \in Wants(r) : Copied(i)' = Copied(i) /\ Current(i)' = Current(i)
    BY <2>7 DEF Copied, Current
  <2> QED
    BY <2>4, <2>8, <2>9
<1> QED
  BY <1>1, <1>2

LEMMA KeepsServedInv == ServedInv /\ [Next /\ Watch]_servedVars => ServedInv'
<1> SUFFICES ASSUME ServedInv, [Next /\ Watch]_servedVars PROVE ServedInv'
  OBVIOUS
<1>0. TypeOK
  BY DEF ServedInv, IInv
<1>1. CASE Next /\ Watch
  <2>1. IInv' /\ KindInv' /\ OnceInv' /\ \A r \in Requests : RestInv(r)'
    BY <1>1, Keeps, KindStep, OnceStep, RestStep DEF ServedInv
  <2>2. ASSUME NEW r \in Requests, stage'[r] = "respond"
        PROVE  Wants(r)' \subseteq fresh'[r]
    <3>1. Place(r)' = "open"
      BY <2>2 DEF Place, Finished
    <3>2. fresh'[r] = {i \in Wants(r) :
            /\ Place(r)' = "open"
            /\ \/ Copied(i)' = Current(i)'
               \/ i \in fresh[r] /\ Copied(i)' = Copied(i)}
      BY <1>1 DEF Watch
    <3>3. Wants(r)' = Wants(r)
      BY <1>1, MsgStays DEF Wants, Command
    <3>4. CASE stage[r] = "respond"
      <4>1. Wants(r) \subseteq fresh[r]
        BY <3>4 DEF ServedInv, AnswerInv
      <4>2. \A i \in Wants(r) : Copied(i)' \in {Copied(i), Current(i)'}
        BY <1>0, <1>1, CopyStep, WantsItems
      <4> QED
        BY <3>1, <3>2, <3>3, <4>1, <4>2
    <3>5. CASE CopyInfos(r)
      BY <3>1, <3>2, <3>3, <3>5, CopiesAll
    <3> QED
      BY <1>0, <1>1, <2>2, <3>4, <3>5, Overwrites
  <2>3. /\ response' = [r \in Requests |-> response'[r]]
        /\ \A r \in Requests : Place(r)' # "answered" => response'[r] = <<>>
    <3> DEFINE given(r) == IF Place(r)' # "answered" THEN <<>>
                       ELSE IF stage[r] = "respond"
                            THEN [i \in Known \cap Wants(r) |-> Copied(i)]
                            ELSE response[r]
    <3>1. response' = [r \in Requests |-> given(r)]
      BY <1>1 DEF Watch
    <3>2. \A r \in Requests : Place(r)' # "answered" => given(r) = <<>>
      OBVIOUS
    <3> HIDE DEF given
    <3> QED
      BY <3>1, <3>2
  <2> QED
    BY <2>1, <2>2, <2>3 DEF ServedInv, AnswerInv
<1>2. CASE UNCHANGED servedVars
  <2>1. IInv'
    BY <1>2, Keeps DEF servedVars, ServedInv
  <2>2. UNCHANGED <<msg, wsub, sub, wfw, fw, spawned, asking, stage, lone,
                    fresh, response>>
    BY <1>2 DEF servedVars, vars, polls
  <2>3. KindInv'
    BY <2>2 DEF ServedInv, KindInv, Under, Command
  <2>4. OnceInv'
    BY <2>2 DEF ServedInv, OnceInv, Under
  <2>5. ASSUME NEW r \in Requests PROVE RestInv(r)' /\ AnswerInv(r)'
    <3>1. Under' = Under /\ Wants(r)' = Wants(r) /\ Place(r)' = Place(r)
      BY <2>2 DEF Under, Wants, Command, Place
    <3>2. \A i \in Wants(r) :
            Copied(i)' = Copied(i) /\ Current(i)' = Current(i)
      BY <2>2 DEF Copied, Current
    <3>3. RestInv(r) /\ AnswerInv(r)
      BY DEF ServedInv
    <3> QED
      BY <2>2, <3>1, <3>2, <3>3 DEF RestInv, AnswerInv
  <2> QED
    BY <2>1, <2>2, <2>3, <2>4, <2>5 DEF ServedInv
<1> QED
  BY <1>1, <1>2

LEMMA PlaceStep ==
  ASSUME TypeOK, NEW r \in Requests, NEW s \in Stages \cup Finished, Goto(r, s)
  PROVE  /\ \A q \in Requests \ {r} : Place(q)' = Place(q)
         /\ stage'[r] = s
BY GotoOnly DEF Place

LEMMA BusyPlace ==
  \A r \in Requests : Busy(r) <=> ~(Place(r) \in {"absent", "over"})
BY DEF Busy, Place, Finished

LEMMA KnownStays ==
  ASSUME \A c \in Channels : sub'[c].status = sub[c].status
  PROVE  Known' = Known
BY DEF Known, Items

LEMMA QuestionsStay ==
  ASSUME Under' = Under
  PROVE  Questions' = Questions
BY DEF Questions, Under

\* Nobody is answered, or ends, but whom the step is of.
LEMMA ResponseStays ==
  ASSUME ServedInv, Watch, NEW q \in Requests,
         (Place(q)' = "answered") <=> (Place(q) = "answered")
  PROVE  response'[q] = response[q]
<1> DEFINE given(r) == IF Place(r)' # "answered" THEN <<>>
                       ELSE IF stage[r] = "respond"
                            THEN [i \in Known \cap Wants(r) |-> Copied(i)]
                            ELSE response[r]
<1>1. response' = [r \in Requests |-> given(r)]
  BY DEF Watch
<1>2. Place(q)' # "answered" => response[q] = <<>>
  BY DEF ServedInv, AnswerInv
<1>3. Place(q) = "answered" => stage[q] # "respond"
  BY DEF Place, Finished
<1>4. given(q) = response[q]
  BY <1>2, <1>3
<1> HIDE DEF given
<1> QED
  BY <1>1, <1>4

LEMMA ResponseRest ==
  ASSUME ServedInv, Watch,
         \A q \in Requests :
           (Place(q)' = "answered") <=> (Place(q) = "answered")
  PROVE  response' = response
<1>1. response' = [r \in Requests |-> response'[r]]
  BY DEF Watch
<1>2. response = [r \in Requests |-> response[r]]
  BY DEF ServedInv
<1>3. \A r \in Requests : response'[r] = response[r]
  BY ResponseStays
<1> HIDE DEF ServedInv
<1> QED
  BY <1>1, <1>2, <1>3

\* A step after which the places are the same, but one may be over.
LEMMA HiddenStep ==
  ASSUME ServedInv, Watch, NEW r \in Requests, Place(r) = "open",
         Place(r)' \in {"open", "over"},
         \A q \in Requests \ {r} : Place(q)' = Place(q),
         msg' = msg, lone' = lone, Under' = Under,
         \A c \in Channels : sub'[c].status = sub[c].status,
         \A i \in Items : Current(i)' = Current(i)
  PROVE  Service!Still \/ Service!Refuse(r)
<1>1. /\ response' = response
      /\ Known' = Known /\ Questions' = Questions
      /\ \A q \in Requests : Wants(q)' = Wants(q)
  BY ResponseRest, KnownStays, QuestionsStay DEF Wants, Command
<1>2. CASE Place(r)' = "open"
  BY <1>1, <1>2 DEF Service!Still
<1>3. CASE Place(r)' = "over"
  BY <1>1, <1>3 DEF Service!Refuse
<1> QED
  BY <1>2, <1>3

LEMMA ArriveMaps ==
  ASSUME ServedInv, Watch, NEW r \in Requests, Arrive(r)
  PROVE  Service!Come(r)
<1>0. TypeOK
  BY DEF ServedInv, IInv
<1>1. /\ stage[r] = "absent" /\ Goto(r, "register")
      /\ UNCHANGED <<msg, wsub, sub, wfw, fw, spawned, asking>>
  BY DEF Arrive, polls
<1>2. /\ Place(r) = "absent" /\ Place(r)' = "open"
      /\ \A q \in Requests \ {r} : Place(q)' = Place(q)
  BY <1>0, <1>1, PlaceStep DEF Place, Stages, Finished
<1>3. Questions = {} <=> Quiet
  <2>1. CASE Quiet
    BY <2>1 DEF Quiet, Questions, QuestionsOf
  <2>2. CASE ~Quiet
    <3>1. PICK w \in Under : TRUE
      BY <2>2 DEF Quiet, Under
    <3>2. Under \in SUBSET Workers
      BY <1>0 DEF TypeOK, Under
    <3>3. PICK o \in Owners, k \in Kinds, c \in Channels : w = <<o, k, c>>
      BY <3>1, <3>2 DEF Workers
    <3>4. PICK e : e \in Results[k]
      BY DEF Kinds, Results
    <3>5. <<o, <<c, e>>>> \in QuestionsOf(Under)
      BY <3>1, <3>2, <3>3, <3>4, QuestionIn
    <3> QED
      BY <2>2, <3>5 DEF Questions, Under
  <2> QED
    BY <2>1, <2>2
<1>4. lone' = [q \in Requests |->
                 IF q = r
                 THEN /\ Questions = {}
                      /\ \A p \in Requests : Place(p) \in {"absent", "over"}
                 ELSE lone[q] /\ Place(q) \in {"absent", "over"}]
  <2>1. lone' = [q \in Requests |->
                  IF q = r THEN Quiet /\ \A p \in Requests : ~Busy(p)
                           ELSE lone[q] /\ ~Busy(q)]
    BY DEF Arrive
  <2> QED
    BY <1>3, <2>1, BusyPlace
<1>5. /\ response' = response
      /\ Known' = Known /\ Questions' = Questions
      /\ \A q \in Requests : Wants(q)' = Wants(q)
  BY <1>1, <1>2, ResponseRest, KnownStays, QuestionsStay
     DEF Wants, Command, Under
<1>6. \A i \in Items : Current(i)' = Current(i)
  BY <1>1 DEF Current
<1> QED
  BY <1>2, <1>4, <1>5, <1>6 DEF Service!Come, Service!Idle

\* The registration that is read resets what is not registered any more.
LEMMA RegisterMaps ==
  ASSUME ServedInv, Watch, NEW r \in Requests, Register(r)
  PROVE  Service!Refresh(r)
<1>0. TypeOK
  BY DEF ServedInv, IInv
<1> DEFINE place == [q \in Requests |-> Place(q)]
<1>1. /\ stage[r] \in {"register", "again"}
      /\ \E s \in {"elsewhere", "decide"} : Goto(r, s)
      /\ UNCHANGED <<msg, wfw, fw, spawned, asking, lone>>
      /\ sub' = Published(wsub')
  BY DEF Register, polls
<1>2. /\ Place(r) = "open" /\ Place(r)' \in {"open", "over"}
      /\ \A q \in Requests \ {r} : Place(q)' = Place(q)
  BY <1>0, <1>1, PlaceStep DEF Place, Stages, Finished
<1>3. place' \in {place, [place EXCEPT ![r] = "over"]}
  BY <1>2
<1>4. PICK named \in SUBSET Channels : \E status \in [named -> Statuses] :
        wsub' = [c \in Channels |->
                   IF c \notin named THEN wsub[c]
                   ELSE IF status[c] = 0 THEN Blank
                   ELSE [wsub[c] EXCEPT !.status = status[c]]]
  BY DEF Register
<1>5. ASSUME NEW c \in Channels
      PROVE  \/ wsub'[c].name = wsub[c].name /\ wsub'[c].net = wsub[c].net
             \/ /\ wsub'[c].name = Unknown /\ wsub'[c].net = Unknown
                /\ sub'[c].status = 0
  <2>1. PICK status \in [named -> Statuses] :
          wsub' = [d \in Channels |->
                     IF d \notin named THEN wsub[d]
                     ELSE IF status[d] = 0 THEN Blank
                     ELSE [wsub[d] EXCEPT !.status = status[d]]]
    BY <1>4
  <2>2. wsub'[c] = Blank => sub'[c].status = 0
    BY <1>1 DEF Published, Blank
  <2>3. CASE wsub'[c] = Blank
    BY <2>2, <2>3 DEF Blank
  <2>4. CASE wsub'[c] # Blank
    <3>1. wsub[c] \in Rec
      BY <1>0 DEF TypeOK, Rec
    <3>2. \/ wsub'[c] = wsub[c]
          \/ wsub'[c] = [wsub[c] EXCEPT !.status = status[c]]
      BY <2>1, <2>4
    <3> QED
      BY <3>1, <3>2 DEF Rec
  <2> QED
    BY <2>3, <2>4
<1>6. ASSUME NEW i \in Items
      PROVE  \/ Current(i)' = Current(i)
             \/ Current(i)' = Service!Unknown /\ i \notin Known'
  <2>1. i[1] \in Channels /\ i[2] \in {"name", "net", "version"}
    BY DEF Items
  <2>2. sub'[i[1]].status = 0 => i \notin Known'
    BY DEF Known
  <2> QED
    BY <1>1, <1>5, <2>1, <2>2 DEF Current, Service!Unknown, Unknown
<1>7. /\ response' = response /\ Questions' = Questions
      /\ \A q \in Requests : Wants(q)' = Wants(q)
      /\ Known' \subseteq Items
  BY <1>1, <1>2, ResponseRest, QuestionsStay DEF Wants, Command, Under, Known
<1> QED
  BY <1>1, <1>2, <1>3, <1>6, <1>7 DEF Service!Refresh

\* The steps that ViewService does not see but for a copy, or as a refusal.
LEMMA HiddenMaps ==
  ASSUME ServedInv, Watch, NEW r \in Requests,
         \/ RegisterFails(r) \/ DecideDeviceinfo(r) \/ DecideFirmware(r)
         \/ Unpack(r) \/ Scan(r) \/ CopyInfos(r)
  PROVE  Service!Still \/ Service!Refuse(r)
<1>0. TypeOK /\ SharedInv
  BY DEF ServedInv, IInv
<1>1. /\ UNCHANGED <<msg, spawned, asking, lone>>
      /\ stage[r] \in {"register", "again", "decide", "unpack", "settle",
                       "scan", "copy"}
      /\ \E s \in {"again", "errorSent", "dropped", "chosen", "unpack",
                   "scan", "copy", "respond"} : Goto(r, s)
  BY DEF RegisterFails, DecideDeviceinfo, DecideFirmware, Unpack, Scan,
     CopyInfos, polls
<1>2. /\ Place(r) = "open" /\ Place(r)' \in {"open", "over"}
      /\ \A q \in Requests \ {r} : Place(q)' = Place(q)
  BY <1>0, <1>1, PlaceStep DEF Place, Stages, Finished
<1>3. ASSUME NEW c \in Channels
      PROVE  /\ wsub'[c].name = wsub[c].name /\ wsub'[c].net = wsub[c].net
             /\ wfw'[c].version = wfw[c].version
             /\ sub'[c].status = sub[c].status
  <2>1. wsub[c] \in Rec /\ wfw[c] \in [version : Findings, checked : BOOLEAN]
    BY <1>0 DEF TypeOK, Rec
  <2>2. sub[c].status = wsub[c].status
    BY <1>0 DEF SharedInv
  <2>3. CASE CopyInfos(r)
    <3>1. wsub' = wsub /\ wfw' = wfw /\ (sub' = sub \/ sub' = Published(wsub))
      BY <2>3 DEF CopyInfos
    <3> QED
      BY <2>2, <3>1 DEF Published
  <2>4. CASE DecideDeviceinfo(r)
    <3>1. /\ wfw' = wfw /\ sub' = sub
          /\ \/ wsub' = wsub
             \/ wsub' = [d \in Channels |-> [wsub[d] EXCEPT
                          !.infoChecked = TRUE, !.netChecked = TRUE]]
      BY <2>4 DEF DecideDeviceinfo
    <3>2. wsub'[c].name = wsub[c].name /\ wsub'[c].net = wsub[c].net
      BY <2>1, <3>1, MarksOnly
    <3> QED
      BY <3>1, <3>2
  <2>5. CASE DecideFirmware(r)
    <3>1. /\ wsub' = wsub /\ sub' = sub
          /\ \/ wfw' = wfw
             \/ wfw' = [d \in Channels |-> [wfw[d] EXCEPT !.checked = TRUE]]
      BY <2>5 DEF DecideFirmware
    <3> QED
      BY <2>1, <3>1
  <2>6. CASE RegisterFails(r) \/ Unpack(r) \/ Scan(r)
    BY <2>6 DEF RegisterFails, Unpack, Scan
  <2> QED
    BY <2>3, <2>4, <2>5, <2>6
<1>4. \A i \in Items : Current(i)' = Current(i)
  BY <1>3, ItemStays
<1>5. Under' = Under
  BY <1>1 DEF Under
<1> QED
  BY <1>1, <1>2, <1>3, <1>4, <1>5, HiddenStep

\* A poll of some kind of registered channels.
LEMMA PollMaps ==
  ASSUME ServedInv, Watch, NEW r \in Requests,
         PollNames(r) \/ PollInterfaces(r) \/ PollVersions(r)
  PROVE  Service!Poll(r)
<1>0. TypeOK /\ SharedInv
  BY DEF ServedInv, IInv
<1>1. /\ UNCHANGED <<msg, wsub, sub, wfw, fw, asking, lone>>
      /\ stage[r] \in {"chosen", "named"}
      /\ \E s \in {"named", "settle"} : Goto(r, s)
  BY DEF PollNames, PollInterfaces, PollVersions
<1>2. PICK k \in Kinds, statuses \in {{1}, {1, 2}} :
        spawned' = spawned \cup Poll(r, k, statuses)
  BY DEF PollNames, PollInterfaces, PollVersions, Kinds
<1> DEFINE C == {c \in Channels : wsub[c].status \in statuses}
<1>3. /\ Place(r) = "open"
      /\ \A q \in Requests : Place(q)' = Place(q)
  BY <1>0, <1>1, PlaceStep DEF Place, Stages, Finished
<1>4. Questions' = Questions \cup ({r} \X (C \X Results[k]))
  <2>1. Under' = Under \cup ({r} \X {k} \X C)
    BY <1>1, <1>2 DEF Under, Poll
  <2>2. Under \in SUBSET Workers
    BY <1>0 DEF Under, TypeOK
  <2>3. r \in Owners /\ C \in SUBSET Channels
    BY DEF Owners
  <2>4. QuestionsOf(Under') =
          QuestionsOf(Under) \cup ({r} \X (C \X Results[k]))
    <3> HIDE DEF C
    <3> QED
      BY <2>1, <2>2, <2>3, PollAdds
  <2> QED
    BY <2>4 DEF Questions, Under
<1>5. C \X Results[k] \in SUBSET Known
  <2> SUFFICES ASSUME NEW c \in C, NEW e \in Results[k]
               PROVE  <<c, e>> \in Known
    OBVIOUS
  <2>1. c \in Channels /\ sub[c].status # 0
    BY <1>0 DEF SharedInv
  <2>2. e \in {"name", "net", "version"}
    BY DEF Results, Kinds
  <2> QED
    BY <2>1, <2>2 DEF Known, Items
<1>6. /\ response' = response /\ Known' = Known
      /\ \A q \in Requests : Wants(q)' = Wants(q)
  BY <1>1, <1>3, ResponseRest, KnownStays DEF Wants, Command
<1>7. \A i \in Items : Current(i)' = Current(i)
  BY <1>1 DEF Current
<1> QED
  BY <1>1, <1>3, <1>4, <1>5, <1>6, <1>7 DEF Service!Poll

LEMMA RespondMaps ==
  ASSUME ServedInv, Watch, NEW r \in Requests, Respond(r)
  PROVE  Service!Answer(r)
<1>0. TypeOK
  BY DEF ServedInv, IInv
<1> DEFINE shown == [i \in Known \cap Wants(r) |-> Copied(i)]
<1>1. /\ stage[r] = "respond" /\ Goto(r, "reset")
      /\ UNCHANGED <<msg, wsub, sub, wfw, fw, spawned, asking, lone>>
  BY DEF Respond, polls
<1>2. /\ Place(r) = "open" /\ Place(r)' = "answered"
      /\ \A q \in Requests \ {r} : Place(q)' = Place(q)
  BY <1>0, <1>1, PlaceStep DEF Place, Stages, Finished
<1>3. Wants(r) \subseteq fresh[r] /\ Wants(r) \subseteq Items
  BY <1>1, WantsItems DEF ServedInv, AnswerInv
<1>4. lone[r] => Questions = {} /\ \A i \in Wants(r) : Copied(i) = Current(i)
  <2>1. lone[r] => Under = {} /\ \A i \in Wants(r) : Copied(i) = Current(i)
    BY <1>1 DEF ServedInv, RestInv
  <2>2. Under = {} => Questions = {}
    BY DEF Under, Questions, QuestionsOf
  <2> QED
    BY <2>1, <2>2
<1>5. response' = [response EXCEPT ![r] = shown]
  <2>1. response'[r] = shown
    BY <1>1, <1>2 DEF Watch
  <2>2. \A q \in Requests \ {r} : response'[q] = response[q]
    BY <1>2, ResponseStays
  <2>3. response' = [q \in Requests |-> response'[q]]
    BY DEF Watch
  <2>4. response = [q \in Requests |-> response[q]]
    BY DEF ServedInv
  <2> HIDE DEF shown
  <2> QED
    BY <2>1, <2>2, <2>3, <2>4
<1>6. shown = [i \in Known \cap [q \in Requests |-> Wants(q)][r] |->
                 [j \in Items |-> Copied(j)][i]]
  BY <1>3
<1>7. /\ Known' = Known /\ Questions' = Questions
      /\ \A q \in Requests : Wants(q)' = Wants(q)
  BY <1>1, KnownStays, QuestionsStay DEF Wants, Command, Under
<1>8. \A i \in Items : Current(i)' = Current(i)
  BY <1>1 DEF Current
<1>9. [q \in Requests |-> Place(q)'] =
        [[q \in Requests |-> Place(q)] EXCEPT ![r] = "answered"]
  BY <1>2
<1> HIDE DEF shown
<1> QED
  BY <1>1, <1>2, <1>3, <1>4, <1>5, <1>6, <1>7, <1>8, <1>9
     DEF Service!Answer

LEMMA ResetMaps ==
  ASSUME ServedInv, Watch, NEW r \in Requests, ResetChecks(r)
  PROVE  Service!Close(r)
<1>0. TypeOK
  BY DEF ServedInv, IInv
<1>1. /\ stage[r] = "reset" /\ Goto(r, "done")
      /\ UNCHANGED <<msg, sub, fw, spawned, asking, lone>>
  BY DEF ResetChecks, polls
<1>2. /\ Place(r) = "answered" /\ Place(r)' = "over"
      /\ \A q \in Requests \ {r} : Place(q)' = Place(q)
  BY <1>0, <1>1, PlaceStep DEF Place, Stages, Finished
<1>3. ASSUME NEW c \in Channels
      PROVE  /\ wsub'[c].name = wsub[c].name /\ wsub'[c].net = wsub[c].net
             /\ wfw'[c].version = wfw[c].version
  <2>1. wsub[c] \in Rec /\ wfw[c] \in [version : Findings, checked : BOOLEAN]
    BY <1>0 DEF TypeOK, Rec
  <2>2. /\ \/ wsub' = wsub
           \/ wsub' = [d \in Channels |-> [wsub[d] EXCEPT
                        !.infoChecked = FALSE, !.netChecked = FALSE]]
        /\ \/ wfw' = wfw
           \/ wfw' = [d \in Channels |-> [wfw[d] EXCEPT !.checked = FALSE]]
    BY DEF ResetChecks
  <2>3. wsub'[c].name = wsub[c].name /\ wsub'[c].net = wsub[c].net
    BY <2>1, <2>2, MarksOnly
  <2>4. wfw'[c].version = wfw[c].version
    <3>1. [wfw[c] EXCEPT !.checked = FALSE].version = wfw[c].version
      BY <2>1
    <3> QED
      BY <2>2, <3>1
  <2> QED
    BY <2>3, <2>4
<1>4. response' = [response EXCEPT ![r] = <<>>]
  <2>1. response'[r] = <<>>
    BY <1>2 DEF Watch
  <2>2. \A q \in Requests \ {r} : response'[q] = response[q]
    BY <1>2, ResponseStays
  <2>3. response' = [q \in Requests |-> response'[q]]
    BY DEF Watch
  <2>4. response = [q \in Requests |-> response[q]]
    BY DEF ServedInv
  <2> QED
    BY <2>1, <2>2, <2>3, <2>4
<1>5. /\ Known' = Known /\ Questions' = Questions
      /\ \A q \in Requests : Wants(q)' = Wants(q)
  BY <1>1, KnownStays, QuestionsStay DEF Wants, Command, Under
<1>6. \A i \in Items : Current(i)' = Current(i)
  BY <1>3, ItemStays
<1>7. [q \in Requests |-> Place(q)'] =
        [[q \in Requests |-> Place(q)] EXCEPT ![r] = "over"]
  BY <1>2
<1> QED
  BY <1>1, <1>2, <1>4, <1>5, <1>6, <1>7 DEF Service!Close

\* A worker's steps: it writes the items of its kind, and asks no more.
LEMMA WorkerWrites ==
  ASSUME TypeOK, NEW o \in Owners, NEW c \in Channels, Worker(o, c)
  PROVE  \E k \in Kinds, what \in {"pending", "answered"} :
           /\ IF what = "pending" THEN WorkerBegins(o, k, c)
                                  ELSE WorkerEnds(o, k, c)
           /\ \A i \in Items : Current(i)' =
                IF i \in {c} \X Results[k] THEN <<o, what>> ELSE Current(i)
<1>0. \A d \in Channels :
        /\ wsub[d] \in Rec
        /\ wfw[d] \in [version : Findings, checked : BOOLEAN]
  BY DEF TypeOK, Rec
<1> DEFINE Written(k, what) ==
             \A d \in Channels :
               /\ wsub'[d].name = IF d = c /\ k \in {"info", "version"}
                                  THEN <<o, what>> ELSE wsub[d].name
               /\ wsub'[d].net = IF d = c /\ k = "net"
                                 THEN <<o, what>> ELSE wsub[d].net
               /\ wfw'[d].version = IF d = c /\ k = "version"
                                    THEN <<o, what>> ELSE wfw[d].version
<1>1. ASSUME NEW k \in Kinds, NEW what, Written(k, what), NEW i \in Items
      PROVE  Current(i)' =
               IF i \in {c} \X Results[k] THEN <<o, what>> ELSE Current(i)
  <2>1. i[1] \in Channels /\ i[2] \in {"name", "net", "version"}
    BY DEF Items
  <2>2. i = <<i[1], i[2]>>
    BY DEF Items
  <2>3. i \in {c} \X Results[k] <=>
          /\ i[1] = c
          /\ \/ i[2] = "name" /\ k \in {"info", "version"}
             \/ i[2] = "net" /\ k = "net"
             \/ i[2] = "version" /\ k = "version"
    BY <2>1, <2>2 DEF Results, Kinds
  <2> QED
    BY <1>1, <2>1, <2>3 DEF Current
<1>2. DOMAIN wsub = Channels /\ DOMAIN wfw = Channels
  BY DEF TypeOK
<1>3. CASE InfoStart(o, c)
  BY <1>0, <1>1, <1>2, <1>3 DEF InfoStart, Kinds, Rec
<1>4. CASE InfoFinish(o, c)
  BY <1>0, <1>1, <1>2, <1>4 DEF InfoFinish, Kinds, Rec
<1>5. CASE NetStart(o, c)
  BY <1>0, <1>1, <1>2, <1>5 DEF NetStart, Kinds, Rec
<1>6. CASE NetFinish(o, c)
  BY <1>0, <1>1, <1>2, <1>6 DEF NetFinish, Kinds, Rec
<1>7. CASE VersionStart(o, c)
  BY <1>0, <1>1, <1>2, <1>7 DEF VersionStart, Kinds, Rec
<1>8. CASE VersionFinish(o, c)
  BY <1>0, <1>1, <1>2, <1>8 DEF VersionFinish, Kinds, Rec
<1> QED
  BY <1>3, <1>4, <1>5, <1>6, <1>7, <1>8 DEF Worker

\* Two workers of one owner on one channel ask for different items.
LEMMA OnlyOneAsks ==
  ASSUME KindInv, NEW o \in Owners, NEW c \in Channels,
         NEW k \in Kinds, NEW j \in Kinds,
         <<o, k, c>> \in Under, <<o, j, c>> \in Under, j # k
  PROVE  Results[j] \cap Results[k] = {}
BY DEF KindInv, Results

LEMMA WorkerMaps ==
  ASSUME ServedInv, Watch, NEW o \in Owners, NEW c \in Channels, Worker(o, c)
  PROVE  Service!Pose(o) \/ Service!Learn(o)
<1>0. TypeOK /\ KindInv
  BY DEF ServedInv, IInv
<1>1. PICK k \in Kinds, what \in {"pending", "answered"} :
        /\ IF what = "pending" THEN WorkerBegins(o, k, c)
                               ELSE WorkerEnds(o, k, c)
        /\ \A i \in Items : Current(i)' =
             IF i \in {c} \X Results[k] THEN <<o, what>> ELSE Current(i)
  BY <1>0, WorkerWrites
<1> DEFINE asked == {c} \X Results[k]
<1>2. /\ UNCHANGED <<msg, sub, fw, stage, lone>>
      /\ <<o, k, c>> \in Under
  BY <1>1 DEF WorkerBegins, WorkerEnds, Under
<1>3. Under \in SUBSET Workers
  BY <1>0 DEF TypeOK, Under
<1>4. \A q \in Requests : Place(q)' = Place(q) /\ Wants(q)' = Wants(q)
  BY <1>2 DEF Place, Wants, Command
<1>5. response' = response /\ Known' = Known
  BY <1>2, <1>4, ResponseRest, KnownStays
<1>6. asked \in SUBSET Service!AskedBy(o)
  <2>1. ASSUME NEW e \in Results[k]
        PROVE  <<c, e>> \in Items /\ <<o, <<c, e>>>> \in Questions
    <3>1. <<o, <<c, e>>>> \in QuestionsOf(Under)
      BY <1>2, <1>3, QuestionIn
    <3>2. QuestionsOf(Under) \subseteq Owners \X Items
      BY <1>3, QuestionType
    <3> QED
      BY <3>1, <3>2 DEF Questions, Under
  <2> QED
    BY <2>1 DEF Service!AskedBy
<1>7. CASE what = "pending"
  <2>1. Under' = Under
    BY <1>1, <1>7 DEF WorkerBegins, Under
  <2>2. Questions' = Questions
    BY <2>1, QuestionsStay
  <2>3. [i \in Items |-> Current(i)'] =
          [i \in Items |-> IF i \in asked THEN <<o, "pending">>
                           ELSE [j \in Items |-> Current(j)][i]]
    BY <1>1, <1>7
  <2> HIDE DEF asked
  <2> QED
    BY <1>2, <1>4, <1>5, <1>6, <2>2, <2>3 DEF Service!Pose
<1>8. CASE what = "answered"
  <2>1. WorkerEnds(o, k, c)
    BY <1>1, <1>8
  <2>2. spawned' = spawned /\ asking' = asking \ {<<o, k, c>>}
    BY <2>1 DEF WorkerEnds
  <2>3. [i \in Items |-> Current(i)'] =
          [i \in Items |-> IF i \in asked THEN <<o, "answered">>
                           ELSE [j \in Items |-> Current(j)][i]]
    BY <1>1, <1>8
  <2>4. Questions' = Questions \ ({o} \X asked)
    <3>1. Under' = Under \ {<<o, k, c>>}
      BY <2>1, <2>2 DEF ServedInv, OnceInv, Under, WorkerEnds
    <3>2. QuestionsOf(Under \ {<<o, k, c>>}) =
            QuestionsOf(Under) \ ({o} \X ({c} \X Results[k]))
      BY <1>0, <1>2, <1>3, EndRemoves, OnlyOneAsks
    <3> QED
      BY <3>1, <3>2 DEF Questions, Under
  <2> HIDE DEF asked
  <2> QED
    BY <1>2, <1>4, <1>5, <1>6, <2>3, <2>4 DEF Service!Learn
<1> QED
  BY <1>7, <1>8

\* Every step is one of ViewService's.
LEMMA ServedStep ==
  ServedInv /\ [Next /\ Watch]_servedVars => [Service!Next]_Service!vars
<1> SUFFICES ASSUME ServedInv, [Next /\ Watch]_servedVars
             PROVE  [Service!Next]_Service!vars
  OBVIOUS
<1>0. TypeOK
  BY DEF ServedInv, IInv
<1>1. CASE Next /\ Watch
  <2>1. Service!Copy
    BY <1>0, <1>1, CopyStep DEF Service!Copy
  <2>2. Service!Watch
    <3>1. \A r \in Requests :
            {i \in Wants(r) : /\ Place(r)' = "open"
                              /\ \/ Copied(i)' = Current(i)'
                                 \/ i \in fresh[r] /\ Copied(i)' = Copied(i)} =
            {i \in Wants(r) :
               /\ Place(r)' = "open"
               /\ \/ [j \in Items |-> Copied(j)'][i] =
                       [j \in Items |-> Current(j)'][i]
                  \/ i \in fresh[r] /\ [j \in Items |-> Copied(j)'][i] =
                                         [j \in Items |-> Copied(j)][i]}
      BY WantsItems
    <3> QED
      BY <1>1, <3>1 DEF Watch, Service!Watch
  <2>3. ASSUME NEW r \in Requests, Arrive(r) \/ Request(r) \/ Sender(r)
        PROVE  Service!Next
    BY <1>1, <2>1, <2>2, <2>3, ArriveMaps, RegisterMaps, PollMaps,
       RespondMaps, ResetMaps, HiddenMaps DEF Service!Next, Request, Sender
  <2>4. ASSUME NEW o \in Owners, NEW c \in Channels, Worker(o, c)
        PROVE  Service!Next
    BY <1>1, <2>1, <2>2, <2>4, WorkerMaps DEF Service!Next, Service!Askers,
       Owners
  <2>5. CASE Second
    <3>1. UNCHANGED <<msg, wsub, sub, wfw, fw, spawned, asking, stage, lone>>
      BY <2>5 DEF Second
    <3>2. \A q \in Requests : Place(q)' = Place(q) /\ Wants(q)' = Wants(q)
      BY <3>1 DEF Place, Wants, Command
    <3>3. \A i \in Items : Current(i)' = Current(i)
      BY <3>1 DEF Current
    <3>4. response' = response /\ Known' = Known /\ Questions' = Questions
      BY <1>1, <3>1, <3>2, ResponseRest, KnownStays, QuestionsStay DEF Under
    <3>5. Service!Still
      BY <3>1, <3>2, <3>3, <3>4 DEF Service!Still
    <3> QED
      BY <2>1, <2>2, <3>5 DEF Service!Next
  <2> QED
    BY <1>1, <2>3, <2>4, <2>5 DEF Next
<1>2. CASE UNCHANGED servedVars
  <2>1. UNCHANGED <<msg, wsub, sub, wfw, fw, spawned, asking, stage, lone,
                    fresh, response>>
    BY <1>2 DEF servedVars, vars, polls
  <2>2. \A q \in Requests : Place(q)' = Place(q) /\ Wants(q)' = Wants(q)
    BY <2>1 DEF Place, Wants, Command
  <2>3. \A i \in Items : Current(i)' = Current(i) /\ Copied(i)' = Copied(i)
    BY <2>1 DEF Current, Copied
  <2>4. Known' = Known /\ Questions' = Questions
    BY <2>1, KnownStays, QuestionsStay DEF Under
  <2> QED
    BY <2>1, <2>2, <2>3, <2>4 DEF Service!vars
<1> QED
  BY <1>1, <1>2

LEMMA ServedStart == ServedInit => Service!Init
<1> SUFFICES ASSUME ServedInit PROVE Service!Init
  OBVIOUS
<1>0. Init /\ IInv
  BY InitIInv DEF ServedInit
<1>1. \A r \in Requests : Place(r) = "absent"
  BY <1>0 DEF Init, Place
<1>2. \A i \in Items : Current(i) = Service!Unknown /\ Copied(i) = Current(i)
  <2>1. \A c \in Channels : wsub[c].name = Unknown /\ wsub[c].net = Unknown
    <3>1. PICK status \in [Channels -> Statuses] :
            wsub = [c \in Channels |-> [Blank EXCEPT !.status = status[c]]]
      BY <1>0 DEF Init
    <3> QED
      BY <3>1 DEF Blank
  <2>2. \A c \in Channels : /\ sub[c].name = wsub[c].name
                            /\ sub[c].net = wsub[c].net
                            /\ wfw[c].version = Unknown /\ fw[c] = Unknown
    BY <1>0 DEF Init, Published
  <2>3. \A i \in Items :
          i[1] \in Channels /\ i[2] \in {"name", "net", "version"}
    BY DEF Items
  <2> QED
    BY <2>1, <2>2, <2>3 DEF Current, Copied, Unknown, Service!Unknown
<1>3. Questions \subseteq {"boot"} \X Known
  <2>1. Under \in SUBSET Workers
    BY <1>0 DEF IInv, TypeOK, Under
  <2>2. ASSUME NEW p \in Questions PROVE p \in {"boot"} \X Known
    <3>1. p \in Owners \X Items
      BY <2>1, <2>2, QuestionType DEF Questions, Under
    <3>2. PICK o \in Owners, c \in Channels, e \in {"name", "net", "version"} :
            p = <<o, <<c, e>>>>
      BY <3>1 DEF Items
    <3>3. PICK k \in Kinds : <<o, k, c>> \in Under /\ e \in Results[k]
      BY <2>1, <2>2, <3>2, QuestionIn DEF Questions, Under
    <3>4. o = "boot" /\ wsub[c].status \in {1, 2}
      BY <1>0, <3>3 DEF Init, Under, Poll
    <3>5. sub[c].status # 0
      BY <1>0, <3>4 DEF IInv, SharedInv
    <3> QED
      BY <3>2, <3>4, <3>5 DEF Known, Items
  <2> QED
    BY <2>2
<1>4. [r \in Requests |-> Wants(r)] \in [Requests -> SUBSET Items]
  BY WantsItems
<1>5. Known \subseteq Items
  BY DEF Known
<1>6. /\ [i \in Items |-> Current(i)] = [i \in Items |-> Service!Unknown]
      /\ [i \in Items |-> Copied(i)] = [i \in Items |-> Current(i)]
  BY <1>2
<1>7. /\ lone = [r \in Requests |-> FALSE]
      /\ fresh = [r \in Requests |-> {}]
      /\ response = [r \in Requests |-> <<>>]
  BY DEF ServedInit, Init
<1> QED
  BY <1>1, <1>3, <1>4, <1>5, <1>6, <1>7 DEF Service!Init

\* The deviceinfo and firmware views implement ViewService, with their two
\* polls, the copies that every refresh makes of the names and interfaces,
\* the names that the firmware workers write, and the poll of the start: what
\* an answer shows of a camera has been current since the request came,
\* whoever copied it, and nothing is under way when a request that nothing
\* overlaps is answered.
THEOREM SubdeviceViewsServe == ServedSpec => ViewServiceSpec
<1>1. ServedSpec => []ServedInv
  BY InitServedInv, KeepsServedInv, PTL DEF ServedSpec
<1> QED
  BY <1>1, ServedStart, ServedStep, PTL
     DEF ServedSpec, ViewServiceSpec, Service!Spec
=============================================================================
