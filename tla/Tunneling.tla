------------------------------ MODULE Tunneling ------------------------------
(***************************************************************************)
(* Requests that the cloud tunnels to the gateway (api_manager.cc).  Each  *)
(* message has a thread of its own, which relays one HTTP request and      *)
(* answers: SUNAPITunnelingCommand with a text, whatever becomes of the    *)
(* request; HttpTunnelingCommand with a binary frame, and only when the    *)
(* gateway answered.                                                       *)
(***************************************************************************)
EXTENDS Integers

CONSTANTS
  Tunnels,      (* the messages, each used once                            *)
  Base,         (* values of a byte                                        *)
  MessageSizes, HeaderSizes, BodySizes  (* sizes of the parts of a reply   *)

VARIABLES
  proc,    \* the process: "running" or "crashed"
  tunnel,  \* where each message's thread is
  sent     \* the answers

tunnelVars == <<tunnel, sent>>
vars == <<proc, tunnelVars>>

H == INSTANCE HsonFrame

\* The requests under way: a "cameradiscovery" is a sunapi request without a
\* timeout.
Requests == {"sunapi", "discovery", "http"}
Places == Requests \cup {"absent", "dropped", "silent", "answered"}

\* An answer: a text with what statusCode stands for, or a frame together
\* with the sizes of its parts.
Unsent == [status |-> "none"]
Texts == [status : {"none", "200", "empty", "curlCode", "garbage"}]
Statuses == {"200", "empty", "curlCode"}
Parts == MessageSizes \X HeaderSizes \X BodySizes
FrameOf(p) == H!Frame(p[1], p[2], p[3])

\* What is handed over of a frame: as many bytes as its size is as an int.
Given(f) == [f EXCEPT !.size = H!AsInt(f.size)]
Frames == {[frame |-> Given(FrameOf(p)), parts |-> p] : p \in Parts}

Init ==
  /\ proc = "running"
  /\ tunnel = [m \in Tunnels |-> "absent"]
  /\ sent = [m \in Tunnels |-> Unsent]

Moves(m, place) == tunnel' = [tunnel EXCEPT ![m] = place]

\* What is wrong with a message: it is no JSON or lacks its command or its
\* message; it has no body, not even null; an http one has a header that is
\* no string, or is a POST whose body is null.
Flaws == {"none", "unreadable", "noBody", "oddHeader", "nullPost"}

\* noBody: the body is printed before it is known that there is one.
\* nullPost: it is copied although it was not read.  Both read a pointer
\* that was never set.  oddHeader: a std::string is made of NULL.
MayCrash(r, flaw) ==
  flaw = "noBody" \/ (r = "http" /\ flaw \in {"nullPost", "oddHeader"})
MustCrash(r, flaw) == r = "http" /\ flaw = "oddHeader"

\* process_SUNAPITunneling and process_HttpTunneling, up to the request r.
Receive(m, r, flaw) ==
  /\ tunnel[m] = "absent"
  /\ \/ /\ MayCrash(r, flaw)
        /\ proc' = "crashed" /\ UNCHANGED tunnel
     \/ /\ ~MustCrash(r, flaw)
        /\ Moves(m, IF flaw \in {"unreadable", "noBody"} THEN "dropped" ELSE r)
        /\ UNCHANGED proc
  /\ UNCHANGED sent

\* A topic that names no service.
Ignore(m) ==
  /\ tunnel[m] = "absent"
  /\ Moves(m, "dropped")
  /\ UNCHANGED <<proc, sent>>

Sends(m, answer) ==
  /\ sent' = [sent EXCEPT ![m] = answer]
  /\ Moves(m, "answered")

\* Mutant: a SUNAPI request that curl gives up is not answered, as an http one.
SunapiReturnsSilent(m) ==
  /\ tunnel[m] \in {"sunapi", "discovery"}
  /\ \/ Moves(m, "silent") /\ UNCHANGED sent
     \/ \E c \in Statuses : Sends(m, [status |-> c])
  /\ UNCHANGED proc

\* CURL_Process returns an error code, nothing, or something that is JSON or
\* not and is passed on.
SunapiReturns(m) ==
  /\ tunnel[m] \in {"sunapi", "discovery"}
  /\ \E c \in Statuses : Sends(m, [status |-> c])
  /\ UNCHANGED proc

\* An answer with an "Error" beside the misspelt "Detatils": the error is
\* looked for in the request, and what was not found there is read.
SunapiGarbled(m) ==
  /\ tunnel[m] \in {"sunapi", "discovery"}
  /\ \/ Sends(m, [status |-> "garbage"]) /\ UNCHANGED proc
     \/ proc' = "crashed" /\ UNCHANGED <<tunnel, sent>>

\* Mutant: what arrived is sent although the transfer goes on.
HttpReturnsParts(m) ==
  /\ tunnel[m] = "http"
  /\ \/ Moves(m, "silent") /\ UNCHANGED sent
     \/ \E p \in Parts :
          /\ Given(FrameOf(p)).size >= 0
          /\ sent' = [sent EXCEPT ![m] = [frame |-> Given(FrameOf(p)), parts |-> p]]
          /\ UNCHANGED tunnel
  /\ UNCHANGED proc

\* curl_easy_perform returns in HttpTunnelingCommand.
HttpReturns(m) ==
  /\ tunnel[m] = "http"
  /\ \/ Moves(m, "silent") /\ UNCHANGED sent
     \/ \E p \in Parts :
          /\ Given(FrameOf(p)).size >= 0
          /\ Sends(m, [frame |-> Given(FrameOf(p)), parts |-> p])
  /\ UNCHANGED proc

\* From 2^31 bytes on the int may be negative.  The topic makes a size_t of it
\* again, a message of which cannot be made: the exception ends the process,
\* unless the link was found lost before (which is "silent").
HttpThrows(m) ==
  /\ tunnel[m] = "http"
  /\ \E p \in Parts : Given(FrameOf(p)).size < 0
  /\ proc' = "crashed"
  /\ UNCHANGED tunnelVars

Returns(m) ==
  SunapiReturns(m) \/ SunapiGarbled(m) \/ HttpReturns(m) \/ HttpThrows(m)

Ends == proc' = "crashed" /\ UNCHANGED tunnelVars

TunnelNext ==
  /\ proc = "running"
  /\ \E m \in Tunnels :
       \/ \E r \in Requests, flaw \in Flaws : Receive(m, r, flaw)
       \/ Ignore(m)
       \/ Returns(m)

Next == TunnelNext \/ (proc = "running" /\ Ends)

Spec == Init /\ [][Next]_vars

-----------------------------------------------------------------------------
(* Properties.                                                             *)

\* A message has an answer exactly when its thread has given it one: threads
\* that are done without one are "dropped" or "silent".
TypeOK ==
  /\ tunnel \in [Tunnels -> Places]
  /\ sent \in [Tunnels -> Texts \cup Frames]
  /\ \A m \in Tunnels : tunnel[m] = "answered" <=> sent[m] # Unsent

\* Every binary answer of a reply below 2^32 bytes can be taken apart again
\* into the parts it was made of, although its offsets are cut to four bytes
\* and its size to an int: an answer that is sent at all has all of its bytes.
\* A longer one may be sent with its beginning only.
FramesTakeApart ==
  \A m \in Tunnels :
    /\ "frame" \in DOMAIN sent[m]
    /\ FrameOf(sent[m].parts).size < H!Limit
    => H!TakeApart(sent[m].frame) = sent[m].parts

\* A SUNAPI request that is relayed with a timeout is answered, whatever the
\* gateway does (unless another message ends the process).
SunapiAnswered ==
  \A m \in Tunnels :
    tunnel[m] = "sunapi" ~> tunnel[m] = "answered" \/ proc = "crashed"
=============================================================================
