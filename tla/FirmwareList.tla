----------------------------- MODULE FirmwareList -----------------------------
(***************************************************************************)
(* The list of the latest firmware versions (sunapi_manager.cpp).  A       *)
(* firmware view that polls starts a thread that downloads the list into   *)
(* fw_info.txt; the sender of every firmware view reads that file, appends *)
(* it to g_vecFirmwareInfos and looks the channels' models up there.       *)
(* Downloads and senders are threads of their own and do not wait for each *)
(* other: a download empties the file first, and fills it through stdio's  *)
(* buffer, which is cut at any place.                                      *)
(*                                                                         *)
(* The server's page is taken to be the list: a page that reports an error *)
(* would pass for one.  An older file handle writes at its own offset,     *)
(* after a newer fopen behind a hole of zeros; the model has the lines     *)
(* only, which are the same as soon as the newer download has filled it.   *)
(*                                                                         *)
(* When a view polls, and when its sender runs, is SubdeviceViews' matter  *)
(* and left open here.                                                     *)
(***************************************************************************)
EXTENDS Naturals, Sequences, FiniteSetsExt

CONSTANTS
  Views,     (* the firmware views                                         *)
  Lines,     (* the number of lines of the list, one for a model           *)
  Versions   (* how many lists are published, one after the other          *)

ASSUME ListAssumption ==
  Lines \in Nat \ {0} /\ Versions \in Nat \ {0} /\ "nobody" \notin Views

Models == 1..Lines

VARIABLES
  proc,               \* the process
  view,               \* where each firmware view is
  load,               \* the download it has started ...
  version,            \* ... the list that it brings ...
  written,            \* ... and the lines it has written to the file
  listed,             \* fw_info.txt: the version in each line, 0 if it is not
                      \* there; << >> if there is no such file
  cut,                \* lines of which only a beginning is in the file
  g_vecFirmwareInfos, \* the lists read, one after the other
  latest,             \* LatestFirmwareVersion of each model's channel
  lastOpened,         \* history: the download that has emptied the file last
  lastRead            \* history: the list that a sender has read last

files == <<listed, cut>>
downloads == <<load, version, written, lastOpened>>
lookup == <<g_vecFirmwareInfos, latest, lastRead>>
vars == <<proc, view, files, downloads, lookup>>

Missing == <<>>
Nothing == [m \in Models |-> 0]
List(v) == [m \in Models |-> v]
Lists == [Models -> 0..Versions]

Init ==
  /\ proc = "running"
  /\ view = [r \in Views |-> "absent"]
  /\ load = [r \in Views |-> "off"]
  /\ version = [r \in Views |-> 0]
  /\ written = [r \in Views |-> 0]
  /\ listed \in {Missing, List(1)}
  /\ cut = {}
  /\ g_vecFirmwareInfos = <<>>
  /\ latest = Nothing
  /\ lastOpened = "nobody"
  /\ lastRead = Nothing

\* GetFirmwareVersionInfoView: with a poll, and so a download, or without.
Arrive(r) ==
  /\ proc = "running" /\ view[r] = "absent"
  /\ view' = [view EXCEPT ![r] = "waiting"]
  /\ \E next \in {"started", "off"} : load' = [load EXCEPT ![r] = next]
  /\ UNCHANGED <<proc, files, version, written, lastOpened, lookup>>

-----------------------------------------------------------------------------
(* GetLatestFirmwareVersionFromURL                                         *)

\* fopen "wb" empties the file.  A list is not published while a download is
\* under way, and none after a newer one.
Open(r) ==
  /\ proc = "running" /\ load[r] = "started"
  /\ \E v \in 1..Versions :
       /\ \A q \in Views : /\ version[q] <= v
                           /\ load[q] = "open" => version[q] = v
       /\ version' = [version EXCEPT ![r] = v]
  /\ load' = [load EXCEPT ![r] = "open"]
  /\ listed' = Nothing /\ cut' = {}
  /\ lastOpened' = r
  /\ UNCHANGED <<proc, view, written, lookup>>

\* Mutant: the end of the list is not noticed.
WritePastEnd(r) ==
  LET line == written[r] + 1 IN
  /\ proc = "running" /\ load[r] = "open" /\ written[r] <= Lines
  /\ written' = [written EXCEPT ![r] = line]
  /\ listed' = [m \in Models |-> IF m = line THEN version[r] ELSE listed[m]]
  /\ cut' = cut
  /\ UNCHANGED <<proc, view, load, version, lastOpened, lookup>>

\* write_data: a full buffer goes to the file and may end within a line.
Write(r) ==
  LET line == written[r] + 1 IN
  /\ proc = "running" /\ load[r] = "open" /\ line < Lines
  /\ written' = [written EXCEPT ![r] = line]
  /\ listed' = [listed EXCEPT ![line] = version[r]]
  /\ cut' \in {cut \ {line},
               (cut \ {line}) \cup {m \in {line + 1} : listed[m] = 0}}
  /\ UNCHANGED <<proc, view, load, version, lastOpened, lookup>>

\* Mutant: the file is not closed when the download has succeeded.
CloseUnflushed(r) ==
  /\ proc = "running" /\ load[r] = "open"
  /\ load' = [load EXCEPT ![r] = "succeeded"]
  /\ UNCHANGED <<proc, view, version, written, files, lastOpened, lookup>>

\* curl_easy_perform has succeeded: fclose writes the rest.
Close(r) ==
  LET rest == written[r] + 1 .. Lines IN
  /\ proc = "running" /\ load[r] = "open"
  /\ load' = [load EXCEPT ![r] = "succeeded"]
  /\ listed' = [m \in Models |-> IF m \in rest THEN version[r] ELSE listed[m]]
  /\ cut' = cut \ rest
  /\ UNCHANGED <<proc, view, version, written, lastOpened, lookup>>

\* It has failed, and the function returns without closing the file; or
\* libcurl could not be initialised and there is none.
Fail(r) ==
  /\ proc = "running" /\ load[r] \in {"started", "open"}
  /\ load' = [load EXCEPT ![r] = "failed"]
  /\ UNCHANGED <<proc, view, version, written, files, lastOpened, lookup>>

-----------------------------------------------------------------------------
(* GetLatestFirmwareVersionFromFile                                        *)

\* The first entry of a sequence of lists that names the model.
FirstMatch(infos, m) ==
  LET hits == {i \in DOMAIN infos : infos[i][m] # 0}
  IN IF hits = {} THEN 0 ELSE infos[Min(hits)][m]

\* A line that is cut has not the six fields that are taken from it, what then
\* happens is undefined: the process ends, or the entry holds nothing useful.
ReadCutLine(r) ==
  /\ proc = "running" /\ view[r] = "waiting" /\ cut # {}
  /\ proc' = "crashed"
  /\ UNCHANGED <<view, files, downloads, lookup>>

\* Mutant: the entries of earlier readings are dropped first.
ReadListAfresh(r) ==
  /\ proc = "running" /\ view[r] = "waiting"
  /\ view' = [view EXCEPT ![r] = "done"]
  /\ IF listed = Missing
     THEN UNCHANGED lookup
     ELSE /\ g_vecFirmwareInfos' = <<listed>>
          /\ \E shown \in SUBSET Models :
               latest' = [m \in Models |-> IF m \in shown
                            THEN FirstMatch(g_vecFirmwareInfos', m) ELSE 0]
          /\ lastRead' = listed
  /\ UNCHANGED <<proc, files, downloads>>

\* The file's lines are appended; then LatestFirmwareVersion is cleared and
\* set for the channels whose Model is found.  It may not be: the workers
\* write "timeout" there while they ask.
ReadList(r) ==
  /\ proc = "running" /\ view[r] = "waiting"
  /\ view' = [view EXCEPT ![r] = "done"]
  /\ IF listed = Missing
     THEN UNCHANGED lookup
     ELSE /\ g_vecFirmwareInfos' = Append(g_vecFirmwareInfos, listed)
          /\ \E shown \in SUBSET Models :
               latest' = [m \in Models |-> IF m \in shown
                            THEN FirstMatch(g_vecFirmwareInfos', m) ELSE 0]
          /\ lastRead' = listed
  /\ UNCHANGED <<proc, files, downloads>>

Next == \E r \in Views :
  \/ Arrive(r) \/ Open(r) \/ Write(r) \/ Close(r) \/ Fail(r)
  \/ ReadCutLine(r) \/ ReadList(r)

Spec == Init /\ [][Next]_vars

-----------------------------------------------------------------------------
(* Properties.                                                             *)

TypeOK ==
  /\ proc \in {"running", "crashed"}
  /\ view \in [Views -> {"absent", "waiting", "done"}]
  /\ load \in [Views -> {"off", "started", "open", "succeeded", "failed"}]
  /\ version \in [Views -> 0..Versions]
  /\ written \in [Views -> 0..Lines]
  /\ listed = Missing \/ listed \in Lists
  /\ cut \subseteq Models
  /\ g_vecFirmwareInfos \in Seq(Lists)
  /\ latest \in Lists
  /\ lastOpened \in Views \cup {"nobody"}
  /\ lastRead \in Lists

\* The file is whole again once the download that emptied it last has
\* succeeded, although others that began earlier may still write to it.
LastDownloadCompletesList ==
  lastOpened # "nobody" /\ load[lastOpened] = "succeeded" =>
    cut = {} /\ \A m \in Models : listed[m] = version[lastOpened]

\* A model that was found in a list once is found by every later sender, also
\* by one that reads while a download has just emptied the file: entries are
\* appended, and the file is not what is looked up.
KnownModelsStayKnown ==
  [][\A m \in Models : FirstMatch(g_vecFirmwareInfos, m) # 0 =>
       FirstMatch(g_vecFirmwareInfos', m) # 0]_vars

\* "reset LatestFirmwareVersion and then update": the latest version of a
\* model is the one that the list just read names, if it names one.
LatestIsOfTheList ==
  \A m \in Models : lastRead[m] # 0 => latest[m] \in {0, lastRead[m]}
=============================================================================
