------------------------- MODULE FirmwareList_proofs -------------------------
(***************************************************************************)
(* The list of firmware versions for any number of views, lines and lists. *)
(***************************************************************************)
EXTENDS FirmwareList, NaturalsInduction, WellFoundedInduction, TLAPS

\* Since the last download emptied the file, only its own version has been
\* written there: every download that is still open brings the same list.
\* What it has written itself is there, and a line that is cut holds nothing
\* else.
DownloadInv ==
  /\ \A q \in Views : view[q] = "absent" => load[q] = "off"
  /\ \A q \in Views : load[q] \in {"off", "started"} => written[q] = 0
  /\ \A q \in Views : load[q] = "open" =>
       lastOpened \in Views /\ version[q] = version[lastOpened]
  /\ cut # {} => lastOpened \in Views
  /\ lastOpened \in Views =>
       /\ load[lastOpened] \in {"open", "succeeded", "failed"}
       /\ version[lastOpened] # 0
       /\ listed \in Lists
       /\ \A m \in Models : listed[m] \in {0, version[lastOpened]}
       /\ \A m \in Models : m <= written[lastOpened] =>
            listed[m] = version[lastOpened]
       /\ \A m \in cut : listed[m] = 0
       /\ load[lastOpened] = "succeeded" =>
            \A m \in Models : listed[m] = version[lastOpened]

IInv == TypeOK /\ DownloadInv

-----------------------------------------------------------------------------
(* The lookup.                                                             *)

\* A set of places that is not empty has a first one.
LEMMA FirstPlace ==
  ASSUME NEW S \in SUBSET Nat, S # {}
  PROVE  Min(S) \in S /\ \A i \in S : Min(S) <= i
<1>1. \E x \in S : \A y \in S : ~(<<y, x>> \in OpToRel(<, Nat))
  BY NatLessThanWellFounded, WFMin
<1>2. \E x \in S : \A y \in S : x <= y
  <2>1. PICK x \in S : \A y \in S : ~(<<y, x>> \in OpToRel(<, Nat))
    BY <1>1
  <2>2. ASSUME NEW y \in S PROVE x <= y
    <3>1. y \in Nat /\ x \in Nat
      OBVIOUS
    <3>2. ~(y < x)
      <4>1. SUFFICES ASSUME y < x PROVE FALSE
        OBVIOUS
      <4>2. <<y, x>> \in OpToRel(<, Nat)
        BY <3>1, <4>1 DEF OpToRel
      <4> QED
        BY <2>1, <4>2
    <3> QED
      BY <3>1, <3>2
  <2> QED
    BY <2>2
<1> QED
  BY <1>2 DEF Min

\* A model has a version as soon as one of the lists names it.
LEMMA FirstMatchFinds ==
  ASSUME NEW infos \in Seq(Lists), NEW m \in Models
  PROVE  /\ FirstMatch(infos, m) \in 0..Versions
         /\ FirstMatch(infos, m) # 0 <=> \E i \in DOMAIN infos : infos[i][m] # 0
<1> DEFINE hits == {i \in DOMAIN infos : infos[i][m] # 0}
<1>1. CASE hits = {}
  BY <1>1, ListAssumption DEF FirstMatch
<1>2. CASE hits # {}
  <2>1. Min(hits) \in hits
    BY <1>2, FirstPlace
  <2>2. FirstMatch(infos, m) = infos[Min(hits)][m]
    BY <1>2 DEF FirstMatch
  <2> QED
    BY <2>1, <2>2 DEF Lists
<1> QED
  BY <1>1, <1>2

LEMMA InitIInv == Init => IInv
<1> SUFFICES ASSUME Init PROVE IInv
  OBVIOUS
<1>1. Nothing \in Lists /\ (listed = Missing \/ listed \in Lists)
  BY ListAssumption DEF Init, Nothing, Lists, List
<1>2. g_vecFirmwareInfos \in Seq(Lists) /\ cut = {} /\ lastOpened = "nobody"
  BY DEF Init
<1>3. TypeOK
  BY <1>1, <1>2, ListAssumption DEF Init, TypeOK
<1>4. DownloadInv
  BY <1>2, ListAssumption DEF Init, DownloadInv
<1> QED
  BY <1>3, <1>4 DEF IInv

LEMMA ReadKeeps ==
  ASSUME IInv, NEW r \in Views, ReadList(r)
  PROVE  TypeOK'
<1>1. CASE listed = Missing
  BY <1>1 DEF ReadList, IInv, TypeOK, files, downloads, lookup
<1>2. CASE listed # Missing
  <2>1. listed \in Lists /\ g_vecFirmwareInfos' = Append(g_vecFirmwareInfos, listed)
    BY <1>2 DEF ReadList, IInv, TypeOK
  <2>2. g_vecFirmwareInfos' \in Seq(Lists)
    BY <2>1 DEF IInv, TypeOK
  <2>3. \A m \in Models : FirstMatch(g_vecFirmwareInfos', m) \in 0..Versions
    BY <2>2, FirstMatchFinds
  <2>4. latest' \in Lists
    BY <1>2, <2>3, ListAssumption DEF ReadList, Lists
  <2> QED
    BY <1>2, <2>1, <2>2, <2>4 DEF ReadList, IInv, TypeOK, files, downloads
<1> QED
  BY <1>1, <1>2

LEMMA Keeps == IInv /\ [Next]_vars => IInv'
<1> SUFFICES ASSUME IInv, [Next]_vars PROVE IInv'
  OBVIOUS
<1> USE ListAssumption
<1>1. ASSUME NEW r \in Views, Arrive(r) PROVE IInv'
  <2>1. TypeOK'
    BY <1>1 DEF Arrive, IInv, TypeOK, files, lookup
  <2>2. DownloadInv'
    BY <1>1 DEF Arrive, IInv, TypeOK, DownloadInv, files, lookup
  <2> QED
    BY <2>1, <2>2 DEF IInv
<1>2. ASSUME NEW r \in Views, Open(r) PROVE IInv'
  <2>1. TypeOK'
    BY <1>2 DEF Open, IInv, TypeOK, lookup, Nothing, Lists
  <2>2. DownloadInv'
    BY <1>2 DEF Open, IInv, TypeOK, DownloadInv, lookup, Nothing, Lists, Models
  <2> QED
    BY <2>1, <2>2 DEF IInv
<1>3. ASSUME NEW r \in Views, Write(r) PROVE IInv'
  <2>1. TypeOK'
    <3>1. listed \in Lists /\ version[r] \in 0..Versions /\ written[r] \in 0..Lines
      BY <1>3 DEF Write, IInv, TypeOK, DownloadInv
    <3>2. written[r] + 1 \in 0..Lines /\ written[r] + 1 < Lines
      BY <1>3, <3>1 DEF Write
    <3>3. listed' \in Lists
      BY <1>3, <3>1 DEF Write, Lists
    <3>4. cut' \subseteq Models
      BY <1>3, <3>1, <3>2 DEF Write, IInv, TypeOK, Models
    <3>5. written' \in [Views -> 0..Lines]
      BY <1>3, <3>2 DEF Write, IInv, TypeOK
    <3> QED
      BY <1>3, <3>3, <3>4, <3>5 DEF Write, IInv, TypeOK, lookup
  <2> DEFINE line == written[r] + 1
  <2>2. /\ load[r] = "open" /\ line < Lines /\ written' = [written EXCEPT ![r] = line]
        /\ listed' = [listed EXCEPT ![line] = version[r]]
        /\ cut' \in {cut \ {line},
                     (cut \ {line}) \cup {m \in {line + 1} : listed[m] = 0}}
        /\ UNCHANGED <<proc, view, load, version, lastOpened, lookup>>
    BY <1>3 DEF Write
  <2>3. /\ lastOpened \in Views /\ version[r] = version[lastOpened]
        /\ listed \in Lists /\ written[r] \in 0..Lines
        /\ line \in Models /\ line + 1 \in Models
    BY <2>2 DEF IInv, TypeOK, DownloadInv, Models
  <2>4. \A m \in Models : listed'[m] = IF m = line THEN version[r] ELSE listed[m]
    BY <2>2, <2>3 DEF Lists
  <2>5. \A m \in Models : listed'[m] \in {0, version[lastOpened]}
    BY <2>3, <2>4 DEF IInv, DownloadInv
  <2>6. ASSUME NEW m \in Models, m <= written'[lastOpened]
        PROVE  listed'[m] = version[lastOpened]
    <3>1. CASE m = line
      BY <2>3, <2>4, <3>1
    <3>2. CASE m # line
      <4>1. m <= written[lastOpened]
        <5>1. CASE r = lastOpened
          <6>1. m <= line
            BY <2>2, <2>3, <2>6, <5>1 DEF IInv, TypeOK
          <6> QED
            BY <2>3, <3>2, <5>1, <6>1 DEF Models
        <5>2. CASE r # lastOpened
          BY <2>2, <2>3, <2>6, <5>2 DEF IInv, TypeOK
        <5> QED
          BY <5>1, <5>2
      <4> QED
        BY <2>3, <2>4, <3>2, <4>1 DEF IInv, DownloadInv
    <3> QED
      BY <3>1, <3>2
  <2>7. \A m \in cut' : listed'[m] = 0
    <3>1. \A m \in cut' : /\ m \in Models /\ m # line
                          /\ m \in cut \/ listed[m] = 0
      BY <2>2, <2>3 DEF IInv, TypeOK
    <3> QED
      BY <2>3, <2>4, <3>1 DEF IInv, DownloadInv
  <2>8. load[lastOpened] = "succeeded" =>
          \A m \in Models : listed'[m] = version[lastOpened]
    BY <2>3, <2>4 DEF IInv, DownloadInv
  <2>9. \A q \in Views : q # r => written'[q] = written[q]
    BY <2>2 DEF IInv, TypeOK
  <2>10. DownloadInv'
    <3>1. listed' \in Lists
      <4>1. version[r] \in 0..Versions
        BY DEF IInv, TypeOK
      <4> QED
        BY <2>2, <2>3, <4>1 DEF Lists
    <3>2. \A q \in Views : load'[q] \in {"off", "started"} => written'[q] = 0
      BY <2>2, <2>9 DEF IInv, DownloadInv
    <3>3. /\ \A q \in Views : view'[q] = "absent" => load'[q] = "off"
          /\ \A q \in Views : load'[q] = "open" =>
               lastOpened' \in Views /\ version'[q] = version'[lastOpened']
      BY <2>2 DEF IInv, DownloadInv
    <3>4. /\ load'[lastOpened'] \in {"open", "succeeded", "failed"}
          /\ version'[lastOpened'] # 0
      BY <2>2, <2>3 DEF IInv, DownloadInv
    <3> QED
      BY <2>2, <2>3, <2>5, <2>6, <2>7, <2>8, <3>1, <3>2, <3>3, <3>4
         DEF DownloadInv
  <2> QED
    BY <2>1, <2>10 DEF IInv
<1>4. ASSUME NEW r \in Views, Close(r) PROVE IInv'
  <2> DEFINE rest == written[r] + 1 .. Lines
  <2>1. /\ load[r] = "open" /\ load' = [load EXCEPT ![r] = "succeeded"]
        /\ listed' = [m \in Models |-> IF m \in rest THEN version[r] ELSE listed[m]]
        /\ cut' = cut \ rest
        /\ UNCHANGED <<proc, view, version, written, lastOpened, lookup>>
    BY <1>4 DEF Close
  <2>2. /\ lastOpened \in Views /\ version[r] = version[lastOpened]
        /\ listed \in Lists /\ version[r] \in 0..Versions
        /\ written[r] \in 0..Lines
    BY <2>1 DEF IInv, TypeOK, DownloadInv
  <2>3. listed' \in Lists
    BY <2>1, <2>2 DEF Lists
  <2>4. TypeOK'
    BY <2>1, <2>3 DEF IInv, TypeOK, lookup
  <2>5. \A m \in Models : listed'[m] = IF m \in rest THEN version[r] ELSE listed[m]
    BY <2>1
  <2>6. \A m \in Models : m \in rest \/ m <= written[r]
    BY <2>2 DEF Models
  <2>7. \A m \in Models : /\ listed'[m] \in {0, version[lastOpened]}
                          /\ m <= written[lastOpened] =>
                               listed'[m] = version[lastOpened]
    BY <2>2, <2>5 DEF IInv, DownloadInv
  <2>8. \A m \in cut' : listed'[m] = 0
    <3>1. \A m \in cut' : m \in Models /\ m \in cut /\ m \notin rest
      BY <2>1 DEF IInv, TypeOK
    <3> QED
      BY <2>2, <2>5, <3>1 DEF IInv, DownloadInv
  <2>9. load'[lastOpened] = "succeeded" =>
          \A m \in Models : listed'[m] = version[lastOpened]
    <3>1. CASE r = lastOpened
      BY <2>2, <2>5, <2>6, <3>1 DEF IInv, DownloadInv
    <3>2. CASE r # lastOpened
      <4>1. load'[lastOpened] = load[lastOpened]
        BY <2>1, <2>2, <3>2 DEF IInv, TypeOK
      <4> QED
        BY <2>2, <2>5, <4>1 DEF IInv, DownloadInv
    <3> QED
      BY <3>1, <3>2
  <2>10. /\ load'[lastOpened] \in {"open", "succeeded", "failed"}
         /\ \A q \in Views : q # r => load'[q] = load[q]
         /\ load'[r] = "succeeded"
    BY <2>1, <2>2 DEF IInv, TypeOK, DownloadInv
  <2>11. /\ \A q \in Views : view'[q] = "absent" => load'[q] = "off"
         /\ \A q \in Views : load'[q] \in {"off", "started"} => written'[q] = 0
         /\ \A q \in Views : load'[q] = "open" =>
              lastOpened' \in Views /\ version'[q] = version'[lastOpened']
    BY <2>1, <2>10 DEF IInv, DownloadInv
  <2>12. DownloadInv'
    BY <2>1, <2>2, <2>3, <2>7, <2>8, <2>9, <2>10, <2>11 DEF IInv, DownloadInv
  <2> QED
    BY <2>4, <2>12 DEF IInv
<1>5. ASSUME NEW r \in Views, Fail(r) PROVE IInv'
  <2>1. TypeOK'
    BY <1>5 DEF Fail, IInv, TypeOK, files, lookup
  <2>2. DownloadInv'
    BY <1>5 DEF Fail, IInv, TypeOK, DownloadInv, files, lookup
  <2> QED
    BY <2>1, <2>2 DEF IInv
<1>6. ASSUME NEW r \in Views, ReadCutLine(r) PROVE IInv'
  BY <1>6 DEF ReadCutLine, IInv, TypeOK, DownloadInv, files, downloads, lookup
<1>7. ASSUME NEW r \in Views, ReadList(r) PROVE IInv'
  <2>1. DownloadInv'
    BY <1>7 DEF ReadList, IInv, DownloadInv, files, downloads
  <2> QED
    BY <1>7, <2>1, ReadKeeps DEF IInv
<1>8. CASE UNCHANGED vars
  BY <1>8 DEF vars, files, downloads, lookup, IInv, TypeOK, DownloadInv
<1> QED
  BY <1>1, <1>2, <1>3, <1>4, <1>5, <1>6, <1>7, <1>8 DEF Next

-----------------------------------------------------------------------------
(* The theorems.                                                           *)

\* The invariant holds in every state the agent can reach.
THEOREM Invariance == Spec => []IInv
  BY InitIInv, Keeps, PTL DEF Spec

\* fw_info.txt, its readers and its writers keep to their types.
THEOREM TypeCorrect == Spec => []TypeOK
<1>1. IInv => TypeOK
  BY DEF IInv
<1> QED
  BY Invariance, <1>1, PTL

\* fw_info.txt is whole once the download that emptied it last has succeeded,
\* whatever the other downloads still write or leave behind.
THEOREM LastCompletes == Spec => []LastDownloadCompletesList
<1>1. IInv => LastDownloadCompletesList
  <2> SUFFICES ASSUME IInv, lastOpened # "nobody", load[lastOpened] = "succeeded"
               PROVE  cut = {} /\ \A m \in Models : listed[m] = version[lastOpened]
    BY DEF LastDownloadCompletesList
  <2>1. lastOpened \in Views
    BY DEF IInv, TypeOK
  <2>2. \A m \in Models : listed[m] = version[lastOpened]
    BY <2>1 DEF IInv, DownloadInv
  <2>3. cut = {}
    BY <2>1, <2>2 DEF IInv, TypeOK, DownloadInv
  <2> QED
    BY <2>2, <2>3
<1> QED
  BY Invariance, <1>1, PTL

\* A model that one of the lists read so far has named is found from then on:
\* g_vecFirmwareInfos only grows.
THEOREM ModelsStayKnown == Spec => KnownModelsStayKnown
<1> DEFINE Stays == \A m \in Models : FirstMatch(g_vecFirmwareInfos, m) # 0 =>
                      FirstMatch(g_vecFirmwareInfos', m) # 0
<1>1. IInv /\ IInv' /\ [Next]_vars => Stays
  <2> SUFFICES ASSUME IInv, IInv', [Next]_vars, NEW m \in Models,
                      FirstMatch(g_vecFirmwareInfos, m) # 0
               PROVE  FirstMatch(g_vecFirmwareInfos', m) # 0
    OBVIOUS
  <2>1. \/ g_vecFirmwareInfos' = g_vecFirmwareInfos
        \/ g_vecFirmwareInfos' = Append(g_vecFirmwareInfos, listed)
    BY DEF Next, Arrive, Open, Write, Close, Fail, ReadCutLine, ReadList,
           vars, lookup
  <2>2. g_vecFirmwareInfos \in Seq(Lists) /\ g_vecFirmwareInfos' \in Seq(Lists)
    BY DEF IInv, TypeOK
  <2>3. CASE g_vecFirmwareInfos' = g_vecFirmwareInfos
    BY <2>3
  <2>4. CASE g_vecFirmwareInfos' = Append(g_vecFirmwareInfos, listed)
    <3>1. PICK i \in DOMAIN g_vecFirmwareInfos : g_vecFirmwareInfos[i][m] # 0
      BY <2>2, FirstMatchFinds
    <3>2. i \in DOMAIN g_vecFirmwareInfos' /\ g_vecFirmwareInfos'[i][m] # 0
      BY <2>2, <2>4, <3>1
    <3> QED
      BY <2>2, <3>2, FirstMatchFinds
  <2> QED
    BY <2>1, <2>3, <2>4
<1>2. IInv /\ IInv' /\ [Next]_vars => [Stays]_vars
  BY <1>1
<1> QED
  BY Invariance, <1>2, PTL DEF Spec, KnownModelsStayKnown
=============================================================================
