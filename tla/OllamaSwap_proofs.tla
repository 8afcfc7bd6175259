--------------------------- MODULE OllamaSwap_proofs ---------------------------
(* Proofs about OllamaSwap, for any number of versions and of faults.              *)
EXTENDS OllamaSwap, SequenceTheorems, TLAPS

----------------------------------------------------------------------------
(* The inductive invariant *)

OrderSet == [version : Maybe, state : Running \cup {"none", "done", "failed"}, aged : BOOLEAN]
FrameSet == [kind : {"order", "swap"}, version : Versions]
ReportSet == [version : Maybe, state : Reports]
BeatSet == [version : Maybe, report : ReportSet]
JobSet == [version : Maybe, at : 0..(Len(Entries) + 1), moved : 0..Len(Entries)]

RouterOK ==
    /\ order \in OrderSet /\ known \in Versions /\ latest \in Versions
    /\ drain \in BOOLEAN /\ pending \in Maybe /\ releases \subseteq Versions
LinkOK == session \in BOOLEAN /\ down \in Seq(FrameSet) /\ beats \in Seq(BeatSet)
AgentOK ==
    /\ phase \in Phases /\ job \in JobSet /\ report \in ReportSet /\ swapCh \in Maybe
    /\ phase # "idle" => job.version \in Versions
    /\ phase \in {"out", "in"} => job.at \in 1..Len(Entries)
    /\ phase = "revert" => job.at \in 1..(job.moved + 1)
FilesOK ==
    /\ dir \in [Top -> Maybe] /\ backup \in [Top -> Maybe]
    /\ broken \in BOOLEAN
HistoryOK == gaveUp \in BOOLEAN /\ faults \in 0..MaxFaults

\* The entries that are through are of the new version, broken or not.
NewOnesIn ==
    /\ phase \in {"out", "in"} =>
           \A i \in 1..Len(Entries) : i < job.at => dir[Entries[i]] = job.version
    /\ phase = "verify" => \A i \in 1..Len(Entries) : dir[Entries[i]] = job.version
\* Of each entry the old version lies in the installation or, as far as the swap and
\* its rollback have come, in the backup.
OldAt(v) == \A i \in 1..Len(Entries) :
    /\ phase = "out" =>
           IF i < job.at THEN backup[Entries[i]] = v ELSE dir[Entries[i]] = v
    /\ phase = "in" =>
           IF i <= job.at THEN backup[Entries[i]] = v ELSE dir[Entries[i]] = v
    /\ phase = "verify" => backup[Entries[i]] = v
    /\ phase = "revert" =>
           IF job.at <= i /\ i <= job.moved THEN backup[Entries[i]] = v ELSE dir[Entries[i]] = v
    /\ phase \notin {"out", "in", "verify", "revert"} => dir[Entries[i]] = v
OldKept == broken \/ \E v \in Versions : OldAt(v)

\* Nothing runs while the files are exchanged, and after it the new version.
Serving ==
    /\ ollama \in Maybe /\ request \in {"none", "chosen", "running"}
    /\ phase \in {"out", "in", "revert"} => ollama = None
    /\ phase = "verify" => ollama \in {None, job.version}
    /\ request = "running" => ollama # None

\* Before the first order the agent has nothing to do and nothing to say.
NothingYet ==
    order.version = None =>
        /\ releases = {} /\ down = <<>> /\ phase = "idle" /\ report.state = "none"
        /\ \A i \in 1..Len(beats) : beats[i].report.state = "none"
\* No wait is for a later version than the order.
NoneLater == order.version # None =>
                 order.version <= latest /\ \A v \in releases : v <= order.version

\* A release of the order, or one that is on its way to the agent.
Sent == SwapSent \/ swapCh # None
Drained == order.version \in releases \/ Sent => drain \/ excuse = "lifted"
Spared == Sent /\ request # "none" => excuse # "none"
ReleaseOK == excuse \in {"none", "late", "lifted"} /\ NothingYet /\ NoneLater /\ Drained /\ Spared

IInv == /\ RouterOK /\ LinkOK /\ AgentOK /\ FilesOK /\ HistoryOK
        /\ NewOnesIn /\ OldKept /\ Serving /\ ReleaseOK

LEMMA EntryFacts ==
    /\ Len(Entries) = 2 /\ Entries[1] = "exe" /\ Entries[2] = "lib"
    /\ Top = {"exe", "lib"}
    /\ \A i \in 1..2 : Entries[i] \in Top
    /\ \A i, j \in 1..2 : Entries[i] = Entries[j] => i = j
<1>1. Len(Entries) = 2 /\ Entries[1] = "exe" /\ Entries[2] = "lib"
  BY DEF Entries
<1>2. Top = {Entries[i] : i \in 1..2}
  BY <1>1 DEF Top
<1>3. \A i \in 1..2 : i = 1 \/ i = 2
  OBVIOUS
<1>4. Top = {"exe", "lib"}
  <2>1. 1 \in 1..2 /\ 2 \in 1..2
    OBVIOUS
  <2>. QED BY <1>1, <1>2, <1>3, <2>1
<1>. QED BY <1>1, <1>3, <1>4

LEMMA VersionFacts == /\ 0 \in Versions /\ None \notin Versions /\ None \in Maybe
                      /\ Versions \subseteq Maybe /\ \A v \in Maybe : v \in Versions \/ v = None
BY BoundsAssumption DEF Versions, None, Maybe

LEMMA WholeMeans ==
    ASSUME FilesOK
    PROVE  /\ \A v \in Versions : (\A i \in 1..Len(Entries) : dir[Entries[i]] = v) => Whole
           /\ Whole => \E v \in Versions : \A i \in 1..Len(Entries) : dir[Entries[i]] = v
<1>1. \A v \in Versions : (\A i \in 1..Len(Entries) : dir[Entries[i]] = v) => Whole
  <2>1. SUFFICES ASSUME NEW v \in Versions, \A i \in 1..Len(Entries) : dir[Entries[i]] = v
                 PROVE  Whole
    OBVIOUS
  <2>2. dir["exe"] = v /\ dir["lib"] = v
    <3>1. 1 \in 1..2 /\ 2 \in 1..2
      OBVIOUS
    <3>. QED BY <2>1, <3>1, EntryFacts
  <2>. QED BY <2>2, EntryFacts DEF Whole
<1>2. Whole => \E v \in Versions : \A i \in 1..Len(Entries) : dir[Entries[i]] = v
  BY EntryFacts DEF Whole
<1>. QED BY <1>1, <1>2

LEMMA Records ==
    /\ NoJob \in JobSet /\ NoReport \in ReportSet /\ NoReport.state = "none"
    /\ \A s \in Reports : \A v \in Maybe : [version |-> v, state |-> s] \in ReportSet
BY EntryFacts, VersionFacts DEF NoJob, NoReport, JobSet, ReportSet, Reports

LEMMA Initially == Init => IInv
<1>. SUFFICES ASSUME Init PROVE IInv
  OBVIOUS
<1>1. RouterOK
  BY VersionFacts DEF Init, RouterOK, OrderSet
<1>2. LinkOK
  BY DEF Init, LinkOK
<1>3. AgentOK /\ HistoryOK
  <2>1. AgentOK
    BY VersionFacts, Records DEF Init, AgentOK, Phases
  <2>2. HistoryOK
    <3>1. 0 \in 0..MaxFaults
      BY BoundsAssumption
    <3>. QED BY <3>1 DEF Init, HistoryOK
  <2>. QED BY <2>1, <2>2
<1>4. FilesOK
  BY VersionFacts DEF Init, FilesOK, Empty
<1>5. NewOnesIn /\ OldAt(0)
  BY EntryFacts DEF Init, NewOnesIn, OldAt
<1>6. OldKept
  BY <1>5, VersionFacts DEF OldKept
<1>7. Serving
  BY VersionFacts DEF Init, Serving
<1>8. ReleaseOK
  BY Records DEF Init, ReleaseOK, NothingYet, NoneLater, Drained, Spared, Sent, SwapSent
<1>. QED BY <1>1, <1>2, <1>3, <1>4, <1>5, <1>6, <1>7, <1>8 DEF IInv

----------------------------------------------------------------------------
(* The files *)

AgentFiles == AgentOK /\ FilesOK /\ NewOnesIn /\ OldKept

\* Nothing of the agent moves.
LEMMA AgentRests ==
    ASSUME AgentFiles, UNCHANGED <<agentVars, files, broken>>
    PROVE  AgentFiles'
<1>1. AgentOK' /\ FilesOK' /\ NewOnesIn'
  BY DEF AgentFiles, agentVars, files, AgentOK, FilesOK, NewOnesIn
<1>2. \A v \in Versions : OldAt(v) => OldAt(v)'
  BY DEF agentVars, files, OldAt
<1>. QED BY <1>1, <1>2 DEF AgentFiles, OldKept

\* Before the swap only the phase and the reports move.
LEMMA BeforeTheSwap ==
    ASSUME AgentFiles, LinkOK, ReadFrame \/ StartJob \/ Loaded \/ GiveUp \/ OllamaStarts
    PROVE  AgentFiles'
<1>1. /\ AgentOK /\ FilesOK /\ OldKept /\ NewOnesIn
      /\ UNCHANGED <<dir, broken>>
  BY DEF AgentFiles, ReadFrame, StartJob, Loaded, GiveUp, OllamaStarts, files, history
<1>2. CASE ReadFrame
  <2>. DEFINE m == Head(down)
  <2>1. m \in FrameSet
    BY <1>2 DEF ReadFrame, LinkOK
  <2>2. m.version \in Versions
    BY <2>1 DEF FrameSet
  <2>3. UNCHANGED <<report, backup>> /\ swapCh' \in Maybe
    BY <1>1, <1>2, <2>2, VersionFacts DEF ReadFrame, files, AgentOK
  <2>4. CASE UNCHANGED <<phase, job>>
    <3>1. AgentOK' /\ FilesOK' /\ NewOnesIn'
      BY <1>1, <2>3, <2>4 DEF AgentOK, FilesOK, NewOnesIn
    <3>2. \A v \in Versions : OldAt(v) => OldAt(v)'
      BY <1>1, <2>3, <2>4 DEF OldAt
    <3>. QED BY <1>1, <3>1, <3>2 DEF AgentFiles, OldKept
  <2>5. CASE phase = "idle" /\ phase' = "accepted" /\ job' = [NoJob EXCEPT !.version = m.version]
    <3>1. job' \in JobSet /\ job'.version = m.version
      BY <2>2, <2>5, EntryFacts, VersionFacts DEF NoJob, JobSet
    <3>2. AgentOK' /\ FilesOK' /\ NewOnesIn'
      BY <1>1, <2>2, <2>3, <2>5, <3>1 DEF AgentOK, FilesOK, NewOnesIn, Phases
    <3>3. \A v \in Versions : OldAt(v) => OldAt(v)'
      BY <1>1, <2>5 DEF OldAt
    <3>. QED BY <1>1, <3>2, <3>3 DEF AgentFiles, OldKept
  <2>. QED BY <1>2, <2>4, <2>5 DEF ReadFrame
<1>3. CASE StartJob \/ Loaded
  <2>1. /\ job' = job /\ phase \notin {"idle", "out", "in", "verify", "revert"}
        /\ phase' \in {"loading", "ready"}
    BY <1>3 DEF StartJob, Loaded
  <2>2. report' \in ReportSet /\ swapCh' \in Maybe /\ backup' \in [Top -> Maybe]
    BY <1>1, <1>3, Records, VersionFacts
       DEF StartJob, Loaded, Says, AgentOK, FilesOK, Reports, Empty, files, JobSet
  <2>3. AgentOK' /\ FilesOK' /\ NewOnesIn'
    BY <1>1, <2>1, <2>2 DEF AgentOK, FilesOK, NewOnesIn, Phases
  <2>4. \A v \in Versions : OldAt(v) => OldAt(v)'
    BY <1>1, <2>1 DEF OldAt
  <2>. QED BY <1>1, <2>3, <2>4 DEF AgentFiles, OldKept
<1>4. CASE GiveUp
  <2>1. /\ phase \in {"loading", "ready"} /\ phase' = "idle" /\ job' = NoJob /\ swapCh' = swapCh
        /\ report' = [version |-> job.version, state |-> "failed"] /\ backup' = Empty
    BY <1>4 DEF GiveUp, EndJob, Says
  <2>2. job' \in JobSet /\ report' \in ReportSet /\ backup' \in [Top -> Maybe]
    BY <1>1, <2>1, Records, VersionFacts DEF AgentOK, Reports, Empty, JobSet
  <2>3. AgentOK' /\ FilesOK' /\ NewOnesIn'
    BY <1>1, <2>1, <2>2 DEF AgentOK, FilesOK, NewOnesIn, Phases
  <2>4. \A v \in Versions : OldAt(v) => OldAt(v)'
    BY <1>1, <2>1 DEF OldAt
  <2>. QED BY <1>1, <2>3, <2>4 DEF AgentFiles, OldKept
<1>5. CASE OllamaStarts
  BY <1>1, <1>5, AgentRests DEF OllamaStarts, AgentFiles, history
<1>. QED BY <1>2, <1>3, <1>4, <1>5

LEMMA TakeReleaseFiles ==
    ASSUME AgentFiles, TakeRelease
    PROVE  AgentFiles'
<1>1. /\ AgentOK /\ FilesOK /\ OldKept /\ NewOnesIn /\ phase = "ready"
      /\ UNCHANGED <<dir, backup, broken>> /\ swapCh' = None
  BY DEF AgentFiles, TakeRelease, files, history
<1>2. CASE UNCHANGED <<phase, job, report>>
  <2>1. AgentOK' /\ FilesOK' /\ NewOnesIn'
    BY <1>1, <1>2, VersionFacts DEF AgentOK, FilesOK, NewOnesIn
  <2>2. \A v \in Versions : OldAt(v) => OldAt(v)'
    BY <1>1, <1>2 DEF OldAt
  <2>. QED BY <1>1, <2>1, <2>2 DEF AgentFiles, OldKept
<1>3. CASE /\ phase' = "out" /\ job' = [job EXCEPT !.at = 1]
           /\ report' = [version |-> job.version, state |-> "swapping"]
  <2>1. job' \in JobSet /\ job'.version = job.version /\ job'.at = 1
    BY <1>1, <1>3, EntryFacts DEF AgentOK, JobSet
  <2>2. report' \in ReportSet
    BY <1>1, <1>3, Records DEF AgentOK, JobSet, Reports
  <2>3. AgentOK' /\ FilesOK' /\ NewOnesIn'
    BY <1>1, <1>3, <2>1, <2>2, EntryFacts, VersionFacts DEF AgentOK, FilesOK, NewOnesIn, Phases
  <2>4. \A v \in Versions : OldAt(v) => OldAt(v)'
    BY <1>1, <1>3, <2>1, EntryFacts DEF OldAt
  <2>. QED BY <1>1, <2>3, <2>4 DEF AgentFiles, OldKept
<1>. QED BY <1>2, <1>3 DEF TakeRelease, Says

\* What a rollback starts with.
LEMMA RollsBack ==
    ASSUME AgentOK, NEW moved \in 0..Len(Entries), RollBack(moved), UNCHANGED <<report, swapCh>>,
           phase # "idle"
    PROVE  AgentOK' /\ phase' = "revert" /\ job'.version = job.version /\ job'.at = 1
           /\ job'.moved = moved
<1>1. job' = [job EXCEPT !.at = 1, !.moved = moved] /\ phase' = "revert" /\ job \in JobSet
  BY DEF RollBack, AgentOK
<1>2. job' \in JobSet /\ job'.version = job.version /\ job'.at = 1 /\ job'.moved = moved
  <2>1. 1 \in 0..(Len(Entries) + 1)
    BY EntryFacts
  <2>. QED BY <1>1, <2>1 DEF JobSet
<1>. QED BY <1>1, <1>2, EntryFacts DEF AgentOK, Phases

LEMMA MoveOutFiles ==
    ASSUME AgentFiles, MoveOut
    PROVE  AgentFiles'
<1>1. /\ AgentOK /\ FilesOK /\ OldKept /\ NewOnesIn /\ phase = "out"
      /\ UNCHANGED <<report, swapCh, broken>>
      /\ job \in JobSet /\ job.at \in 1..2 /\ Len(Entries) = 2
  BY EntryFacts DEF AgentFiles, MoveOut, AgentOK
<1>2. CASE /\ backup' = [backup EXCEPT ![Entry] = dir[Entry]] /\ dir' = [dir EXCEPT ![Entry] = None]
           /\ phase' = "in" /\ UNCHANGED job
  <2>1. Entry = Entries[job.at] /\ Entry \in Top
    BY <1>1, EntryFacts DEF Entry
  <2>2. /\ dir' \in [Top -> Maybe] /\ backup' \in [Top -> Maybe]
        /\ \A i \in 1..2 : i # job.at => /\ dir'[Entries[i]] = dir[Entries[i]]
                                         /\ backup'[Entries[i]] = backup[Entries[i]]
        /\ backup'[Entries[job.at]] = dir[Entries[job.at]]
    BY <1>1, <1>2, <2>1, EntryFacts, VersionFacts DEF FilesOK
  <2>3. AgentOK' /\ FilesOK'
    BY <1>1, <1>2, <2>2 DEF AgentOK, FilesOK, Phases
  <2>4. NewOnesIn'
    BY <1>1, <1>2, <2>2 DEF NewOnesIn
  <2>5. ASSUME NEW v \in Versions, OldAt(v)
        PROVE  OldAt(v)'
    <3>1. \A i \in 1..2 : IF i < job.at THEN backup[Entries[i]] = v ELSE dir[Entries[i]] = v
      BY <1>1, <2>5 DEF OldAt
    <3>2. \A i \in 1..2 : IF i <= job.at THEN backup'[Entries[i]] = v ELSE dir'[Entries[i]] = v
      BY <1>1, <2>2, <3>1
    <3>. QED BY <1>1, <1>2, <3>2 DEF OldAt
  <2>. QED BY <1>1, <2>3, <2>4, <2>5 DEF AgentFiles, OldKept
<1>3. CASE RollBack(job.at - 1) /\ UNCHANGED <<dir, backup>>
  <2>1. job.at - 1 \in 0..Len(Entries)
    BY <1>1
  <2>2. /\ AgentOK' /\ phase' = "revert" /\ job'.version = job.version /\ job'.at = 1
        /\ job'.moved = job.at - 1
    BY <1>1, <1>3, <2>1, RollsBack
  <2>3. FilesOK' /\ NewOnesIn'
    BY <1>1, <1>3, <2>2 DEF FilesOK, NewOnesIn
  <2>4. ASSUME NEW v \in Versions, OldAt(v)
        PROVE  OldAt(v)'
    <3>1. \A i \in 1..2 : IF i < job.at THEN backup[Entries[i]] = v ELSE dir[Entries[i]] = v
      BY <1>1, <2>4 DEF OldAt
    <3>2. \A i \in 1..2 : IF 1 <= i /\ i <= job.at - 1 THEN backup[Entries[i]] = v
                          ELSE dir[Entries[i]] = v
      BY <1>1, <3>1
    <3>. QED BY <1>1, <1>3, <2>2, <3>2 DEF OldAt
  <2>. QED BY <1>1, <2>2, <2>3, <2>4 DEF AgentFiles, OldKept
<1>. QED BY <1>2, <1>3 DEF MoveOut

LEMMA MoveInFiles ==
    ASSUME AgentFiles, MoveIn
    PROVE  AgentFiles'
<1>1. /\ AgentOK /\ FilesOK /\ OldKept /\ NewOnesIn /\ phase = "in"
      /\ UNCHANGED swapCh
      /\ job \in JobSet /\ job.at \in 1..2 /\ Len(Entries) = 2 /\ job.version \in Versions
      /\ Entry = Entries[job.at] /\ Entry \in Top
  BY EntryFacts DEF AgentFiles, MoveIn, AgentOK, Entry
<1>2. CASE /\ dir' = [dir EXCEPT ![Entry] = job.version]
           /\ IF job.at < Len(Entries)
              THEN phase' = "out" /\ job' = [job EXCEPT !.at = @ + 1] /\ UNCHANGED report
              ELSE /\ phase' = "verify" /\ UNCHANGED job
                   /\ report' = [version |-> job.version, state |-> "applied"]
           /\ UNCHANGED <<backup, broken>>
  <2>1. /\ dir' \in [Top -> Maybe] /\ dir'[Entries[job.at]] = job.version
        /\ \A i \in 1..2 : i # job.at => dir'[Entries[i]] = dir[Entries[i]]
    BY <1>1, <1>2, EntryFacts, VersionFacts DEF FilesOK
  <2>2. FilesOK'
    BY <1>1, <1>2, <2>1 DEF FilesOK
  <2>3. \A i \in 1..2 : i < job.at => dir[Entries[i]] = job.version
    BY <1>1 DEF NewOnesIn
  <2>4. \A v \in Versions : OldAt(v) => \A i \in 1..2 :
            IF i <= job.at THEN backup[Entries[i]] = v ELSE dir[Entries[i]] = v
    BY <1>1 DEF OldAt
  <2>5. CASE job.at = 1
    <3>1. phase' = "out" /\ job' = [job EXCEPT !.at = 2] /\ UNCHANGED report
      BY <1>1, <1>2, <2>5
    <3>2. job' \in JobSet /\ job'.version = job.version /\ job'.at = 2
      BY <1>1, <3>1 DEF JobSet
    <3>3. AgentOK'
      BY <1>1, <3>1, <3>2 DEF AgentOK, Phases
    <3>4. NewOnesIn'
      BY <1>1, <2>1, <2>5, <3>1, <3>2 DEF NewOnesIn
    <3>5. ASSUME NEW v \in Versions, OldAt(v)
          PROVE  OldAt(v)'
      <4>1. \A i \in 1..2 : IF i < 2 THEN backup[Entries[i]] = v ELSE dir'[Entries[i]] = v
        BY <2>1, <2>4, <2>5, <3>5
      <4>. QED BY <1>1, <1>2, <3>1, <3>2, <4>1 DEF OldAt
    <3>. QED BY <1>1, <1>2, <2>2, <3>3, <3>4, <3>5 DEF AgentFiles, OldKept
  <2>6. CASE job.at = 2
    <3>1. /\ phase' = "verify" /\ UNCHANGED job
          /\ report' = [version |-> job.version, state |-> "applied"]
      BY <1>1, <1>2, <2>6
    <3>2. AgentOK'
      BY <1>1, <3>1, Records, VersionFacts DEF AgentOK, Phases, Reports
    <3>3. NewOnesIn'
      BY <1>1, <2>1, <2>3, <2>6, <3>1 DEF NewOnesIn
    <3>4. ASSUME NEW v \in Versions, OldAt(v)
          PROVE  OldAt(v)'
      <4>1. \A i \in 1..2 : backup[Entries[i]] = v
        BY <2>4, <2>6, <3>4
      <4>. QED BY <1>1, <1>2, <3>1, <4>1 DEF OldAt
    <3>. QED BY <1>1, <1>2, <2>2, <3>2, <3>3, <3>4 DEF AgentFiles, OldKept
  <2>. QED BY <1>1, <2>5, <2>6
<1>3. ASSUME NEW back \in BOOLEAN,
             dir' = IF back THEN [dir EXCEPT ![Entry] = backup[Entry]] ELSE dir,
             backup' = IF back THEN [backup EXCEPT ![Entry] = None] ELSE backup,
             broken' = (broken \/ ~back),
             RollBack(job.at - 1), UNCHANGED report
      PROVE  AgentFiles'
  <2>1. job.at - 1 \in 0..Len(Entries)
    BY <1>1
  <2>2. /\ AgentOK' /\ phase' = "revert" /\ job'.version = job.version /\ job'.at = 1
        /\ job'.moved = job.at - 1
    BY <1>1, <1>3, <2>1, RollsBack
  <2>3. FilesOK' /\ NewOnesIn'
    BY <1>1, <1>3, <2>2, VersionFacts DEF FilesOK, NewOnesIn
  <2>4. OldKept'
    <3>1. CASE broken \/ ~back
      BY <1>1, <1>3, <3>1 DEF OldKept, FilesOK
    <3>2. CASE ~broken /\ back
      <4>1. PICK v \in Versions : OldAt(v)
        BY <1>1, <3>2 DEF OldKept
      <4>2. \A i \in 1..2 : IF i <= job.at THEN backup[Entries[i]] = v ELSE dir[Entries[i]] = v
        BY <1>1, <4>1 DEF OldAt
      <4>3. /\ dir'[Entries[job.at]] = backup[Entries[job.at]]
            /\ \A i \in 1..2 : i # job.at => /\ dir'[Entries[i]] = dir[Entries[i]]
                                             /\ backup'[Entries[i]] = backup[Entries[i]]
        BY <1>1, <1>3, <3>2, EntryFacts DEF FilesOK
      <4>4. \A i \in 1..2 : IF 1 <= i /\ i <= job.at - 1 THEN backup'[Entries[i]] = v
                            ELSE dir'[Entries[i]] = v
        BY <1>1, <4>2, <4>3
      <4>5. OldAt(v)'
        BY <1>1, <2>2, <4>4 DEF OldAt
      <4>. QED BY <4>5 DEF OldKept
    <3>. QED BY <1>1, <3>1, <3>2 DEF FilesOK
  <2>. QED BY <2>2, <2>3, <2>4 DEF AgentFiles
<1>. QED BY <1>2, <1>3 DEF MoveIn, Says

LEMMA RevertFiles ==
    ASSUME AgentFiles, Revert
    PROVE  AgentFiles'
<1>1. /\ AgentOK /\ FilesOK /\ OldKept /\ NewOnesIn /\ phase = "revert"
      /\ UNCHANGED <<phase, report, swapCh>>
      /\ job \in JobSet /\ job.moved \in 0..2 /\ job.at \in 1..2 /\ job.at <= job.moved
      /\ job.version \in Versions /\ Len(Entries) = 2
      /\ Entry = Entries[job.at] /\ Entry \in Top
      /\ job' = [job EXCEPT !.at = @ + 1]
  <2>1. /\ AgentOK /\ FilesOK /\ OldKept /\ NewOnesIn /\ phase = "revert"
        /\ UNCHANGED <<phase, report, swapCh>> /\ job \in JobSet /\ job.at <= job.moved
        /\ job.version \in Versions /\ job.at \in 1..(job.moved + 1)
        /\ job' = [job EXCEPT !.at = @ + 1]
    BY DEF AgentFiles, Revert, AgentOK
  <2>2. job.moved \in 0..2 /\ job.at \in 1..2
    BY <2>1, EntryFacts DEF JobSet
  <2>. QED BY <2>1, <2>2, EntryFacts DEF Entry
<1>2. job' \in JobSet /\ job'.version = job.version /\ job'.at = job.at + 1 /\ job'.moved = job.moved
  BY <1>1 DEF JobSet
<1>3. AgentOK'
  BY <1>1, <1>2 DEF AgentOK
<1>4. CASE TakeBack(Entry) /\ UNCHANGED broken
  <2>1. /\ dir' \in [Top -> Maybe] /\ backup' \in [Top -> Maybe]
        /\ dir'[Entries[job.at]] = backup[Entries[job.at]]
        /\ \A i \in 1..2 : i # job.at => /\ dir'[Entries[i]] = dir[Entries[i]]
                                         /\ backup'[Entries[i]] = backup[Entries[i]]
    BY <1>1, <1>4, EntryFacts, VersionFacts DEF TakeBack, FilesOK
  <2>2. FilesOK' /\ NewOnesIn'
    BY <1>1, <1>4, <2>1 DEF FilesOK, NewOnesIn
  <2>3. ASSUME NEW v \in Versions, OldAt(v)
        PROVE  OldAt(v)'
    <3>1. \A i \in 1..2 : IF job.at <= i /\ i <= job.moved THEN backup[Entries[i]] = v
                          ELSE dir[Entries[i]] = v
      BY <1>1, <2>3 DEF OldAt
    <3>2. \A i \in 1..2 : IF job.at + 1 <= i /\ i <= job.moved THEN backup'[Entries[i]] = v
                          ELSE dir'[Entries[i]] = v
      BY <1>1, <2>1, <3>1
    <3>. QED BY <1>1, <1>2, <3>2 DEF OldAt
  <2>. QED BY <1>1, <1>3, <1>4, <2>2, <2>3 DEF AgentFiles, OldKept
<1>5. CASE broken' = TRUE /\ UNCHANGED files
  BY <1>1, <1>3, <1>5 DEF files, AgentFiles, FilesOK, NewOnesIn, OldKept
<1>. QED BY <1>4, <1>5 DEF Revert

LEMMA EndOfSwapFiles ==
    ASSUME AgentFiles, Reverted \/ Verified \/ VerifyFails \/ AgentDies
    PROVE  AgentFiles'
<1>1. AgentOK /\ FilesOK /\ OldKept /\ NewOnesIn /\ UNCHANGED dir /\ job \in JobSet
  BY DEF AgentFiles, Reverted, Verified, VerifyFails, AgentDies, files, AgentOK
<1>2. ASSUME NEW s \in Reports, EndJob(s), UNCHANGED swapCh
      PROVE  AgentOK' /\ backup' \in [Top -> Maybe] /\ phase' = "idle"
  <2>1. /\ phase' = "idle" /\ job' = NoJob /\ backup' = Empty
        /\ report' = [version |-> job.version, state |-> s]
    BY <1>2 DEF EndJob, Says
  <2>2. report' \in ReportSet /\ backup' \in [Top -> Maybe]
    BY <1>1, <2>1, Records, VersionFacts DEF JobSet, Empty
  <2>. QED BY <1>1, <1>2, <2>1, <2>2, Records DEF AgentOK, Phases
<1>3. CASE Reverted
  <2>1. AgentOK' /\ backup' \in [Top -> Maybe] /\ phase' = "idle"
    BY <1>2, <1>3 DEF Reverted, Reports
  <2>2. broken' = broken /\ phase = "revert" /\ job.at > job.moved
    BY <1>3 DEF Reverted
  <2>3. FilesOK' /\ NewOnesIn'
    BY <1>1, <2>1, <2>2 DEF FilesOK, NewOnesIn
  <2>4. \A i \in 1..Len(Entries) : ~(job.at <= i /\ i <= job.moved)
    BY <1>1, <2>2, EntryFacts DEF JobSet
  <2>5. \A v \in Versions : OldAt(v) => OldAt(v)'
    BY <1>1, <2>1, <2>2, <2>4 DEF OldAt
  <2>. QED BY <1>1, <2>1, <2>2, <2>3, <2>5 DEF AgentFiles, OldKept
<1>4. CASE Verified
  <2>1. AgentOK' /\ backup' \in [Top -> Maybe] /\ phase' = "idle"
    BY <1>2, <1>4 DEF Verified, Reports
  <2>2. phase = "verify" /\ broken' = FALSE
    BY <1>4 DEF Verified
  <2>3. FilesOK' /\ NewOnesIn'
    BY <1>1, <2>1, <2>2 DEF FilesOK, NewOnesIn
  <2>4. job.version \in Versions
    BY <1>1, <2>2 DEF AgentOK
  <2>5. \A i \in 1..Len(Entries) : dir'[Entries[i]] = job.version
    BY <1>1, <2>2 DEF NewOnesIn
  <2>6. OldKept'
    BY <2>1, <2>4, <2>5 DEF OldKept, OldAt
  <2>. QED BY <2>1, <2>3, <2>6 DEF AgentFiles
<1>5. CASE VerifyFails
  <2>1. /\ phase = "verify" /\ RollBack(Len(Entries)) /\ UNCHANGED <<report, swapCh, backup, broken>>
    BY <1>5 DEF VerifyFails, files, history
  <2>2. /\ AgentOK' /\ phase' = "revert" /\ job'.version = job.version /\ job'.at = 1
        /\ job'.moved = Len(Entries)
    BY <1>1, <2>1, RollsBack, EntryFacts
  <2>3. FilesOK' /\ NewOnesIn'
    BY <1>1, <2>1, <2>2 DEF FilesOK, NewOnesIn
  <2>4. \A v \in Versions : OldAt(v) => OldAt(v)'
    BY <1>1, <2>1, <2>2, EntryFacts DEF OldAt
  <2>. QED BY <1>1, <2>1, <2>2, <2>3, <2>4 DEF AgentFiles, OldKept
<1>6. CASE AgentDies
  <2>1. /\ phase' = "idle" /\ job' = NoJob /\ report' = NoReport /\ swapCh' = None
        /\ UNCHANGED backup /\ broken' = (broken \/ ~Whole)
    BY <1>6 DEF AgentDies, files
  <2>2. AgentOK' /\ FilesOK' /\ NewOnesIn'
    BY <1>1, <2>1, Records, VersionFacts DEF AgentOK, FilesOK, NewOnesIn, Phases
  <2>3. OldKept'
    <3>1. CASE broken \/ ~Whole
      BY <2>1, <3>1, <1>1 DEF OldKept, FilesOK
    <3>2. CASE Whole
      <4>1. PICK v \in Versions : \A i \in 1..Len(Entries) : dir[Entries[i]] = v
        BY <1>1, <3>2, WholeMeans
      <4>2. OldAt(v)'
        BY <1>1, <2>1, <4>1 DEF OldAt
      <4>. QED BY <4>2 DEF OldKept
    <3>. QED BY <3>1, <3>2
  <2>. QED BY <2>2, <2>3 DEF AgentFiles
<1>. QED BY <1>3, <1>4, <1>5, <1>6

LEMMA AgentFilesKept == IInv /\ [Next]_vars => AgentFiles'
<1>. SUFFICES ASSUME IInv, [Next]_vars PROVE AgentFiles'
  OBVIOUS
<1>1. AgentFiles /\ LinkOK
  BY DEF IInv, AgentFiles
<1>2. CASE ReadFrame \/ StartJob \/ Loaded \/ GiveUp \/ OllamaStarts
  BY <1>1, <1>2, BeforeTheSwap
<1>3. CASE TakeRelease \/ MoveOut \/ MoveIn \/ Revert
  BY <1>1, <1>3, TakeReleaseFiles, MoveOutFiles, MoveInFiles, RevertFiles
<1>4. CASE Reverted \/ Verified \/ VerifyFails \/ AgentDies
  BY <1>1, <1>4, EndOfSwapFiles
<1>5. CASE \E v \in Versions : Release(v)
  <2>1. UNCHANGED <<agentVars, files, broken>>
    BY <1>5 DEF Release
  <2>. QED BY <1>1, <2>1, AgentRests
<1>6. CASE CheckLatest \/ RollOut \/ OrderByHand \/ Ages \/ Beat \/ DrainEnds
  <2>1. UNCHANGED <<agentVars, files, broken>>
    BY <1>6 DEF CheckLatest, RollOut, OrderByHand, SendOrder, Ages, Beat, DrainEnds, history
  <2>. QED BY <1>1, <2>1, AgentRests
<1>7. CASE Choose \/ Begin \/ Finish \/ Lose \/ Hello \/ RouterRestarts \/ Sample \/ UNCHANGED vars
  <2>1. UNCHANGED <<agentVars, files, broken>>
    BY <1>7 DEF Choose, Begin, Finish, Lose, Hello, RouterRestarts, Sample, history, vars
  <2>. QED BY <1>1, <2>1, AgentRests
<1>. QED BY <1>2, <1>3, <1>4, <1>5, <1>6, <1>7 DEF Next

----------------------------------------------------------------------------
(* What runs and what is served *)

LEMMA ServingKept == IInv /\ [Next]_vars => Serving'
<1>. SUFFICES ASSUME IInv, [Next]_vars PROVE Serving'
  OBVIOUS
<1>1. Serving /\ AgentFiles
  BY DEF IInv, AgentFiles
<1>2. CASE UNCHANGED <<phase, job, ollama>> /\ request' \in {"none", "chosen", request}
  BY <1>1, <1>2 DEF Serving
<1>3. CASE CheckLatest \/ RollOut \/ OrderByHand \/ Ages \/ Beat \/ DrainEnds \/ Hello
           \/ Choose \/ Finish \/ Lose \/ RouterRestarts \/ Sample \/ Revert \/ UNCHANGED vars
  BY <1>1, <1>2, <1>3
     DEF CheckLatest, RollOut, OrderByHand, SendOrder, Ages, Beat, DrainEnds, Choose, Finish,
         Lose, Hello, RouterRestarts, Sample, Revert, agentVars, vars, Ended, Serving
<1>4. CASE \E v \in Versions : Release(v)
  BY <1>2, <1>4 DEF Release, agentVars
<1>5. CASE Begin
  BY <1>1, <1>5 DEF Begin, Serving, agentVars
<1>6. CASE ReadFrame \/ StartJob \/ Loaded
  BY <1>1, <1>6 DEF ReadFrame, StartJob, Loaded, Serving
<1>7. CASE GiveUp \/ Reverted \/ Verified
  BY <1>1, <1>7 DEF GiveUp, Reverted, Verified, EndJob, Serving
<1>8. CASE TakeRelease \/ AgentDies
  BY <1>1, <1>8, VersionFacts DEF TakeRelease, AgentDies, Ended, Serving
<1>9. CASE MoveOut
  BY <1>1, <1>9 DEF MoveOut, RollBack, Serving
<1>10. CASE MoveIn
  BY <1>1, <1>10, VersionFacts DEF MoveIn, RollBack, Serving
<1>11. CASE VerifyFails
  BY <1>1, <1>11, VersionFacts DEF VerifyFails, RollBack, Ended, Serving
<1>12. CASE OllamaStarts
  <2>1. /\ phase \notin {"out", "in", "revert"} /\ Whole /\ ollama' = dir["exe"]
        /\ UNCHANGED <<phase, job, request>> /\ ollama' # None
    BY <1>12 DEF OllamaStarts, Installed, agentVars
  <2>2. dir["exe"] \in Maybe
    BY <1>1, EntryFacts DEF AgentFiles, FilesOK
  <2>3. phase = "verify" => dir["exe"] = job.version
    <3>1. 1 \in 1..Len(Entries) /\ Entries[1] = "exe"
      BY EntryFacts
    <3>. QED BY <1>1, <3>1 DEF AgentFiles, NewOnesIn
  <2>. QED BY <1>1, <2>1, <2>2, <2>3 DEF Serving
<1>. QED BY <1>3, <1>4, <1>5, <1>6, <1>7, <1>8, <1>9, <1>10, <1>11, <1>12 DEF Next

LEMMA HistoryKept == IInv /\ [Next]_vars => HistoryOK'
<1>. SUFFICES ASSUME IInv, [Next]_vars PROVE HistoryOK'
  OBVIOUS
<1>1. gaveUp \in BOOLEAN /\ faults \in 0..MaxFaults /\ MaxFaults \in Nat
  BY BoundsAssumption DEF IInv, HistoryOK
<1>2. gaveUp' = gaveUp \/ gaveUp' = TRUE \/ gaveUp' = FALSE
  BY DEF Next, vars, history, CheckLatest, RollOut, OrderByHand, SendOrder, Ages, Beat, Release,
         DrainEnds, Choose, Begin, Finish, Lose, Hello, RouterRestarts, ReadFrame, StartJob,
         Loaded, GiveUp, TakeRelease, MoveOut, MoveIn, Revert, Reverted, OllamaStarts, Verified,
         VerifyFails, AgentDies, Sample
<1>3. faults' = faults \/ (faults < MaxFaults /\ faults' = faults + 1)
  BY DEF Next, vars, history, CheckLatest, RollOut, OrderByHand, SendOrder, Ages, Beat, Release,
         DrainEnds, Choose, Begin, Finish, Lose, Hello, RouterRestarts, ReadFrame, StartJob,
         Loaded, GiveUp, TakeRelease, MoveOut, MoveIn, Revert, Reverted, OllamaStarts, Verified,
         VerifyFails, AgentDies, Sample, Fault
<1>4. gaveUp' \in BOOLEAN
  BY <1>1, <1>2
<1>5. faults' \in 0..MaxFaults
  BY <1>1, <1>3
<1>. QED BY <1>4, <1>5 DEF HistoryOK

----------------------------------------------------------------------------
(* Orders, frames and heartbeats *)

\* The order, after a heartbeat; nothing is adopted that the router did not order.
LEMMA BeatOrder ==
    ASSUME IInv, session, beats # <<>>
    PROVE  LET b == Head(beats)
               u == IF b.version = None THEN order ELSE AfterVersion(order, b.version)
           IN  /\ b \in BeatSet /\ u \in OrderSet /\ u.version = order.version
               /\ AfterReport(u, b.report) \in OrderSet
               /\ AfterReport(u, b.report).version = order.version
               /\ Releases(u, b.report) => b.report.version = order.version
                                           /\ order.version # None /\ b.report.version \in Versions
<1>. DEFINE b == Head(beats)
            u == IF b.version = None THEN order ELSE AfterVersion(order, b.version)
<1>1. b \in BeatSet /\ b.report \in ReportSet /\ order \in OrderSet
  <2>1. b \in BeatSet
    BY DEF IInv, LinkOK
  <2>. QED BY <2>1 DEF BeatSet, IInv, RouterOK
<1>2. u \in OrderSet /\ u.version = order.version
  BY <1>1 DEF AfterVersion, OrderSet
<1>3. order.version = None => b.report.state = "none"
  <2>1. 1 \in 1..Len(beats) /\ b = beats[1]
    BY DEF IInv, LinkOK
  <2>. QED BY <2>1 DEF IInv, ReleaseOK, NothingYet
<1>. HIDE DEF b, u
<1>4. Concerns(u, b.report) => b.report.version = order.version /\ order.version # None
  BY <1>2, <1>3 DEF Concerns
<1>5. AfterReport(u, b.report) \in OrderSet
  <2>1. CASE Changes(u, b.report)
    <3>1. b.report.state \in Running \cup {"failed"} /\ b.report.version \in Maybe
      BY <1>1, <2>1 DEF Changes, Concerns, ReportSet, Reports, Running
    <3>. QED BY <2>1, <3>1 DEF AfterReport, OrderSet
  <2>2. CASE ~Changes(u, b.report)
    BY <1>2, <2>2 DEF AfterReport
  <2>. QED BY <2>1, <2>2
<1>6. AfterReport(u, b.report).version = order.version
  <2>1. CASE Changes(u, b.report)
    BY <1>4, <2>1 DEF AfterReport, Changes
  <2>2. CASE ~Changes(u, b.report)
    BY <1>2, <2>2 DEF AfterReport
  <2>. QED BY <2>1, <2>2
<1>7. Releases(u, b.report) => b.report.version = order.version /\ order.version # None
                               /\ b.report.version \in Versions
  BY <1>1, <1>4, VersionFacts DEF Releases, ReportSet
<1>. QED BY <1>1, <1>2, <1>5, <1>6, <1>7 DEF b, u

LEMMA RouterKept == IInv /\ [Next]_vars => RouterOK'
<1>. SUFFICES ASSUME IInv, [Next]_vars PROVE RouterOK'
  OBVIOUS
<1>1. RouterOK /\ LinkOK
  BY DEF IInv
<1>2. CASE UNCHANGED <<registry, nodeVars>>
  BY <1>1, <1>2 DEF RouterOK, registry, nodeVars
<1>3. CASE CheckLatest
  <2>1. latest' \in Versions
    BY <1>1, <1>3, BoundsAssumption DEF CheckLatest, RouterOK, Versions
  <2>. QED BY <1>1, <1>3, <2>1 DEF CheckLatest, RouterOK, nodeVars
<1>4. CASE RollOut \/ OrderByHand
  <2>1. /\ order' = [version |-> latest, state |-> "requested", aged |-> FALSE]
        /\ UNCHANGED <<known, latest, nodeVars>>
    BY <1>4 DEF RollOut, OrderByHand, SendOrder
  <2>2. order' \in OrderSet
    BY <1>1, <2>1, VersionFacts DEF RouterOK, OrderSet, Running
  <2>. QED BY <1>1, <2>1, <2>2 DEF RouterOK, nodeVars
<1>5. CASE Ages
  BY <1>1, <1>5 DEF Ages, RouterOK, OrderSet, nodeVars
<1>6. CASE Beat
  <2>. DEFINE b == Head(beats)
              u == IF b.version = None THEN order ELSE AfterVersion(order, b.version)
  <2>1. /\ session /\ beats # <<>> /\ order' = AfterReport(u, b.report)
        /\ known' = IF b.version = None THEN known ELSE b.version
        /\ pending' = IF Releases(u, b.report) THEN b.report.version ELSE pending
        /\ releases' = IF Releases(u, b.report) THEN releases \cup {b.report.version} ELSE releases
        /\ drain' \in BOOLEAN /\ UNCHANGED latest
    BY <1>6 DEF Beat
  <2>2. /\ b \in BeatSet /\ AfterReport(u, b.report) \in OrderSet
        /\ Releases(u, b.report) => b.report.version \in Versions
    BY <2>1, BeatOrder
  <2>. HIDE DEF u, b
  <2>3. b.version \in Maybe
    BY <2>2 DEF BeatSet
  <2>. QED BY <1>1, <2>1, <2>2, <2>3, VersionFacts DEF RouterOK
<1>7. CASE \E v \in Versions : Release(v)
  <2>1. PICK v \in Versions : Release(v)
    BY <1>7
  <2>2. /\ order' \in {order, [order EXCEPT !.state = "failed", !.aged = FALSE]}
        /\ drain' \in {drain, FALSE} /\ pending' = None /\ releases' = releases \ {v}
        /\ UNCHANGED <<known, latest>>
    BY <2>1 DEF Release
  <2>. QED BY <1>1, <2>2, VersionFacts DEF RouterOK, OrderSet
<1>8. CASE DrainEnds \/ Hello \/ RouterRestarts
  BY <1>1, <1>8, VersionFacts DEF DrainEnds, Hello, RouterRestarts, RouterOK, registry
<1>9. CASE Choose \/ Begin \/ Finish \/ Lose \/ ReadFrame \/ StartJob \/ Loaded \/ GiveUp
           \/ TakeRelease \/ MoveOut \/ MoveIn \/ Revert \/ Reverted \/ OllamaStarts \/ Verified
           \/ VerifyFails \/ AgentDies \/ Sample \/ UNCHANGED vars
  BY <1>2, <1>9
     DEF Choose, Begin, Finish, Lose, ReadFrame, StartJob, Loaded, GiveUp, TakeRelease, MoveOut,
         MoveIn, Revert, Reverted, OllamaStarts, Verified, VerifyFails, AgentDies, Sample, vars
<1>. QED BY <1>3, <1>4, <1>5, <1>6, <1>7, <1>8, <1>9 DEF Next

LEMMA LinkKept == IInv /\ [Next]_vars => LinkOK'
<1>. SUFFICES ASSUME IInv, [Next]_vars PROVE LinkOK'
  OBVIOUS
<1>1. RouterOK /\ LinkOK /\ AgentOK /\ Serving
  BY DEF IInv
<1>2. CASE UNCHANGED link
  BY <1>1, <1>2 DEF LinkOK, link
<1>3. CASE RollOut \/ OrderByHand
  <2>. DEFINE m == [kind |-> "order", version |-> latest]
  <2>1. m \in FrameSet /\ down' = Append(down, m) /\ UNCHANGED <<session, beats>>
    BY <1>1, <1>3 DEF RollOut, OrderByHand, SendOrder, RouterOK, FrameSet
  <2>. HIDE DEF m
  <2>. QED BY <1>1, <2>1 DEF LinkOK
<1>4. CASE Beat
  <2>1. beats # <<>> /\ beats' = Tail(beats) /\ UNCHANGED <<session, down>>
    BY <1>4 DEF Beat
  <2>. QED BY <1>1, <2>1 DEF LinkOK
<1>5. CASE \E v \in Versions : Release(v)
  <2>1. PICK v \in Versions : Release(v)
    BY <1>5
  <2>. DEFINE m == [kind |-> "swap", version |-> v]
  <2>2. m \in FrameSet /\ UNCHANGED <<session, beats>> /\ (down' = down \/ down' = Append(down, m))
    BY <2>1 DEF Release, FrameSet
  <2>. HIDE DEF m
  <2>. QED BY <1>1, <2>2 DEF LinkOK
<1>6. CASE Lose \/ RouterRestarts \/ AgentDies
  <2>1. session' = FALSE /\ down' = <<>> /\ beats' = <<>>
    BY <1>6 DEF Lose, RouterRestarts, AgentDies
  <2>2. <<>> \in Seq(FrameSet) /\ <<>> \in Seq(BeatSet)
    OBVIOUS
  <2>. QED BY <2>1, <2>2 DEF LinkOK
<1>7. CASE Hello
  BY <1>1, <1>7 DEF Hello, LinkOK
<1>8. CASE ReadFrame
  <2>1. down # <<>> /\ down' = Tail(down) /\ UNCHANGED <<session, beats>>
    BY <1>8 DEF ReadFrame
  <2>. QED BY <1>1, <2>1 DEF LinkOK
<1>9. CASE Sample
  <2>. DEFINE b == [version |-> ollama, report |-> report]
  <2>1. b \in BeatSet /\ beats' = <<b>> /\ UNCHANGED <<session, down>>
    BY <1>1, <1>9 DEF Sample, BeatSet, AgentOK, Serving
  <2>. HIDE DEF b
  <2>. QED BY <1>1, <2>1 DEF LinkOK
<1>10. CASE CheckLatest \/ Ages \/ DrainEnds \/ Choose \/ Begin \/ Finish \/ StartJob \/ Loaded
            \/ GiveUp \/ TakeRelease \/ MoveOut \/ MoveIn \/ Revert \/ Reverted \/ OllamaStarts
            \/ Verified \/ VerifyFails \/ UNCHANGED vars
  BY <1>2, <1>10
     DEF CheckLatest, Ages, DrainEnds, Choose, Begin, Finish, StartJob, Loaded, GiveUp,
         TakeRelease, MoveOut, MoveIn, Revert, Reverted, OllamaStarts, Verified, VerifyFails, vars
<1>. QED BY <1>3, <1>4, <1>5, <1>6, <1>7, <1>8, <1>9, <1>10 DEF Next

----------------------------------------------------------------------------
(* Releases *)

LEMMA SwapFrames ==
    ASSUME LinkOK
    PROVE  /\ UNCHANGED down => SwapSent' = SwapSent
           /\ down' = <<>> => ~SwapSent'
           /\ \A v \in Versions : down' = Append(down, [kind |-> "order", version |-> v]) =>
                  (SwapSent' => SwapSent)
           /\ down # <<>> /\ down' = Tail(down) =>
                  (SwapSent' => SwapSent) /\ (Head(down).kind = "swap" => SwapSent)
<1>1. down \in Seq(FrameSet)
  BY DEF LinkOK
<1>2. UNCHANGED down => SwapSent' = SwapSent
  BY DEF SwapSent
<1>3. down' = <<>> => ~SwapSent'
  BY DEF SwapSent
<1>4. ASSUME NEW v \in Versions, down' = Append(down, [kind |-> "order", version |-> v]), SwapSent'
      PROVE  SwapSent
  <2>. DEFINE m == [kind |-> "order", version |-> v]
  <2>1. m \in FrameSet /\ m.kind = "order" /\ down' = Append(down, m)
    BY <1>4 DEF FrameSet
  <2>. HIDE DEF m
  <2>2. PICK i \in 1..Len(down') : down'[i].kind = "swap"
    BY <1>4 DEF SwapSent
  <2>3. i \in 1..Len(down) /\ down[i] = down'[i]
    BY <1>1, <2>1, <2>2
  <2>. QED BY <2>2, <2>3 DEF SwapSent
<1>5. ASSUME down # <<>>, down' = Tail(down)
      PROVE  (SwapSent' => SwapSent) /\ (Head(down).kind = "swap" => SwapSent)
  <2>1. ASSUME NEW i \in 1..Len(down'), down'[i].kind = "swap"
        PROVE  SwapSent
    <3>1. i + 1 \in 1..Len(down) /\ down'[i] = down[i + 1]
      BY <1>1, <1>5
    <3>. QED BY <2>1, <3>1 DEF SwapSent
  <2>2. 1 \in 1..Len(down) /\ Head(down) = down[1]
    BY <1>1, <1>5
  <2>3. SwapSent' => SwapSent
    BY <2>1 DEF SwapSent
  <2>4. Head(down).kind = "swap" => SwapSent
    BY <2>2 DEF SwapSent
  <2>. QED BY <2>3, <2>4
<1>. QED BY <1>2, <1>3, <1>4, <1>5

\* No release starts or is sent, and who must wait or is excused still is.
LEMMA NoNewRelease ==
    ASSUME ReleaseOK, excuse' \in {"none", "late", "lifted"}, NothingYet', NoneLater',
           order'.version \in releases' => order.version \in releases,
           Sent' => Sent,
           Sent => excuse' = excuse \/ excuse' = "lifted",
           order.version \in releases \/ Sent =>
               \/ drain' = drain /\ excuse' = excuse
               \/ drain' = TRUE
               \/ excuse' = "lifted",
           request' # "none" /\ Sent => request # "none" \/ excuse = "lifted"
    PROVE  ReleaseOK'
<1>1. Drained'
  BY DEF ReleaseOK, Drained
<1>2. Spared'
  BY DEF ReleaseOK, Spared
<1>. QED BY <1>1, <1>2 DEF ReleaseOK

LEMMA AgentReleases ==
    ASSUME IInv, \/ StartJob \/ Loaded \/ GiveUp \/ TakeRelease \/ MoveOut \/ MoveIn \/ Revert
                 \/ Reverted \/ OllamaStarts \/ Verified \/ VerifyFails \/ AgentDies
    PROVE  ReleaseOK'
<1>1. /\ ReleaseOK /\ LinkOK /\ Serving /\ AgentOK
      /\ UNCHANGED <<order, latest, releases, drain>>
  BY DEF IInv, StartJob, Loaded, GiveUp, TakeRelease, MoveOut, MoveIn, Revert, Reverted,
         OllamaStarts, Verified, VerifyFails, AgentDies, registry, nodeVars
<1>2. NoneLater'
  BY <1>1 DEF ReleaseOK, NoneLater
<1>3. (down' = down \/ down' = <<>>) /\ (beats' = beats \/ beats' = <<>>)
  BY DEF StartJob, Loaded, GiveUp, TakeRelease, MoveOut, MoveIn, Revert, Reverted,
         OllamaStarts, Verified, VerifyFails, AgentDies, link
<1>4. swapCh' = swapCh \/ swapCh' = None
  BY DEF StartJob, Loaded, GiveUp, TakeRelease, MoveOut, MoveIn, Revert, Reverted,
         OllamaStarts, Verified, VerifyFails, AgentDies, agentVars
<1>5. Sent' => Sent
  BY <1>1, <1>3, <1>4, SwapFrames DEF Sent
<1>6. NothingYet'
  <2>1. order.version = None => phase = "idle" /\ report.state = "none"
    BY <1>1 DEF ReleaseOK, NothingYet
  <2>2. phase = "idle" => phase' = "idle" /\ (report' = report \/ report' = NoReport)
    BY DEF StartJob, Loaded, GiveUp, TakeRelease, MoveOut, MoveIn, Revert, Reverted,
         OllamaStarts, Verified, VerifyFails, AgentDies, agentVars
  <2>. QED BY <1>1, <1>3, <2>1, <2>2, Records DEF ReleaseOK, NothingYet
<1>7. excuse' = excuse \/ (excuse' = "none" /\ ~ReleaseIsDue)
  BY DEF StartJob, Loaded, GiveUp, TakeRelease, MoveOut, MoveIn, Revert, Reverted, EndJob,
         OllamaStarts, Verified, VerifyFails, AgentDies, history
<1>8. order.version \in releases \/ Sent => ReleaseIsDue
  BY DEF Sent, ReleaseIsDue
<1>9. request' = request \/ request' = "none"
  BY DEF StartJob, Loaded, GiveUp, TakeRelease, MoveOut, MoveIn, Revert, Reverted, Ended,
         OllamaStarts, Verified, VerifyFails, AgentDies
<1>10. excuse' \in {"none", "late", "lifted"}
  BY <1>1, <1>7 DEF ReleaseOK
<1>. QED BY <1>1, <1>2, <1>5, <1>6, <1>7, <1>8, <1>9, <1>10, NoNewRelease

LEMMA RequestReleases ==
    ASSUME IInv, CheckLatest \/ Choose \/ Begin \/ Finish \/ Sample
    PROVE  ReleaseOK'
<1>1. /\ ReleaseOK /\ LinkOK /\ Serving
      /\ UNCHANGED <<order, releases, drain, down, swapCh, phase, report>>
  BY DEF IInv, CheckLatest, Choose, Begin, Finish, Sample, registry, nodeVars, link, agentVars
<1>2. NoneLater'
  <2>1. latest' = latest \/ latest' = latest + 1
    BY DEF CheckLatest, Choose, Begin, Finish, Sample, registry
  <2>2. latest \in Nat /\ (order.version # None => order.version \in Nat)
    BY VersionFacts DEF IInv, RouterOK, OrderSet, Versions
  <2>. QED BY <1>1, <2>1, <2>2 DEF ReleaseOK, NoneLater
<1>3. NothingYet'
  <2>1. beats' = beats \/ beats' = <<[version |-> ollama, report |-> report]>>
    BY DEF CheckLatest, Choose, Begin, Finish, Sample, link
  <2>2. ASSUME order.version = None
        PROVE  \A i \in 1..Len(beats') : beats'[i].report.state = "none"
    <3>1. report.state = "none" /\ \A i \in 1..Len(beats) : beats[i].report.state = "none"
      BY <1>1, <2>2 DEF ReleaseOK, NothingYet
    <3>. DEFINE b == [version |-> ollama, report |-> report]
    <3>2. b.report.state = "none" /\ (beats' = beats \/ beats' = <<b>>)
      BY <2>1, <3>1
    <3>. HIDE DEF b
    <3>. QED BY <3>1, <3>2
  <2>. QED BY <1>1, <2>2 DEF ReleaseOK, NothingYet
<1>4. Sent' => Sent
  BY <1>1, SwapFrames DEF Sent
<1>5. /\ excuse' = excuse \/ (Finish /\ excuse = "late" /\ excuse' = "none" /\ request' = "none")
      /\ request' # "none" => request # "none" \/ ~drain
  BY DEF CheckLatest, Choose, Begin, Finish, Sample, history
<1>6. Drained'
  BY <1>1, <1>4, <1>5 DEF ReleaseOK, Drained
<1>7. Spared'
  BY <1>1, <1>4, <1>5 DEF ReleaseOK, Spared, Drained
<1>8. excuse' \in {"none", "late", "lifted"}
  BY <1>1, <1>5 DEF ReleaseOK
<1>. QED BY <1>2, <1>3, <1>6, <1>7, <1>8 DEF ReleaseOK

LEMMA SessionReleases ==
    ASSUME IInv, DrainEnds \/ Lose \/ Hello \/ RouterRestarts
    PROVE  ReleaseOK'
<1>1. /\ ReleaseOK /\ LinkOK /\ Serving
      /\ UNCHANGED <<order, latest, swapCh, phase, report>>
      /\ releases' = releases \/ releases' = {}
      /\ down' = down \/ down' = <<>>
      /\ beats' = beats \/ beats' = <<>>
      /\ request' = request \/ request' = "none"
  <2>1. ReleaseOK /\ LinkOK /\ Serving
    BY DEF IInv
  <2>2. CASE DrainEnds
    BY <2>1, <2>2 DEF DrainEnds, registry, link, agentVars
  <2>3. CASE Lose
    BY <2>1, <2>3 DEF Lose, registry, nodeVars, agentVars, Ended
  <2>4. CASE Hello
    BY <2>1, <2>4 DEF Hello, registry, agentVars
  <2>5. CASE RouterRestarts
    BY <2>1, <2>5 DEF RouterRestarts, registry, agentVars
  <2>. QED BY <2>2, <2>3, <2>4, <2>5
<1>2. NoneLater' /\ NothingYet'
  BY <1>1 DEF ReleaseOK, NoneLater, NothingYet
<1>3. Sent' => Sent
  BY <1>1, SwapFrames DEF Sent
<1>4. \/ excuse' = excuse /\ drain' = drain
      \/ excuse' = IF drain \/ ReleaseIsDue \/ SwapUnderWay THEN "lifted" ELSE excuse
  BY DEF DrainEnds, Lose, Hello, RouterRestarts, Excused, nodeVars
<1>5. order.version \in releases \/ Sent => ReleaseIsDue
  BY DEF Sent, ReleaseIsDue
<1>6. excuse' \in {"none", "late", "lifted"}
  BY <1>1, <1>4 DEF ReleaseOK
<1>. QED BY <1>1, <1>2, <1>3, <1>4, <1>5, <1>6, NoNewRelease

LEMMA OrderReleases ==
    ASSUME IInv, RollOut \/ OrderByHand \/ Ages
    PROVE  ReleaseOK'
<1>1. /\ ReleaseOK /\ LinkOK /\ RouterOK
      /\ UNCHANGED <<latest, releases, drain, swapCh, phase, report, beats, excuse, request>>
  BY DEF IInv, RollOut, OrderByHand, SendOrder, Ages, nodeVars, link, agentVars, history
<1>2. CASE Ages
  <2>1. UNCHANGED down /\ order' = [order EXCEPT !.aged = TRUE]
    BY <1>2 DEF Ages, link
  <2>2. order'.version = order.version
    BY <1>1, <2>1 DEF RouterOK, OrderSet
  <2>3. NoneLater' /\ NothingYet'
    BY <1>1, <2>1, <2>2 DEF ReleaseOK, NoneLater, NothingYet
  <2>4. Sent' => Sent
    BY <1>1, <2>1, SwapFrames DEF Sent
  <2>5. excuse' \in {"none", "late", "lifted"}
    BY <1>1 DEF ReleaseOK
  <2>. QED BY <1>1, <2>2, <2>3, <2>4, <2>5, NoNewRelease
<1>3. CASE RollOut \/ OrderByHand
  <2>1. /\ order' = [version |-> latest, state |-> "requested", aged |-> FALSE]
        /\ down' = Append(down, [kind |-> "order", version |-> latest])
    BY <1>3 DEF RollOut, OrderByHand, SendOrder
  <2>2. order'.version = latest /\ latest \in Versions /\ latest # None
    BY <1>1, <2>1, VersionFacts DEF RouterOK
  <2>3. /\ latest \in Nat /\ releases \subseteq Nat
        /\ order.version # None => order.version \in Nat /\ order.version <= latest
                                   /\ \A v \in releases : v <= order.version
    BY <1>1, VersionFacts DEF RouterOK, OrderSet, Versions, ReleaseOK, NoneLater
  <2>4. order.version = None => releases = {}
    BY <1>1 DEF ReleaseOK, NothingYet
  <2>5. NothingYet'
    BY <2>2 DEF NothingYet
  <2>6. NoneLater'
    BY <1>1, <2>2, <2>3, <2>4 DEF NoneLater
  <2>7. latest \in releases => latest = order.version
    BY <2>3, <2>4
  <2>8. Sent' => Sent
    BY <1>1, <2>1, <2>2, SwapFrames DEF Sent
  <2>9. excuse' \in {"none", "late", "lifted"}
    BY <1>1 DEF ReleaseOK
  <2>. QED BY <1>1, <2>2, <2>5, <2>6, <2>7, <2>8, <2>9, NoNewRelease
<1>. QED BY <1>2, <1>3

LEMMA FrameReleases ==
    ASSUME IInv, ReadFrame
    PROVE  ReleaseOK'
<1>. DEFINE m == Head(down)
<1>1. /\ ReleaseOK /\ LinkOK /\ down # <<>> /\ down' = Tail(down)
      /\ UNCHANGED <<order, latest, releases, drain, report, beats, excuse, request>>
      /\ (swapCh' = swapCh \/ m.kind = "swap")
  BY DEF IInv, ReadFrame, registry, nodeVars, history
<1>2. order.version # None
  BY <1>1 DEF ReleaseOK, NothingYet
<1>3. NoneLater' /\ NothingYet'
  BY <1>1, <1>2 DEF ReleaseOK, NoneLater, NothingYet
<1>4. Sent' => Sent
  BY <1>1, SwapFrames DEF Sent
<1>5. excuse' \in {"none", "late", "lifted"}
  BY <1>1 DEF ReleaseOK
<1>. QED BY <1>1, <1>3, <1>4, <1>5, NoNewRelease

LEMMA BeatReleases ==
    ASSUME IInv, Beat
    PROVE  ReleaseOK'
<1>. DEFINE b == Head(beats)
            u == IF b.version = None THEN order ELSE AfterVersion(order, b.version)
            starts == Releases(u, b.report)
<1>1. /\ ReleaseOK /\ LinkOK /\ session /\ beats # <<>> /\ beats' = Tail(beats)
      /\ order' = AfterReport(u, b.report)
      /\ releases' = IF starts THEN releases \cup {b.report.version} ELSE releases
      /\ starts => drain' = TRUE
      /\ excuse' = IF ReleaseIsDue /\ drain /\ ~drain' THEN "lifted"
                   ELSE IF starts /\ ~ReleaseIsDue THEN "none" ELSE excuse
      /\ UNCHANGED <<latest, down, swapCh, phase, report, request>>
  BY DEF IInv, Beat, agentVars
<1>2. drain' \in BOOLEAN /\ drain \in BOOLEAN
  BY DEF Beat, IInv, RouterOK
<1>3. /\ order'.version = order.version
      /\ starts => b.report.version = order.version /\ order.version # None
                   /\ b.report.version \in Versions
  BY <1>1, BeatOrder
<1>. HIDE DEF b, u, starts
<1>4. order.version \in Versions => order.version <= order.version
  BY DEF Versions
<1>5. NoneLater'
  BY <1>1, <1>3, <1>4 DEF ReleaseOK, NoneLater
<1>6. NothingYet'
  <2>1. ASSUME order.version = None
        PROVE  \A i \in 1..Len(beats') : beats'[i].report.state = "none"
    <3>1. \A i \in 1..Len(beats) : beats[i].report.state = "none"
      BY <1>1, <2>1 DEF ReleaseOK, NothingYet
    <3>2. beats \in Seq(BeatSet)
      BY <1>1 DEF LinkOK
    <3>3. \A i \in 1..Len(beats') : i + 1 \in 1..Len(beats) /\ beats'[i] = beats[i + 1]
      BY <1>1, <3>2
    <3>. QED BY <3>1, <3>3
  <2>. QED BY <1>1, <1>3, <2>1 DEF ReleaseOK, NothingYet
<1>7. Sent' = Sent
  BY <1>1, SwapFrames DEF Sent
<1>8. Drained'
  <2>1. CASE starts
    BY <1>1, <2>1 DEF Drained
  <2>2. CASE ~starts
    <3>1. order.version \in releases \/ Sent => ReleaseIsDue
      BY DEF Sent, ReleaseIsDue
    <3>. QED BY <1>1, <1>2, <1>3, <1>7, <2>2, <3>1 DEF ReleaseOK, Drained
  <2>. QED BY <2>1, <2>2
<1>9. Spared'
  <2>1. Sent => ReleaseIsDue
    BY DEF Sent, ReleaseIsDue
  <2>. QED BY <1>1, <1>7, <2>1 DEF ReleaseOK, Spared
<1>10. excuse' \in {"none", "late", "lifted"}
  BY <1>1 DEF ReleaseOK
<1>. QED BY <1>5, <1>6, <1>8, <1>9, <1>10 DEF ReleaseOK

LEMMA ReleaseReleases ==
    ASSUME IInv, NEW v \in Versions, Release(v)
    PROVE  ReleaseOK'
<1>1. /\ ReleaseOK /\ LinkOK /\ RouterOK /\ Serving
      /\ v \in releases /\ releases' = releases \ {v}
      /\ NodeBusy => ~SwapUnderWay
      /\ UNCHANGED <<latest, beats, swapCh, phase, report, request>>
  BY DEF IInv, Release, agentVars
<1>2. order.version # None
  BY <1>1 DEF ReleaseOK, NothingYet
<1>3. CASE UNCHANGED <<order, drain, down, excuse>>
  <2>1. NoneLater' /\ NothingYet'
    BY <1>1, <1>2, <1>3 DEF ReleaseOK, NoneLater, NothingYet
  <2>2. Sent' => Sent
    BY <1>1, <1>3, SwapFrames DEF Sent
  <2>3. excuse' \in {"none", "late", "lifted"}
    BY <1>1, <1>3 DEF ReleaseOK
  <2>. QED BY <1>1, <1>3, <2>1, <2>2, <2>3, NoNewRelease
<1>4. CASE /\ NodeBusy /\ order.version = v
           /\ order' = [order EXCEPT !.state = "failed", !.aged = FALSE]
           /\ drain' = FALSE /\ UNCHANGED down
           /\ excuse' = IF swapCh # None THEN "lifted" ELSE excuse
  <2>1. order'.version = order.version
    BY <1>1, <1>4 DEF RouterOK, OrderSet
  <2>2. NoneLater' /\ NothingYet'
    BY <1>1, <1>2, <2>1 DEF ReleaseOK, NoneLater, NothingYet
  <2>3. order'.version \notin releases'
    BY <1>1, <1>4, <2>1
  <2>4. ~SwapSent
    BY <1>1, <1>4 DEF SwapUnderWay
  <2>5. Sent' => Sent /\ swapCh # None
    BY <1>1, <1>4, <2>4, SwapFrames DEF Sent
  <2>6. Drained' /\ Spared'
    BY <1>1, <1>4, <2>3, <2>5 DEF Drained, Spared
  <2>7. excuse' \in {"none", "late", "lifted"}
    BY <1>1, <1>4 DEF ReleaseOK
  <2>. QED BY <2>2, <2>6, <2>7 DEF ReleaseOK
<1>5. CASE /\ ~NodeBusy /\ order.version = v /\ UNCHANGED <<order, drain>>
           /\ excuse' = IF excuse = "lifted" /\ ~drain THEN "lifted"
                        ELSE IF request = "chosen" THEN "late" ELSE "none"
  <2>1. NoneLater' /\ NothingYet'
    BY <1>1, <1>2, <1>5 DEF ReleaseOK, NoneLater, NothingYet
  <2>2. drain \/ excuse = "lifted"
    BY <1>1, <1>5 DEF ReleaseOK, Drained
  <2>3. Drained'
    BY <1>5, <2>2 DEF Drained
  <2>4. Spared'
    BY <1>1, <1>5 DEF Spared, NodeBusy, Serving
  <2>. QED BY <1>5, <2>1, <2>3, <2>4 DEF ReleaseOK
<1>. QED BY <1>3, <1>4, <1>5 DEF Release

LEMMA ReleasesKept == IInv /\ [Next]_vars => ReleaseOK'
<1>. SUFFICES ASSUME IInv, [Next]_vars PROVE ReleaseOK'
  OBVIOUS
<1>1. CASE UNCHANGED vars
  BY <1>1 DEF vars, registry, nodeVars, link, agentVars, history, IInv, ReleaseOK, NothingYet,
              NoneLater, Drained, Spared, Sent, SwapSent
<1>. QED BY <1>1, AgentReleases, RequestReleases, SessionReleases, OrderReleases, FrameReleases,
            BeatReleases, ReleaseReleases DEF Next

----------------------------------------------------------------------------
(* The theorems *)

\* The invariant that carries all the others.
THEOREM Invariance == Spec => []IInv
<1>1. IInv /\ [Next]_vars => IInv'
  BY RouterKept, LinkKept, AgentFilesKept, HistoryKept, ServingKept, ReleasesKept
     DEF IInv, AgentFiles
<1>. QED BY <1>1, Initially, PTL DEF Spec

\* What both sides and the link between them keep.
THEOREM TypeCorrect == Spec => []TypeOK
<1>1. IInv => TypeOK
  BY DEF IInv, RouterOK, LinkOK, AgentOK, FilesOK, HistoryOK, Serving, ReleaseOK, TypeOK,
         OrderSet, FrameSet, BeatSet, ReportSet, JobSet
<1>. QED BY <1>1, Invariance, PTL

\* swapTop and rollbackTop: wherever a rename fails and the swap is given up, the
\* installation is of one version again.
THEOREM InstallationStaysWhole == Spec => []InstallationIsWhole
<1>1. ASSUME IInv, phase \notin {"out", "in", "revert"}, ~broken
      PROVE  Whole
  <2>1. AgentOK /\ FilesOK /\ NewOnesIn /\ OldKept
    BY <1>1 DEF IInv
  <2>2. CASE phase = "verify"
    BY <2>1, <2>2, WholeMeans DEF AgentOK, NewOnesIn
  <2>3. CASE phase # "verify"
    <3>1. PICK v \in Versions : OldAt(v)
      BY <1>1, <2>1 DEF OldKept
    <3>. QED BY <1>1, <2>1, <2>3, <3>1, WholeMeans DEF OldAt
  <2>. QED BY <2>2, <2>3
<1>2. IInv => InstallationIsWhole
  BY <1>1 DEF InstallationIsWhole, IInv, FilesOK
<1>. QED BY <1>2, Invariance, PTL

\* release_swap: what the agent stops Ollama for has been drained, and only a request
\* that is excused is lost.
THEOREM RequestsAreSpared == Spec => SwapSparesRequests
<1>. DEFINE Stops == phase # phase' /\ phase' \in {"out", "revert"} /\ phase # "in"
<1>1. ASSUME IInv, [Next]_vars, Stops, request = "running"
      PROVE  excuse # "none"
  <2>1. Serving /\ ReleaseOK
    BY <1>1 DEF IInv
  <2>2. TakeRelease \/ MoveOut \/ VerifyFails
    BY <1>1 DEF Next, vars, agentVars, CheckLatest, RollOut, OrderByHand, SendOrder, Ages, Beat,
         Release, DrainEnds, Choose, Begin, Finish, Lose, Hello, RouterRestarts, ReadFrame,
         StartJob, Loaded, GiveUp, EndJob, MoveIn, Revert, Reverted, OllamaStarts,
         Verified, AgentDies, Sample
  <2>3. CASE TakeRelease
    BY <1>1, <2>1, <2>3 DEF TakeRelease, ReleaseOK, Spared, Sent
  <2>4. CASE MoveOut
    BY <1>1, <2>1, <2>4 DEF MoveOut, Serving
  <2>5. CASE VerifyFails
    BY <1>1, <2>1, <2>5 DEF VerifyFails, Serving
  <2>. QED BY <2>2, <2>3, <2>4, <2>5
<1>2. IInv /\ [Next]_vars => [Stops => (request = "running" => excuse # "none")]_vars
  BY <1>1
<1>. QED BY <1>2, Invariance, PTL DEF Spec, SwapSparesRequests
=============================================================================
