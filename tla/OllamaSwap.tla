----------------------------- MODULE OllamaSwap -----------------------------
(* The update of the Ollama of one node: the router orders a version, waits
   until the node is empty and releases the swap (router/skirnir_router/
   ollamaupdate.py); the agent loads the files, waits for the release, stops
   Ollama, exchanges the files and rolls back if the new one does not answer
   (agent/ollamaupdate.go).  Between them runs a session that may break
   (registry.py); heartbeats carry the agent's report.  Both sides may restart.

   Versions are numbers; the latest known one grows.  Waiting times are "may be
   over"; `aged` says that the time of a state (1 h of silence of a running
   order, 6 h after a failure) has passed.  One request stands for all: chosen
   for the node, and some awaits later running on it. *)
EXTENDS Naturals, Sequences

CONSTANTS
    MaxVersion,     \* of Ollama (bound)
    MaxFaults       \* lost sessions, restarts, failing renames (bound)

ASSUME BoundsAssumption == MaxVersion \in Nat \ {0} /\ MaxFaults \in Nat

VARIABLES
    order, known, latest,               \* register and ollama-latest.json of the router
    drain, pending, releases,           \* Node.draining_until, .swap_pending; release_swap
    session, down, beats,               \* the tunnel, its frames, a heartbeat on its way
    phase, job, report, swapCh,         \* OllamaUpdater
    dir, backup,                        \* what lies in the installation, staging/old
    ollama,                             \* the version that runs and answers
    request,                            \* of a client
    gaveUp, faults,                     \* bounds: release_swap has given up, faults
    excuse, broken                      \* history for the properties

registry == <<order, known, latest>>
nodeVars == <<drain, pending, releases>>
link == <<session, down, beats>>
agentVars == <<phase, job, report, swapCh>>
files == <<dir, backup>>
history == <<gaveUp, faults, excuse, broken>>
vars == <<registry, nodeVars, link, agentVars, files, ollama, request, history>>

Versions == 0..MaxVersion
None == MaxVersion + 1                  \* no version, no file
Maybe == Versions \cup {None}
Entries == <<"exe", "lib">>             \* the top entries of the archive, in the order of the swap
Top == {Entries[i] : i \in 1..Len(Entries)}
Empty == [e \in Top |-> None]

Running == {"requested", "loading", "ready", "swapping", "applied"}
Reports == {"none", "loading", "ready", "swapping", "applied", "failed"}
NoReport == [version |-> None, state |-> "none"]
\* out, in: swapTop moves entry `at`; revert: rollbackTop does, up to entry `moved`.
Phases == {"idle", "accepted", "loading", "ready", "out", "in", "revert", "verify"}
NoJob == [version |-> None, at |-> 0, moved |-> 0]

TypeOK ==
    /\ order \in [version : Maybe, state : Running \cup {"none", "done", "failed"}, aged : BOOLEAN]
    /\ known \in Versions /\ latest \in Versions
    /\ drain \in BOOLEAN /\ pending \in Maybe /\ releases \subseteq Versions
    /\ session \in BOOLEAN
    /\ down \in Seq([kind : {"order", "swap"}, version : Versions])
    /\ beats \in Seq([version : Maybe, report : [version : Maybe, state : Reports]])
    /\ phase \in Phases /\ job \in [version : Maybe, at : 0..(Len(Entries) + 1), moved : 0..Len(Entries)]
    /\ report \in [version : Maybe, state : Reports] /\ swapCh \in Maybe
    /\ dir \in [Top -> Maybe] /\ backup \in [Top -> Maybe]
    /\ ollama \in Maybe
    /\ request \in {"none", "chosen", "running"}
    /\ gaveUp \in BOOLEAN /\ faults \in 0..MaxFaults
    /\ excuse \in {"none", "late", "lifted"} /\ broken \in BOOLEAN

Whole == \E v \in Versions : \A e \in Top : dir[e] = v
Installed == IF Whole THEN dir["exe"] ELSE None

Init ==
    /\ order = [version |-> None, state |-> "none", aged |-> FALSE]
    /\ known = 0 /\ latest = 0
    /\ drain = FALSE /\ pending = None /\ releases = {}
    /\ session = TRUE /\ down = <<>> /\ beats = <<>>
    /\ phase = "idle" /\ job = NoJob /\ report = NoReport /\ swapCh = None
    /\ dir = [e \in Top |-> 0] /\ backup = Empty
    /\ ollama = 0 /\ request = "none"
    /\ gaveUp = FALSE /\ faults = 0
    /\ excuse = "none" /\ broken = FALSE

\* A release waits, is on its way or lies at the agent.
SwapSent == \E i \in 1..Len(down) : down[i].kind = "swap"
ReleaseIsDue == releases # {} \/ SwapSent \/ swapCh # None

\* A swap that the router has released is over within its waiting times, which
\* are 25 min (the wait of release_swap) and 30 min (the drain).
SwapUnderWay ==
    \/ phase \in {"out", "in", "verify", "revert"}
    \/ phase = "ready" /\ swapCh # None
    \/ SwapSent

Excused == excuse' = IF drain \/ ReleaseIsDue \/ SwapUnderWay THEN "lifted" ELSE excuse

Fault == faults < MaxFaults /\ faults' = faults + 1

----------------------------------------------------------------------------
(* The router: orders *)

\* check_latest: another release.
CheckLatest ==
    /\ latest < MaxVersion /\ latest' = latest + 1
    /\ UNCHANGED <<order, known, nodeVars, link, agentVars, files, ollama, request, history>>

Open(u) == u.state \in Running /\ ~u.aged

\* order_update, its checks without force (a node that is managed).
MayOrder == session /\ known < latest /\ ~Open(order) /\ request # "running"

\* rollout_once in its window: `cur` older, no running order and no fresh failure
\* of this version, the canary clean, the node free and empty.
MayRollOut ==
    /\ known < latest
    /\ order.version = latest => ~Open(order) /\ (order.state = "failed" => order.aged)
    /\ session /\ request # "running" /\ ollama # None

SendOrder ==
    /\ order' = [version |-> latest, state |-> "requested", aged |-> FALSE]
    /\ \A i \in 1..Len(down) : down[i].kind # "order"        \* bound
    /\ down' = Append(down, [kind |-> "order", version |-> latest])
    /\ UNCHANGED <<known, latest, nodeVars, session, beats, agentVars, files, ollama, request, gaveUp, broken>>

RollOut == MayRollOut /\ MayOrder /\ SendOrder /\ UNCHANGED <<faults, excuse>>
OrderByHand == MayOrder /\ SendOrder /\ UNCHANGED <<faults, excuse>>

----------------------------------------------------------------------------
(* The router: what a heartbeat and a poll say *)

\* note_version closes the order of the version that was seen.
Closes(u, v) == u.version = v /\ u.state \notin {"none", "done", "failed"}
AfterVersion(u, v) == IF Closes(u, v) THEN [u EXCEPT !.state = "done", !.aged = FALSE] ELSE u

\* note_report: is a report of interest to order u?
Concerns(u, r) ==
    /\ r.state # "none"
    /\ u.state = "done" => r.state = "failed"
    /\ u.version \in {None, r.version}
Changes(u, r) == Concerns(u, r) /\ r.state # u.state
AfterReport(u, r) ==
    IF Changes(u, r) THEN [version |-> r.version, state |-> r.state, aged |-> FALSE] ELSE u

\* RETRY_S of a failed order; STALL_S of a running one: an hour in which nothing
\* was on its way, no job of its version ran, and the agent, if it is there, had
\* nothing new to say.
Ages ==
    /\ ~order.aged
    /\ \/ order.state = "failed"
       \/ /\ order.state \in Running /\ job.version # order.version
          /\ down = <<>> /\ beats = <<>> /\ (session => ~Changes(order, report))
    /\ order' = [order EXCEPT !.aged = TRUE]
    /\ UNCHANGED <<known, latest, nodeVars, link, agentVars, files, ollama, request, history>>

\* Mutant: only what is new is released.
ReleasesOnce(u, r) == Changes(u, r) /\ r.state = "ready" /\ pending # r.version
\* A "ready" for which no release is under way starts one.
Releases(u, r) == Concerns(u, r) /\ r.state = "ready" /\ pending # r.version

\* apply_heartbeat: first the version, then the report.
Beat ==
    /\ session /\ beats # <<>>
    /\ LET v == Head(beats).version
           r == Head(beats).report
           u == IF v = None THEN order ELSE AfterVersion(order, v)
           starts == Releases(u, r)
       IN  /\ known' = IF v = None THEN known ELSE v
           /\ order' = AfterReport(u, r)
           /\ pending' = IF starts THEN r.version ELSE pending
           /\ releases' = IF starts THEN releases \cup {r.version} ELSE releases
           /\ drain' = \/ starts
                       \/ drain /\ ~(v # None /\ Closes(order, v)) /\ ~(Changes(u, r) /\ r.state = "failed")
          /\ excuse' = IF ReleaseIsDue /\ drain /\ ~drain' THEN "lifted"
                       ELSE IF starts /\ ~ReleaseIsDue THEN "none" ELSE excuse
    /\ beats' = Tail(beats)
    /\ UNCHANGED <<latest, session, down, agentVars, files, ollama, request, gaveUp, faults, broken>>

----------------------------------------------------------------------------
(* The router: release_swap *)

\* Mutant: the wait does not look for requests.
NodeNeverBusy == FALSE
NodeBusy == request = "running"

\* The end of the wait: the node is empty, or 25 min are over (once: the agent
\* waits 30 min in all).  Only an order that is still "ready" is released.
Release(v) ==
    /\ v \in releases
    /\ NodeBusy => ~gaveUp /\ ~SwapUnderWay
    /\ releases' = releases \ {v} /\ pending' = None
    /\ IF order.version # v \/ order.state # "ready"
       THEN UNCHANGED <<order, drain, down, gaveUp, excuse>>
       ELSE IF NodeBusy
       THEN /\ order' = [order EXCEPT !.state = "failed", !.aged = FALSE]
            /\ drain' = FALSE /\ gaveUp' = TRUE
            /\ excuse' = IF swapCh # None THEN "lifted" ELSE excuse
            /\ UNCHANGED down
       ELSE /\ IF session
               THEN /\ ~SwapSent                 \* bound
                    /\ down' = Append(down, [kind |-> "swap", version |-> v])
                    /\ excuse' = IF excuse = "lifted" /\ ~drain THEN "lifted"
                                 ELSE IF request = "chosen" THEN "late" ELSE "none"
               ELSE UNCHANGED <<down, excuse>>
            /\ UNCHANGED <<order, drain, gaveUp>>
    /\ UNCHANGED <<known, latest, session, beats, agentVars, files, ollama, request, faults, broken>>

\* SWAP_DRAIN_S, from the start of a wait that is shorter.
DrainEnds ==
    /\ drain /\ releases = {} /\ ~SwapUnderWay
    /\ drain' = FALSE /\ Excused
    /\ UNCHANGED <<registry, pending, releases, link, agentVars, files, ollama, request, gaveUp, faults, broken>>

----------------------------------------------------------------------------
(* Requests, the session, a restart of the router *)

\* candidates_for: not a node that is draining or gone.
Choose ==
    /\ request = "none" /\ session /\ ~drain
    /\ request' = "chosen"
    /\ UNCHANGED <<registry, nodeVars, link, agentVars, files, ollama, history>>

\* nreq: an attempt begins; without a session or an Ollama it fails at once.
Begin ==
    /\ request = "chosen"
    /\ request' = IF session /\ ollama # None THEN "running" ELSE "none"
    /\ UNCHANGED <<registry, nodeVars, link, agentVars, files, ollama, history>>

Finish ==
    /\ request = "running" /\ request' = "none"
    /\ excuse' = IF excuse = "late" THEN "none" ELSE excuse
    /\ UNCHANGED <<registry, nodeVars, link, agentVars, files, ollama, gaveUp, faults, broken>>

Ended == IF request = "running" THEN "none" ELSE request

Lose ==
    /\ session /\ Fault
    /\ session' = FALSE /\ down' = <<>> /\ beats' = <<>> /\ request' = Ended
    /\ UNCHANGED <<registry, nodeVars, agentVars, files, ollama, gaveUp, excuse, broken>>

\* upsert_hello with both note_hello: the drain is lifted.
Hello ==
    /\ ~session /\ session' = TRUE
    /\ drain' = FALSE /\ Excused
    /\ UNCHANGED <<registry, pending, releases, down, beats, agentVars, files, ollama, request, gaveUp, faults, broken>>

\* The register and ollama-latest.json are on disk; nodes and their coroutines are not.
RouterRestarts ==
    /\ Fault
    /\ drain' = FALSE /\ Excused /\ pending' = None /\ releases' = {}
    /\ session' = FALSE /\ down' = <<>> /\ beats' = <<>> /\ request' = "none"
    /\ UNCHANGED <<registry, agentVars, files, ollama, gaveUp, broken>>

----------------------------------------------------------------------------
(* The agent: orders and releases *)

ReadFrame ==
    /\ down # <<>> /\ down' = Tail(down)
    /\ LET m == Head(down) IN
       \/ /\ m.kind = "swap"             \* Swap: a channel of capacity one
          /\ swapCh' = IF swapCh = None THEN m.version ELSE swapCh
          /\ UNCHANGED <<phase, job>>
       \/ /\ m.kind = "order" /\ phase = "idle"
          /\ phase' = "accepted" /\ job' = [NoJob EXCEPT !.version = m.version]
          /\ UNCHANGED swapCh
       \/ /\ m.kind = "order" /\ phase # "idle"    \* dropped, one is running
          /\ UNCHANGED <<phase, job, swapCh>>
    /\ UNCHANGED <<registry, nodeVars, session, beats, report, files, ollama, request, history>>

Says(s) == report' = [version |-> job.version, state |-> s]

\* run: an old release is discarded, the staging folder emptied.
StartJob ==
    /\ phase = "accepted" /\ phase' = "loading" /\ Says("loading")
    /\ swapCh' = None /\ backup' = Empty
    /\ UNCHANGED <<registry, nodeVars, link, job, dir, ollama, request, history>>

\* Loaded, extracted and probed; it waits for the release of the router.
Loaded ==
    /\ phase = "loading" /\ phase' = "ready" /\ Says("ready")
    /\ UNCHANGED <<registry, nodeVars, link, job, swapCh, files, ollama, request, history>>

\* The end of run, with the deferred RemoveAll(staging).
EndJob(s) ==
    /\ phase' = "idle" /\ job' = NoJob /\ Says(s)
    /\ backup' = Empty
    /\ excuse' = IF ReleaseIsDue THEN excuse ELSE "none"

\* A failed check or download, a release that does not come within 30 min.
GiveUp ==
    /\ phase \in {"loading", "ready"} /\ EndJob("failed")
    /\ gaveUp' = FALSE
    /\ UNCHANGED <<registry, nodeVars, link, swapCh, dir, ollama, request, faults, broken>>

\* awaitSwap takes a release; hold stops Ollama and what runs on it.
TakeRelease ==
    /\ phase = "ready" /\ swapCh # None /\ swapCh' = None
    /\ IF swapCh = job.version
       THEN /\ phase' = "out" /\ job' = [job EXCEPT !.at = 1] /\ Says("swapping")
            /\ ollama' = None /\ request' = Ended
       ELSE UNCHANGED <<phase, job, report, ollama, request>>
    /\ UNCHANGED <<registry, nodeVars, link, files, history>>

----------------------------------------------------------------------------
(* The agent: the files *)

Entry == Entries[job.at]
RollBack(moved) == phase' = "revert" /\ job' = [job EXCEPT !.at = 1, !.moved = moved]

\* swapTop, one rename a step.  A rename that fails ends it.
MoveOut ==
    /\ phase = "out"
    /\ \/ /\ backup' = [backup EXCEPT ![Entry] = dir[Entry]] /\ dir' = [dir EXCEPT ![Entry] = None]
          /\ phase' = "in" /\ UNCHANGED <<job, faults>>
       \/ /\ Fault /\ dir[Entry] # None
          /\ RollBack(job.at - 1)
          /\ UNCHANGED <<dir, backup>>
    /\ UNCHANGED <<registry, nodeVars, link, report, swapCh, ollama, request, gaveUp, excuse, broken>>

MoveIn ==
    /\ phase = "in"
    /\ \/ /\ dir' = [dir EXCEPT ![Entry] = job.version]
          /\ IF job.at < Len(Entries)
             THEN phase' = "out" /\ job' = [job EXCEPT !.at = @ + 1] /\ UNCHANGED report
             ELSE phase' = "verify" /\ Says("applied") /\ UNCHANGED job
          /\ UNCHANGED <<backup, faults, broken>>
       \/ /\ Fault                       \* the entry is put back, its error is not looked at
          /\ \E back \in BOOLEAN :
                /\ dir' = IF back THEN [dir EXCEPT ![Entry] = backup[Entry]] ELSE dir
                /\ backup' = IF back THEN [backup EXCEPT ![Entry] = None] ELSE backup
                /\ broken' = (broken \/ ~back)
          /\ RollBack(job.at - 1)
          /\ UNCHANGED report
    /\ UNCHANGED <<registry, nodeVars, link, swapCh, ollama, request, gaveUp, excuse>>

TakeBack(e) == dir' = [dir EXCEPT ![e] = backup[e]] /\ backup' = [backup EXCEPT ![e] = None]

\* Mutant: the rollback takes back the last entry only.
RevertLast ==
    /\ phase = "revert" /\ job.at <= job.moved
    /\ TakeBack(Entries[job.moved]) /\ job' = [job EXCEPT !.at = job.moved + 1]
    /\ UNCHANGED <<registry, nodeVars, link, phase, report, swapCh, ollama, request, gaveUp, faults, excuse, broken>>
\* rollbackTop of the entry `at`, of those that were moved; then release, and the end.
Revert ==
    /\ phase = "revert" /\ job.at <= job.moved
    /\ \/ TakeBack(Entry) /\ UNCHANGED <<faults, broken>>
       \/ Fault /\ broken' = TRUE /\ UNCHANGED files
    /\ job' = [job EXCEPT !.at = @ + 1]
    /\ UNCHANGED <<registry, nodeVars, link, phase, report, swapCh, ollama, request, gaveUp, excuse>>

Reverted ==
    /\ phase = "revert" /\ job.at > job.moved /\ EndJob("failed") /\ gaveUp' = FALSE
    /\ UNCHANGED <<registry, nodeVars, link, swapCh, dir, ollama, request, faults, broken>>

\* A released child starts; whether the new one answers in time is open.
OllamaStarts ==
    /\ phase \notin {"out", "in", "revert"} /\ ollama = None /\ Installed # None
    /\ ollama' = Installed
    /\ UNCHANGED <<registry, nodeVars, link, agentVars, files, request, history>>

Verified ==
    /\ phase = "verify" /\ ollama = job.version /\ EndJob("applied")
    /\ gaveUp' = FALSE /\ broken' = FALSE
    /\ UNCHANGED <<registry, nodeVars, link, swapCh, dir, ollama, request, faults>>

VerifyFails ==
    /\ phase = "verify" /\ ollama # job.version
    /\ RollBack(Len(Entries)) /\ ollama' = None /\ request' = Ended
    /\ UNCHANGED <<registry, nodeVars, link, report, swapCh, files, history>>

\* The agent ends, with Ollama and whatever it was doing: its own update, the end
\* of the service, a crash.  It starts again with the files as they lie.
AgentDies ==
    /\ Fault
    /\ broken' = (broken \/ ~Whole)
    /\ phase' = "idle" /\ job' = NoJob /\ report' = NoReport /\ swapCh' = None
    /\ ollama' = None /\ request' = Ended /\ gaveUp' = FALSE
    /\ session' = FALSE /\ down' = <<>> /\ beats' = <<>>
    /\ UNCHANGED <<registry, nodeVars, files, excuse>>

\* payload of a heartbeat.
Sample ==
    /\ session /\ beats = <<>>
    /\ beats' = <<[version |-> ollama, report |-> report]>>
    /\ UNCHANGED <<registry, nodeVars, session, down, agentVars, files, ollama, request, history>>

----------------------------------------------------------------------------
Next ==
    \/ CheckLatest \/ RollOut \/ OrderByHand \/ Ages
    \/ Beat
    \/ \E v \in Versions : Release(v)
    \/ DrainEnds
    \/ Choose \/ Begin \/ Finish
    \/ Lose \/ Hello \/ RouterRestarts
    \/ ReadFrame \/ StartJob \/ Loaded \/ GiveUp \/ TakeRelease
    \/ MoveOut \/ MoveIn \/ Revert \/ Reverted
    \/ OllamaStarts \/ Verified \/ VerifyFails \/ AgentDies
    \/ Sample

\* The loops of both sides go on: heartbeats, frames, the waits that have come to
\* their end, the steps of a swap, requests.  The look of release_swap, once a second,
\* falls now and then between two requests.  Nothing is assumed of orders, downloads,
\* time limits and faults.
Fairness ==
    /\ WF_vars(Sample \/ Beat) /\ WF_vars(Hello) /\ WF_vars(Finish)
    /\ SF_vars(\E v \in Versions : Release(v))
    /\ WF_vars(ReadFrame) /\ WF_vars(TakeRelease)

Spec == Init /\ [][Next]_vars /\ Fairness

----------------------------------------------------------------------------
(* Properties *)

\* Ollama is stopped for a swap or a rollback only when no request runs on it,
\* but for one that had been chosen before the drain and began after the last
\* look of release_swap, and after the drain was lifted before the swap: by a new
\* session, by its time, or by a report of the agent or the end of another wait
\* while a release is due.
SwapSparesRequests ==
    [][(phase # phase' /\ phase' \in {"out", "revert"} /\ phase # "in")
       => (request = "running" => excuse # "none")]_vars

\* Outside a swap the installation is whole and of one version, unless the agent
\* ended in the middle of one or the rollback itself failed.
InstallationIsWhole == phase \in {"out", "in", "revert"} \/ Whole \/ broken

\* What the router takes for ready is released, through lost sessions and
\* restarts of the router, without the time limit of the agent.
Waits == phase = "ready" /\ order.version = job.version
ReadyIsAnswered == (Waits /\ order.state # "done") ~> (~Waits \/ order.state = "done")
=============================================================================
