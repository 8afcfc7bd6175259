----------------------------- MODULE Fleet_proofs -----------------------------
(* Proofs about Fleet, for any number of versions and of faults.                   *)
EXTENDS Fleet, SequenceTheorems, TLAPS

----------------------------------------------------------------------------
(* The inductive invariant *)

FrameSet == [kind : {"approved", "pending", "revoked", "update"},
             version : Versions \cup {None}, auto : BOOLEAN]
OrderSet == [version : Versions \cup {None}, state : Open \cup {"none", "done", "failed"},
             aged : BOOLEAN]
JobSet == [version : Versions \cup {None}, step : {"none", "downloading", "applied"},
           auto : BOOLEAN]
ReportSet == [version : Versions \cup {None}, state : {"none", "downloading", "applied", "failed"}]

\* The frames that the router sends: an order is of a version, and an automatic one
\* of a version that the canary has run.
Sendable(p) == {m \in FrameSet : m.kind = "update" => m.version \in Versions
                                                      /\ (m.auto => m.version \in p)}
FramesOK == down \in Seq(Sendable(proven))

\* The handler of an open connection has put its tunnel where the state of the
\* entry wants it, but for what a deletion or a revocation has left behind.
Attached == cur \in {"approved", "pending", "up"} =>
                \/ reg = "approved" /\ node = "cur"
                \/ reg = "pending" /\ pending = "cur"
                \/ reg = "absent" /\ node = "cur" /\ "node" \in left
                \/ reg = "absent" /\ pending = "cur" /\ "pending" \in left
                \/ "open" \in left
TunnelsOK ==
    /\ reg \in {"absent", "pending", "approved", "revoked"}
    /\ node \in Ref \cup {"gone"} /\ pending \in Ref
    /\ cur \in {"none", "approved", "pending", "up", "dead", "closed"}
    /\ old \in {"none", "open", "leaked"}
    /\ agent \in {"away", "waiting", "in"}
    /\ deleting \in BOOLEAN /\ left \subseteq {"node", "pending", "open"}
    /\ Attached /\ OnlyApprovedServe

\* An agent that is signed in, or has work from when it was, has told its version.
Told == agent # "away" \/ job.step # "none" => facts \in {version, None}
\* What the agent works on, and what it says of that, is of another version.
Another == /\ job.step # "none" => job.version \in Versions \ {version}
           /\ report.state \in {"downloading", "applied"} => report.version # version
UpdatesOK ==
    /\ version \in Versions /\ job \in JobSet /\ report \in ReportSet
    /\ facts \in Versions \cup {None} /\ order \in OrderSet
    /\ Told /\ Another /\ OrdersClose

\* What an automatic job installs, and what the canary has run, is proven.
CanaryOK ==
    /\ manifest \in Versions /\ canary \in [version : Versions, long : BOOLEAN]
    /\ proven \subseteq Versions /\ faults \in 0..MaxFaults
    /\ canary.long => canary.version \in proven
    /\ job.step # "none" /\ job.auto => job.version \in proven

IInv == TunnelsOK /\ FramesOK /\ UpdatesOK /\ CanaryOK

LEMMA VersionFacts == 0 \in Versions /\ None \notin Versions
BY BoundsAssumption DEF Versions, None

LEMMA Bounded == IInv => TypeOK /\ OnlyApprovedServe /\ NewestServes /\ OrdersClose
<1>. SUFFICES ASSUME IInv PROVE TypeOK /\ OnlyApprovedServe /\ NewestServes /\ OrdersClose
  OBVIOUS
<1>1. down \in Seq(FrameSet)
  BY DEF IInv, FramesOK, Sendable
<1>2. TypeOK
  BY <1>1 DEF IInv, TunnelsOK, UpdatesOK, CanaryOK, TypeOK, FrameSet, OrderSet, JobSet, ReportSet
<1>3. NewestServes
  BY DEF IInv, TunnelsOK, Attached, OnlyApprovedServe, NewestServes
<1>. QED BY <1>2, <1>3 DEF IInv, TunnelsOK, UpdatesOK

LEMMA Initially == Init => IInv
<1>. SUFFICES ASSUME Init PROVE IInv
  OBVIOUS
<1>1. TunnelsOK
  BY DEF Init, TunnelsOK, Attached, OnlyApprovedServe, Ref
<1>2. FramesOK
  BY DEF Init, FramesOK
<1>3. /\ NoJob \in JobSet /\ NoJob.step = "none"
      /\ NoReport \in ReportSet /\ NoReport.state = "none"
      /\ NoOrder \in OrderSet /\ NoOrder.state = "none"
  BY DEF NoJob, NoReport, NoOrder, JobSet, ReportSet, OrderSet
<1>4. UpdatesOK
  BY <1>3, VersionFacts DEF Init, UpdatesOK, Told, Another, OrdersClose, Open
<1>5. CanaryOK
  BY <1>3, VersionFacts, BoundsAssumption DEF Init, CanaryOK
<1>. QED BY <1>1, <1>2, <1>4, <1>5 DEF IInv

----------------------------------------------------------------------------
(* Frames *)

LEMMA FrameIsSendable ==
    ASSUME NEW k \in {"approved", "pending", "revoked"}
    PROVE  Frame(k) \in Sendable(proven)
BY DEF Frame, Sendable, FrameSet

LEMMA MoreProven ==
    ASSUME FramesOK, down' = down, proven \subseteq proven'
    PROVE  FramesOK'
<1>1. Sendable(proven) \subseteq Sendable(proven')
  BY DEF Sendable
<1>2. Seq(Sendable(proven)) \subseteq Seq(Sendable(proven'))
  BY <1>1
<1>. QED BY <1>2 DEF FramesOK, Sendable

----------------------------------------------------------------------------
(* Tunnels *)

\* The end of a connection, noticed or not.
LEMMA LeavesKeeps ==
    ASSUME TunnelsOK, Leaves
    PROVE  TunnelsOK' /\ agent' = "away" /\ down' = <<>>
<1>1. CASE cur \in {"approved", "pending"}
  BY <1>1 DEF Leaves, operator, TunnelsOK, Attached, OnlyApprovedServe
<1>2. CASE cur = "up"
  BY <1>2 DEF Leaves, operator, TunnelsOK, Attached, OnlyApprovedServe, Ref, Renamed
<1>3. CASE cur \notin {"approved", "pending", "up"}
  BY <1>3 DEF Leaves, operator, TunnelsOK, Attached, OnlyApprovedServe
<1>. QED BY <1>1, <1>2, <1>3

LEMMA ConnectionSteps ==
    ASSUME TunnelsOK, SignIn \/ OldEnds \/ SendStatus \/ StatusRaises \/ RouterRestarts
    PROVE  TunnelsOK'
<1>1. CASE SignIn
  <2>1. CASE reg = "revoked"
    BY <1>1, <2>1 DEF SignIn, TunnelsOK, Attached, OnlyApprovedServe, tunnels, operator
  <2>2. CASE reg = "approved"
    <3>1. node' = "cur" /\ Status("approved", node) /\ agent' = "waiting" /\ UNCHANGED <<reg, pending, deleting>>
          /\ left' = {}
      BY <1>1, <2>2 DEF SignIn
    <3>2. cur' \in {"approved", "up"} /\ old' \in {"none", "open", "leaked"}
      BY <3>1 DEF Status, TunnelsOK
    <3>. QED BY <2>2, <3>1, <3>2 DEF TunnelsOK, Attached, OnlyApprovedServe, Ref
  <2>3. CASE reg \notin {"revoked", "approved"}
    <3>1. /\ reg' = "pending" /\ pending' = "cur" /\ Status("pending", pending)
          /\ agent' = "waiting" /\ UNCHANGED <<node, deleting>> /\ left' = left \ {"pending", "open"}
      BY <1>1, <2>3 DEF SignIn
    <3>2. cur' \in {"pending", "up"} /\ old' \in {"none", "open", "leaked"}
      BY <3>1 DEF Status, TunnelsOK
    <3>. QED BY <2>3, <3>1, <3>2 DEF TunnelsOK, Attached, OnlyApprovedServe, Ref
  <2>. QED BY <2>1, <2>2, <2>3
<1>2. CASE OldEnds
  BY <1>2 DEF OldEnds, operator, Forget, TunnelsOK, Attached, OnlyApprovedServe, Ref
<1>3. CASE SendStatus
  BY <1>3 DEF SendStatus, operator, TunnelsOK, Attached, OnlyApprovedServe
<1>4. CASE StatusRaises
  BY <1>4 DEF StatusRaises, operator, Renamed, TunnelsOK, Attached, OnlyApprovedServe, Ref
<1>5. CASE RouterRestarts
  BY <1>5 DEF RouterRestarts, TunnelsOK, Attached, OnlyApprovedServe, Ref
<1>. QED BY <1>1, <1>2, <1>3, <1>4, <1>5

LEMMA OperatorSteps ==
    ASSUME TunnelsOK, Approve \/ Revoke \/ Delete \/ DeleteBegins \/ DeleteEnds
    PROVE  TunnelsOK'
<1>1. CASE Approve
  <2>1. CASE pending = "none"
    BY <1>1, <2>1 DEF Approve, TunnelsOK, Attached, OnlyApprovedServe, Ref
  <2>2. CASE pending # "none"
    BY <1>1, <2>2 DEF Approve, CloseTunnel, TunnelsOK, Attached, OnlyApprovedServe, Ref
  <2>. QED BY <2>1, <2>2
<1>2. CASE Revoke
  BY <1>2 DEF Revoke, CloseTunnel, TunnelsOK, Attached, OnlyApprovedServe, Ref
<1>3. CASE Delete
  BY <1>3 DEF Delete, Remove, TunnelsOK, Attached, OnlyApprovedServe, Ref
<1>4. CASE DeleteBegins
  BY <1>4 DEF DeleteBegins, CloseTunnel, TunnelsOK, Attached, OnlyApprovedServe, Ref
<1>5. CASE DeleteEnds
  <2>1. CASE reg = "absent"
    BY <1>5, <2>1 DEF DeleteEnds, TunnelsOK, Attached, OnlyApprovedServe
  <2>2. CASE reg # "absent"
    BY <1>5, <2>2 DEF DeleteEnds, Remove, TunnelsOK, Attached, OnlyApprovedServe, Ref
  <2>. QED BY <2>1, <2>2
<1>. QED BY <1>1, <1>2, <1>3, <1>4, <1>5

\* Reading, from the first status on.
LEMMA ReadTunnels ==
    ASSUME TunnelsOK, Read
    PROVE  TunnelsOK'
<1>1. CASE Leaves
  BY <1>1, LeavesKeeps
<1>2. CASE ~Leaves
  BY <1>2 DEF Read, TunnelsOK, Attached, OnlyApprovedServe, tunnels, operator
<1>. QED BY <1>1, <1>2

LEMMA TunnelsKept == TunnelsOK /\ [Next]_vars => TunnelsOK'
<1>. SUFFICES ASSUME TunnelsOK, [Next]_vars PROVE TunnelsOK'
  OBVIOUS
<1>1. CASE UNCHANGED <<tunnels, agent>>
  BY <1>1 DEF tunnels, operator, TunnelsOK, Attached, OnlyApprovedServe
<1>2. CASE Leaves
  BY <1>2, LeavesKeeps
<1>3. CASE Deploy \/ CanaryMoves \/ RollOut \/ OrderByHand \/ Ages \/ Beat \/ Fetch
           \/ UpdateFails \/ Swap
  BY <1>1, <1>3 DEF Deploy, CanaryMoves, RollOut, OrderByHand, Order, Ages, Beat, Fetch,
                    UpdateFails, Swap
<1>4. CASE Lose \/ RequestComesFirst \/ SeesClose
  BY <1>2, <1>4 DEF Lose, RequestComesFirst, SeesClose
<1>5. CASE Restart
  BY <1>1, <1>2, <1>5 DEF Restart
<1>6. CASE UNCHANGED vars
  BY <1>1, <1>6 DEF vars
<1>. QED BY <1>3, <1>4, <1>5, <1>6, ConnectionSteps, OperatorSteps, ReadTunnels DEF Next

----------------------------------------------------------------------------
(* The frames and the canary *)

LEMMA FramesKept == IInv /\ [Next]_vars => FramesOK'
<1>. SUFFICES ASSUME IInv, [Next]_vars PROVE FramesOK'
  OBVIOUS
<1>1. proven \subseteq proven'
  BY DEF Next, vars, others, SignIn, OldEnds, SendStatus, StatusRaises, Lose, RequestComesFirst,
         SeesClose, RouterRestarts, Approve, Revoke, Delete, DeleteBegins, DeleteEnds, Deploy, CanaryMoves,
         RollOut, Order, OrderByHand, Ages, Beat, Read, Fetch, UpdateFails, Swap, Restart
<1>. DEFINE Good == Sendable(proven)
<1>2. down \in Seq(Good) /\ <<>> \in Seq(Good)
  BY DEF IInv, FramesOK
<1>3. Frame("approved") \in Good /\ Frame("pending") \in Good /\ Frame("revoked") \in Good
  BY FrameIsSendable
<1>4. SUFFICES down' \in Seq(Good)
  <2>1. Good \subseteq Sendable(proven')
    BY <1>1 DEF Sendable
  <2>2. Seq(Good) \subseteq Seq(Sendable(proven'))
    BY <2>1
  <2>3. ASSUME down' \in Seq(Good) PROVE FramesOK'
    <3>1. Sendable(proven)' = Sendable(proven')
      BY DEF Sendable
    <3>. QED BY <2>2, <2>3, <3>1 DEF FramesOK
  <2>. QED BY <2>3
<1>. HIDE DEF Good
<1>5. CASE UNCHANGED down
  BY <1>2, <1>5
<1>6. CASE Leaves
  BY <1>2, <1>6 DEF Leaves
<1>7. CASE SignIn
  <2>1. CASE UNCHANGED down
    BY <1>5, <2>1
  <2>2. CASE down' = <<Frame("approved")>> \/ down' = <<Frame("pending")>>
    <3>1. PICK m \in Good : down' = <<m>>
      BY <1>3, <2>2
    <3>. QED BY <3>1
  <2>. QED BY <1>7, <2>1, <2>2 DEF SignIn, Status
<1>8. CASE SendStatus
  BY <1>2, <1>3, <1>8 DEF SendStatus
<1>9. CASE RouterRestarts
  BY <1>2, <1>9 DEF RouterRestarts
<1>10. CASE Approve \/ Revoke
  BY <1>2, <1>3, <1>10 DEF Approve, Revoke
<1>11. CASE RollOut \/ OrderByHand
  <2>1. PICK auto \in BOOLEAN : Order(auto) /\ (auto => CanaryClean(manifest))
    BY <1>11 DEF RollOut, OrderByHand
  <2>. DEFINE m == [kind |-> "update", version |-> manifest, auto |-> auto]
  <2>2. m \in Good
    BY <2>1 DEF Good, Sendable, FrameSet, CanaryClean, IInv, CanaryOK
  <2>. QED BY <1>2, <2>1, <2>2 DEF Order
<1>12. CASE Read
  <2>1. Leaves \/ down' = Tail(down)
    BY <1>12 DEF Read
  <2>2. down # <<>>
    BY <1>12 DEF Read
  <2>. QED BY <1>2, <1>6, <2>1, <2>2
<1>13. CASE OldEnds \/ StatusRaises \/ Delete \/ DeleteBegins \/ DeleteEnds \/ Deploy \/ CanaryMoves \/ Ages \/ Beat \/ Fetch
            \/ UpdateFails \/ Swap
  BY <1>5, <1>13 DEF OldEnds, StatusRaises, Delete, DeleteBegins, DeleteEnds, Deploy, CanaryMoves, Ages,
                     Beat, Fetch, UpdateFails, Swap
<1>14. CASE Lose \/ RequestComesFirst \/ SeesClose \/ Restart
  BY <1>5, <1>6, <1>14 DEF Lose, RequestComesFirst, SeesClose, Restart
<1>15. CASE UNCHANGED vars
  BY <1>5, <1>15 DEF vars
<1>. QED BY <1>7, <1>8, <1>9, <1>10, <1>11, <1>12, <1>13, <1>14, <1>15 DEF Next

----------------------------------------------------------------------------
(* Orders, and what the agent does with them *)

LEMMA Records ==
    /\ NoJob \in JobSet /\ NoJob.step = "none" /\ ~NoJob.auto
    /\ NoReport \in ReportSet /\ NoReport.state = "none"
    /\ NoOrder \in OrderSet /\ NoOrder.version = None /\ NoOrder.state = "none"
BY DEF NoJob, NoReport, NoOrder, JobSet, ReportSet, OrderSet

\* Nothing of it moves but that the agent leaves or is told its status.
LEMMA UpdatesRest ==
    ASSUME UpdatesOK, UNCHANGED <<updater, entry>>, agent' = "away" \/ agent' = agent
    PROVE  UpdatesOK'
BY DEF updater, entry, UpdatesOK, Told, Another, OrdersClose

LEMMA SignInUpdates ==
    ASSUME UpdatesOK, SignIn
    PROVE  UpdatesOK'
<1>1. /\ facts' = version /\ order' = AfterHello(order, version)
      /\ UNCHANGED <<version, job, report>>
  BY DEF SignIn, updater
<1>2. order \in OrderSet /\ version \in Versions
  BY DEF UpdatesOK
<1>3. order' \in OrderSet /\ (order'.version = version => order'.state \notin Open)
  <2>1. CASE order.version = version /\ order.state \in Open
    BY <1>1, <1>2, <2>1 DEF AfterHello, OrderSet, Open
  <2>2. CASE ~(order.version = version /\ order.state \in Open)
    BY <1>1, <1>2, <2>2 DEF AfterHello
  <2>. QED BY <2>1, <2>2
<1>. QED BY <1>1, <1>3 DEF UpdatesOK, Told, Another, OrdersClose

\* An order only moves on, or is of a version that the agent has not told.
LEMMA OrderMoves ==
    ASSUME UpdatesOK, UNCHANGED <<updater, facts, agent>>, order' \in OrderSet,
           \/ order'.version = order.version /\ (order'.state \in Open => order.state \in Open)
           \/ order'.version # facts
           \/ order'.state \in Open => order'.version # version
    PROVE  UpdatesOK'
BY DEF updater, UpdatesOK, Told, Another, OrdersClose

LEMMA OrderSteps ==
    ASSUME UpdatesOK, CanaryOK, RollOut \/ OrderByHand \/ Ages \/ Beat \/ Fetch
    PROVE  UpdatesOK'
<1>1. /\ order \in OrderSet /\ manifest \in Versions /\ report \in ReportSet
      /\ UNCHANGED <<updater, facts, agent>>
  BY DEF UpdatesOK, CanaryOK, RollOut, OrderByHand, Order, Ages, Beat, Fetch
<1>2. CASE RollOut \/ OrderByHand
  <2>1. order' = [version |-> manifest, state |-> "requested", aged |-> FALSE] /\ manifest # facts
    BY <1>2 DEF RollOut, OrderByHand, Order
  <2>2. order' \in OrderSet /\ order'.version # facts
    BY <1>1, <2>1 DEF OrderSet, Open
  <2>. QED BY <1>1, <2>2, OrderMoves
<1>3. CASE Ages
  <2>1. order' = [order EXCEPT !.aged = TRUE]
    BY <1>3 DEF Ages
  <2>2. order' \in OrderSet /\ order'.version = order.version /\ order'.state = order.state
    BY <1>1, <2>1 DEF OrderSet
  <2>. QED BY <1>1, <2>2, OrderMoves
<1>4. CASE Beat
  <2>1. order' = [version |-> report.version, state |-> report.state, aged |-> FALSE]
        /\ report.state # "none"
    BY <1>4 DEF Beat
  <2>2. order' \in OrderSet
    BY <1>1, <2>1 DEF OrderSet, ReportSet, Open
  <2>3. order'.state \in Open => order'.version # version
    BY <1>1, <2>1 DEF UpdatesOK, Another, Open, ReportSet
  <2>. QED BY <1>1, <2>2, <2>3, OrderMoves
<1>5. CASE Fetch
  <2>1. order.state = "requested" /\ order' = [order EXCEPT !.state = "downloading", !.aged = FALSE]
    BY <1>5 DEF Fetch
  <2>2. order' \in OrderSet /\ order'.version = order.version /\ order.state \in Open
    BY <1>1, <2>1 DEF OrderSet, Open
  <2>. QED BY <1>1, <2>2, OrderMoves
<1>. QED BY <1>2, <1>3, <1>4, <1>5

LEMMA ReadUpdates ==
    ASSUME UpdatesOK, FramesOK, CanaryOK, Read
    PROVE  UpdatesOK' /\ (job'.step # "none" /\ job'.auto => job'.version \in proven)
<1>. DEFINE m == Head(down)
<1>1. m \in Sendable(proven)
  BY DEF Read, FramesOK
<1>2. UNCHANGED <<entry, others>> /\ agent # "away"
  BY DEF Read
<1>3. m.version \in Versions \cup {None} /\ m.auto \in BOOLEAN
  BY <1>1 DEF Sendable, FrameSet
<1>4. CASE UNCHANGED updater
  <2>1. agent' \in {"away", "in"} \/ agent' = agent
    BY DEF Read, Leaves
  <2>. QED BY <1>2, <1>4, <2>1 DEF updater, entry, UpdatesOK, Told, Another, OrdersClose, CanaryOK
<1>5. CASE ~UNCHANGED updater
  <2>1. /\ m.kind = "update" /\ agent = "in" /\ UNCHANGED <<agent, version>> /\ job.step = "none"
        /\ \/ /\ m.version = version /\ job' = job
              /\ report' = [version |-> m.version, state |-> "failed"]
           \/ /\ m.version # version
              /\ job' = [version |-> m.version, step |-> "downloading", auto |-> m.auto]
              /\ report' = [version |-> m.version, state |-> "downloading"]
    <3>1. /\ m.kind = "update" /\ agent = "in" /\ UNCHANGED <<agent, version>>
          /\ CASE job.step # "none" -> UNCHANGED <<job, report>>
               [] job.step = "none" /\ m.version = version ->
                    job' = job /\ report' = [version |-> m.version, state |-> "failed"]
               [] OTHER ->
                    /\ job' = [version |-> m.version, step |-> "downloading", auto |-> m.auto]
                    /\ report' = [version |-> m.version, state |-> "downloading"]
      BY <1>5, Zenon DEF Read, updater
    <3>2. job.step = "none"
      BY <1>5, <3>1 DEF updater
    <3>. QED BY <3>1, <3>2
  <2>2. m.version \in Versions /\ (m.auto => m.version \in proven)
    BY <1>1, <2>1 DEF Sendable
  <2>3. CASE m.version = version
    <3>1. report' \in ReportSet /\ report'.state = "failed" /\ job' = job
      BY <1>3, <2>1, <2>3 DEF ReportSet
    <3>. QED BY <1>2, <2>1, <3>1 DEF entry, UpdatesOK, Told, Another, OrdersClose
  <2>4. CASE m.version # version
    <3>1. /\ job' \in JobSet /\ job'.step = "downloading" /\ job'.version = m.version
          /\ job'.auto = m.auto
      BY <1>3, <2>1, <2>4 DEF JobSet
    <3>2. report' \in ReportSet /\ report'.version = m.version
      BY <1>3, <2>1, <2>4 DEF ReportSet
    <3>. QED BY <1>2, <2>1, <2>2, <2>4, <3>1, <3>2
             DEF entry, UpdatesOK, Told, Another, OrdersClose
  <2>. QED BY <2>3, <2>4
<1>. QED BY <1>4, <1>5

LEMMA WorkSteps ==
    ASSUME UpdatesOK, UpdateFails \/ Swap
    PROVE  /\ UpdatesOK'
           /\ job'.step # "none" => job'.version = job.version /\ job'.auto = job.auto
                                    /\ job.step # "none"
<1>1. /\ job \in JobSet /\ UNCHANGED <<agent, version, entry>> /\ job.step = "downloading"
      /\ job.version \in Versions \ {version}
  BY DEF UpdatesOK, Another, UpdateFails, Swap
<1>2. CASE UpdateFails
  <2>1. job' = NoJob /\ report' = [version |-> job.version, state |-> "failed"]
    BY <1>2 DEF UpdateFails, EndJob
  <2>2. report' \in ReportSet /\ report'.state = "failed" /\ job' \in JobSet /\ job'.step = "none"
    BY <1>1, <2>1, Records DEF ReportSet
  <2>. QED BY <1>1, <2>2 DEF entry, UpdatesOK, Told, Another, OrdersClose
<1>3. CASE Swap
  <2>1. /\ job' = [job EXCEPT !.step = "applied"]
        /\ report' = [version |-> job.version, state |-> "applied"]
    BY <1>3 DEF Swap
  <2>2. /\ job' \in JobSet /\ job'.step = "applied" /\ job'.version = job.version
        /\ job'.auto = job.auto
    BY <1>1, <2>1 DEF JobSet
  <2>3. report' \in ReportSet /\ report'.version = job.version
    BY <1>1, <2>1 DEF ReportSet
  <2>. QED BY <1>1, <2>2, <2>3 DEF entry, UpdatesOK, Told, Another, OrdersClose
<1>. QED BY <1>2, <1>3

\* The new version has not been told before.
LEMMA RestartUpdates ==
    ASSUME UpdatesOK, agent \in {"away", "waiting", "in"}, Restart
    PROVE  UpdatesOK' /\ job'.step = "none"
<1>1. /\ job.step = "applied" /\ version' = job.version /\ job' = NoJob /\ report' = NoReport
      /\ agent' = "away" /\ UNCHANGED entry
  BY DEF Restart, Leaves
<1>2. version' \in Versions /\ version' # version /\ facts \in {version, None}
  BY <1>1 DEF UpdatesOK, Told, Another
<1>3. version' # facts
  BY <1>2, VersionFacts
<1>. QED BY <1>1, <1>2, <1>3, Records DEF entry, UpdatesOK, Told, Another, OrdersClose

LEMMA UpdatesKept == IInv /\ [Next]_vars => UpdatesOK'
<1>. SUFFICES ASSUME IInv, [Next]_vars PROVE UpdatesOK'
  OBVIOUS
<1>1. /\ UpdatesOK /\ FramesOK /\ CanaryOK /\ TunnelsOK
      /\ agent \in {"away", "waiting", "in"}
  BY DEF IInv, TunnelsOK
<1>2. CASE SignIn
  BY <1>1, <1>2, SignInUpdates
<1>3. CASE OldEnds \/ SendStatus \/ StatusRaises \/ Lose \/ RequestComesFirst \/ SeesClose
           \/ RouterRestarts \/ Approve \/ Revoke \/ DeleteBegins \/ Deploy \/ CanaryMoves
           \/ UNCHANGED vars
  BY <1>1, <1>3, UpdatesRest
     DEF OldEnds, SendStatus, StatusRaises, Lose, RequestComesFirst, SeesClose, RouterRestarts,
         Approve, Revoke, DeleteBegins, Deploy, CanaryMoves, Leaves, vars
<1>4. CASE Delete \/ DeleteEnds
  <2>1. /\ UNCHANGED entry \/ (facts' = None /\ order' = NoOrder)
        /\ UNCHANGED <<agent, updater>>
    BY <1>4 DEF Delete, DeleteEnds, Remove, entry
  <2>2. CASE UNCHANGED entry
    BY <1>1, <2>1, <2>2, UpdatesRest
  <2>3. CASE facts' = None /\ order' = NoOrder
    BY <1>1, <2>1, <2>3, Records DEF updater, UpdatesOK, Told, Another, OrdersClose, Open
  <2>. QED BY <2>1, <2>2, <2>3
<1>5. CASE RollOut \/ OrderByHand \/ Ages \/ Beat \/ Fetch
  BY <1>1, <1>5, OrderSteps
<1>6. CASE Read
  BY <1>1, <1>6, ReadUpdates
<1>7. CASE UpdateFails \/ Swap
  BY <1>1, <1>7, WorkSteps
<1>8. CASE Restart
  BY <1>1, <1>8, RestartUpdates
<1>. QED BY <1>2, <1>3, <1>4, <1>5, <1>6, <1>7, <1>8 DEF Next

LEMMA CanaryKept == IInv /\ [Next]_vars => CanaryOK'
<1>. SUFFICES ASSUME IInv, [Next]_vars PROVE CanaryOK'
  OBVIOUS
<1>1. /\ UpdatesOK /\ FramesOK /\ CanaryOK /\ TunnelsOK
      /\ agent \in {"away", "waiting", "in"}
  BY DEF IInv, TunnelsOK
<1>2. faults' \in 0..MaxFaults
  BY <1>1, BoundsAssumption
     DEF CanaryOK, Next, vars, Fault, SignIn, OldEnds, SendStatus, StatusRaises, Lose,
         RequestComesFirst, SeesClose, RouterRestarts, Approve, Revoke, Delete, DeleteBegins,
         DeleteEnds, Deploy, CanaryMoves, RollOut, Order, OrderByHand, Ages, Beat, Read, Fetch, UpdateFails, Swap,
         Restart
<1>3. CASE Deploy
  <2>1. manifest' \in Versions
    BY <1>1, <1>3, BoundsAssumption DEF Deploy, CanaryOK, Versions
  <2>. QED BY <1>1, <1>2, <1>3, <2>1 DEF Deploy, CanaryOK, updater
<1>4. CASE CanaryMoves
  <2>1. UNCHANGED <<job, manifest>>
    BY <1>4 DEF CanaryMoves, updater
  <2>2. CASE \E v \in 0..manifest \ {canary.version} :
                 canary' = [version |-> v, long |-> FALSE] /\ UNCHANGED proven
    <3>1. PICK v \in 0..manifest : canary' = [version |-> v, long |-> FALSE] /\ UNCHANGED proven
      BY <2>2
    <3>2. v \in Versions
      BY <1>1, <3>1, BoundsAssumption DEF CanaryOK, Versions
    <3>. QED BY <1>1, <1>2, <2>1, <3>1, <3>2 DEF CanaryOK
  <2>3. CASE /\ canary' = [canary EXCEPT !.long = TRUE]
             /\ proven' = proven \cup {canary.version}
    BY <1>1, <1>2, <2>1, <2>3 DEF CanaryOK
  <2>. QED BY <1>4, <2>2, <2>3 DEF CanaryMoves
<1>5. CASE Read
  BY <1>1, <1>2, <1>5, ReadUpdates DEF CanaryOK, Read, others
<1>6. CASE UpdateFails \/ Swap
  <2>1. UNCHANGED others
    BY <1>6 DEF UpdateFails, Swap
  <2>2. job'.step # "none" => job'.version = job.version /\ job'.auto = job.auto
                              /\ job.step # "none"
    BY <1>1, <1>6, WorkSteps
  <2>. QED BY <1>1, <1>2, <2>1, <2>2 DEF CanaryOK, others
<1>7. CASE Restart
  BY <1>1, <1>2, <1>7, RestartUpdates DEF CanaryOK, Restart, others
<1>8. CASE UNCHANGED <<job, others>>
  BY <1>1, <1>2, <1>8 DEF CanaryOK, others
<1>9. CASE SignIn \/ OldEnds \/ SendStatus \/ StatusRaises \/ Lose \/ RequestComesFirst
           \/ SeesClose \/ RouterRestarts \/ Approve \/ Revoke \/ Delete \/ DeleteBegins
           \/ DeleteEnds \/ RollOut
           \/ OrderByHand \/ Ages \/ Beat \/ Fetch \/ UNCHANGED vars
  BY <1>8, <1>9
     DEF SignIn, OldEnds, SendStatus, StatusRaises, Lose, RequestComesFirst, SeesClose,
         RouterRestarts, Approve, Revoke, Delete, DeleteBegins, DeleteEnds, RollOut, OrderByHand, Order, Ages, Beat, Fetch,
         updater, vars
<1>. QED BY <1>3, <1>4, <1>5, <1>6, <1>7, <1>9 DEF Next

----------------------------------------------------------------------------
(* The theorems *)

\* The invariant that carries all the others.
THEOREM Invariance == Spec => []IInv
<1>1. IInv /\ [Next]_vars => IInv'
  BY TunnelsKept, FramesKept, UpdatesKept, CanaryKept DEF IInv
<1>. QED BY <1>1, Initially, PTL DEF Spec

\* What the handlers, the operator and the agent keep of the register.
THEOREM TypeCorrect == Spec => []TypeOK
<1>. QED BY Bounded, Invariance, PTL

\* registry.py: neither a connection that overlaps a revocation nor one that comes
\* late leaves a tunnel behind with an identity that is not approved; only a deletion
\* that awaited the end of a waiting tunnel does.
THEOREM OnlyTheApprovedServe == Spec => []OnlyApprovedServe
<1>. QED BY Bounded, Invariance, PTL

\* The finally of an old handler takes its own tunnel only.
THEOREM TheNewestServes == Spec => []NewestServes
<1>. QED BY Bounded, Invariance, PTL

\* note_hello and note_report: an agent that has come back with a version is not
\* waited for with an order of that version.
THEOREM OrdersAreClosed == Spec => []OrdersClose
<1>. QED BY Bounded, Invariance, PTL

\* rollout_once: what an agent was told to install automatically has run on the
\* canary for its time, however late the order reaches it.
THEOREM TheCanaryGoesFirst == Spec => CanaryFirst
<1>1. ASSUME IInv, [Next]_vars, version' # version, job.auto
      PROVE  version' \in proven
  <2>1. Restart
    <3>1. CASE Read
      BY <1>1, <3>1 DEF Read, updater
    <3>. QED BY <1>1, <3>1
      DEF Next, vars, updater, SignIn, OldEnds, SendStatus, StatusRaises, Lose,
          RequestComesFirst, SeesClose, RouterRestarts, Approve, Revoke, Delete, DeleteBegins,
          DeleteEnds, Deploy, CanaryMoves, RollOut, Order, OrderByHand, Ages, Beat, Fetch, UpdateFails, Swap
  <2>. QED BY <1>1, <2>1 DEF Restart, IInv, CanaryOK
<1>2. IInv /\ [Next]_vars => [version' # version /\ job.auto => version' \in proven]_vars
  BY <1>1
<1>. QED BY <1>2, Invariance, PTL DEF Spec, CanaryFirst
=============================================================================
