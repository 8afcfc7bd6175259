------------------------------- MODULE Fleet -------------------------------
(* The register of the nodes and the updates of their agents (registry.py,
   agentupdate.py): one agent signs in over connections that overlap, is approved,
   revoked and deleted by the operator, and brought to new versions after the
   canary, another agent, has run them.  agent/updater.go and agent/tunnel.go are
   the other side.

   The router may still hold one dead connection when the agent is back with the
   next; a third waits until there is none (bound).  A handler awaits the end of the
   connection it replaces before it sends the status; a deletion awaits the end of a
   waiting one before it removes the entry, one such deletion at a time (bound).  Versions are numbers; the
   files that deploy.py lays down grow.  Refused sign-ins change nothing. *)
EXTENDS Naturals, Sequences

CONSTANTS
    MaxVersion,     \* of the agent (bound)
    MaxFaults       \* lost connections, restarts (bound)

ASSUME BoundsAssumption == MaxVersion \in Nat \ {0} /\ MaxFaults \in Nat

VARIABLES
    reg,                \* the state of the register entry
    node, pending,      \* Node.tunnel ("gone": no Node), state.PENDING
    cur, old,           \* the handlers of the agent's connection and of its last
    deleting,           \* a deletion awaits the end of the tunnel that it has closed
    left,               \* history: where the operator has left a connection behind
    down,               \* frames of the router, on their way
    agent,              \* how the agent sees its connection
    version, job, report,       \* of the agent; its Updater
    facts, order,       \* of the register entry: agent_version, update
    manifest,           \* the version on the router's disk
    canary, proven,     \* the canary; history: what it has run long enough
    faults

operator == <<deleting, left>>
tunnels == <<reg, node, pending, cur, old, operator>>
updater == <<version, job, report>>
entry == <<facts, order>>
others == <<manifest, canary, proven>>
vars == <<tunnels, down, agent, updater, entry, others, faults>>

Versions == 0..MaxVersion
None == MaxVersion + 1
Ref == {"none", "cur", "old"}
Open == {"requested", "downloading", "applied"}
NoOrder == [version |-> None, state |-> "none", aged |-> FALSE]
NoJob == [version |-> None, step |-> "none", auto |-> FALSE]
NoReport == [version |-> None, state |-> "none"]

TypeOK ==
    /\ reg \in {"absent", "pending", "approved", "revoked"}
    /\ node \in Ref \cup {"gone"} /\ pending \in Ref
    \* approved, pending: signed in, that status is still to be sent; dead: so, but the
    \* agent has left; closed: by the router.
    /\ cur \in {"none", "approved", "pending", "up", "dead", "closed"}
    \* open: the router has not noticed; leaked: the handler ended before its finally.
    /\ old \in {"none", "open", "leaked"}
    \* A deletion: in the node, in PENDING.  A revocation: open, and in neither.
    /\ deleting \in BOOLEAN /\ left \subseteq {"node", "pending", "open"}
    /\ down \in Seq([kind : {"approved", "pending", "revoked", "update"}, version : Versions \cup {None}, auto : BOOLEAN])
    /\ agent \in {"away", "waiting", "in"}
    /\ version \in Versions
    /\ job \in [version : Versions \cup {None}, step : {"none", "downloading", "applied"}, auto : BOOLEAN]
    /\ report \in [version : Versions \cup {None}, state : {"none", "downloading", "applied", "failed"}]
    /\ facts \in Versions \cup {None}
    /\ order \in [version : Versions \cup {None}, state : Open \cup {"none", "done", "failed"}, aged : BOOLEAN]
    /\ manifest \in Versions
    /\ canary \in [version : Versions, long : BOOLEAN]
    /\ proven \subseteq Versions
    /\ faults \in 0..MaxFaults

Init ==
    /\ reg = "absent" /\ node = "gone" /\ pending = "none"
    /\ cur = "none" /\ old = "none" /\ down = <<>> /\ agent = "away"
    /\ deleting = FALSE /\ left = {}
    /\ version = 0 /\ job = NoJob /\ report = NoReport
    /\ facts = None /\ order = NoOrder /\ manifest = 0
    /\ canary = [version |-> 0, long |-> TRUE] /\ proven = {0}
    /\ faults = 0

Fault == faults < MaxFaults /\ faults' = faults + 1
Frame(k) == [kind |-> k, version |-> None, auto |-> FALSE]

----------------------------------------------------------------------------
(* Signing in *)

\* Mutant: only an order whose swap the agent has reported is closed.
AfterApplied(u, v) ==
    IF u.version = v /\ u.state = "applied" THEN [u EXCEPT !.state = "done", !.aged = FALSE] ELSE u
\* note_hello: an order of this version is closed, unless it is over.
AfterHello(u, v) ==
    IF u.version = v /\ u.state \in Open THEN [u EXCEPT !.state = "done", !.aged = FALSE] ELSE u

\* What an attached or waiting tunnel replaces is closed; its handler must have
\* ended before the status is sent.
Status(s, replaced) ==
    IF replaced = "old" /\ old = "open"
    THEN cur' = s /\ UNCHANGED <<old, down>>
    ELSE cur' = "up" /\ down' = <<Frame(s)>> /\ old' = IF replaced = "old" THEN "none" ELSE old

\* handle_tunnel_v2 to its first await, with upsert_hello.
SignIn ==
    /\ agent = "away" /\ cur = "none"
    /\ facts' = version /\ order' = AfterHello(order, version)
    /\ CASE reg = "revoked" ->
              UNCHANGED <<tunnels, down, agent>>
         [] reg = "approved" ->             \* activate_node, attach_tunnel
              /\ node' = "cur" /\ Status("approved", node) /\ left' = {}
              /\ agent' = "waiting" /\ UNCHANGED <<reg, pending, deleting>>
         [] OTHER ->
              /\ reg' = "pending" /\ pending' = "cur" /\ Status("pending", pending)
              /\ left' = left \ {"pending", "open"}
              /\ agent' = "waiting" /\ UNCHANGED <<node, deleting>>
    /\ UNCHANGED <<updater, others, faults>>

\* Mutant: the end of a connection clears whatever tunnel there is.
ForgetAny(ref, tun) == IF ref = "gone" THEN ref ELSE "none"
\* The finally of a handler: only its own tunnel.
Forget(ref, tun) == IF ref = tun THEN "none" ELSE ref

OldEnds ==
    /\ old = "open" /\ old' = "none"
    /\ node' = Forget(node, "old") /\ pending' = Forget(pending, "old")
    /\ UNCHANGED <<reg, cur, operator, down, agent, updater, entry, others, faults>>

\* The replaced connection is closed, the status goes out.
SendStatus ==
    /\ cur \in {"approved", "pending"} /\ old # "open"
    /\ down' = Append(down, Frame(cur)) /\ cur' = "up"
    /\ UNCHANGED <<reg, node, pending, old, operator, agent, updater, entry, others, faults>>

Renamed(ref) == IF ref = "cur" THEN "old" ELSE ref

\* On a connection that has gone meanwhile sending raises, before the try: the
\* tunnel stays where it is.
StatusRaises ==
    /\ cur = "dead" /\ old # "open" /\ cur' = "none"
    /\ old' = IF "cur" \in {node, pending} THEN "leaked" ELSE "none"
    /\ node' = Renamed(node) /\ pending' = Renamed(pending)
    /\ UNCHANGED <<reg, operator, down, agent, updater, entry, others, faults>>

----------------------------------------------------------------------------
(* Connections that end *)

\* The agent has left; the handler of an established connection has not noticed.
Leaves ==
    /\ agent' = "away" /\ down' = <<>>
    /\ CASE cur \in {"approved", "pending"} ->
              cur' = "dead" /\ UNCHANGED <<node, pending, old>>
         [] cur = "up" ->
              /\ old = "none" /\ old' = "open" /\ cur' = "none"
              /\ node' = Renamed(node) /\ pending' = Renamed(pending)
         [] OTHER -> cur' = "none" /\ UNCHANGED <<node, pending, old>>
    /\ UNCHANGED <<reg, operator>>

Lose == agent # "away" /\ Fault /\ Leaves /\ UNCHANGED <<updater, entry, others>>

\* A request for the attached tunnel goes out before the status: not what the agent
\* reads first.
RequestComesFirst ==
    /\ cur = "approved" /\ node = "cur" /\ agent = "waiting" /\ down = <<>>
    /\ Leaves /\ UNCHANGED <<updater, entry, others, faults>>

\* The router has closed the connection.
SeesClose ==
    /\ cur = "closed" /\ down = <<>> /\ Leaves
    /\ UNCHANGED <<updater, entry, others, faults>>

\* nodes.json and the orders in it stay, the approved nodes are created again.
RouterRestarts ==
    /\ Fault
    /\ node' = (IF reg = "approved" THEN "none" ELSE "gone") /\ pending' = "none"
    /\ cur' = "none" /\ old' = "none" /\ down' = <<>> /\ agent' = "away"
    /\ deleting' = FALSE /\ left' = {}
    /\ UNCHANGED <<reg, updater, entry, others>>

----------------------------------------------------------------------------
(* The operator *)

\* The tunnel of the entry is closed; its handler ends.
CloseTunnel(tun) ==
    /\ cur' = IF tun # "cur" THEN cur ELSE IF cur = "dead" THEN "none" ELSE "closed"
    /\ old' = IF tun = "old" THEN "none" ELSE old

\* approve_node: activate_node, and a waiting tunnel is attached in place of what the
\* node has from before a deletion.
Approve ==
    /\ reg \in {"pending", "revoked"} /\ reg' = "approved"
    /\ pending' = "none" /\ left' = left \cap {"open"}
    /\ IF pending = "none"
       THEN node' = (IF node = "gone" THEN "none" ELSE node) /\ UNCHANGED <<cur, old, down>>
       ELSE /\ node' = pending /\ CloseTunnel(node)
            /\ down' = IF pending = "cur" /\ cur # "dead" THEN Append(down, Frame("approved")) ELSE down
    /\ UNCHANGED <<deleting, agent, updater, entry, others, faults>>

\* Mutant: a tunnel that waits for approval stays where it is.
RevokeNode ==
    /\ reg \in {"pending", "approved"} /\ reg' = "revoked"
    /\ node' = "gone" /\ CloseTunnel(node) /\ left' = {}
    /\ down' = IF node = "cur" /\ cur # "dead" THEN Append(down, Frame("revoked")) ELSE down
    /\ UNCHANGED <<pending, deleting, agent, updater, entry, others, faults>>

\* revoke_node, of a node that is not in the configuration.  It closes one tunnel: with
\* one in the node, left there by a deletion, the waiting one stays open.
Revoke ==
    /\ reg \in {"pending", "approved"} /\ reg' = "revoked"
    /\ node' = "gone" /\ pending' = "none"
    /\ LET tun == IF node \in {"gone", "none"} THEN pending ELSE node
       IN  /\ CloseTunnel(tun)
           /\ down' = IF tun = "cur" /\ cur # "dead" THEN Append(down, Frame("revoked")) ELSE down
           /\ left' = IF "cur" \in {node, pending} \ {tun} THEN {"open"} ELSE left \cap {"open"}
    /\ UNCHANGED <<deleting, agent, updater, entry, others, faults>>

\* The entry is removed; a tunnel that the node or PENDING has by then stays there.
Remove ==
    /\ reg' = "absent" /\ facts' = None /\ order' = NoOrder
    /\ left' = (left \cap {"open"}) \cup (IF node \in {"cur", "old"} THEN {"node"} ELSE {})
                                  \cup (IF pending \in {"cur", "old"} THEN {"pending"} ELSE {})

\* handle_node_delete, not of an approved node: nothing to await.
Delete ==
    /\ reg \in {"pending", "revoked"} /\ pending = "none" /\ Remove
    /\ UNCHANGED <<node, pending, cur, old, deleting, down, agent, updater, others, faults>>

\* With a waiting tunnel: to the await of close_ws.
DeleteBegins ==
    /\ reg \in {"pending", "revoked"} /\ pending # "none" /\ ~deleting
    /\ deleting' = TRUE /\ pending' = "none" /\ CloseTunnel(pending)
    /\ left' = left \ {"pending"}
    /\ UNCHANGED <<reg, node, down, agent, updater, entry, others, faults>>

\* ... and after it, whatever the state of the entry is now; without one, KeyError.
DeleteEnds ==
    /\ deleting /\ deleting' = FALSE
    /\ IF reg = "absent" THEN UNCHANGED <<reg, left, entry>> ELSE Remove
    /\ UNCHANGED <<node, pending, cur, old, down, agent, updater, others, faults>>

----------------------------------------------------------------------------
(* Orders *)

\* deploy.py lays down another version.
Deploy ==
    /\ manifest < MaxVersion /\ manifest' = manifest + 1
    /\ UNCHANGED <<tunnels, down, agent, updater, entry, canary, proven, faults>>

\* The canary changes its version, has run it for canary_clean_h.
CanaryMoves ==
    /\ \/ \E v \in 0..manifest \ {canary.version} :
             canary' = [version |-> v, long |-> FALSE] /\ UNCHANGED proven
       \/ /\ ~canary.long /\ canary' = [canary EXCEPT !.long = TRUE]
          /\ proven' = proven \cup {canary.version}
    /\ UNCHANGED <<tunnels, down, agent, updater, entry, manifest, faults>>

\* A canary that is offline holds the roll-out up, which may wait at any time.
\* Mutant: whatever the canary has run long enough counts.
CanaryIdle(v) == canary.long
CanaryClean(v) == canary.version = v /\ canary.long

UnderWay == order.state \in Open /\ ~order.aged

\* order_update, without force; the node has a tunnel and is empty.
Order(auto) ==
    /\ reg = "approved" /\ node \in {"cur", "old"}
    /\ manifest # facts /\ ~UnderWay
    /\ Len(down) < 2                       \* bound
    /\ order' = [version |-> manifest, state |-> "requested", aged |-> FALSE]
    /\ down' = IF node = "cur" /\ cur # "dead"
               THEN Append(down, [kind |-> "update", version |-> manifest, auto |-> auto]) ELSE down
    /\ UNCHANGED <<tunnels, agent, updater, facts, others, faults>>

\* rollout_once, for a node with the policy auto_update: not soon after a failure
\* of this version.
RollOut ==
    /\ order.version = manifest /\ order.state = "failed" => order.aged
    /\ CanaryClean(manifest) /\ Order(TRUE)

OrderByHand == Order(FALSE)

\* STALL_S of an open order without news, retry_after of a failed one.  A sign-in and
\* the end of a dead connection take seconds.
Ages ==
    /\ order.state \in Open \cup {"failed"} /\ ~order.aged
    /\ order.state \in Open => job.step # "downloading"
    /\ agent # "waiting" /\ old # "open" /\ down = <<>>
    /\ order' = [order EXCEPT !.aged = TRUE]
    /\ UNCHANGED <<tunnels, down, agent, updater, facts, others, faults>>

\* note_report, from a heartbeat through an attached tunnel.
Beat ==
    /\ agent = "in" /\ cur = "up" /\ node = "cur" /\ reg # "absent" /\ report.state # "none"
    /\ order.state = "done" => report.state = "failed"
    /\ order.version \in {None, report.version} /\ order.state # report.state
    /\ order' = [version |-> report.version, state |-> report.state, aged |-> FALSE]
    /\ UNCHANGED <<tunnels, down, agent, updater, facts, others, faults>>

----------------------------------------------------------------------------
(* The agent *)

EndJob == job' = NoJob /\ report' = [version |-> job.version, state |-> "failed"]

\* The read loop, applyStatus; the first frame has to be a status.
Read ==
    /\ agent # "away" /\ down # <<>>
    /\ LET m == Head(down) IN
       \/ /\ m.kind \in {"approved", "pending"}
          /\ agent' = "in" /\ down' = Tail(down)
          /\ UNCHANGED <<tunnels, updater>>
       \/ m.kind = "revoked" /\ Leaves /\ UNCHANGED updater
       \/ m.kind = "update" /\ agent = "waiting" /\ Leaves /\ UNCHANGED updater
       \/ /\ m.kind = "update" /\ agent = "in" /\ down' = Tail(down)
          /\ UNCHANGED <<tunnels, agent, version>>
          /\ CASE job.step # "none" -> UNCHANGED <<job, report>>       \* Handle: one at a time
               [] job.step = "none" /\ m.version = version ->          \* verifyOrder
                    job' = job /\ report' = [version |-> m.version, state |-> "failed"]
               [] OTHER ->
                    /\ job' = [version |-> m.version, step |-> "downloading", auto |-> m.auto]
                    /\ report' = [version |-> m.version, state |-> "downloading"]
    /\ UNCHANGED <<entry, others, faults>>

\* handle_binary, with the token of the order.
Fetch ==
    /\ job.step = "downloading" /\ order.state = "requested"
    /\ order' = [order EXCEPT !.state = "downloading", !.aged = FALSE]
    /\ UNCHANGED <<tunnels, down, agent, updater, facts, others, faults>>

\* A check, the download, the smoke test or a rename fails.
UpdateFails ==
    /\ job.step = "downloading" /\ EndJob
    /\ UNCHANGED <<tunnels, down, agent, version, entry, others, faults>>

Swap ==
    /\ job.step = "downloading" /\ job' = [job EXCEPT !.step = "applied"]
    /\ report' = [version |-> job.version, state |-> "applied"]
    /\ UNCHANGED <<tunnels, down, agent, version, entry, others, faults>>

\* restart: the connection, if there is one, ends with the process.
Restart ==
    /\ job.step = "applied" /\ version' = job.version
    /\ job' = NoJob /\ report' = NoReport
    /\ IF agent = "away" THEN UNCHANGED <<tunnels, down, agent>> ELSE Leaves
    /\ UNCHANGED <<entry, others, faults>>

----------------------------------------------------------------------------
Next ==
    \/ SignIn \/ OldEnds \/ SendStatus \/ StatusRaises
    \/ Lose \/ RequestComesFirst \/ SeesClose \/ RouterRestarts
    \/ Approve \/ Revoke \/ Delete \/ DeleteBegins \/ DeleteEnds
    \/ Deploy \/ CanaryMoves \/ RollOut \/ OrderByHand \/ Ages \/ Beat
    \/ Read \/ Fetch \/ UpdateFails \/ Swap \/ Restart

\* The agent dials again, frames arrive, dead connections are noticed, handlers go
\* on.
Fairness ==
    /\ WF_vars(SignIn) /\ WF_vars(OldEnds) /\ WF_vars(SendStatus) /\ WF_vars(StatusRaises)
    /\ WF_vars(Read) /\ WF_vars(SeesClose)

Spec == Init /\ [][Next]_vars /\ Fairness

----------------------------------------------------------------------------
(* Properties *)

\* No tunnel serves or waits for an identity that is not to have one, whatever
\* connections and handlers overlap a revocation, a deletion or an approval, but one
\* that a sign-in or an approval put there while a deletion awaited the end of
\* another; the next approval or revocation takes that away as well.
OnlyApprovedServe ==
    /\ reg # "approved" => node \in {"gone", "none"} \/ "node" \in left
    /\ reg # "pending" => pending = "none" \/ "pending" \in left
    /\ reg \in {"approved", "revoked"} => left \subseteq {"open"}

\* An approved agent that is signed in is the one that the router sends to: the
\* end of its last connection does not take the tunnel of the new one with it.  (Not on
\* a connection that a revocation has left open.)
NewestServes ==
    reg = "approved" /\ agent = "in" /\ cur = "up" => node = "cur" \/ "open" \in left

\* No order stays open for the version that the agent has signed in with.
OrdersClose == facts = version /\ order.version = version => order.state \notin Open

\* What an automatic order installs, the canary has run for its time.
CanaryFirst == [][version' # version /\ job.auto => version' \in proven]_vars

\* An approved agent gets through to the router again, unless a revocation has left
\* its connection open.
Serving == agent = "in" /\ node = "cur"
ComesBack == (reg = "approved") ~> (Serving \/ reg # "approved" \/ "open" \in left)
=============================================================================
