# Skirnir in TLA+

Skirnir is a router in front of several machines with GPUs. Clients talk to the
router as if it were one Ollama server; the router picks a node for every
request, and an agent on each node carries the request to the local model
server, reports the state of the machine and carries out the router's orders.
This directory holds specifications of the parts in which the order of events
decides whether the system is right, TLC configurations that check them on
small instances, and TLAPS proofs for every value of the constants.

Paths below are relative to the repository. `PROJECT.json` maps every
definition to the lines it models.

## 1. The system

### The router (Python, one asyncio process, `router/skirnir_router/`)

| part | state | operations | interacts with | what is hard | correct when |
|---|---|---|---|---|---|
| admission and scheduling (`admission`, `scheduler`, `proxy`, `nodes`, `wol`) | per node: inflight, inflight_models, loads announced, breaker; the queue of waiters; per request: nodes tried, deadline | choose, wait for a slot, wait for a load, wake a node, start an attempt, end it in each of its ways | polls and pushes change what a node offers; every attempt goes through `nodes.nreq` | interleaved tasks between awaits, retries, cancellation, a node that goes and comes back | counts exact, limits kept, one probe at a half-open node, no request forgotten, batch not starved |
| tunnel server (`tunnel`, `registry`) | streams by id, the next id, queues of callers, the tunnel of each node | open, read, cancel, dispatch, close, attach, revoke | the agent over a WebSocket | reused ids, late frames, lost connections, cancellation in the middle of an await | a caller gets its own answer, whole and in order; nothing stays behind |
| node state (`poll`, `state`) | free, busy, offline and the times of their hysteresis; claims of loads, the frozen foreign memory | poll, push, heartbeat, tick, prewarm, unload | admission, OpenAI node orders | four sources of facts at different times, and the router's own loads among them | what the router loads is no game, a game gets the card, the rank-1 model comes back |
| OpenAI node orders (`openai_node`) | the last order, the window | hold, release, wait for a gap, wait for the standby | agent's upstream hold | a request that starts between the gap and the hold | running answers are not broken off |
| memory service (`memory`, `memory_gateway`, `memory_config`) | grants, shared scopes, the limits of a recall | recall, merge, retain, list, control an operation | outbox, `proxy` | grants that change under a call, several banks in one answer | nobody reads or removes what is not his, words stay in their data class |
| memory outbox (`memory_outbox`, `reliability_store`) | rows in PostgreSQL: state, lease, attempts | put, claim, send, verify, finish, cancel, delete, retry, clean up | Hindsight (HTTP), several routers | leases that expire under a slow worker, crashes, late sends | what is deleted stays deleted, what is reported stored is stored, every job settles |
| managed turns (`managed`, `managed_store`, `context_manager`) | turns, events, compactions in PostgreSQL; the lease | claim, renew, target, compact, commit, fail | admission (a turn is a request that awaits before it starts) | two routers, leases, retries with the same event_id, client gone at the end | one answer per input, in its place |
| sessions (`session_store`, `session_api`, `session_exchange`, `exchange_store`, `session_migrations`, `context_ops`) | sessions, events, imports | create, append, read, export, import | managed turns | idempotency under a lock | sequences without gaps, imports once |
| idempotency, shadow requests (`ops`) | entries with a future or an answer | wait, finish, abort | `proxy` | several waiters of a failed first request, shadows beside requests | one execution per key, and no reservation of a request that has ended |
| updates (`agentupdate`, `ollamaupdate`) | the update of each node | order, report, canary, release of a swap | tunnel, admission (drain) | restarts, stalled updates, overlapping connections | canary first, no swap under a running request, no order stays open |
| cloud (`cloud`) | targets with a breaker, spending | run, budget, class and content checks, translation of bodies and streams | admission | checks long before the call, costs after it | the budget is overrun by no more than what runs, nothing personal leaves the house unchecked |
| requests and protocols (`request`, `openai_api`, `anthropic_api`, `toolcall_rescue`, `rerank`) | the rescuer and the writers of a stream | translation | `proxy`, `cloud` | answers in any pieces, three formats | nothing is lost, doubled or made up on the way |
| privacy, authentication, settings, decisions (`privacy`, `auth`, `config`, `settings`, `values`, `decision/`) | configuration from two files, login cache, rate limits, sessions | checks, save, reload, throttle | `admin` | two writers of the configuration, clocks | what is saved starts again, identity is proven, limits hold |
| observation (`metrics`, `perf`, `ha`, `admin`, `fallback_observation`) | counters, files | - | - | - | - |

### The agent (Go, goroutines, `agent/`)

| part | state | operations | what is hard | correct when |
|---|---|---|---|---|
| tunnel client (`tunnel.go`) | its session, cancel functions by stream id | read frames, run a request, cancel | goroutines registered after a CANCEL, cleanup after a new session | only work for which a caller is there is done, and it is not stopped |
| supervisor (`supervisor.go`) | per child: held, Running, kill; the process | loop, Hold, Release, Park | orders that meet a child in any phase of its loop | a held child does not run, a released one is started |
| upstream hold (`upstream_hold.go`, `ollamawatch.go`, `standby.go`, `upstream_memo.go`) | held, standby running, switch, report | hold, release, drain, refuse, poll | orders in goroutines, polls under way | the server and its standby do not share the card, the report is true |
| updates (`updater*.go`, `ollamaupdate*.go`) | the update under way | download, verify, swap, roll back | restart in the middle | a node is never left without a working version |
| GPU guard (`guard.go`, `gpu.go`, `sensors.go`) | state, times, the limit set | step, set limit | external changes, gaps | the limit is lowered in time and restored |
| facts (`heartbeat`, `mqtt`, `game`, `power`, `facts`) | last report | measure, send | - | - |
| setup (`main`, `app`, `config`, `setup`, `install`, `service`, `provision`, `identity`, `routes`, `proxy`, `health`) | files | - | - | - |

Beside them: the rerank and decision services (stateless), deployment and
monitoring scripts, evaluation of the decision models, tests.

## 2. Modules

| module | models |
|---|---|
| `Admission` | choice, queue, breaker, attempts of the router |
| `Admission_proofs` | its theorems |
| `Requests` | a request from its idempotency key to its last byte: candidates, checks, budget, shadows |
| `Requests_proofs` | theorems of `Requests` and of `Access` |
| `NodeState` | what the router believes of a node that is shared with games, and does to its card |
| `Exchange` | abstract: what a caller may expect of a request to a node |
| `Tunnel` | router and agent over lossy sessions; implements `Exchange` |
| `Tunnel_proofs` | its theorems |
| `Fleet` | identities, their connections, and the updates of agents behind a canary |
| `Fleet_proofs` | its theorems |
| `OllamaSwap` | the update of a node's Ollama between router and agent |
| `OllamaSwap_proofs` | its theorems |
| `Node_proofs` | theorems of `NodeState`, of `UpstreamHold` and of `Placement` |
| `Supervisor` | the loops of the agent's children and the orders Hold and Release |
| `UpstreamHold` | orders hold and release over `Supervisor`, with switch and watcher |
| `Outbox` | one job of the memory outbox: its row, the workers, its owner, Hindsight |
| `Outbox_proofs` | theorems of `Outbox` and of `MemoryAccess` |
| `ManagedTurns` | the turns of one managed session: claim, context, compaction, answer, retry |
| `ManagedTurns_proofs` | its theorems |
| `Placement` | functions: which node a request gets, what it is told when it gets none, learned baseline, server window |
| `AnswerStreams` | functions: rescue of tool calls, answers and streams in three formats |
| `RequestBodies` | functions: conversations in three formats |
| `Access` | functions: clients, rate limits, logins, sessions, demands, redaction |
| `Configuration` | functions: two files, changes by the UI and by measurements, reload |
| `MemoryAccess` | functions: grants, banks, a chat with memory, control of operations |
| `MemoryRecall` | functions: which facts are passed on and merged, which answers are retained |
| `MC*` | constants for TLC |

`UpstreamHold` extends `Supervisor` (the hold calls the supervisor, the
supervisor's loops run beside it). `Tunnel` instantiates `Exchange` with a
refinement mapping. `Admission` and `Tunnel` meet at one call only,
`nodes.nreq`: an attempt of `Admission` that runs is a call of `Tunnel`, and what
`Admission` assumes of it (it ends, with an answer or a failure) is what `Tunnel`
is checked for (`EveryCallEnds`). `Requests` sees a candidate as up or not, which
is what `Admission`, `NodeState` and `Placement` make of it; `Fleet` says whether
there is a tunnel at all.

The modules of functions have no state of their own. What they promise stands in
them as named `ASSUME`s over the inputs that their constants span; TLC evaluates
them at the start of the run whose MC module extends them: `Placement` with
`node_state`, `Configuration` with `fleet`, `AnswerStreams`, `RequestBodies` and
`Access` with `requests`, `MemoryAccess` and `MemoryRecall` with `outbox`.

A line `\* Mutant:` above a definition marks a wrong variant of the definition
after it. It is used by no specification; replacing the definition by it must
break the property that `PROJECT.json` names.

Every module with variables states one type invariant, `TypeOK` (`HoldTypeOK` in
`UpstreamHold`). All of them are proved. A configuration lists the properties and
not the types.
### Admission

The unit of a step is what one asyncio task does between two awaits. `req[r]`
holds the fields of `_Acquire` and `_Relay` of one request, `st` is the await it
stands at:

| `st` | in the code |
|---|---|
| `select` | about to call `next_candidate`; also after a failed attempt |
| `waiting`, `woken` | `wait_for_slot`: in the node's queue; its future resolved by `release` |
| `loadwait` | `_wait_for_load`, for a load announced by another request |
| `waking` | `_wake_or_refuse`, the node gets a magic packet |
| `target` | a managed turn in `turn.target`, a deferred start in `_via_node`: chosen, not begun |
| `running` | between `_begin` and `_finish` |
| `failing` | an attempt has failed and its `finally` has not run |

Actions carry the names of the functions they stand for (`Arrive`, `Choose`,
`WaitForSlot`, `Begin`, `Again`, `AfterRelease`, ...; the rest in the map).
`breaker`, `until`, `fails` are `nodes.Breaker`; `inflight`, `inflightModels`,
`loading` the node's counters; `online`, `offers`, `throttled` change by reports.
The score, the VRAM budget and the drain window are data here (`Placement` has
them): any node that is reachable may be a candidate, any candidate may be chosen.

### Tunnel, Exchange

`wire[c]` is the state of the WebSocket of session `c`, `down` and `up` its frames
in both directions. On the router `streams[c][s]` is `Tunnel.streams`, `call[r]`
is where the coroutine of `TunnelRequest` stands, `inbox[r]` its queue, `cancels`
the CANCELs that were spawned and not sent. On the agent `running` is its map from
stream id to cancel function and `handler[r]` the goroutine of a request. Each
side notices the loss of a connection in its own time (`Lose`, then `RouterCloses`
and `CloseAll` or `AgentLoses`), a new session may be attached before the old one is noticed as
lost, and `next_id` wraps after `SidLimit`. `IdsAssumption` bounds the requests by
`SidLimit` (4294967295 in the code), so no connection hands out an id twice; the code
does not look whether an id is taken, and what it would do then is not modelled.

`Exchange` is what a caller may rely on, whatever carries the request: its own
answer, in order and without gaps, and success only for a whole answer. It speaks
of one request; `Tunnel` has an instance `Carried(r)` for each, which takes `phase`
from the call, `got` from what it has read, `made` and `eof` from the goroutine.
`CarriesExchange`, checked by TLC and proved, is `Carried(r)!Spec` for every `r`.

### Supervisor, UpstreamHold

`Supervisor` has one loop per child: the gate at which a held child waits, the
start of the process, the moment at which `Running` is set, the wait for its end,
the backoff. `UpstreamHold` adds the orders of the router, each in a goroutine
that waits for `u.mu`; `step` says where the order that has the lock stands, one
step per call that takes another lock or waits (`Hold`, `SetHeld`, `startFallback`,
`drain`, `stopFallback`, `Release`). Beside it runs the watcher, whose poll asks
without a lock and writes its result later. Whether the RAM suffices for a
release, and whether the agent starts held, are free choices.

### Outbox

`row` is the row in PostgreSQL, one field per column that decides something:
`tried` is `attempts > 0`, `sends` is `attempts - retry_base`, `up` and `upBase`
are `upstream_attempts` and `upstream_base`, `del` is `delete_requested`, `live`
says that `lease_until` is in the future, `payload` and `scope` that they have not
been removed. `worker[w]` is the claimed row as the worker read it, where it
stands (`claimed`, `called`: its send is out, `ended`: a deletion has seen that no
write can follow, `done`: the outcome is known and not recorded) and the outcome.
Every method of the store is one action, every call of Hindsight one or two.

Hindsight is modelled as the code uses it: an operation id that it knows is
answered with its state and never started again (`memory_outbox.py:26`); an
operation ends `completed`, `failed` or `cancelled`, and may have written the
document in the last two cases; all operations of a job write the same document.
It may forget an operation that has ended, but not while a worker holds a
request for it.

### ManagedTurns

`status`, `log`, `turn` and `compaction` are the tables `sessions`, `events` (a
row's index is its `seq`), `turns` and the latest version of `compactions` for one
session; `turn[e].live` says that the turn is pending and `lease_until` in the
future. A request claims at most once, so it stands for the lease it was given.
`req[r].st` is where its handler stands: `claimed` (it has its lease), `ready` (it
has read the context and calls `target`), `asked` (a model answers), `closing`
(`Turn.close` is next). `upto`, `known` and `protected` are what it has read:
the rows, the compaction, the rows that must stay exact.

Every method of the store is one transaction that locks the session, so one
action; whether its reply comes back is a choice of its own. `Holds` is `_lease`;
reading the context does not ask for it. What a compaction keeps is data except
for these things: where the tail starts, which rows before it are protected or tool results
and so pinned, which of the pinned results are cut short (`short`), and that pins
alone, none of them cut short, are refused as too large. Any check that can only
refuse is a refusal at any time (`Refuse`, `GivesUp`), among them a fingerprint
that differs, changed policy, the `lost` flag of the heartbeat, a closed transport.

### Requests

`pc[r]` is the await a request stands at: `wait` and `woken` in `idem_wait`,
`prepare` (session, memory, routing), `choose` (`_Acquire`), `check` (the content
check of a cloud candidate), `sent` (no byte has come back), `read` (an answer in
one piece), `stream`. `entry` is `IDEM[key]` for the one key, with the future that
its reservation holds or the stored answer; `waits[r]` is the request whose future
a repeat awaits, which need not be the one the entry has now. A role has one tier
on a node, one on a node that fronts a server, one in the cloud; `up` is whether
the selection would take it. `bill` is `spend_month`; every answer costs one unit.

The line after which no other candidate may be tried is drawn by the code at
different places: headers are out (`open`), a keep-alive ping is out, an answer in
one piece has begun. `voice[r]` collects the candidates whose bytes the client has
had, `saw[r]` what of the words a provider got (`raw`, `redacted`), `spoiled` whether
a keyed request failed, gave up waiting, or its stored answer expired: after that
the code lets several requests of a key run.

### NodeState

One unit of time is a poll interval; `Poll` and `Beat` come at most once a unit, in
any order, and `Tick` ends the unit when each has come or been lost. The
machine beside the router is `game` (its memory, its load and what the agent's
fact says of it), `card` (the model Ollama has), `filling` and `leaving` (memory in
use that `/api/ps` does not show yet or any more). `node` is the `Node` object:
`hot`, `foreign`, `calm`, `playing`, `heavy` are the windows of `evaluate`, as ages;
`known` and `used` the last heartbeat, `loaded` the last `/api/ps`, `claim` and
`frozen` the accounting of loads that the router has announced, `late` the claims
whose deadline has passed, `hold` the time for which given-back memory still counts
as Ollama's, `catchUp` a prewarm that was put off. `request` is one request on the node,
`cold` that it has announced its load, `fetch` the poll that it leaves behind
(`_finish`). `prewarm[t]` is a task of `prewarm`, `unload` one of `unload_big_models`.

`played` and `own` (history) measure for the property how long ago a game ran, and how
long ago a load of the router's own was under way. `OwnLoadIsNotForeign` is about the
time in which such a load or its tail accounts for memory. What ends this time
without a tail sets `own` to `Settle` and is thus excused: going offline, which drops
claims and tails; a load that outlasts the 300 s of its claim; an unload of a
model that a prewarm is waiting for; and two users of one model, who share its claim, which
ends with the first.

### Fleet

One identity. `cur` and `old` are the handlers of its last two connections
(`handle_tunnel_v2`), which run side by side: a handler signs in, awaits the end of
the connection it replaces, attaches the tunnel, sends the status and reads until
the end; its `finally` compares the tunnel with its own before it takes it away.
`node` and `pending` say whose tunnel `Node.tunnel` and `PENDING` hold. A deletion of an entry that waits
is two actions, `DeleteBegins` to its await of `close_ws` and `DeleteEnds` after it, with any
sign-in, approval or revocation between them; `left` (history) says where a deletion or a revocation has
left a tunnel behind. `order` is
the entry's `update`, `job` and `report` the agent's `Updater`, `facts` the version
of its hello, `manifest` the files on the router's disk, `canary` the version of
the other agent and whether it has run it long enough, `proven` (history) what it
has run that long. `aged` stands for the waiting times of a state.

### OllamaSwap

`order` is the entry's `ollama_update`, `drain` and `pending` are `draining_until`
and `swap_pending`, `releases` the tasks of `release_swap`, one per version.
`phase` is where `OllamaUpdater.run` stands, `out`, `in` and `revert` with the entry
`job.at` that `swapTop` or `rollbackTop` moves next; `dir` and `backup` are the two
directories, entry by entry. A heartbeat carries version and report as they were
when it was made (`Sample`), and is applied later (`Beat`). `request` is one request
that is chosen for the node and begins some awaits later. `excuse` and `broken`
(history) are the known ways in which a request is hit and the files stay mixed
(see findings); the properties speak of all others.

### The modules of functions

- `Placement`: `candidates_for`, `select`, the score, the refusal that a client is
  told (`_node_block`), the card's budget with standby and server, the fit of a
  model, the baseline learned by hour, the window of a server and its standby.
- `AnswerStreams`: text is a sequence of tokens that only tell apart what the code
  looks for; a stream is a sequence of lines in Ollama's form, cut anywhere. The
  readers of provider streams are applied to what the writers for clients make of
  it, so each is checked against the other.
- `RequestBodies`: a call has a name and an identifier, because the formats tie a
  result to its call by identifier, by name or by order.
- `Access`: sequences of requests and clock ticks are folded over the records of
  clients, logins and sessions. A login hashes in a thread and returns in any order.
- `Configuration`: a configuration is what `Loaded` makes of two files. Operations
  of the UI, of a measurement, of a deploy and of a reload are folded over it.
- `MemoryAccess`: a bank or operation id, a keyed hash in the code, is the tuple it
  is made of. Grants are all combinations of their fields that the configuration
  lets in.
- `MemoryRecall`: facts are folded into an answer one by one, under limits on
  number, bytes and text, as are the projects of a merged recall rank by rank.

## 3. Runs

| run | instance | question |
|---|---|---|
| `admission_safety` | 3 requests (one a managed turn of one tier, two with both, symmetric), 1 node with 2 slots, 2 models, one of them with `max_parallel` 1, time 0..2, 1 report | are counts exact, limits kept, is one probe at a half-open node? |
| `admission_live` | 2 requests with two tiers each, 1 slot, queue of 1, the node fails, goes and returns | is every request answered? |
| `requests` | 3 repeats of one key (one of them with words its client declares personal), 1 checked stream; a node and a server with 1 slot, a cloud with 2 and a budget of 1 answer; 1 event | does a client hear one candidate, does one request of a key run, is a reservation anybody's and who waits for whom, is the budget kept but for what runs, what leaves the house? |
| `node_state` | a card for one model and a half, a game that needs half of it and a load that no agent reports, 1 prewarm task, windows of 1 or 2 units, 2 events | is the router's own load taken for a game, do claims end, does a game get the card, is a prevented prewarm made up for, does the rank-1 model come back? |
| `tunnel_safety` | 2 calls, 2 sessions, one lost, 2 stream ids, connections of 1 frame | does the tunnel implement `Exchange`; is the right request cancelled, is nothing left behind? |
| `tunnel_live` | 1 call, 2 sessions, connections of 2 frames | does every call end? |
| `fleet` | 3 versions, 2 faults, overlapping connections, one deletion that awaits | who is served over which connection, what is left of a deletion or a revocation, do orders close, is the canary first, does an approved agent come back? |
| `ollama_swap` | 2 versions, 2 files, 1 fault | are the files whole, are requests spared, is what is ready released? |
| `upstream_hold` | 2 children, 3 orders | do supervisor, switch, watcher and report agree, does every order end, does every released child start? |
| `upstream_card_doc` | 2 children, 2 orders | finding |
| `outbox` | 2 workers, 2 sends, 1 resubmission, 1 retry round, 1 fault | is what is deleted gone, what is completed stored, is one extraction at work at a time, does every job settle? |
| `managed_turns` | 3 requests, 3 event ids, inputs of 3 messages of which the first may be a tool result, `reduce_tool_results`, a tail of 2, 1 checkpoint of the client | is there one answer per input and in its place, is what a client was told stored, was the model asked with the whole conversation, what is cut short of an input without an answer? |

Why the bounds are enough:

- `admission_safety`: the limits are 2 per node and 1 per model, so three requests
  can exceed each of them; `Failures`, `OpenS` and the waits are 1, so that within
  time 0..2 a breaker opens, becomes half-open, gets its probe and opens again,
  and a waiter times out. A report names both models or `b` alone (`Offered`);
  404s take away the others. A second node is another copy of the same variables:
  requests meet on a node. A node to which a retry could turn is missing in this
  run; the proofs hold for any number of nodes.
- `requests`: three repeats are one that holds the reservation, one that waits for it
  and one that comes when it has ended; two slots over a budget of one answer let
  two calls pass the check before either is paid. The event is a change of a
  candidate, a new month, a client that goes or a shadow run; failures of
  candidates are not counted. A second key is another copy of `entry`.
- `node_state`: the windows are at least as long as a report is believed, so that each can
  begin, be interrupted and end with every order of the reports. Two events are, for
  example, a game that comes while the router loads, and its end, a lost poll and a
  request, or a request and load that nobody reports. Reports that come each unit are
  not events. `ClaimsEnd` and `OwnLoadIsNotForeign` are proved for every length and bound.
- `tunnel_safety`: the agent finds its streams by their ids whatever session they came in,
  and the second session begins at the first id again; a CANCEL overtaken by a reuse, an old session beside a new one and a
  writer blocked on a full connection all happen (each mutant needs one of them).
  With one connection lost of two, the new session is used while the old is cleaned up.
- `fleet`: two faults are a lost connection and a restart of either side, or two lost
  connections, so that a handler meets its successor and the successor's end.
  Three versions are the one that runs, an order, and a deploy that overtakes it.
  At most one deletion awaits the end of a connection at a time, and the agent's third
  connection waits until the first one is over; a deletion, a sign-in during its await,
  an approval or a revocation, and a third sign-in all happen within these bounds.
- `ollama_swap`: two files are one that has been moved and one that fails; the fault is
  a lost session, a restart of either side, or a failing rename. A second update
  in a row begins from the same state as the first, but for what the first left
  in the directories, and the first may be repeated after it has failed.
- `upstream_hold`: three orders contain each pair in both orders and a repeated one
  between them. Crashes of the children are not bounded.
- `outbox`: one fault is a crash, a lease that a worker outlives, or a forgotten
  operation; with two workers this already gives two holders of one job, late sends
  and late outcomes. Cancelled and failed calls, revocations and refusals are
  not counted and may happen at every call.
- `managed_turns`: three requests are a turn that fails, a newer one, and a late
  retry of the first; or an answered turn, a failed one, and a compaction that has
  to pin the second. The shortest tail that the configuration allows is longer than
  2, but an input may have 64 messages: a tail of 2 with inputs of 3 is the case
  in which the tail starts inside an input, behind the tool result that it begins with, so that
  one compaction pins the result and the next one may cut it short. Checkpoints of the
  router are off to keep the run small (`AutoCheckpoints`); a checkpoint is no
  message, those of the client show what it does, and the proofs hold with both.

Deadlock is checked in every run. The quiet ends of a run are actions of their own
(`Quiescent`, `Settled`, and the like), so a state in which something is left undone would be
reported.

### What the assumptions of the functions say

| module | assumptions | over |
|---|---|---|
| `Placement` | `RefusalsAreTrue`, `GameOverHelps`, `OwnModelsMakeWay`: the reasons a client is told agree with the selection, and own models never count against themselves | some hundred states of a node with or without a server, each tier |
| | `ChosenServes`, `VoiceGoesOn`, `RefusalsAreFinal`: whoever is chosen could serve, an interactive request is not put behind a running one, a refusal without Retry-After is final | worlds of two nodes and a cloud target, three tier lists, eight requests |
| | `WarmWins`, `GamesAreNotLearned`, `WindowSettles`: scores, learned baseline, no order to and fro | nodes with bad records, hours with games, servers with their standby |
| `AnswerStreams` | the rescue of tool calls loses and invents nothing; streams in both formats are well formed, and read back they are the answer | all streams of three lines over eight kinds of tokens |
| `RequestBodies` | nothing of a conversation is lost, results keep their calls, roles alternate, no thinking where it is off | conversations of up to three messages |
| `Access` | identity is proven, limits hold in every window, logins are checked, sessions bounded, what the content check hides is hidden | all sequences of up to a few requests and ticks |
| `Configuration` | what was saved starts again; what runs is a whole valid configuration; a locked mode, a measurement, a deleted client | two files and all pairs of operations |
| `MemoryAccess` | `BanksKeepApart`, `WordsStayInTheirClass`, `ForeignOperationsAreHidden` | two clients, all grants, shared scopes and requests |
| `MemoryRecall` | limits of a recall and nothing said twice, the first project stays first in a merge, a state is never inferred, only whole answers are retained | up to three facts of ten kinds under 54 limits; streams of three lines |

### Fairness

- `admission_live`: time goes on, and every step of a request that is possible is
  taken at last. The event loop runs every runnable task; a wait ends after
  `RECHECK_S`, an attempt after `request_timeout_s`. Reports of nodes are not fair.
- `tunnel_live`: `WF(Progress)`, all steps that either side takes by itself: reading
  and writing frames, spawned tasks, goroutines, noticing a lost connection
  (heartbeat). Aborts, losses and timeouts of callers are not fair, so a call does
  not end by its timeout.
- `node_state`: polls, heartbeats, ticks and the tasks they spawn go on, requests and
  loads end. Games, faults and requests are not fair.
- `fleet`: the agent signs in again, handlers go on, ends of connections are noticed.
  Orders, deploys, the operator and faults are not fair; `ComesBack` is not helped by
  the operator.
- `ollama_swap`: heartbeats are made and applied, a session comes back, frames are
  read, a request ends; strong fairness of `Release`, the loop of `release_swap` that
  looks again every few seconds, because a request on the node may come and go. Nothing is
  assumed of orders, of the agent's giving up, or of downloads.
- `upstream_hold`: the order that holds the lock goes on (its waits have a limit),
  a child's loop goes on, a killed process ends. New orders, crashes and answers of
  the server are not fair.
- `outbox`: weak fairness of the workers' steps, of the burial of exhausted jobs,
  of the expiry of leases and of the end of an extraction. Strong fairness of
  `Verify`: a verification whose call fails is repeated without limit
  (`verify` returns `accepted`), so the job settles only if Hindsight answers at last.

### Findings

`upstream_card_doc`: `Hold` goes by `Running`, which is set after the process has
been started (`supervisor.go:300`, `129`, `140`); a hold in between starts the
standby beside the server, against `upstream_hold.go:26`.

Two more sentences of the documents are refuted in the same way. No run is kept for
them; the properties name what is excepted, and a run without the exception ends in the
behaviour described.

The deletion of an identity takes its waiting tunnel out of `PENDING`, awaits
the end of that connection, which on a dead peer takes as long as the closing handshake may,
and then removes the entry without looking at it again (`registry.py:476` to `479`). If the
agent signs in again and is approved meanwhile, its tunnel serves a node whose key the register
does not know, against `docs/adr/0009`, line 44: "unapproved keys get no requests". If it
is not approved, the tunnel stays in `PENDING` without an entry. TLC's shortest way with one fault:
sign-in, loss of the connection, first half of the deletion, sign-in, approval, second half. `OnlyApprovedServe` says
that this is the only way (`left`), and that the next approval or revocation ends it.
A revocation closes one tunnel (`registry.py:258` to `272`): if one waits while a
deletion has left another in the node, the waiting one stays open, in neither
place, and its agent gets nothing until that connection ends (`left = {"open"}`, the excuse of
`NewestServes` and `ComesBack`).

With `reduce_tool_results` a compaction cuts short every pinned
tool result that is not protected (`context_manager.py:99`), and only rows behind
`through_seq` are ever protected (`managed_store.py:138`). The tool result of an input without an
answer is pinned exactly by the first compaction and cut short by the next one, of a retry on a smaller model or
of a later turn, against `design/memory-reliability.md:102` and `design/managed-context.md:104`
("remain exact protected context"). `UnresolvedIsKept` says that nothing else of such an
input is touched, and `CommitsOnTheWhole` that what no compaction had reached is in the
context word by word.

Met while modelling, each a behaviour of a module or an exception that a property
names:

Admission and requests
- A managed turn awaits database calls between the check of the limit and `_begin`
  (`proxy.py:267`), so two of them take the same last slot, against `admission.py:3`. So
  does a deferred start on a standby. Requests that do not await there keep the
  limit (`OrdinaryWithinLimits`, proved).
- A success of an attempt that started before the breaker opened closes it at once.
- `max_parallel` is counted per requested name, so an alias and its base have a count
  each (`admission.py:32`).
- An interactive request whose session is at home on a busy node waits there: affinity
  comes before the interactive pick (`VoiceGoesOn` excludes it).
- A streamed answer of a cloud or a server that fails to connect ends with 502, without
  another candidate, unlike one in one piece (`proxy.py:6`); of client faults it is the
  other way round.
- After a failed first request several waiters of a key replace each other's
  reservation (`ops.py:76`), and a repeat that waits for one that was replaced waits for its timeout;
  one that has timed out runs without any. `OneRunUnlessSpoiled`, and what `ReservationHasOwner` says
  of those who wait, speak of the keys to which nothing of this kind has happened.
- A refusal of the content check is stored as the answer of its key and counts as a
  success for the breaker. Aborted cloud streams are not billed.
- Two shadows can be planned before either has set `SHADOW_BUSY` (`ops.py:13`: never two at once).

Nodes
- Memory of another client's model that `/api/ps` does not show yet when the router
  announces a load is frozen as foreign for the whole load (`nodes.py:286`).
- Two loaders of one model share one claim, and the end of one removes it
  (`nodes.py:290`, against 274); going offline drops the claims of loads that go on.
- `go_offline` keeps `foreign_since`: a node that returns can turn busy without its window.
- A prewarm skipped for foreign memory, pressure or a failure is not caught up (only
  one that a game prevented is).
- A hold whose order is lost stays `node.upstream_order`, so the window never orders it
  again until a release (`poll.py:518`).

Connections and updates
- `_open` removes a stream on the deadline and then awaits the CANCEL (`tunnel.py:203`); a
  caller cancelled in that await leaves the agent working for nobody, against `README.md:92`.
- A handler whose first status cannot be sent ends before its `try`, so `node.tunnel` keeps
  a dead tunnel until the next sign-in (`registry.py:345`); a request that is sent on a
  new tunnel before the status breaks the agent's login.
- An approval while a connection is being closed is answered "approved" and then "pending".
- "stalled" is never stored, so a stalled order is repeated after 15 min and not after 6 h.
- A new hello, the time limit, a failed report or the end of another wait lifts the
  drain of a node while a release is due; a managed turn chosen before the drain may
  begin after the last look (`excuse` in `OllamaSwap`). An agent that ends in the middle of a
  swap leaves the files in pieces, and its next order removes the backup
  (`ollamaupdate.go:496`); so does the end of a rollback that failed (`broken`).
- Two orders of the router, each in a goroutine of its own, take `u.mu` in any order
  (`upstream_hold.go:235`, against the comment at line 64); the router repeats an order as long
  as the report differs.

Memory
- `verify` moves a job whose extraction failed to the next upstream id before anything is
  sent under it; a deletion in this time asks for an operation Hindsight has never
  seen and repeats that until the job is dead (`memory_outbox.py:73`, against 27). A
  deletion whose operation is reported `cancelled` is not carried out either.
- A merged recall does not count what its further projects trimmed, and may say
  `limited_by` "results" although something was trimmed (`memory.py:352`, against 134).

Answers, bodies, configuration, access
- A tool call that is streamed in small pieces ("<", then the rest) is passed on as text
  (`toolcall_rescue.py:154`, against 183); a stream that ends without its last line loses held text.
- `oa_tool_calls` numbers the calls of each line from 0 (`openai_api.py:26`): calls in several lines
  share an index, and clients that merge by index merge them.
- Made-up tool ids repeat from turn to turn (`cloud.py:424`) and pair wrongly unless all calls
  are answered in order; consecutive results are consecutive user messages (against `cloud.py:429`).
- Saving an unchanged model in the catalog drops `real` if the measurement stands in
  `config.yaml` (`admin.py:343`); a measurement replaces a model's entry and drops `max_parallel`
  set in the UI; a request that removes a setting and deletes a client brings the
  setting back (`admin.py:402`); a deploy of `locked: true` over a saved mode makes the
  configuration invalid, so that the router does not start again.
- Credentials that are empty or cannot be read fall back to the source address, wrong
  ones do not; refused requests count for the rate limit; concurrent wrong logins
  pass the throttle together.

## 4. Proofs

TLAPS proves the following for every value of the constants that satisfies the
`ASSUME`s of the modules. Each proof module begins with its inductive invariant `IInv`;
one lemma or step per action shows that it is kept, and the theorems follow from
it. What the invariants say beyond the properties is why the code is right:

- `Admission_proofs`: `Bookkeeping`, `OrdinaryWithinLimits`,
  `OneOrdinaryProbe` as invariants, `StartOnlyWhereAllowed` and `AgingBeatsClass`
  (`AgingBounds`) as action properties, for any finite set of requests and any nodes
  and models. `IInv` adds `DeferredOnly`. The limits need exact
  counts, since a start compares the counters and not the set of running
  attempts, and `DeferredOnly` (who stands at `target` is managed or deferred) to
  know that an ordinary start follows its check without an await. `AgingBounds` rests on
  `OnlyReleaseWakes`: no step but `release` wakes a waiter, and it takes the least in
  the order of class and age.
- `Requests_proofs`: `OneVoice`, `ReservationHasOwner`, `OneRunUnlessSpoiled`,
  `OverspendIsBounded`, `PersonalStaysHome`, for any finite set of requests of any kinds
  and any slots, budget and data classes. `Local` ties where a request stands to its
  candidate, to what its client has heard and to what a provider got: that a byte is out
  means it is in an attempt or over, so the loop over candidates is never entered again.
  `KeyHeld` says that as long as nothing was spoiled whoever runs with the key holds its
  reservation, that whoever waits does so for that one, and that those who are woken find an answer; without the last part a
  woken repeat could start beside the next owner. The budget needs no more than itself:
  a start on the cloud is checked against the bill, and the end of a call adds to the bill
  what it takes from the calls under way.
- `ManagedTurns_proofs`: `AnswerFollowsInput`, `SuccessIsStored`, `UnresolvedIsKept`,
  `CommitsOnTheWhole`, for any numbers of requests and event ids, any sizes of inputs and tails, with or
  without tool results and their reduction.
  `TypeOK` contains the unique index on pending turns. `Latest` says that nothing is added
  behind the input of a leased turn, `Informed` that what a request has read is still so
  while it holds the lease, and that of the inputs without an answer it has read everything whole that no
  compaction had reached: with these a commit, which checks no more than its lease
  and the compaction, is one on the whole conversation. `LeastElement` and `GreatestElement`
  are the facts on numbers that the cut of a compaction needs.
- `Fleet_proofs`: `OnlyApprovedServe`, `NewestServes`, `OrdersClose`, `CanaryFirst`,
  for any number of versions and faults. `Attached` (the handler of an open connection
  has put its tunnel where the entry wants it) carries over the overlap of
  handlers, with what a deletion or a revocation has left behind (`left`) as its only exceptions; `Told` and `Another` (what an agent works on, and what it reports of that, is not
  what it runs) let an order be closed by a sign-in; for the canary the frames on
  their way and the job on the agent count: an automatic order is of a proven version from
  the moment it is sent, and no version is ever unproven again.
- `OllamaSwap_proofs`: `InstallationIsWhole`, `SwapSparesRequests`, for any number of versions and
  faults; the two entries of an installation are fixed in the model. `OldAt` says
  where the old version of each entry lies at each step of the exchange and of its
  rollback. `Drained` and `Spared` say that a release that is due, or on its way to the
  agent, finds the node drained and without a request, or has an excuse; `NothingYet` and
  `NoneLater` are what that takes about the waits of former orders.
- `Node_proofs`, on `NodeState`: `ClaimsEnd` and `OwnLoadIsNotForeign`, for any card, any games
  and any lengths of the windows, tasks and events. `Reported` is about load: in the time in which
  a report from before the end of a game is no longer believed, the window of high load is
  shorter than the age of the last report, because a report from a quiet machine ends it or is the
  router's own request's; so it cannot reach `sustain_s`. `Covered` is about
  memory: as long as the load or its tail counts, there is a claim that is not late, or the
  model is in the card and reported, or the tail has `Settle - own` to go. It needs that there is one
  prewarm that loads, that no request shares its claim (`Announced` sets the excuse
  otherwise), that every claim has its load (`ClaimsEnd`), and that a model is never in the
  card and claimed at a time (`Apart`). `EvaluateEffects` says what an evaluation
  may change; all reports and the tick go through it.
- `Node_proofs`, on `UpstreamHold`: `OneMayRun`, `GoneBeforeStandby`, `WhoServes`,
  `BlockedKeepsServing`, `HeldIsTold`, for any number of orders. `HoldInv`
  adds `Phase` (what supervisor, switch and watcher look like at each step
  of an order), `DyingShows` (a killed process still shows as running, so an order
  waits for it), `BlockedIsIdle` and `Told`. The two components share the module
  and no variable.
- `Node_proofs`, on `Placement`, for any nodes, tiers, models and requests: `RefusalIsTrue` (the
  reasons of a refusal, which are looked for in an order of their own, are there
  exactly when the selection would not choose the node), `GivenBackItFits` ("gpu_busy" is the
  fault of foreign memory), `ChosenIsServed` and `InteractiveGoesOn`. The last two follow the branches
  of `choose` as one list of ways to choose (`WaysToChoose`), each with the tiers it has passed over.
  The lemmas below it: the best of finitely many nodes with names of their own is one of them
  (`BestIsOne`), and the checks of `_node_block` in their order as one case each (`RefusalByCase`).
- `Outbox_proofs`: `DeletedIsGone`, `CompletedIsStored`,
  `CancelledWasNeverSent`, `OpenJobsAreWhole`, `OneExtraction`, for any number of
  workers, sends, resubmissions, rounds and faults. `IInv`
  adds what the outcome of a worker is worth: `Work` (a worker that still has the
  lease knows the row as it is), `Operations` (every id below the current one is
  `Closed`: its operation has ended, or Hindsight does not know it and no send of
  it can come), `Document`, `Counts`, `Shape` and `Untried`. It rests on Hindsight as
  modelled above.
- `Outbox_proofs`, on `MemoryAccess`, for any policies, projects, clients and requests: `BanksAreApart`,
  `WordsStay`, `OthersAreHidden`, `OwnNeedTheGrant`. All of them rest on `ScopeIsGranted`: whichever way
  `scope_for` takes, a scope that it returns is the one of a grant of this client.
- `Requests_proofs`, on `Access`: `TokensProveIdentity`, and for the login of the control port
  `LoginsAreProved`, `HashedIsOfItsTime`, `GateOutlivesChanges`. What is known to be good is kept under the
  stored hash as it was (`GateOK`); so a login is let in at once only with the password of this moment, and
  after its hashing with the one of the moment it came. Every call, tick and change keeps
  `GateOK`; that it holds after any sequence of them is induction over data, and is left to the reader.
- `Tunnel_proofs`: `OwnFramesFromTheHead`, `NoWrongCancel`, `NothingLeftBehind`, and
  `CarriesExchange`: the tunnel implements `Exchange` for each of any number of requests, over any number of sessions, losses
  and pieces of data. The router forgets where a request went when it is over, while its frames
  may still be on their way. So `IInv` says that there is a way to remember (`on` and `id`,
  the connection and the stream id that each request got, given by `\E`) under which
  everything fits. `IdsOK`: a stream id of a connection belongs to one request. `WorkOK`: a REQ
  is for a request the agent has not begun, a CANCEL for a caller that is gone, what is registered
  under an id is at work under it, and what was cancelled has lost its caller or its
  connection. `AnswersOK`: every frame in a connection was produced by the request that got its
  id, a queue holds the pieces from the one that its caller reads next without a gap, and the
  connection those behind it (`Follow`) up to the last that was made (`Reach`). An `Open` extends
  `on` and `id` by the new stream; every other step keeps them. The refinement
  takes from this that DATA at the head of a queue is the next piece the service
  has made, and END stands behind all of them (`Explained`).
  `NothingLeftBehind` needs `Onward`, which says of everything that can wait what will take it
  away: a closed connection is lost and empty, and has no stream but of callers whose send will
  fail (`ClosedOK`); only the present connection has orders (`FreshOK`); who gives
  a stream up has left the table before the agent can hear of it (`CancelsGone`); a caller that waits
  is in the table, or the end of its answer is in its queue (`AwaitedOK`); and
  the end of the answer of every stream in the table of a living connection is ordered, being made
  or on its way (`ServedOK`). `Ties` is the part of `IInv` it uses: which stream belongs to whom.
  The property spells out the guards of the steps (`CanGoOn`), since the provers have no rules for
  `ENABLED`; on the instance of `tunnel_safety` TLC found `CanGoOn` equal to
  `ENABLED Progress` in every state, and `Onward` an invariant.

TLC has checked the `IInv` of `Requests`, `ManagedTurns`, `Fleet`, `NodeState`, `OllamaSwap`, `Outbox` and
`Tunnel` as an invariant on the instances of the runs or larger ones
(`Tunnel`: 1 060 504 states up to symmetry; `OllamaSwap` with `MaxVersion` 2: 4.6 million).

Each of these modules also proves its `TypeOK`. `StartOnlyWhereAllowed`,
`AgingBeatsClass`, `GoneBeforeStandby`, `HeldIsTold`,
`CancelledWasNeverSent`, `OpenJobsAreWhole` and the types are not
listed in a configuration: the theorems say more than a run can.

No theorem cites a named assumption of `Placement`, `MemoryAccess` or `Access`; what it needs of its arguments
stands in its ASSUME: node names are unique and numbers are numbers (`WorldOK`, `Weighed`), and for
`RefusalIsTrue` that nothing is warm in Ollama that is the model of the node's server, or of its standby
while that does not run (`Loaded`).

What the proofs assume: the sets of requests and the like are finite where they are counted, limits are
natural numbers, `None` is no member of the sets. `IdsAssumption` of `Tunnel` says that there
are no more requests than stream ids: `next_id` wraps at 2^32 - 1, and `open` does not look
whether the id is still in use; on a connection that has carried so many streams since
it was made, none of the theorems holds. `MarginsAssumption` of `NodeState` says that a second
model does not fit beside one and a game (`Total < Size + ForeignMin`; otherwise a report in the
midst of a swap, which shows both models, is foreign memory), and that `heartbeat_stale_s` is not
longer than `sustain_s` (both are 10 s in `config.example.yaml`; otherwise one report of
high load is enough).

Writing them has corrected the models. A cloud tier may be taken before a local one as the canary's, which
`ChosenServes` had excluded and no run had met. The proof of `NodeState` did not go through with the
property as it had been checked: with one event more, a request that shares its claim with a prewarm
refuted it, and so did a poll that fails after a load. The model lacked the poll after a cold
request, the failure of the polls that follow a load, and the deadline of a claim; they are actions now,
and the property names its excuses. Besides, a CASE whose conditions overlap has any of the
values that fit, although TLC takes the first. `Fleet`, `OllamaSwap`, `MemoryRecall` and
`Placement` had one each, and their conditions now exclude one another as the branches of the code do.

Only model-checked:

- everything under fairness (`EveryRequestAnswered`,
  `EveryCallEnds`, `EveryOrderEnds`, `ReleasedIsStarted`, `EveryJobSettles`,
  `ComesBack`, `ReadyIsAnswered`, `CardIsGivenUp`, `PrewarmIsCaughtUp`, `RankOneReturns`):
  the provers have no rules for it;
- of the modules of functions whatever is computed by recursion or by a fold, which needs induction over
  data: streams, bodies, conversations, configuration, recall, redaction, rate limits, learned baselines. Their
  named assumptions are evaluated for the values of the runs.

No liveness is stated of `ManagedTurns` and of `Requests`: their requests end by their own time limits.

## 5. Not modelled

- Wording, headers, logging, pages, metrics, Home Assistant, prices; the numbers of
  the decision engine and of the GPU guard, whose engines are sequential functions
  of measurements.
- The keys and challenges of a sign-in, signatures and downloads of an update: they
  succeed or fail as one.
- The window of the day and the canary of the Ollama updates (the canary is that of
  the agents over again, in `Fleet`).
- Requests that run through the agent's `upstreamSwitch` while it changes
  (`upstream_hold.go:301`), and a request that starts on a server between the router's
  look for a gap and the hold (`openai_node.py:117`): nothing in the code closes these
  windows, so there is no property to check.
- Capacity of the outbox: it only refuses a put or a retry, which is a stutter here. The queue in memory
  that takes its place without a session store.
- Client-managed sessions, export and import: single transactions.
- Reranking, listing of models, options of requests: translation without state.
- Start and stop of the programs, installation.

## 6. Plan

Done: the modules above and the proofs of their safety properties. What is left are
lemmas about the operators of the modules of functions as far as they need no induction.
