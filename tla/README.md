# AISecure: a formal model

AISecure (`src/aisecure`, with a browser extension in `src/browser/aisecure`) is a
local tool that looks at what a team sends to AI services and at the security logs
around it. It finds risky uses, stops some of them, and lets two operators approve
and carry out a few registered responses. This directory models, in TLA+, the parts
of it that keep state and act on the outside world: what it sends to a provider,
what it does to an account or a firewall rule, and what its records say afterwards.

The modules are translated from the source. Where the words of a document matter,
the property that takes them up quotes the document at its line.

## 1. Reading guide

| file | what it is |
|---|---|
| `Evidence.tla` | the journal, its receipts and its retention (`gateway.py`, class `Evidence`) |
| `Gateway.tla` | `send()`, `check()`, the stop, pruning processes, crashes, on an `Evidence` |
| `DispatchContract.tla` | what the store promises of a request id; `Gateway` implements it |
| `EvidenceProofs.tla` | lemmas about the chain and its transactions, cited by both modules below |
| `GatewayProofs.tla` | theorems about `Gateway` for all values of its constants, the contract included |
| `ResponseStore.tla` | plans, approvals, executions (`store.py`, `responder.py`) |
| `ResponseLifecycle.tla` | the state machine of `docs/PRODUCT_SPEC.md` §5; `ResponseStore` implements it |
| `ResponseStoreProofs.tla` | theorems about `ResponseStore`, the refinement included |
| `ResponseController.tla` | the approved change of a firewall rule (`control/response.py`, `control/vpn.py`), on an `Evidence` |
| `ResponseControllerProofs.tla` | theorems about `ResponseController` for all values of its constants |
| `BrowserEnforcement.tla` | a `fetch` of a page on its way through wrapper, content script, service worker and native host (`src/browser/aisecure`, `control/native.py`) |
| `BrowserEnforcementProofs.tla` | theorems about `BrowserEnforcement` |
| `Importer.tla` | rows of log files to a snapshot the store accepts (`connectors/`, `providers/okta.py`, `schema.py`) |
| `Detection.tla` | the findings of a snapshot (`engine.py`, `rules.py`) |
| `Monitoring.tla` | a monitor, the other writers of the input, `/api/explain` (`monitor.py`, `server.py`), on `Importer` and `Detection` |
| `DetectionProofs.tla` | theorems about `Detection`, for any events: the window loop finds what a search finds |
| `MonitoringProofs.tla` | theorems about `Importer` and `Monitoring`, on those about `Detection` |
| `Inspection.tla` | documents, preflight rules and the decision on a bundle (`control/documents.py`, `preflight.py`, `control/bundles.py`) |
| `Observations.tla` | events of collectors, their analysis, assets at risk (`control/analytics.py`, `control/vpn.py`, `posture.py`) |
| `Control.tla` | the control service, its event store, its workers and bundle gateway (`control/service.py`, `control/events.py`), on the two above |
| `ControlProofs.tla` | theorems about `Control`, `Inspection` and `Observations` |
| `MC*.tla`, `*.cfg` | the instances TLC checks |
| `PROJECT.json` | the map of definitions to source lines, runs, mutants, hazards, theorems |

To check a run: `tlc -config GatewayLiveness.cfg MCGateway.tla`. To check the proofs:
`tlapm EvidenceProofs.tla`, and so for each of the eight modules named `...Proofs`.

A definition whose comment begins "mutant" is a faulty variant of the definition it
is named after. No specification uses it; section 6 lists them.

## 2. Inventory

All paths are under `src/aisecure` unless they say otherwise.

### Evidence journal and gateway: `gateway.py`, `gateway_admin.py`
- *State.* SQLite: `journal` (encrypted rows in a MAC chain), `receipts` (by request
  id), `meta` (anchor of the chain); in memory a lock and the limit; the STOP file.
- *Operations.* `verify`, `_append`, `append`, `reserve`, `finish`, `prune`, `backup`,
  `history`, `observations`; `Gateway.prepare/check/send`; the OpenAI transport.
- *Interactions.* Threads of the local server share one object and its lock; the
  prune and backup commands are other processes on the same file; the provider.
- *Hard.* Retries that race; a reply that is lost; a crash between dispatch and
  `finish`; two prunes, each of which reads before it locks; clocks read at different
  moments; the last slot of the journal.
- *Correct when* an id dispatches one body at most; what a retry is told is true; the
  two tables agree; the chain always verifies; the stop holds; intents are concluded.

### Response store, signed responder: `store.py`, `responder.py`
- *State.* `snapshots`, `current_snapshot`, `proposals`, the hash chained `audit`.
- *Operations.* `ingest`, `propose`, `approve_and_simulate`, `approve_for_execution`,
  `execute_approved`, `record`, `state`, `verify_audit`; the webhook's `execute`.
- *Interactions.* Server, monitors, importers and callers are processes on one file;
  an execution calls the responder between two transactions.
- *Hard.* Two callers; the input replaced during the call; an answer after the
  timeout; a crash between the transactions; the boundary of the five minutes.
- *Correct when* a plan acts once and on the approved target, "verified" is earned,
  table and chain tell one story, decisions rest on the current input.

### Response controller, FortiOS adapter: `control/response.py`, `control/vpn.py`
- *State.* None of its own: an `Evidence` receipt per plan, the rule on the device.
- *Operations.* `plan`, `sign`, `verify_pair`, `execute`; adapter `read_state`, `apply`.
- *Hard.* The rule changes between plan, comparison and change; a change made after
  its call timed out; a plan repeated after retention has forgotten it.
- *Correct when* a plan sends one change, `precondition_failed` and `verified` are
  true of the device, the stop holds, and in the maintenance window the change is
  made only to the state that was approved.

### Emergency stop: `safety.py`
A sentinel file, looked at before each step that acts. In every module above.

### Browser extension, native host: `src/browser/aisecure`, `control/native.py`
- *State.* In the page: promises by id, each with a 20 s timer; the body, which stays the
  page's. In the content script: dialogs on the screen. In the host: the control journal.
- *Operations.* `ask`, `readBody` and the wrapper of `fetch`; the relay and the dialog;
  `evaluateRequest`, `candidate`, `extractText`, `decide`; `handle` of the native host.
- *Interactions.* Messages between five parts; any of them can go away, be stopped by the
  browser, or fail, while the wrapper waits.
- *Hard.* The user answers after the timer; the body is read before the wait and sent
  after it; the host records and its answer is lost; the journal is full.
- *Correct when* a text leaves only after the host found nothing or the user released it,
  the host's journal says so, and every call is settled, once.

### Importers and the Okta collector: `connectors/`, `providers/okta.py` (`collect`)
- *State.* None: rows in, snapshot out.
- *Operations.* `load`, `_value`, `slug`, `read_source`, `_add_events`, `_keep_newest`,
  `build_snapshot`, `_with_shadow`; `_map_login`, `collect`; `normalize` at the store.
- *Hard.* Ids that collide, from rows that were planted or sent twice; times ahead of the
  clock; assets nobody listed; a row that spoils the reading of all of them; a snapshot the
  store then refuses as a whole.
- *Correct when* no row displaces another, and of what is built the store refuses only what
  exceeds its limits or what the operator has to correct.

### Detection: `engine.py`, `rules.py`
- *State.* None. *Operations.* `analyze`: asset and login rules, the sliding window of
  accesses, the correlation with a login.
- *Hard.* Accesses exactly one window apart, equal times, ties between windows.
- *Correct when* it finds what a search of all windows finds.

### Monitor and explanations: `monitor.py`, `server.py` (`/api/explain`), `explain.py`
- *State.* The fingerprint of what was ingested last, in memory; `llm_gate`.
- *Interactions.* Other writers of the store; files that grow while they are read.
- *Hard.* The hash of a file and its rows are two reads; a failure between ingest and the
  note of it; another writer's input; a conflict in the middle of an explanation.
- *Correct when* the current input is in time what the sources say, unless they say what is
  refused for ever, and the gate is held
  by the request that uses it and by no other.

### Control service: `control/service.py`, `events.py`, `bundles.py`, `documents.py`, `worker.py`
- *State.* `busy` and the risky assets in memory; the journal and `control_events` on disk;
  per request a worker process and its timer.
- *Operations.* `/api/events`, `/api/posture`, `/api/check`, `/api/preview`, `/api/send`;
  `EventStore.ingest`, `read`, `prune`; `BundleGateway.check`, `send`; `_run_bounded`,
  `inspect_bytes`; `assess`, `assess_vpn`, `analyze`.
- *Hard.* A worker that hangs, closes its output and goes on, or answers as it is killed;
  an exit that does not count `busy` down; a crash between the two prunes, and an index whose
  rows somebody deletes; an id that comes back with another content; events in any order of
  time, and more of them than a case shows.
- *Correct when* nothing leaves but what was inspected completely and is clean, an event is
  in the journal once and under one content, no event hides another, and the service can
  always be asked again.

### Not modelled
| component | why |
|---|---|
| Storage cipher (`storage.py`), encryption of rows | authenticated encryption: data, no control |
| Audit sink (`audit_sink.py`) | a delivery of checkpoints from the command line; its acknowledgement is a `record()` of the store |
| Approval assertions (`approvals.py`) | a pure check of signatures, roles and times |
| Okta session responder (`providers/okta.py`) | `ResponseStore` knows a responder by its classes of answer; which log row counts as whose effect is data of the provider |
| Baselines and stale sources (`control/analytics.py`), `policy.py`, `coverage()` | statistics and configuration that no other part reads a decision from |
| Parsing of ZIP, XML and PDF (`control/documents.py`), of dates and CSV (`connectors/`) | what a parser makes of its bytes is a field of the document or row, chosen freely |
| Popup of the extension, `inspect_files`; `app.js` and the web pages | a user who asks explicitly; display |
| Rate windows, authentication, HTTP routing | refusals before anything happens (`Refused`) |
| Command line, `evaluate.py`, `baseline.py`, `demo.py`, `workbench.py`, `tools/`, `connectors/fortios_inventory.py` | entry points that call the operations above; offline measurement; read-only loaders |

The hazards of the whole code, the ones that no property covers yet included, are
in `PROJECT.json` under "hazards", each at its line.

## 3. Plan

1. **Evidence, Gateway, DispatchContract, EvidenceProofs, GatewayProofs** (done). The most important
   behaviour: what leaves the machine.
2. **ResponseStore, ResponseLifecycle** (done). What is done to an account.
3. **ResponseController, ResponseControllerProofs** on the same `Evidence` (done). What is done to a
   firewall rule.
4. **BrowserEnforcement** (done). What leaves a browser.
5. **Importer, Detection, Monitoring** (done). What the decisions rest on.
6. **Inspection, Observations, Control** (done). What leaves through the control service,
   and what it reports.
7. Proofs (done, section 7): every safety invariant and action property of the passing
   runs, both refinements, and the safety halves of three liveness properties.
8. Worth a module later: the sink with the local chain, and the approval windows.

## 4. The models

### Evidence and Gateway
`Evidence` holds the two tables, the anchor and the clock. An operator that ends in
`Txn` is one `BEGIN IMMEDIATE ... COMMIT`. The MAC chain is reduced to the row numbers
it fixes: `verify()` accepts a table exactly when the numbers run from the anchor
without a gap (`Chained`). One unit of the clock is one day, the unit of `prune`.

`Gateway` gives each thread a `pc`: `Begin` (`prepare`, the first look at the stop),
one of `ReserveAnswered`, `ReservePrevented`, `ReservePending` (`reserve`), `Recheck`
(the second look), `Deliver` or `DeliverNothing` (the transport), `Conclude`,
`ConcludeRefused` or `ConcludeFails` (`finish`). A pruning process is two steps,
`PruneRead` outside the transaction and `PruneCommit` or `PruneRollback`, as in
`Evidence.prune`. `ReserveAnswered` may also refuse while a prune is under way: the
first `verify()` of `reserve()` is three statements outside a transaction and can read
the anchor of before and the rows of after.

What is abstracted:
- a body is a fingerprint, and whether the policy allows it is membership in `Allowed`;
- `provider_completed` stands also for `demo_received`, its name in demo mode;
- a body on its way counts as delivered when it leaves. A delivery that comes after
  the timeout is then no different from one whose answer was lost: every claim about
  `delivered` is about bodies that were or will be with the provider;
- a send that begins on one day ends on that day or the next (`MayTurnDay`): the
  transport's timeout is 25 s for a socket call;
- `backup`, `history` and `observations` only read.

### DispatchContract
By request id: fresh, intended, prevented, completed, unknown, fenced. An id is bound
to one fingerprint before anything is delivered, one delivery is made of it, "completed"
is said only after a delivery, a conclusion is final, and only a retention run
(`Retire`) brings an id back. `Gateway` maps a receipt and the fence of its rows onto it.

### ResponseStore and ResponseLifecycle
The transactions of `store.py`, with the responder's call between the two of an
execution as steps of its own: both looks at the stop, the request, a verified answer,
a refusal, no answer. The provider acts on a request at any time after it was sent, even
after the caller has given up. `analyze()` is the constant `FindingsOf`. The audit chain
is kept by plan: `trail[p]` is the list of the rows that name the plan. The command line
executes as part of one command; the model lets any caller execute any approved plan
at any time, which is what two commands on one file can do. The clock ticks between
any two steps.

`ResponseLifecycle` is the diagram of `docs/PRODUCT_SPEC.md` §5 with the meaning of its
arrows; `StatusShown` is the refinement mapping, as `Store.state()` shows a plan.

### ResponseController
Each execution is a process (`control/admin.py execute`): `Begin` (signatures, window
of time, first look), `Reserve` or `ReserveAnswered`, `CheckStop` twice, `Compare`,
`SendChange`, then `ChangeAnswered`, `ChangeRefused` or `CallFails`, `ReadBack`,
`Conclude`. The device makes a change it was sent in time, late or never (`MakeChange`);
other administrators edit the rule (`OtherWrite`) unless the maintenance window is kept.
A rule is its status and its revision: the state hash covers both, so equal records are
equal hashes. A plan without two good signatures is one nobody executes, so `MakePlan`
stands for plan and signatures together. A plan lives five minutes and an execution has
three calls of 15 s: together less than a day, hence `Live` and `MayTurnDay`.

What is abstracted: the rows that other users of the journal append to it, and the two
signatures. A `finish()` that SQLite refuses is part of `Crash`: the process ends and the
receipt stays pending.

`SingleWriter` states the assumption of `docs/operations/CONTROL_ALPHA.md:162`: one path
of changes, in a maintenance window. With it (`Alone`), an execution begins when no other
is running and no change is on its way. Only `AppliedToApprovedState` needs it.

### BrowserEnforcement
One element of `Calls` is one call of `fetch` with a method that changes state, and `place`
is where its question is: `Fetch` (wrapper), `Relay` (content script), `Evaluate` (service
worker, `evaluateRequest` up to the inspection), `Inspect` (native host: the row first,
then the answer), `Present`, `Release`, `Cancel` (dialog), `Resolve` (wrapper). `Expire` is
the wrapper's timer, at any moment; the question and its dialog stay where they are.
`Rewrite` is the page that changes the body it passed. `Fail` is a host or worker that is
gone or fails, before its row or after it; `Lose` is a content script that is gone.

A body is what the inspection tells apart: too short to look at, clean, personal, secret,
a secret beyond the 262,144 characters or twelve levels that are read, unreadable. A URL
that is not an absolute string is `"relative"`, and `candidate()` does not recognise it.

### Importer, Detection and Monitoring
`Importer` and `Detection` are operators. The rows of all sources are one sequence, and what
is read of them is a function on positions: a source has the positions of its rows, its
records those of the rows that were readable, and the order of the positions is the order in
which the importer meets them. A row names its kind and the targets that could not be read
(`unread`); a hash is what it was made of, so `Record` names an event without an id by its
content and `Reissued` gives one for a collision; only the identifier of an unclean name is
less than the name (`Digest`), so that two names can have one. `BuildSnapshot` is
`build_snapshot`, `Collect` the Okta collector's part, `Normalizes` the store's boundary with
its limits (`Fits`) and what it asks of values (`Typed`) and file names (`LabelsAccepted`).

A reading of all files ends in four ways. It is refused at once (`Oversized`), or on its way
(`Denies`: the row limit, a cell too large for `csv`, names that collide, strings that cannot
be encoded), or for want of an asset; the files keep what caused it, and so it is refused at
every later poll too. Or the time of a row overflows (`Overflows`). Which rows do that is a
field of the row, `raises`. Who meets two of these meets the first of them, and the model
leaves open which that is.

`Detection` sorts the accesses of one group by time
(`InOrder`) and goes through them as the loop of `engine.py` does (`Sweep`, a recursive
function of the number of accesses seen): `Slide` lets those at the left go that are too old,
and keeps the first window with most files. Where two accesses have one time `sort()` keeps
them as they came, and `InOrder` is any one order. A group is a user and an asset, and each
user of the model has one session. What the findings must be is stated on sets, with no
order and no loop: `FindsEveryBulk`, `EvidenceOfOneWindow`, `CorrelatesInOrder`.

`Monitoring` is the monitor as a process: `Hash`, `Build` (the files opened again, with
`ReadFiles`, `RefuseFiles` and `EndByOverflow` for what comes of it), `AskOkta`, `Ingest`;
`Fail` at any step, `Crash`, `Restart`. What `run()` catches ends a poll, and what it does not
catch, an `OverflowError` or a `TypeError`, ends the monitor (stage `dead`). `Write` adds a row to a source
between any two of them, `OtherIngest` is another writer of the input. The handler of
`/api/explain` is `Find`, `Enter`, `Explain`, `Recheck`, `RecordExplained`.

### Inspection, Observations and Control
`Inspection` has the rules of a document by what its parts, attributes and joined texts
show, the precedence of `preflight.evaluate` with its grants, and `CheckBundle` as the
strictest decision of the question and of the files. A label is good for one request id, one
content and one recipient (`Claim`), for its five minutes and the fifteen seconds a clock may
be ahead. `Observations` has the rules of `analyze` for one actor, and the posture of
an asset from its version, its advisories, the age of all that and what is known of its
exposure. `Case` is what a rule finds, `Presented` what is shown of it: the first
`EvidenceLimit` ids, in the order of `analyze`, with the count, the times and whether ids were
cut. Events of one time are in the order of their keyed tokens, of which `Hash` is the order.

`Control` gives each thread a `slot`: `Arrive` (the limit of `busy`), `Ingest`, `Assess` and
`Assign`, `BeginScan`, `StartChild`, `ChildEnds`, `Expire`, `Collect`, `Answer`, `Reserve`,
`Deliver`, `Finish`; whatever `process()` refuses is `Refused`, and every way out is `Leave`,
the `finally` of `route()`. A worker answers, fails, floods its pipe, or closes it and
runs on; the timer may fire in the moment after the end of the output, and then the outcome
is a timeout although there was an answer (`Outcome`). `Stop`, `PruneJournal`, `PruneIndex`
and `Start` are maintenance and crashes: the two prunes are two transactions and the second
may never come, because of a crash or because `gateway_admin` prunes the journal only.
`LoseIndex` deletes any rows of the index at any time, as the repository's own test does
(`tests/control/test_analytics.py:74-78`); `lost` remembers whose they were. `Finish` may leave
the receipt at `dispatch_pending`, for the journal may refuse the row of the result.

What is abstracted: of the journal only the event rows and the last row of a bundle
request (the chain, its room and the reservation are `Evidence`'s); the second look at the
stop in `send()` (`Gateway`'s); organizations, of which there is one; baselines.

## 5. Runs

States are TLC's distinct states.

| run | question | instance | states |
|---|---|---|---|
| `GatewayRetention` | do sends, retries, `check()`, prunes and a crash keep to the contract, and what may a retention run forget? | 2 threads, 2 ids, 1 allowed and 1 refused body, `check()`, 2 pruning processes, 4 days, a journal of 4 rows, 1 fault, no stop | 887,048 |
| `GatewayLiveness` | is every intent concluded, and every stop obeyed? | as above with 1 pruning process, 3 days, the stop, no faults, no `check()`, under `FairSpec` | 165,286 |
| `GatewayCapacity` | does the reserved slot survive `check()`? (violated, section 8) | 2 threads, `check()`, 4 rows | 682 when found |
| `ResponseStoreSafety` | the safety of plans, and the lifecycle | 2 plans, 2 inputs, 2 findings, 2 targets, 2 callers, 3 instants, 1 fault | 379,962 |
| `ResponseStoreLiveness` | is every execution concluded? | 2 plans, 2 callers, 2 instants, no faults, under `FairSpec` | 201,720 |
| `ControllerExecution` | what is sent, and what is reported of it? | 2 plans, 2 executors, other administrators, 3 days, 1 fault | 2,018,361 |
| `ControllerWindow` | is only the approved state changed, does the stop hold? | 3 plans, 1 executor at a time, 3 revisions, the stop | 1,363,690 |
| `BrowserEnforcement` | what leaves a browser, and is every call settled? | 2 calls, 6 kinds of body, 2 kinds of address, a journal of 1 row, 1 fault, under `FairSpec` | 67,004 |
| `BrowserUnreadable` | is an unreadable body confirmed? (violated, section 8) | 1 call, no faults | 119 when found |
| `Monitoring` | do snapshots keep the evidence, are they accepted, are findings exact, does the input become what the sources say? | 2 connectors, 3 inventories, 5 rows to come, 2 of them at most, limits of 4 rows to a source, 2 assets and 4 events, 2 instants, 1 other ingest, 1 request, 1 fault, under `FairSpec` | 331,568 |
| `Control` | what do requests, workers, timers and prunes make of bundles? | 2 threads, 3 requests, 1 report, 3 bundles, 1 posture, 3 instants, 1 stop or deletion, under `FairSpec` | 1,176,058 |
| `ControlEvents` | is an event recorded once, whatever becomes of journal and index, and does one event more take a case away? | 1 thread, 6 requests, 7 reports, room for 4 of them, 2 ids shown of a case, 1 posture, 3 instants, 2 stops or deletions | 2,862,400 |

Bounds, all named constants:
- `MaxDay`: retention needs a day between a row and its cutoff. Two days show an id
  pruned and used again; the fourth of `GatewayRetention` adds a send across midnight
  and a second prune. A plan of the controller lives into the second day, and the third
  is the first on which its receipt can be gone.
- `Limit` and `MaxSeq`: four rows are two requests with their results, the smallest
  journal in which two requests compete for the last slot, with each other and with the
  rows of an inspection or of a prune. `MaxSeq` stops clients, not results.
- `MaxFaults = 1`: one crash or one refused transaction, anywhere. Each affects the
  work in progress only, and two calls in progress are lost by one crash.
- `MaxRevision`: three changes let a rule be changed, changed back and looked at by a
  third plan. That is what distinguishes a comparison of states from one of statuses.
- `Ttl = 1, MaxTime = 2`: before, at and after the end of a plan.
- `BrowserEnforcement`: questions of two calls meet in the host's journal, and nowhere else;
  one row is the smallest journal that one of them finds full.
- `Monitoring`: files begin with nothing legible, with an incident two reads of which share an
  id, or with an asset listed, and a read sent, twice and a login that Okta's window leaves
  behind. One of the rows that may come makes the difference between one file and a bulk
  access: an event without an id, of the future at first, about an asset nobody listed. The
  others spoil a poll: a time that overflows, an inventory dated ahead of the clock, a name that
  collides with another, a user that cannot be encoded (under an id that is its own in one
  inventory and taken in the others). `MaxRows` lets one or two rows come; `SourceRows` and
  `SourceBytes` are four, so that a fifth row of a source is refused, by the look at the hash
  or, if it comes after that, by the reading. `MaxAssets = 2` is exceeded by the asset nobody
  listed and the one that stands for Okta.
- `Control`: three requests, two of them at once, are enough for a bundle sent twice and for an
  event or a posture in the middle of a scan. The third bundle is clean and has the label of
  another request. `LabelLife = 2` ends a label, and `LabelAhead = 1` lets one be of the future.
- `ControlEvents`: `EventLimit` is four, and six requests bring more than it allows: to a full
  index, to one that a prune or a deletion has made room in, and to a journal beyond the
  limit. Two reports share an id. `Day = 1` and three instants put events on both sides of a
  cutoff, and two faults allow a deletion before or after a stop. Four events of the seven give
  each of the four rules its case, three of them at once, in every order of arrival, and cases
  of up to four events of which two are shown, so that a late and earlier event pushes out one
  that was shown.

The systems stop when bounds are reached and every process is idle; deadlock is not
checked for that reason. Symmetry is used in the safety runs only, over values that no
definition tells apart.

### Fairness
`FairSpec` of `Gateway` asks weak fairness of each thread's next step of `send()`:
threads are scheduled, the transport has a timeout for each socket call and reads 2 MiB
at most (`MAX_REPLY`), and others hold SQLite's lock for one short transaction. `FairSpec` of
`ResponseStore` asks it of the caller's own steps, the timeout of the responder
(`responder.py:60`, 30 s at most) included, and of no answer: the provider may stay
silent for ever. `FairSpec` of `BrowserEnforcement` has the timer of the page and nothing
else: not the user, not the other parts. In `Monitoring` it is the loop of `run()` and
whoever starts the monitor again (`Progress`: the steps of a poll that fail are not
counted as progress). In `Control` it is each thread's next own step and the timer of its
worker; no worker has to answer. `ServeFairly` is weak fairness of `Serve(r)` written out:
it is enabled exactly when the thread is neither idle nor waiting for its worker. The clock, the operator, the administrators and the provider are never
assumed to move.

## 6. Properties and the bugs they notice

Every property of a passing run is violated when one mapped definition is replaced by
its mutant.

| property | what it says | noticed |
|---|---|---|
| `AtMostOneDelivery` | one body at most under an id the journal remembers | the fence of old rows is ignored |
| `ReceiptsTellTheTruth` | what a retry is told agrees with what the provider got | a send that raised is reported complete |
| `ReceiptMatchesJournal` | a receipt has its rows, and says what the last of them says | a prune that leaves the receipts |
| `JournalVerifies` | the chain holds and stays within its limit | an append that does not verify first |
| `StopHolds` (gateway) | a stop set before the second look is obeyed | no second look |
| `ImplementsContract` | `Gateway` refines `DispatchContract` | `INSERT OR REPLACE` of a receipt |
| `ResultNeverRefused` | a dispatched request finds room for its result | pending results of others not counted |
| `EveryIntentConcludes` | no intent stays pending | `finish` writes the row and not the receipt |
| `ActsOnceAsApproved` | the provider acts once, on the approved target | an executing plan can be started again |
| `VerifiedMeansActed` | "verified" only after the provider acted | any 200 is taken as containment |
| `AuditTellsStatus` | the audit rows of a plan are those of its status | the result row is left out |
| `OneOpenPlan` | one open plan for a finding of an input | every call makes a plan |
| `StopHolds` (store) | a stop set before the last look is obeyed | one look only |
| `DecidedOnCurrentInput` | decisions are made under the current input, in time | the input is not compared |
| `ImplementsLifecycle` | `ResponseStore` refines `ResponseLifecycle` | an expired plan stays open |
| `ExecutionConcludes` | no plan stays executing | no timeout |
| `SentAtMostOnce` | one change for one approval, for ever | the plan's own time is not checked |
| `RefusedMeansUntouched` | `precondition_failed`: nothing was or will be sent | an error reported as a changed rule |
| `VerifiedMeansApplied` | `verified`: the device made this plan's change | the rule's reading decides after an error |
| `StopHolds` (controller) | a stop set before the last look is obeyed | no look after the comparison |
| `AppliedToApprovedState` | in the window, the change meets the approved state | only the status is compared |
| `SentWasCleared` | a text is sent only if the host found nothing, or asked and the user released it | an error is taken as no finding |
| `SentWasRecorded` | no such text leaves without a row of the host, at its limit too | the answer does not wait for the row |
| `SettledOnce` | a settled call stays so, whatever answer comes later | a late answer is taken |
| `EveryFetchSettles` | every call is settled, whichever part is gone | no timer |
| `EvidenceKept` | the events of a snapshot are those of its rows, each with an id | a row whose id is taken is dropped |
| `SnapshotAccepted` | of a snapshot that is built the store refuses only its size, or what the operator gave | every row of the inventory is kept |
| `DetectionExact` | a group is reported exactly if a window of it has enough files, with the evidence of one window that no other exceeds; a correlation has one login, before all accesses | an access as old as the window is let go |
| `GateFollowsRequest` | the gate is held by the one request that asks the model | a conflict keeps the gate |
| `InputIsShown` | the current input is in time what the sources say, unless that is refused for ever | a failed ingest is remembered as done |
| `ObservedOnce` | an event is in the journal once and under one content; the index lacks, and the journal exceeds, no more than was deleted by hand | an id is looked for in the index only |
| `ReleaseIsClean` | a bundle that may have left was consented to, labelled for this request and content, and clean | runs of text are searched one by one |
| `NothingErased` | one more event takes no case, and no evidence, from what is shown, unless the case says it is cut | only the last transfer is compared |
| `ServiceReturns` | the service can always be asked again | the worker's timer is not started |

`TypeOK` of each module is checked with the others. In `Control` it says that `busy` is the
number of requests under way, in `Monitoring` that no snapshot without assets is kept.

The claims have the limits of the code. `SentWasCleared` and `SentWasRecorded` are about a
body that is still the one that was read, sent to an address that is recognised, and read as
a whole: `inject.js` sends the page's own object after the wait, and `enforce.js:33-38` lets
an address pass that it does not recognise, a relative one included.

`InputIsShown` has three excuses, each true of the code. The sources hold what is refused at
every poll (`Refused`): a file over 64 MiB, a row or a cell too many, names that collide,
a string that cannot be encoded, no asset that is not of the future, more assets or events than
the store takes. Another writer has replaced the input: the monitor compares with what it
ingested last (`monitor.py:57`), answers "no change", and does not restore it. And the monitor
has ended, by a time that overflows (`importer.py:129`) or, with Okta, by an empty window over
files without events: `max()` of one number is a `TypeError` (`providers/okta.py:344`), and
`run()` catches neither. A file that is missing or has no header is not among the excuses:
the model's files can be opened, and a failure to open them is `Fail`, which ends.

`SnapshotAccepted` supposes that the operator's part is right (`Misconfigured`): a constant or
default of a profile has the type of its target, which `load()` does not check, and the files'
names are labels the store takes, 64 of them at most. A snapshot with more assets or events
than the store's limits (`Fits`) is built and refused; the run has both kinds.

`NothingErased` speaks of an event after which `read()` still answers (section 8), and of what
is shown. More than 32 ids of a case are not all shown, and an event that is late and earlier
may push one of them out; then the case says that its evidence is cut, counts more events,
and its times still cover all of them.

`AppliedToApprovedState` and `SentAtMostOnce` rest on different mechanisms than one
expects. The receipt alone does not give the second: after a day a retention run may
remove receipt and rows, and then it is the plan's five minutes that refuse the repeat.

## 7. Proofs

`GatewayProofs` proves, with TLAPS, for any sets of ids, fingerprints, senders and
administrators, finite or not, any limit and any bounds:

| theorem | statement |
|---|---|
| `Invariance` | `Spec => []IInv` |
| `TypeCorrect` | `Spec => []TypeOK` |
| `JournalAlwaysVerifies` | `Spec => []JournalVerifies` |
| `AtMostOnce` | `Spec => []AtMostOneDelivery` |
| `ReceiptsAreTrue` | `Spec => []ReceiptsTellTheTruth` |
| `StopAlwaysHolds` | `Spec => []StopHolds` |

The assumptions are those of the modules, `LimitAssumption` and `GatewayAssumption`:
the limits are naturals, the switches are Booleans, `Allowed` is a set of fingerprints.

The argument. `AtMostOneDelivery` is not inductive: that `Deliver` finds nothing
delivered has to come from the reservation, and that from the tables, which prunes
change. `IInv` has a layer for each:
1. types, and the chain (`ChainInv`): the table is finite and its numbers run from the
   anchor to the tip. `_append` verifies before it writes, so it can only extend a chain;
2. prunes in progress (`PlanInv`): what a prune has read stays below the tip and older
   than its cutoff, whatever is appended, and its cutoff is at least a day old;
3. receipts (`ReceiptInv`): each rests on a request row that is no older than the
   receipt. A prune that removes the row therefore removes the receipt too;
4. requests in flight (`FlightInv`): each has a fenced id and a receipt of its own
   fingerprint that no prune in progress can reach, because it is at most a day old and
   the cutoff is older; no two have the same id; and nothing was delivered before `Deliver`;
5. deliveries (`DeliveredInv`): only a fenced id has any.

There is one lemma for each action (`...Keeps`), over the lemmas of `EvidenceProofs`
about the chain (`AppendKeeps`, `KeptRows`, `JournalGrows`), the prefix a prune reads
(`PrefixRead`) and the transactions (`ReserveKeepsEvidence` and its like).

`ResponseControllerProofs` proves, for any sets of plans and executors and any bounds:

| theorem | statement |
|---|---|
| `Invariance` | `Spec => []IInv` |
| `TypeCorrect` | `Spec => []TypeOK` |
| `SentOnce` | `Spec => []SentAtMostOnce` |
| `RefusedIsUntouched` | `Spec => []RefusedMeansUntouched` |
| `VerifiedIsApplied` | `Spec => []VerifiedMeansApplied` |
| `StopAlwaysHolds` | `Spec => []StopHolds` |
| `ApprovedStateOnly` | `Spec => [](SingleWriter => AppliedToApprovedState)` |

The assumptions are `LimitAssumption` and `ControllerAssumption`: naturals and a Boolean.

The argument. `SentAtMostOnce` needs what the executors own and what the journal still
knows. A plan that was sent and is still live is traced (`PlanInv`): a request row fences
it that is no older than the plan, and a prune, whose cutoff is a day back, cannot reach a
row of a plan that is live. Once a prune can reach the row, the plan is live no more and
`Begin` refuses it. An executor past `Reserve` (`Owns`) has a live, traced plan with a
pending receipt that no other executor holds, and nothing was sent for it before
`SendChange`. What a report says then follows from the stage it is made at.
`StopAlwaysHolds` needs only that the set of late executors is empty when the stop is
not set. `ApprovedStateOnly` adds `WindowInv`: one execution at a time, none begun while
a change is on its way, and from the comparison to the change the rule is the plan's.

On the same invariant and the same assumptions, `GatewayProofs` goes on to prove:

| theorem | statement |
|---|---|
| `TablesAgree` | `Spec => []ReceiptMatchesJournal` |
| `KeepsContract` | `Spec => ImplementsContract` |
| `RoomForResults` | `ASSUME ~Inspecting, \A a, b \in Admins : a = b PROVE Spec => []ResultNeverRefused` |
| `NoIntentIsDropped` | `ASSUME ~Inspecting, \A a, b \in Admins : a = b PROVE Spec => []IntentsAreHeld` |

Few steps write to the tables (`StoreMoves`), and of each it is said what it writes: one row
with the receipt of its id (`ReserveWrites`, `ConcludeWrites`), or a prefix less with the
receipts of the rows that went (`PruneWrites`). `TablesAgree` follows (`AgreementKeeps`).
The refinement is proved step by step (`StepsAreContract`): reservations, deliveries,
conclusions and prunes are steps of the contract, every other step shows nothing
(`SameShown`). `RoomForResults` has hypotheses because the code does not keep the promise
without them (section 8): nobody calls `check()` beside the senders, which is the instance
of the run `GatewayLiveness`, and prunes do not overlap. There `RoomInv` holds: the rows and
the pending receipts together fit the journal, and a prune that has read rows frees at least
the place its own row takes. Any number of threads may send. On the same conditions
`IntentsAreHeld`: while nothing has crashed or failed, each pending request is in the hands of
a thread that has its result still to write (`HeldKeeps`). A refused result is what would leave
one, and `RoomInv` excludes it. With the fairness of threads this is why `EveryIntentConcludes`.

`ResponseStoreProofs` proves, for any sets of plans, inputs, findings, targets and callers:

| theorem | statement |
|---|---|
| `Invariance` | `Spec => []IInv` |
| `TypeCorrect` | `Spec => []TypeOK` |
| `ActsOnce` | `Spec => []ActsOnceAsApproved` |
| `Verified` | `Spec => []VerifiedMeansActed` |
| `AuditAgrees` | `Spec => []AuditTellsStatus` |
| `OneOpen` | `Spec => []OneOpenPlan` |
| `StopIsRead` | `Spec => []StopHolds` |
| `DecisionsAreCurrent` | `Spec => DecidedOnCurrentInput` |
| `Implements` | `Spec => ImplementsLifecycle` |
| `OneLeftByACrash` | `Spec => []OnlyCrashesAbandon` |

`StoreAssumption` is naturals, findings for each input, and that the value of a target that
is not approved yet is no target. The argument joins four things that change in different
steps. `RowInv`: before a plan is started nothing was done for it and nothing is on its way.
`WireInv`: a request the provider may still act on is of a plan that was started, on the
target that was approved, and the provider has not acted on that plan; so whenever the
answer comes, it acts once. `CallerInv`: a caller in `execute_approved` has its plan for
itself, nothing was sent before it sends, and a "verified" it carries was earned. `LateInv`
is about the stop. `AuditTellsStatus` is inductive with the types because each transaction
writes status and row together (`WriteTells`), and `OneOpenPlan` because `propose` looks
before it writes. The refinement follows the moves of one plan (`PlanMoves`). `OnlyCrashesAbandon` counts the
plans that are executing and that no caller has: they are no more than the crashes so far,
because a crash leaves the plan of its caller and no other step leaves any (`WhatIsLeft`).

`BrowserEnforcementProofs` proves, for any set of calls, any requests and rewrites, any limit
of the journal and any number of failures:

| theorem | statement |
|---|---|
| `Invariance` | `Spec => []IInv` |
| `TypeCorrect` | `Spec => []TypeOK` |
| `SentIsCleared` | `Spec => []SentWasCleared` |
| `SentIsRecorded` | `Spec => []SentWasRecorded` |
| `SettledForGood` | `Spec => SettledOnce` |

A question changes hands five times between the body that was read and the body that
leaves. `JudgedInv` says that what the host found is of the text that was read, and is
recorded; `VerdictInv` says for each place a question can be at what its verdict rests on;
`PendingInv` that the wrapper waits exactly for the calls that are not settled.

`ControlProofs` proves, for any number of threads, events, bundles, faults and any limits:

| theorem | statement |
|---|---|
| `Invariance` | `Spec => []IInv` |
| `TypeCorrect` | `Spec => []TypeOK` |
| `JournalAnswers` | `Spec => []ObservedOnce` |
| `SentIsClean` | `Spec => []ReleaseIsClean` |
| `CasesRemain` | `Spec => NothingErased` |

`ControlAssumption` includes that a bundle is a question and a sequence of documents.
`ServerInv` counts: `busy` is the number of the threads that serve, on every exit. `Sound`
says what a request under way rests on at each stage: consent and label before the files
are read, one finding for each file read so far, made of that file by some end of its worker
(`Inspected`), and a clean whole before a reservation. The label is compared when the scan begins, with the
request id and the content that are sent in the end. That a killed, cut short or flooded
worker cannot count as a clean one is `NothingFound`; `AllowMeans` and `AllowedIsReleasable`
take it from the findings to the decision. `StoreInv`: what the index lacks of the journal was
deleted by hand, so the limit that `ingest()` asks of the index is exceeded by the journal by no
more than that, and an id stands for one event. `NothingErased` rests on `CasesGrow`: each rule
of `analyze()` grows with the set of events (`EgressGrows`, `LowSlowGrows`, `FailuresGrow`,
`DataPathGrows`), for any thresholds; from there to what is shown of a case it takes that the
whole of a case that is not cut is shown.

`MonitoringProofs` proves, for any rows, inventories, documents, profiles and requests:

| theorem | statement |
|---|---|
| `Invariance` | `Spec => []IInv` |
| `TypeCorrect` | `Spec => []TypeOK` |
| `NoRowIsEvicted` | `Spec => []EvidenceKept` |
| `AlwaysAccepted` | `Spec => []SnapshotAccepted` |
| `GateIsHeld` | `Spec => []GateFollowsRequest` |
| `DetectsExactly` | `Spec => []DetectionExact` |
| `QuietPollShows` | `Spec => QuietPollIsShown` |

`MonitoringAssumption` and `ImporterAssumption` type the rows and inventories, ask of an
input another writer ingests what the store asks of it (assets, and events that each have a
time and an id of their own), and that no profile has a default for a time (section 8). The lemmas about `Importer` carry it. `AddEventsKeeps`:
whatever ids the records have, every record is in the result, under its own id or a reissued
one, and no two events share an id. No induction over the records is needed for it: two
records that are both the first with an id are the same, and a reissued id contains the whole
event. `MaxIsGreatest`: the newest of the times, with which a snapshot is dated, is one. `NewestIsOne`: one row of the inventory is kept for a name.
`ShadowIsSound`: every asset that an event names is listed. `BuildIsSound` and
`CollectIsSound` put them together for files and for Okta: unique assets, unique ids, values
of their types where the profile's are, no time after the snapshot's own, which is no later than the store's limit, because time passes
between poll and ingest (`PollInv`) and never goes back.

`DetectsExactly` takes the theorems of `DetectionProofs` to the input of the moment:
`CurrentInv` says that the events of the current input are `Legible`, whoever ingested it.
`QuietPollIsShown` is what is safety in `InputIsShown`: an ingest of files that are still as
they were hashed ends with what they say, through failures, crashes and rows that came between
hash and build. It needs two invariants more. `ReadInv`: what was built tells the hash, and was
read from no fewer rows than were hashed, so that if nothing came since it was read from exactly
those. `RememberInv`: what the monitor remembers is the current input, or another writer's is,
so that a snapshot that is skipped because it was ingested before is not one that was lost.

`DetectionProofs` proves, of any snapshot whose events are `Legible`, for any thresholds that
`from_mapping()` takes, any number of accesses, in any order, with any equal times:

| theorem | statement |
|---|---|
| `BulkExactly` | `FindsEveryBulk(snapshot)` |
| `BulkInOneWindow` | `EvidenceOfOneWindow(snapshot)` |
| `CorrelationInOrder` | `CorrelatesInOrder(snapshot)` |

`Legible` is what `normalize()` leaves of any document (`schema.py:174-210`): finitely many
events, each with a time, no two with one id. The loop is a recursive function, and the
library's theorems about those take an operator as a parameter. `NatHasLeast` stands in for
them: every set of naturals that is not empty has a least element (well-foundedness, of which
the library has a statement about sets). So `SlidExists` shows that a function with the
equations of the loop exists: were there a length for which it does not, the least such is one
more than a length for which it does, whose function can be extended. `OrderExists` shows in
the same way that finitely many accesses can be sorted. The loop's invariant is `Found`: at
each position the left edge is the first that is not too old, and the window kept is one of
those seen, with no fewer files than any of them; `SweepFinds` proves it by the least position
at which it fails. `WindowsOfLoop` takes positions to times: a window of the loop is within the
window that ends with its last access, and the last of equal times has all of them, so
`BestIsDensest`: no window of a search has more files than the one kept.

Before it was proved, each inductive invariant was checked by TLC as an invariant of a run:
`BrowserEnforcement` over 67,004 states, `Control` over 1,176,058, `ControlEvents` over
2,862,400, `Monitoring` over 331,568,
`ResponseStoreSafety` over 379,962 (`QuietPollIsShown` over those of `Monitoring`), and
`RoomInv` over the 165,286 of `GatewayLiveness`.

Only model-checked: liveness (`EveryIntentConcludes`, `ExecutionConcludes`,
`EveryFetchSettles`, `InputIsShown`, `ServiceReturns`), which needs fairness and `ENABLED`. What
is safety in it is proved: that nothing is left that no step would conclude (`IntentsAreHeld`,
`OnlyCrashesAbandon`, `PendingInv` of the browser, `ServerInv` of the service), and that a poll
ends with what it should (`QuietPollIsShown`). No run checks `IntentsAreHeld`,
`OnlyCrashesAbandon` and `QuietPollIsShown`, which are stated beside the liveness they belong
to; TLC found each of them true before it was proved, `IntentsAreHeld` over 120,373 states with
one fault, `OnlyCrashesAbandon` over 389,466 with two. The two properties that are violated
(section 8) are, of course, not proved. No module declares a `RECURSIVE` operator.

## 8. Disagreements between code and comments

### The slot kept for a result

`Evidence.reserve` promises to "Reserve capacity for both intent and result, including
concurrent requests." (`gateway.py:212`). It counts the results that are pending, but
`_append` refuses a row only when the table is full (`gateway.py:180`), whoever appends.
The run `GatewayCapacity` shows a `check()` between a reservation and its result that
takes the slot kept free: `finish()` is refused after the provider has the body, `send()`
raises, and the receipt stays `dispatch_pending`. Nothing is sent twice. Without `check()`
the promise holds (`GatewayLiveness`). The fault is one of availability and of record.

### A body that cannot be read
`inject.js:40` says that a multipart upload or a stream "is reported as unreadable so it
stops for confirmation rather than passing as checked." The service worker turns it into
`null` (`background.js:43`), `extractText(null)` is the empty text (`enforce.js:51`), and an
empty text is below the length that is inspected: the answer is `allow`. The run
`BrowserUnreadable` shows such a body sent without a question.

### Seen while modelling, with no run
- The importer drops events and assets dated ahead of the clock, "so one bad timestamp cannot
  deny the entire import" (`importer.py:370-371`), and skips a row whose time it cannot read.
  But `_timestamp()` converts to UTC after its `try` (`importer.py:129`). For
  `9999-12-31T23:59:59-01:00` that is an `OverflowError`, which ends the reading of all files;
  `FileMonitor.run()` catches `OSError`, `RuntimeError` and `ValueError` only, so it ends the
  monitor too. The model has it (`EndByOverflow`), and `InputIsShown` excuses it.
- The importer checks a user or a file of a row for length and control characters, "so one bad
  row cannot make the whole snapshot unusable later" (`importer.py:279-280`). A JSON string may
  hold half of a surrogate pair, which passes. An event with an id of its own is not hashed by
  the importer, and so the first to encode it is the fingerprint of the whole snapshot
  (`monitor.py:56`): a `UnicodeEncodeError` at every poll, for as long as the file has the row
  (`Encodes` in `Ingest`). Without an id of its own the row refuses the import (`Denies`).
- "The authenticated journal is authoritative, so deleting cache rows cannot hide observed
  events" (`control/events.py:43-44`). `ingest()` asks the index whether there is room
  (`events.py:29`), and `read()` refuses when the journal holds more events than the limit
  (`events.py:52`). With rows of a full index deleted, new events are accepted, and from then
  on `read()` refuses all of them: `/api/state` answers an error until the journal is pruned, and
  `EventStore.prune()` itself calls `read()` after it has pruned the journal. `ControlEvents`
  gets there; what holds is that no event is recorded twice and how far the limit can be
  exceeded (`ObservedOnce`).
- An event grows older than 30 days in the store, and `analyze()` refuses all events from
  then on: `/api/state` answers an error until somebody prunes (`analytics.py:85`).
- After a crash between the two prunes an event reported again is answered as a duplicate,
  though the journal has lost it. `Ingest` has this; `ObservedOnce` is about the reverse.
- The label of a bundle is checked before the files are read; it may expire during the scan.
- `/api/explain` reads the finding again and records the explanation in two transactions
  (`server.py:177-179`): the input may be replaced in between. The model has both steps.
- A row of the inventory dated ahead of the clock wins over the real one and is then dropped
  (`importer.py`): the asset is then known from events at most, as an unknown one.
- With `unknown_assets` set to `skip`, Okta's logins are all left out unless the inventory
  names `okta-idp`.
- Two prunes that overlap, as two administrators may run them, each append their own
  retention row, also the one that finds its rows gone already (`gateway.py:252-277`). On a
  full journal that second row takes the place kept for a result, as `check()` does in
  `GatewayCapacity`. `RoomForResults` therefore supposes one administrator.
- A profile may give a time a default or a constant, and `load()` accepts it; `iso()` is then
  called with a string and raises (`importer.py:277`): the whole import fails, of a profile
  that was checked. The profiles of the model have no such default.
- AS-004 looks at the first window with the most files only; a later window of the same size
  after a suspicious login is not correlated.
