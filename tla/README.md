# Verification of local-code-worker

TLA+ models of local-code-worker, the TLC runs that check them on small
instances, and proofs of the properties that matter most, checked by TLAPS for
every value of the constants. `PROJECT.json` lists components, runs, hazards,
findings and theorems, and maps every definition to the lines it stands for.
Paths below are relative to `src/local_code_worker/` unless they start with
`docs/`, `tests/` or `README.md`, which are the repository's.

- [The system](#the-system)
- [Modules](#modules)
- [Runs](#runs)
- [Fairness](#fairness)
- [What the code does otherwise than its documents say](#what-the-code-does-otherwise-than-its-documents-say)
- [Proofs](#proofs)
- [What is not modelled](#what-is-not-modelled)
- [Plan](#plan)

## The system

The program has two halves that share little more than the providers.

The **gateway** (`web_app.py`) is a `ThreadingHTTPServer` with one thread per
request. It offers OpenAI-compatible chat completions and responses. A request
takes the inference queue, loads the settings, looks up the response it
continues, is routed to a tier, calls that tier's provider, falls back to a
higher tier if the call fails, may run web tools for the model and ask again,
and is answered and stored.

The **worker** (`cli.py`) is a command line run by another program or a person.
It reads a task, asks a model for changes to a list of allowed files, saves
them as a proposal, and after an approval writes the files, runs the validation
commands and records the completion.

| Component | State | Operations | Interacts with | Hard about it | Right means |
|---|---|---|---|---|---|
| Inference queue `inference_queue.py` | `_active`, `_waiting`, `_lease`, `_unload_policy`, `_unload_timer`, daemon threads | acquire, release, idle cleanup, delayed unload, policy change | every request thread; settings endpoint; Ollama's unload | wake-ups that are overtaken, timers that fire as a request arrives | one request inside, an exact counter, no unload under a queue, everyone served |
| Routing `routing/` | none | route, plan for a mode, capabilities, fallback, apply to settings | gateway request, leases | absent, disabled, incapable tiers; three modes that must stay legacy | aliases and cloud reservation honoured, no borrowed endpoint or key |
| Route leases `routing/leases.py` | lease in the stored response | create, inherit, apply, escalate | response store, telemetry, routing | settings that change between two requests of a chain | monotone, bounded, tells where the call ran |
| Gateway request `web_app.py` | the thread's locals | send, begin, attempt, fall back, escalate, answer, store | all of the above | failures at every step; answer before store | every request ends, a continuation finds its parent |
| Response store `responses/state.py` | `OrderedDict`, expiry times | put, get, prune, evict | gateway requests | lazy expiry, eviction order | recent responses kept, expired ones never served |
| Chat completion `web_app.py` | the handler's locals, bytes already sent | route, pull an event, pass it on, fall back, end | providers, usage statistics | a generator that retries, fails or is closed at any event | the client gets the answer or is told why not |
| Streamed responses `web_app.py`, `responses/streaming.py` | the handler's locals, bytes already sent | map events, number, withhold, run tools, finish | providers, hosted tools, store | failures after HTTP 200, several rounds in one stream | numbering, one ending, text equal to what was streamed |
| Task workflow `cli.py`, `execution.py`, `file_writer.py`, `repository.py`, `completion_store.py` | working tree, report, backup directory, completion state | run, approve, apply-proposal, write, roll back, validate, record | Git, the user's editor, validation commands | long waits between check and write, kills, partial writes | user work survives, failed writes are undone, completed means validated |
| Usage statistics `usage_statistics.py` | a JSON file, a process-local lock | record, rotate, aggregate | both halves | two processes, write errors, kills | the last records are kept, and every record ends |
| Telemetry `telemetry/` | SQLite | initialize, record, prune, aggregate | usage statistics, router | DDL that commits on its own, several processes | nobody records in half a schema, initializing again is harmless |
| Settings `config.py`, `web_config.py` | `.env` | load, save | every request, the settings page | a request reads twice while the page writes | a request works on settings somebody saved |
| Providers `providers/` | `last_generation_metadata`, HTTP connections | `stream`, `chat`, `complete`, retry without tools or format | gateway, worker | half-finished streams, repeated requests, metadata of another call | contract of event order; an answer is described by its own metadata |
| Responses adapter, tool normalizer `responses/adapter.py`, `tools/` | none | translate, deduplicate, prioritize | gateway | limits | declared tools survive |
| Reply parsing, patches `response_parser.py`, `unified_diff.py` | none | parse, resolve hunks | worker | offsets, overlapping hunks | patch means what diff means |
| Context, prompts, tasks `context_builder.py`, `task_loader.py` | none | read, limit | worker | limits at the boundary | nothing above the limit |
| Web UI, metrics, benchmarks, scripts | none | pages, discovery, downloads | queue (downloads) | a download holds the queue | - |

The hazards that follow from this, each at its line and with the property that
would catch it, are in `PROJECT.json`.

## Modules

```
SerialService   <-- refined by --  InferenceQueue       MCInferenceQueue     InferenceQueueProofs
     ^ promise used by
Gateway  -- extends -->  Routing                        MCGateway            GatewayProofs
ResponseState (what Gateway!Forget abstracts)           MCResponseState      ResponseStateProofs
ResponseStream (the streamed handler after routing)     MCResponseStream     ResponseStreamProofs
ProviderContract <-- refined by --  Provider
Provider  <-- extends --  ChatCompletion                                     ChatCompletionProofs
TelemetryDatabase                                                            TelemetryDatabaseProofs
    ^-- extends --  UsageStatistics                     MCUsageStatistics    UsageStatisticsProofs
TaskWorkflow                                            MCTaskWorkflow       TaskWorkflowProofs
```

**SerialService** is the abstract promise of the queue: requests queue, one is
served at a time, a model is unloaded only when nobody is queued or served.

**InferenceQueue** is `inference_queue.py`, a step per critical section of
`_condition`. `pc[r]` is where r's thread is: `waiting` is inside
`Condition.wait`, `notified` is after `notify_all` and before the lock is owned
again, which is when a new arrival may overtake. `timer[r]` is the daemon thread
r's release started, `elapsed` being the window between the end of
`Event.wait` and the lock. `UseOllama` and `UseRemote` are what the handlers in
`web_app.py` leave in `lease.idle_cleanup`. `unasked` (models used and not
unloaded since) and `touched` (timers older than the last arrival) are history.

**Routing** holds the pure definitions of `routing/`: the tier asked for, the
capable tiers, the order they are tried in, the modes, the next tier of a
fallback, and the endpoint and key `_apply_decision` leaves in the settings.
Endpoints and keys are named by who configured them, which is what "never
borrows" is about. Prompt analysis and the rule list are the tier they give;
RouteLLM's score is a band.

**Gateway** is a request of `/v1/responses` or `/v1/chat/completions` without
streaming: `Send`, `NotFound` / `Refused` / `Begin` (lookup, routing, lease),
`Escalate` / `EscalationRefused` / `ChatFallback` / `Exhausted` (a failed
attempt), `Answer` / `Interrupted`, `Finish` (store, then leave the queue).
A step may lose what it offers to telemetry (`Lose`), since the recorders of
leases and escalations swallow the database's errors; statistics that cannot be
written interrupt the request instead.
Around it settings change (`ChangeSettings`) and stored entries disappear
(`Forget`) at any moment. A request works on the settings it loaded. The queue
is `serving`, what SerialService promises.

**ResponseState** is `ResponseStateStore` with its clock and order; the second
clock read of `put` may be a tick later than the first.

**ResponseStream** is the streaming half of `_response` with
`map_provider_events` inlined: `Open` / `OpenFails` (`next()` on the provider's
events, tier by tier), `Delta`, `StreamFails`, `StreamEnds` (the mapper closes
the message, its `response.completed` is withheld), `RunTools`, `PassCallsOn`,
`Finish` (the completed event, the statistics, which may fail, and the store),
and `HangUp` where a write meets a closed connection. The stored history is the
rounds' calls and outputs and then `Answers`: one answer with the whole text for
each call. `StartsFirst`
says that providers yield their `started` event before they connect, as both
do; FALSE is the provider of the tests, which may fail before it.

**ProviderContract** is what `providers/base.py` says of a stream:
`validate_event_sequence` and the types of the events, as one step per event.

**Provider** is a provider object, of either class, and the calls it serves one
after the other: `via` is `stream()` ("events"), `chat()` ("text") or
`CanonicalProviderAdapter.complete` ("result"). Every HTTP request is a visit of
`sending`: `OllamaRejected` and `OpenAIRejected` are the rejections and what the
code asks next (`body` is what the request asks for beside the messages),
`TransportFails` a lost connection. A streamed answer is `Line`, `BadLine`,
`Ends`, and then `Usage`, `ToolCalls`, `Completed`, each an event; the
consumer may `Close` the generator anywhere. An answer without a stream is
`Answer` or `BadAnswer`. `metadata` is `last_generation_metadata`, reduced to
the call it describes. Outcomes: "answered"; "failed", a ProviderError; "stray",
an exception of another kind; "missing", complete()'s error about metadata. What
the text of a line says is left out; its length is one unit of
`max_output_characters`.

**ChatCompletion** is `_chat_completion`, streamed or not, on top of Provider:
`Pull` is `next()` on the provider's generator (or the work of `chat()`), `Forward`
the chunks of an event, `HangUp` and `EndStream` the ways out of the loop,
`FallBack` / `Refuse` / `Reply` the path without a stream. `Record` is
`record_model_call`, whose `OSError` becomes a refusal (`OrRefusal`). While no chat is
running (`handler = "free"`) the provider serves others, so that every way of
calling it is explored.

**TelemetryDatabase** is `initialize()` of the SQLite file, a statement per step
(`Execute`, `Look`, `Skip`), with the transaction that sqlite3 opens at the first
INSERT (`writer`, `pending`), `Commit`, `Abandon`, `Clash` (an object is there
already), `LockTimeout`, `DatabaseError` (any other error, at any statement), `Kill`.
`schema` is the set of objects that are committed. `disturbed` is history.

**UsageStatistics** adds `usage_statistics.py`: the JSON file under the lock of
its process (`Load`, which takes a file it cannot read for an empty one, `Replace`,
`WriteFails`), then the row. Threads belong to
processes (`process`), which are killed with all their threads (`KillProcess`).
`log` is history: it begins anew with a write that follows a failed read.

**TaskWorkflow** is the command line from `run` to the completion state. Each
step of `apply_generated_files` that reaches the file system is an action:
`BackUp`, `WriteTemp`, `Replace`, and in the rollback `Unlink`, `CopyBegins`,
`CopyEnds` (`copy2` truncates and then fills) and `RestoreFails`; `WriteFails`
and `Crash` may come at any of them. The user edits, reverts, commits and
deletes reports (`Edit`, `Revert`, `Commit`, `Spoil`) where `EditDuring` lets
them. A file's content is one of `none`, `old`, `user`, `new`, `torn`. Git's
view of an untracked directory, and of what it ignores, is `Reported` (`NewDirs`).
A validation command that rewrites files (`ruff --fix`, a script) is an `Edit`
while the worker is "validating". A refusal changes nothing and is
no step.

The MC modules only name constants. In every component module an operator
marked "A mutant of" is a plausible wrong version of the one it names; no
specification uses it.

## Runs

Runs that hold:

| Run | Question | Bounds, and why they are enough |
|---|---|---|
| `queue` | Is inference serialized, is the counter exact, do stale timers do nothing, does the queue implement SerialService, is everyone served? | three requests (one served, one waiting, one overtaking), two models (a second one to fall back to), every policy, changed at any moment |
| `gateway_chains` | What holds along a chain of continuations whose settings change? | three responses give chains, branches and retries; one change between router, legacy and a table without MID; telemetry fails in one step, one stored response is forgotten, and only the first of a chain may ask not to be stored (`ChainSpec`) |
| `gateway_tables` | Does routing keep its promises on every table of tiers? Does every request end? | all 729 tables (each tier absent, or any of eight configurations), forced and automatic requests, capable sets and score bands, one response each, since routing has no memory; beside them a chat and a response in canary and shadow modes with one change of settings |
| `state_safety` | What may a client rely on? | four ids in a store of two, so eviction has a choice; time to live 3 of 5 ticks |
| `stream` | Numbering, endings and text over tool rounds; does every stream end? | the five rounds of the code, two hosted tools and one of the client's, one delta a round, one fallback tier, failure and disconnection anywhere, the statistics written or not |
| `chat` | Do providers keep their contract through every retry? Does the client of a chat get the answer, or is it told? Does the handler end? | two calls (the second one sees what the first left behind), both classes, every way of calling, three lines of which two may be text (one under, at and over the limit), one fallback tier, rejections, failures and a disconnection anywhere, every record written or not |
| `statistics` | What does the file keep? Does anybody record in half a schema? When does an initialization clash? Does every record end? | two threads of one process or of two, with two records and one in a file of two (eviction and a lost update both happen), a database one version behind, write errors and lock timeouts anywhere, and two of kills, failed reads and failed database operations |
| `workflow` | Are failed writes undone, is anything lost, does user work survive, does completed mean validated? | three files, one each for replaced, in hand and untouched; every mode; the user edits, reverts, commits and deletes reports between the worker's commands |

Runs that show a disagreement are in the section after next. Deadlock is checked
where the system runs on (queue, store, workflow); gateway requests, streams,
chats and records end, so their runs do not check it. Symmetry is used in `gateway_chains` and
`state_safety`, which have no temporal property.

The bounds named in the models: `MaxChanges` (settings changes), `MaxNow` and
`MaxUses` (clock and uses of the store), `MaxFailures` (gateway steps whose
telemetry fails, 1), `MaxCalls` and `MaxLines` (providers),
`MaxRecords` (of each thread: 2 and 1) and `MaxFaults` (kills, failed reads and
failed database operations: 2, and 1 in `telemetry_migration`), `MaxDeltas` and `MaxTiers` (streams),
`MaxCommits` (the user's commits). `MaxRounds`, `MaxEntries`, `TTL`, `MaxEvents`,
`Limit` and `maxEscalations` are the code's own.

At most one request is served: `queue` shows it as part of `ImplementsService`, and
`Serialized` and `PendingMeansIdle` are proved.

## Fairness

All of it supposes a client that reads and writes or closes its connection. The
server's sockets have no timeout: a client that stays connected and stalls, in the
middle of its body or of an event stream, keeps its thread and the queue for as
long as it likes, and no liveness property speaks of it.

- **Queue**: weak fairness of a notified thread taking the lock, of a served
  request's release (provider calls have timeouts) and of timer threads. None for
  arrivals or policy changes. Requests are finitely many: the lock is not FIFO,
  and endless arrivals could overtake a waiter for ever.
- **Gateway**: weak fairness of each request's next step, by the queue's
  `EveryRequestServed` and the providers' timeouts. It does not say that
  attempts succeed, nor that telemetry is written.
- **Stream**: weak fairness of the handler, for the same reason; the client
  need not disconnect, and the model may ask for tools in every round.
- **Chat**: weak fairness of the handler, and of whoever else uses the provider:
  reads have timeouts, and an answer is finite. The client need not disconnect,
  and the server may reject or break off everything.
- **Statistics**: weak fairness of every thread. A thread waits for the lock of its
  process, whose holder only writes a file, and for SQLite's no longer than the
  busy timeout.

## What the code does otherwise than its documents say

Four of them are runs whose property TLC violates; `PROJECT.json` quotes the
documents.

| Run | Violated | What happens |
|---|---|---|
| `provider_retry` | `RetriesAnswer` | `chat()` returns the answer of a retry before it describes it: `complete()` raises "without generation metadata", or takes usage, finish reason and tool calls from the tool round before |
| `telemetry_migration` | `InitializationIsIdempotent` | a process killed, or a statement failing as on a full disk, after CREATE TABLE and before the version's INSERT: each later `initialize()` fails on the table, its callers swallow that, and nothing is recorded any more |
| `stream_rounds` | `HostedCallsAreAnswered` | the fifth round of hosted calls is run, its results are dropped, and no final event is sent |
| `workflow_newdir` | `UserWorkSurvives` | a new file in an untracked directory does not show in `git status --porcelain` and is overwritten; so is one that Git ignores |

Others follow from the same models and are described here only:

- *Shadow continuation.* `RollbackExecutesLegacy` (Gateway) fails with a shadow
  setting whose LOCAL tier has another provider than `LLM_PROVIDER`, and a
  response that continues another: the continuation applies its lease, and
  so the LOCAL tier's provider (routing/gateway.py:76; docs/v2_architecture.md:692
  says "Shadow always executes legacy").
- *Borrowed endpoint.* With `legacy` mode and such a LOCAL tier, `NeverBorrows` fails
  for the first request: the legacy decision is given LOCAL's endpoint and
  key (routing/gateway.py:38; README.md:154).
- *History after hosted calls.* `StoredCallsAreOpen` (ResponseStream) fails with
  one hosted tool: its call is stored with its output, and once more without
  (web_app.py:1500; README.md:129). Each call comes with the whole text, so that
  after two calls the history holds the text twice; `TextIsWhatWasSent` says that
  each is the text.
- *Statistics that cannot be written.* `record_model_call` raises an `OSError`, and
  do_POST answers 400 to a request that was answered: a chat without a stream gets
  the refusal in place of its message (web_app.py:843), a streamed one after `[DONE]`
  (web_app.py:793), and a streamed response an error response after
  `response.completed`, without being stored (web_app.py:1488). `ClientIsTold` and
  `EventsInOrder` name these cases and say that nothing else happens.
- *Statistics that cannot be read.* `_load_events` takes the file for an empty one,
  and the next write replaces all events by one (usage_statistics.py:209). To
  `OneProcessLosesNothing` that is where the log begins anew.
- *Lost telemetry.* An escalation whose event the database did not take counts in its
  lease all the same (usage_statistics.py:164): `EscalationsAreRecorded` adds the
  unrecorded ones.
- *Retries that end otherwise.* A transport error inside a retry of Ollama's `chat()`
  is an httpx exception that nobody catches (providers/ollama.py:310), and so is
  the ResponseNotRead of a streamed response whose error body is looked at
  (providers/openai_compatible.py:588): these are the "stray" outcomes, of
  which `ClientIsTold` says that the client is told of no end and none is recorded,
  not that this is right. With LLM_JSON_MODE auto, tools rejected first and the
  format second are not tried with the prompt only (docs/providers.md:61-62).
- *Finish reason.* The completed event overwrites the "tool_calls" of
  web_app.py:752, so a streamed chat with Ollama's calls ends in "stop".
- *Failed chats.* A failure is recorded with the metadata of a provider that was
  just created and has none, so nothing is recorded (`Record`, ChatCompletion).
- *Two processes, one file.* The worker and the gateway share the statistics file and
  not its lock: `OneProcessLosesNothing` fails without its premise
  (docs/v2_architecture.md:515).
- *Idle unload.* docs/security.md:57-58 promises an unload when the queue becomes
  idle after an Ollama request. If that request ends while another waits
  (`NeedsNoCleanup`) and the other uses no Ollama, or if the policy changes from
  minutes to immediate while an unload is pending (`SetUnloadPolicy`), the
  queue is idle with the model loaded.
- *Legacy fallback.* `RollbackExecutesLegacy` fails in legacy mode too: runtime
  fallback (`NextTier`) does not look at the mode (README.md:151-153).
- *Escalation limit.* An escalated lease is stored with a successful answer
  only; a client that retries a failed continuation escalates the stored lease
  again. Each lease obeys the limit, the events of its root do not
  (README.md:179-181).
- *Passthrough calls.* `PassCallsOn`: the item of a client's call is constructed
  with a status its schema refuses (responses/schemas.py:143), so the stream
  ends in an error response (README.md:127-129).
- *Fallback before the first event.* Both providers yield `started` before they
  connect (`StartsFirst`), so a refused connection never reaches the fallback
  that tests/test_openai_api.py:446 shows.
- *Message item.* `StreamEnds` closes the item in every round; the next round's
  deltas name it again (docs/codex_model_provider.md:15).
- *Editing while the worker waits.* Without `--codex` the tree is inspected once,
  before the provider and the prompt are waited for (`Approve` checks nothing),
  so with `"asking"` in `EditDuring` the property `UserWorkSurvives` fails
  (docs/task-workflow.md:85-86). With `"validating"`, `CompletedMeansValidated`
  fails: the hashes are taken after the commands, of files that may have changed
  since, by the user or by a command that rewrites them (`ruff --fix`,
  command_runner.py:7). With `"generating"`, `ReplacesItsBasis` fails: a patch is resolved
  against the files as they are when the answer has come.

`gateway_tables` checks `NeverBorrows` where `LLM_PROVIDER` and LOCAL agree or the
mode is router, and `workflow` checks the tree with the
user at work between the commands only and no untracked directory: they show
what holds beside these cases, not that the cases are rare.

## Proofs

`tlapm` checks all proofs; nothing is assumed but the modules' named ASSUMEs,
which TLC evaluates in every run: which set a constant is a subset of, that bounds
are naturals, that `None` is not one of the things it is told apart from, and
that files, tools and response ids are finitely many. Every invariant, action
property and refinement of the runs that hold is proved, for every value of the
constants. Six theorems, one of the gateway and five of the worker, have
hypotheses about the settings or about when the user edits; those hypotheses
exclude the divergences listed above and edits during the writes themselves, and
the runs satisfy them. Without them the properties do not hold.

**InferenceQueueProofs** - `IInv` is `TypeOK`, `Serialized`,
`WaitingIsExact`, `PendingMeansIdle` and `TimerInv`. `TimerInv` is needed
because a timer thread that has elapsed takes the lock later: it says that
timers belong to finished requests and that the one `_unload_timer` refers to
has seen no arrival since. From it follow the three
invariants, the action property `OnlyUntouchedTimersUnload`, and that every
step of the queue is a step or a stutter of SerialService
(`QueueImplementsService`) for any number of requests and models.

**GatewayProofs** - `IInv` is `TypeOK`, `Support` and five safety invariants. `Support` says who holds the queue, that what is stored was finished and what
was finished with `store` was stored, that a parent was answered before its
child was sent and finished before the child began, that a request fails once,
and that filed leases have climbed as far as they count. The
escalation limit is where arithmetic comes in: an escalation moves at least one
rank up, so a lease's count is at most its rank, at most 2, for every limit in
the settings. Proved for any sets of requests, chats, canaries, settings and
queries.
`EscalationsAreRecorded` has an invariant of its own, `Accounted`, which adds
that every lease in use has a root: only then is its event, written or lost, counted
somewhere. It holds for any number of steps whose telemetry fails.

`FirstTierIsPromised` is about the first call of a chain in router mode. `Promised`
says that such a call has a lease, because an escalation raises the lease's count
and a call without one would stay "first" on another tier. That the routed tier
keeps the promise is a lemma about the operators of `Routing` alone
(`RoutedPromise`): whatever comes before it in the order of the wanted tier is
not eligible, for every table of tiers.
`NeverBorrows` is inductive once a decision names the provider of its tier
(`DecisionFits`): then `_apply_decision` either takes endpoint and key from a tier
of that provider or leaves the legacy ones of the same provider (`AppliedFits`).
The legacy decision is given LOCAL's place, so the theorem supposes that outside
router mode the LOCAL tier, if configured, has the provider of `LLM_PROVIDER`
(`Agrees`); the run explores the same settings.

**ResponseStateProofs** - `IInv` adds that the dictionary's order is the order
of use (`InOrder`) and that an entry keeps the expiry of its put
(`ExpiresFromPut`). `RecentlyUsedIsKept` needs the first: what eviction drops is
older than the `MaxEntries` entries that stay, by a lemma about counting the
elements above one in a finite order. Any ids, any capacity, any time to live.

**ResponseStreamProofs** - `Typed` makes events and messages sequences. For
`EventsInOrder`, `Ordered` says that until the handler has ended nothing sent is
an ending and no number sent is above `last`: the mapper withholds events but
counts them, and the next round goes on from its count. So the one thing that
follows an ending is the error response `Finish` adds itself. For
`TextIsWhatWasSent`, `Told` says in every phase which of the handler's and the
mapper's variables hold what the client was sent: `prior` before a round,
`prior` and the parts during it, `completed` after it, which is the text of every
answer `Finish` stores. Both are invariants of
the loop over rounds, and hold for any number of rounds, deltas, tools and tiers and
for either kind of provider (`StartsFirst`).

**ChatCompletionProofs** - `ChatInv` has three parts. `ProviderInv`: an answer read
to its end is described by its own call, a call without a stream yields no
events. `Numbered`: an event's number is its place, and the place of a call
tells the type of the last event. From these each step of
a provider, in a chat or not, is a step or a stutter of ProviderContract
(`ImplementsContractHolds`), through every rejection and retry. `Chatting`: where
the handler is tells which call the provider serves and what the client has
been sent; while the stream goes on, the chunks on the wire are the texts heard,
position by position, but for an event that was yielded and not yet passed on. The
positions are counts of the elements of a sequence below an index, which needs
a few lemmas about counting. `AnswersAreDescribed`, `ClientGetsTheAnswer` and
`ClientIsTold` follow, for any number of calls, tiers and lines and any limits,
whichever records cannot be written: `Chatting` also says that nothing is recorded
before the handler ends, since a provider that fails in a chat has no metadata.

**TelemetryDatabaseProofs, UsageStatisticsProofs** - The first holds lemmas, the second
the theorems, since it is the recorder that initializes. `Complete` says that no
version's row is visible without the version's objects, whether committed or in
the writer's transaction, and that a thread has executed or found whatever
comes before its place; it is preserved by kills because a kill drops a whole
transaction, and by others' steps because nothing committed is ever removed.
`Undisturbed` is the invariant for `OnlyDisturbedMigrationsClash`: until a migration is
killed, fails or is met, one thread at most migrates, it has added exactly what comes
before its place, and between two migrations the schema is that of a version. For the file,
`Locked` says that who writes holds its process's lock, and `Fresh` that what it
has loaded is the file as long as its process is the only one that wrote, unless
its read has failed, and then the log begins anew with its write. That
keeping the last n events at each append keeps the last n of all is a lemma
about sequences (`LastOfAppend`).

**TaskWorkflowProofs** - `Typed` adds to the types which file the writer has in hand.

- `NothingIsLost` and `FailedWriteRestores` follow from `Kept`: while files are
  replaced and rolled back each is as it was or has its backup, and what a
  rollback failed to restore still has it. The hypothesis is that the user leaves
  the tree alone during these writes (`EditDuring \cap Writing = {}`): the code
  copies a file and replaces it later, and nothing would notice an edit between.
- `UserWorkSurvives` and `ReplacesItsBasis` follow from `FromHead`: what is not
  replaced yet is as committed, and a proposal for the checked-out commit was
  made from it. The hypotheses are that no file is in an untracked
  directory (`NewDirs = {}`) and that the user does not edit between the
  inspection and the last write.
- `CompletedMeansValidated` follows from `Passed`: the files under test are those
  that are recorded. The hypothesis is that the user does not edit from the start
  of the commands to the record.

All hold for any files, modes and number of commits, wherever the worker fails
or is killed.

Only model-checked: liveness (`EveryRequestServed`, `PendingUnloadResolves`,
`EveryRequestEnds`, `EveryStreamEnds`, `EveryChatEnds`, `EveryRecordEnds`), which the
prover does not reach, and the four violations, which are counterexamples.

## What is not modelled

Telemetry's aggregates and deletion, the settings file, the adapter and tool normalizer, context limits, reply parsing and patches, reports, the web UI
and benchmarks; the reason of each is in `PROJECT.json`. Within the modelled
parts:

- Gateway loads provider and gateway settings in one step; the code reads
  `.env` twice.
- Gateway treats the hosted-tool loop of an attempt as one step.
- ResponseStream leaves reasoning and usage events out: they reach the client
  with the completed response only.
- Provider leaves out listings, health checks, pulls and unloads, and what a text
  that looks like a tool call must look like: whether it does is a choice.
- ChatCompletion has no routing but the number of tiers left, and no finish reasons
  and usage; the loop that looks for a tier before the headers is left at once,
  since both providers yield `started` first.
- TelemetryDatabase leaves out what a row says. UsageStatistics leaves out files
  that are not JSON: `os.replace` leaves none.
- TaskWorkflow has one worker at a time, the last report only, allowed paths
  without a leading dot, and no edit in the moment between a file's backup and
  its replacement.

## Plan

In order:

1. Queue, gateway with routing and leases, response store, with proofs - done.
2. Task workflow and streamed responses, with proofs - done.
3. Providers with their contract, chat completions, usage statistics with the
   database they write to, with proofs - done.
4. `SettingsFile`: the settings page writing `.env` key by key while another page
   writes and requests read it twice.
5. Operators with reference definitions: applying hunks, deduplication and
   prioritisation of tools, context limits.
6. Composition: Gateway with ResponseState instead of `Forget`, shown to
   implement Gateway; ResponseStream on Provider, as ChatCompletion is.
7. Proofs with weaker hypotheses: user edits at any time to files a proposal does not
   touch, and an edit between backup and replacement as a step of its own.
   A theorem for `RollbackExecutesLegacy` without leases.
