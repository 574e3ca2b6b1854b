# lm-resizer: specification, model checking and proofs

lm-resizer shortens the text an LLM agent reads (command output, tool results, JSON,
logs, diffs, source code) and keeps the original under a hash, so that the agent can ask
for what was left out. Its promise is *reversible* compression (CCR): whatever a marker in
a shortened text names can be retrieved. This directory holds TLA+ models of the parts
that carry this promise, TLC configurations that check them on small instances, and proofs
checked by TLAPS for every instance.

All paths below are relative to the repository root (`src/` here), unless they begin with
`tla/`. `PROJECT.json` maps every definition to the lines it models.

## 1. Inventory

### 1.1 Components that keep state

| Component | Source | State | Operations | What makes it correct | Model |
|---|---|---|---|---|---|
| In-memory CCR store | `crates/lm-resizer-core/src/ccr/backends/in_memory.rs` | sharded map, FIFO of eviction tickets under its own mutex, generation counter | `put`, `get`, `evict_until_under_capacity`, lazy expiry | a get answers what the store held during the call; a live payload goes only by eviction of its own ticket; every entry stays evictable; bounded overshoot; calls return | `InMemoryCcr` |
| SQLite CCR store | `crates/lm-resizer-core/src/ccr/backends/sqlite.rs` | a table in a file, one connection per process behind a mutex | `put` (upsert), `get` (sweep, select) | the same contract across processes and restarts; a stored row lives as long as its put promised | `SqliteCcr` |
| Compression pipeline and its report | `crates/lm-resizer-core/src/transforms/pipeline/`, `lib.rs`, `src/main.rs` 2955-3050 | current text, keys, savings, step list | `run`, `compress_with`, `compress_text_with_metrics` | everything dropped can be reached along the markers; the first key is the exact input; savings add up; failure lines stay visible | `Compression` |
| Live zone of a conversation | `crates/lm-resizer-core/src/transforms/live_zone.rs`, `cache_control.rs`, field walk of `src/main.rs` | none between requests, but the provider's cache and the store depend on the whole conversation | dispatch per route, compress the latest messages | a cached prefix is sent again byte for byte; markers resolve; retrievals go through | `LiveZone` |
| MCP stdio proxy | `src/mcp_proxy.rs` | table of pending requests, two threads, the upstream process | forward, record, cancel, compress answer, drain | each request is answered once; no marker without its original; nobody waits for ever | `McpProxy` |
| Interruption relay (Unix) | `src/capture_interrupt.rs` 130-270, `src/command_capture.rs` | two atomics, process-wide signal dispositions, a lock | `install`, `forward` (the handler), `set_child`, `drop` | a signal reaches the producer exactly once, nobody else, and never orphans it | `InterruptRelay` |
| Interruption relay (Windows) | `src/capture_interrupt.rs` 272-387 | two atomics, a flag and a polling thread | `install`, console handler, relay loop, `set_child`, `drop` | as on Unix | `ConsoleRelay` |
| Producer capture | `src/command_capture.rs` | two reader threads, a channel, buffers, the tee | `run_separated`, `run_shared` | each stream whole and in order; the producer is reaped whatever fails; the capture ends | `CaptureStreams` |
| State directory | `src/main.rs` 5764-5845 and 5962-6007, `src/capture_interrupt.rs` 27-125 | `tee/<digest>.log`, `tee/partial-*.log`, `exec-history.jsonl` | `DurableTee`, `archive_raw_bytes`, `write_private_archive`, `write_exec_history` | an announced archive is whole; captured bytes survive a kill; damage to the history stays local | `StateDir` |
| Exec pipeline | `src/main.rs` 3168-3556, `src/command_views.rs`, `src/structured_views.rs` | the report being built | filter, compress, gates, re-keying, tee hint, status, on three paths | failures and commits stay; what is left out can be had; a failed command says so | `ExecView` |
| Agents' files and trusted filters | `src/main.rs` 4498-4743, 7991-8316, 9536-9850, `src/agent_hooks.rs` | files of other programs, `trusted-filters.json` | trust, untrust, install, update, uninstall | the owner's text survives; only trusted contents apply, or those asked for | `ManagedFiles` |
| Shell rewriting | `src/main.rs` 3560-4060 and the PreToolUse hook | none | `rewrite-shell`, hook answer | the rewritten line runs the same commands | `ShellRewrite` |
| Agent wrapper | `src/main.rs` 9864-9943, 10021-10035 | proxy and agent processes, the address | spawn, readiness poll, launch, wait, kill | no process left behind, none taken away | `WrapAgent` |
| HTTP proxy | `src/main.rs` 10136-11700, `src/provider_usage.rs` | requests in flight, `proxy-history.jsonl` | compress, forward, stream, record | one true record per answered request | `HttpProxy` |
| WebSocket bridge | `src/main.rs`, `websocket_bridge` | one task and two sockets per connection | take, pass, close | messages pass in order; both sides close together | `WsBridge` |
| Shared context | `src/shared_context.rs` | a table in the same file | `put` (insert only), `get`, `list` | a handoff is never overwritten | - |

### 1.2 Components without state of their own

These are functions from text to text, modelled as operators and called by the instance
`Selections` with every small input:

* which elements of an array SmartCrusher keeps (`RowSelection`), and how an array becomes
  a table (`TableCompaction`);
* which lines of a log, a search output, a diff and a program stay (`LogSelection`,
  `SearchSelection`, `DiffSelection`, `SourceSelection`);
* which tags are hidden from a compressor (`TagProtection`);
* the views of test runs (`TestViews`) and the views with an inverse (`ReversibleViews`).

Content detection, the tokenizer, relevance scoring, the remaining views and the filter
language are taken as any result of their kind, or left out; `PROJECT.json` says which and
why. The wasm module and the C ABI are thin bindings; benchmarks and scripts are not part
of the program.

### 1.3 How they interact

* The command line, the MCP proxy, the HTTP proxy, the hooks and the batch call the
  **pipeline**; the pipeline's offloads and its callers call `CcrStore::put`, which reports
  no failure; retrieval goes through `CcrStore::get`.
* Several lm-resizer processes share the **SQLite file**, the **state directory** and the
  **files of the agents**; only file-system and database atomicity orders them.
* `exec` composes the **capture** (producer process, pipe, signal relay, durable tee), the
  **filters**, the **pipeline**, the **archive** and the **history**.
* Signals interrupt any thread of the process between any two instructions; the handler and
  the capturing thread share two atomics.
* The MCP proxy shares its pending table and one flag between the forwarding thread and
  the main loop; the upstream server is a process that can die, stall or close one pipe.
* `wrap` sessions share one address: whoever holds it answers the poll of each of them and
  serves the requests of all their agents.

### 1.4 What is hard here

* interleavings of puts, evictions and gets whose locks are per shard (in-memory store);
* a clock read before a lock is awaited (SQLite store);
* markers of one step dropped or re-keyed by a later one (pipeline, report, exec paths);
* a prefix cached by the provider that a later turn would send in other bytes (live zone);
* answers, cancellations and process death in any order (MCP proxy);
* a signal between any two steps of installing, handing over and dropping (relay);
* pipes that fill up while another is drained, screens that stall, daemons that keep a
  pipe (capture, bridge);
* kills between two writes, and several processes on one file (state directory, files);
* a stream cut anywhere, whose usage is spread over several lines (HTTP proxy);
* a port somebody else holds (wrapper);
* partial failure nobody reports: a put that fails silently, an archive left short;
* overlapping budgets: errors, outliers, context and duplicates that compete for a limit.

`PROJECT.json` lists these under `hazards`, each at its line with the properties that
watch it. Of the same nature, and watched by no property: batch outputs named by the file
name alone (`src/main.rs` 9203), stale tickets that pile up below the capacity
(`in_memory.rs` 131), and the structural advice of `advice_cli.rs` (6.4).

## 2. The modules

| Module | Models | Built on |
|---|---|---|
| `CcrStore` | the contract of trait `CcrStore` (`ccr/mod.rs` 40-57), as callers may rely on it | - |
| `InMemoryCcr` | the in-memory backend, one action per shared access | implements `CcrStore` |
| `SqliteCcr` | the SQLite backend, one action per statement, several processes | implements `CcrStore` |
| `Compression` | pipeline, offload gating, report of the command line, library facade | - |
| `LiveZone` | the bodies the HTTP proxy forwards over a conversation | - |
| `CompressionParts` | the two, side by side | `Compression`, `LiveZone` |
| `SourceSelection` | what the source compressor leaves of a program | - |
| `McpProxy` | the MCP proxy with agent, server and pipes | - |
| `InterruptRelay` | the Unix signal relay and the thread that uses it | - |
| `ConsoleRelay` | the Windows relay and its polling thread | - |
| `RelayParts` | the relay of either platform | `InterruptRelay`, `ConsoleRelay` |
| `CaptureStreams` | workers, channel, pipes and writers of a capture | - |
| `StateDir` | the tee archive and the execution history | - |
| `WrapAgent`, `HttpProxy` | wrap sessions on one address; requests and their records | - |
| `Gateway` | agents behind proxies: both composed | `WrapAgent`, `HttpProxy` |
| `WsBridge` | the WebSocket bridge | - |
| `ManagedFiles` | edits of files in place by several processes and their owner | - |
| `ShellRewrite` | shell lines through `rewrite-shell` and the hook | - |
| `ExecView` | the three paths of a command's output | - |
| `Selections` | one call at a time of the compressors and views below | the nine modules below but `SourceSelection` |
| `RowSelection`, `TableCompaction`, `LogSelection`, `SearchSelection`, `DiffSelection`, `TagProtection`, `TestViews`, `ReversibleViews` | pure algorithms, each against what it promises to keep | - |
| `InMemoryCcrProofs`, `SqliteCcrProofs`, `StateDirProofs`, `ManagedFilesProofs`, `ExecViewProofs` | theorems (section 5) | the module named |
| `CompressionProofs` | theorems about `Compression` and `LiveZone` | `CompressionParts` |
| `InterruptRelayProofs` | theorems about `InterruptRelay`, `ConsoleRelay` and `CaptureStreams` | `RelayParts`, `CaptureStreams` |
| `GatewayProofs` | theorems about `Gateway` and `McpProxy` | both |
| `MC*` | instances for TLC: model values, inputs, symmetry | the module named |

`McpProxy` and `CaptureStreams` need no instance of their own; their definitions are named so
that each can be extended together with `Gateway` or `InterruptRelay`.

Operators whose names extend an action's (`OffloadAcceptedUnstored`, `MergedFirst`,
`WaitAgainLate`, ...) are plausible mistakes in that action. No specification uses them;
each is substituted for the definition of which it is a variant to confirm that a property
notices, and `PROJECT.json` pairs each property with one (`mutants`).

Some MC modules, and `RelayParts`, put several independent components into one instance,
of which a behaviour exercises one: its first step decides which, and the others stay as
they began.
TLC then explores the sum of their state spaces, not the product.

### 2.1 `CcrStore`: the contract

`live[k]` is what a reader would be given for hash `k`. A get has a *window*: every value
`live` had for its key between the call and the answer. The contract is that the answer is
in the window, with one exception: the trait cannot tell a caller of an error, so a lookup
that fails (`LookupFails`) answers `None` whatever the store holds; `errs` names the readers
it happened to. `Put` sets a payload, `Forget` removes any set of them (one tick of the
clock may end several lifetimes; an eviction ends one), `Die` takes away the calls of a
process that died. A backend implements the contract by a refinement mapping, stated as
the property `ImplementsContract` of both stores.

### 2.2 `InMemoryCcr`

* `map`, `order`, `orderLock`, `nextGeneration` are the fields; an entry carries the
  `generation` of its ticket as in the code. `pc[t]` names the next shared access of
  thread `t`.
* A step under one shard lock is one action: `PutOverwrite` (the `get_mut` fast path),
  `PutOccupied`/`PutVacant` (the `entry()` match), `EvictRemove` (`remove_if`),
  `GetRead`/`GetLooksExpired`, `GetExpire`/`GetRefreshed` (the `remove_if` of an expired
  entry), `GetRefetch`. `DashMap::len` locks shards one by one, so counting is a scan of
  `CountShard` steps over the constant partition `Shards`.
* The gap between `PutVacant` and `PutPush` is the code's: the shard lock is released
  before the order mutex is taken.

### 2.3 `SqliteCcr`

* `db` is the table; a statement is a transaction, hence a step. `read[t]` is the clock
  value taken at the start of `put` or `get`, *before* the mutex is asked for.
* `PurgeExpired` keeps the mutex until `Select`; both may fail, a failed sweep leaving the
  rows, a failed lookup answering `None` like a missing row, whether the key is there or
  not (`failed` remembers these answers, as the contract's `errs`). `UpsertFails` tells the caller
  nothing. `Restart` kills a process in the middle of a call; the file stays.
* Opening the file and creating the schema happen before the model starts.

### 2.4 `Compression`

* A text is a record: its size, the facts it *shows* word for word, those it *tells* in
  another form, and the texts its markers name. Texts are named by their place in the
  history `buf`, which stands for their content hash.
* Transforms are nondeterministic within their kind: a reformat tells all its input told;
  an offload keeps any part of it and adds a marker; `source_compressor`, registered as a
  reformat, drops bodies and may add a marker. The ordering, the 50 % early exit
  (`TargetReached`), the bloat gate with its 85 % second chance (`Gate`, `Underwhelmed`),
  the acceptance tests, the store and the keys are the code's.
* `caller` chooses between `LmResizer::compress_with` (`library`), the command line with
  re-injection of failure lines (`compress`) and `exec`, which asks for none.
* `CompactRows` is the table form of homogeneous JSON rows, which bypasses the pipeline.
  `KeepOriginal` stores the input last and re-keys every marker the run minted to it.
* `Put` may silently fail; `dropped` remembers it, and the retrieval properties are stated
  for runs whose puts succeeded, which is all the code can promise.
* `SourceFirstAssumption` says what `default_pipeline` (`lib.rs` 135-137) sees to: where
  `source_compressor` is registered, it is the first reformat of its type, so that the
  marker it writes names the input.

### 2.5 `LiveZone`

* A message is a role and blocks; a block's text is of one of the classes the dispatchers
  treat alike (too short, of a type without compressor, no gain, compressed alike for every
  question, compressed *for* the question). The client keeps the originals and resends
  them each turn; the provider caches the prefix up to a `cache_control` mark.
* Three dispatchers (Anthropic messages, chat completions, responses) and the generic field
  walk of the other routes are alternatives of `route`. The store may lose what it is
  given (`losses`).

### 2.6 `McpProxy`

* The forwarding thread checks the flag, reads a line, records it, forwards it; the main
  loop reads an answer, decides, puts, verifies the put by reading it back, emits. When
  the server's output ends it lowers the flag, waits for the process, drains the table and
  reports the leftovers.
* The environment is an agent that asks, cancels and closes, and a server that answers in
  any order, dies, leaves when its input ends, and, where `MayStall`, closes its output or
  writes an undecodable line and goes on running.

### 2.7 `InterruptRelay` and `ConsoleRelay`

* `target` and `pending` are the two atomics; the handler is four steps (publish, load,
  swap, kill), each of which may interleave with everything else and with other instances.
* The handler's store is `Release` and its load `Acquire`, so the store may become visible
  after the load: it waits in `unseen` until `StoreIsSeen`, at the latest before the swap.
  The stores of `install` and `Drop` are `SeqCst`, and `set_child`'s is followed by a swap,
  so these take effect at once.
* `install` loops over the signals (`InstallOne`), may fail at each (`InstallFails`, with
  its rollback), `set_child` publishes and then takes what was pending, `Drop` clears both
  atomics and restores the dispositions one by one. A signal whose disposition is the
  default ends lm-resizer (`Terminate`). Captures follow each other, under the lock.
* On Windows the console's handler records an event and a relay thread polls for it every
  few milliseconds; it swaps the event out before it looks for the process group and puts it
  back if there is none yet. Both installations (the handler, the thread) may fail.

### 2.8 `CaptureStreams`

* A pipe holds `PipeSize` chunks, and a writer of a full one waits. Captured apart, a
  worker per stream reads its pipe and sends to an unbounded channel; the capturing thread
  takes chunk by chunk, appends it to the buffers and the tee, and may show it on a screen
  that reads, stalls, reads again or is gone. Captured together, the thread reads the one
  pipe itself.
* The writers are the producer and a descendant that inherits its ends (`stays` when it
  outlives it); reads fail, writes fail, and the system may reap the child first.

### 2.9 `StateDir`

* Files are inodes with names: `archive` is `<digest>.log`, `partial` the tee files that
  still have theirs. A file is a sequence of chunk numbers, 0 being foreign bytes.
* `DurableTee` (create, append, finish with remove or rename) is followed by
  `archive_raw_bytes`/`write_private_archive` (exclusive create, or reopen, measure,
  compare, truncate, write), and by the appends of `writeln!` to the history: the record,
  which the kernel may take in two parts (`WriteRecordPart`, `WriteRest`), and its newline.
  `RecordFails` is a failure before, between or within them, which leaves what was written.
* Environment: a leftover file from an earlier interrupted write, a kill at any step,
  failed writes, one purge.

### 2.10 `WrapAgent`, `HttpProxy`, `Gateway`, `WsBridge`

* `port` is who listens on the address: nobody, a session's proxy, or a *stranger*, by what
  it makes of `GET /health`. `wrap[s]` is the place of a session in `wrap_agent`; `late[s]`
  whether its current deadline has passed.
* A request goes through its handler's phases; a streamed answer is a script of lines, each
  with the usage it reports, relayed in pieces that may cut a line. `Scanned` is what
  `SseUsageScanner` makes of a line, `Fire` the tap. `Cut` is the end of the proxy process.
* `Gateway` lets an agent call whoever holds the address, and ends the requests of a
  proxy with it. The bridge runs in a proxy somebody started by hand and shares nothing
  with the sessions, hence a module of its own.

### 2.11 `ManagedFiles` and `ShellRewrite`

* A behaviour of `ManagedFiles` is about one file of one kind (instructions with a marked
  block, MCP entries, Codex' TOML, native hooks, the list of trusted filters). Its text is
  a sequence of tokens; a command reads it whole, makes a new text and writes it in place
  in two steps (truncate, write). `exec` applies contents that are recorded as trusted, and
  any contents where its environment has `LM_RESIZER_TRUST_PROJECT_FILTERS=1` (`asked`).
  `stale` remembers that somebody wrote in between, `clean` that no command has yet
  overwritten what it had not read.
* `ShellRewrite` scans a line as the code does, character class by character class, with
  the shell's own reading (`CommandsOf`) as the reference.

### 2.12 `ExecView`

* `Stages` gives, for each of the three paths of a command's output, its steps in order:
  the filter's view, compression, the gates that undo them, re-keying to the raw output, the
  Git identity guard, the archive, the status line. A body is the set of lines shown and of those
  only counted (`repeats`: `[repeat 2 more]` below a line); what a view or the pipeline leaves
  out is any of them. Output that is structured to the last line, of a command no native view
  is made for, is folded and passed on without a guard: a log's runs of equal lines are
  `LogRuns`, and a JSON document in another layout (`json-layout`) may have any shorter view.
  `Scan` is the loop of `keep_signal_within`, which counts the lines a budget leaves out.

### 2.13 Selections

Each of the pure modules states the algorithm as operators over sequences or functions and,
beside it, what it promises to keep, as an operator over input and result. `Selections`
makes one call after another, so that TLC evaluates both on every input of the instance.

## 3. Runs

Deadlock is searched for where the system never stops (both stores, the capture, the
gateway, the files, each of which has an explicit final step or can always go on). It is
off for the others: a text gets done, a proxy exits, a relayed capture ends, a killed
process stays dead, a report is printed.

| Run | Result | What it shows | Bounds |
|---|---|---|---|
| `ccr_races` | pass, 304,525 states | `ImplementsContract`, `EveryEntryEvictable`, `LossOnlyByEviction`, `TypeOK` of the in-memory store | 2 threads, 2 keys, 2 payloads, capacity 1, 3 inserts, 3 instants, a shard per key |
| `ccr_bounds` | pass, 392,917 states | `CapacityBound`: the overshoot is bounded by the racing puts; `CallsReturn`: every call returns | 2 threads, 3 keys, 2 shards, 1 payload, capacity 1, 3 inserts, 2 instants |
| `sqlite_shared` | pass, 210,167 states | `ImplementsContract`, `LiveUntilPromised`, and in `TypeOK` that the mutex is held between sweep and lookup | 3 threads in 2 processes, 1 key, 2 payloads, lifetime 2, wait 1, 5 instants |
| `compress_paths` | pass, 1,598,863 states | `ReportInv` (first key is the input), `SavingIsExact`, `InformationKept`, `FailuresShown`; `ZoneInv` and `CachedPrefixKept` of `LiveZone`; `SourceKept` of `SourceSelection` | 2 facts (1 failure), size 4, every stack of the default pipeline and one with two reformats; conversations of 3 turns on 4 routes, 2 questions, 1 loss; programs of up to 6 lines in 4 languages |
| `mcp_proxy` | pass, 305,955 states | `ProxyInv` (one answer each, no leaked table entry), `MarkersResolve`, `CrashIsReported`, `ProxyExits` | 2 requests of either kind; the server may crash and stall |
| `capture_streams` | pass, 257,023 states | `CaptureInv` (streams whole and in order, producer reaped), `CaptureEnds` | 2 writers, 2 streams, 2 writes each, pipes of one chunk |
| `relay_handoff` | pass, 329,952 states | `RelayInv`, `LostInTwoWaysOnly`, `NoOrphanedProducer`; `ConsoleInv` on Windows | 2 captures, 2 signals, 2 slots; 3 console events |
| `state_writers` | pass, 4,208,878 states | `ArchiveInv` (announced is whole, captured keeps a name), `DamageIsLocal` | 2 processes, 2 chunks, any leftover |
| `gateway_sessions` | pass, 216,443 states | `ProcessesInv`, `GatewayInv` (one true record), `SessionsEnd`; `BridgeServes` of `WsBridge` | 2 sessions, one with a time-out, 1 request, 2 streams, 3 kinds of stranger, 1 kill; 1 bridge of 2 messages a side |
| `managed_files` | pass, 705,341 states | `TrustInv`, `SaysWhatWasAsked`; `LinesMeanTheSame` of `ShellRewrite` | 2 processes, 3 edits, 2 changes by the owner; lines of up to 4 pieces, arrays of a program and an argument |
| `exec_view` | pass, 1,117,175 states | `ViewInv`, `FailuresShown`, `LeftOutIsKept`, `PromisedIsShown`; `SelectionsKeep` of the eight selection modules | outputs of up to 5 lines, budgets 0 to 2; arrays of 6, logs and searches of 5, diffs of up to 8, transcripts of up to 6 lines, tables of 2 to 4 rows |
| `shell_captured` | violation | `CapturedIsUntouched`: see 6.1 | lines of up to 6 pieces |

Why these bounds are enough to reach the interesting cases:

* **Stores.** Capacity 1 with two threads makes every put race an eviction. Three
  generations let a ticket go stale and meet a later entry of its hash. A lifetime of 0
  ticks makes an entry expire between any two steps of a get; three instants let it be
  refreshed and expire again. Counting shard by shard is at its worst with one key per
  shard and is checked in between with two.
* **SQLite.** Two threads contend for one connection and a third works on the file from
  another process. Rows meet only in the sweep, which treats each alone, so one key
  suffices; a wait of 1 within a lifetime of 2 lets an older put overwrite a newer time.
* **Compression.** Two facts tell "part of it" from "all of it"; size 4 leaves room for
  four strictly shorter texts, more than the longest stack accepts, and puts the 50 % and
  85 % thresholds inside the range. The custom type has two reformats because the default
  pipeline never has more than one, and acceptance is sequential.
* **Live zone.** Three turns are what it takes to cache a prefix, move the live zone past
  it and send it again; two questions make a text compressed for one of them differ.
* **MCP.** Two ids are what cancellation and out-of-order answers need. An answer is
  `large` (the pipeline shortens it) or `plain` (it does not, or the answer is an error):
  the code tells no more apart.
* **Relay.** Two slots make a partial installation possible; two captures let a handler of
  the first meet the atomics of the second; two signals make two handler instances race.
  Two captures *and* three signals are out of TLC's reach; there the theorems stand alone.
* **Capture.** Pipes of one chunk make every write of a second one block.
* **State directory.** Two chunks make a short file and a torn one distinct; two
  processes are what create-or-reopen and a torn line of the history need.
* **Gateway.** Two sessions, because one must be answered by the other's proxy; the two
  streams are Anthropic's two usage events, and a usage in a line too long to be kept.
* **Files.** Two commands and an owner are what a lost update needs; three edits let one
  command act on the result of two that overlapped.
* **Selections.** The limits of the instance (`MCLimits`) are small enough that each budget,
  cap and context overlaps with another on inputs of this length.

Clocks (`MaxTime`), fresh inserts (`MaxGeneration`), sizes (`MaxSize`), turns (`MaxTurns`),
losses, kills, edits, changes, events, messages and writes are the only bounds in guards.

### Fairness

* `InMemoryCcr`: weak fairness of a thread inside a call (it is scheduled), and strong
  fairness of taking the order mutex, which is free again and again although not reserved
  for anyone; that is what an OS mutex gives in practice. New calls are not forced.
* `McpProxy`: weak fairness of the two threads of the proxy and of a server that reads its
  input and leaves when it ends. The agent, crashes, stalls and answers are not fair.
* `CaptureStreams`: weak fairness of the capturing thread, of each worker and of each
  writer that can go on. Screens, daemons and failures are not fair; `CaptureEnds` names
  what it needs of them.
* `Gateway`: weak fairness of a session that can go on, of the clock, and of a proxy that
  has started (it binds or exits). Nothing makes a session begin, an agent end, a stranger
  leave or a provider answer.
* `WsBridge`: weak fairness of the bridge's one task. The sides are not fair.
* All other specifications are safety only.

## 4. Properties worth a word

* `LossOnlyByEviction` relates each removal to the ticket in the evictor's hand: neither
  a get that saw an expired entry nor an evictor with a stale ticket may remove a
  refreshed one. The generation numbers of the code exist for it.
* `CapacityBound` is the exact overshoot: `max(Capacity, 1) - 1 + threads`. The check and
  the insert are separate, so the capacity itself is not an invariant of the code.
* `LiveUntilPromised` has the slack the code has: a put that read its clock early and
  wrote late takes up to one waiting time from a newer put.
* `InformationKept` follows markers transitively: the second offload may drop the first's
  marker, which is then reachable only through the text the second one stored.
* `DivergesOnlyInLiveZone` (in `ZoneInv`) says where two consecutive requests of one
  conversation may differ; `CachedPrefixKept`, that this is never inside a cached prefix.
* `ProxyInv` holds because a request is recorded before it is forwarded; recording after is
  the substituted mistake.
* `LostInTwoWaysOnly` says that the order of the steps of the relay is right (the handler
  publishes before it loads, `set_child` before it swaps) and names the two ways left in
  which the latest signal of a capture is lost: the handler's own store was overtaken by its
  load, or a handler left over from an earlier capture took the signal (6.2).
* `CapturedIsWhole` (in `CaptureInv`) speaks of all writers, those that outlive the
  producer included; `NoProducerLeft` of every way a capture can fail.
* `DamageIsLocal` bounds what a torn line costs: one neighbour per kill or failed write
  within a line. A disk that is full for many commands is many such writes.
* `AppliedWasTrusted` (in `TrustInv`) has the exception the code has: a command whose own
  environment asks for every project filter looks at no record. It decides nothing for the
  commands after it.
* `UsageAsRelayed` (in `GatewayInv`) relates a record to the lines the client was sent,
  wherever the stream was cut: for each counter the value of a line relayed whole, no
  earlier than the last one that is short enough to be kept.
* `SaysWhatWasAsked` is about overlapping read-modify-write commands: while none
  overwrites what it has not read, the owner's text is there in order, ours once.
* `LeftOutIsKept` of `ExecView` is about the order of steps: re-keying, gates and archive
  come in another order on each of the three paths.

## 5. Proofs

TLAPS checks these for every value of the constants, from the assumptions named in the
modules (`ThreadsAssumption`, `ShardsAssumption`, `TimesAssumption`, `PipelineAssumption`,
`SourceFirstAssumption`, `SlotsAssumption`, `ChunksAssumption`, `WrapAssumption`,
`ScriptsAssumption`, `GatewayAssumption`, `ExecAssumption`, `ManagedAssumption`,
`EventsAssumption`, `PipeAssumption`, `TurnsAssumption`, `NoneAssumption` of each), which TLC
evaluates in the runs; of the bounds they say that these are numbers, that a pipe has room
for a chunk and that a conversation has a first turn. Each theorem is `Spec => []P` or
`Spec => P` for the property in the second column; the runs show the same property on an
instance.

| Theorem | Property | Inductive invariant |
|---|---|---|
| `InMemoryCcrProofs!TypeCorrect` | `TypeOK` | `TypeOK /\ InUse` |
| `InMemoryCcrProofs!AlwaysEvictable` | `EveryEntryEvictable` | `IInv` |
| `InMemoryCcrProofs!LossOnlyByOwnTicket` | `LossOnlyByEviction` (action property) | `TypeOK /\ InUse` |
| `InMemoryCcrProofs!NeverFarOverCapacity` | `CapacityBound` | `CapacityIInv` |
| `InMemoryCcrProofs!BackendImplementsContract` | `ImplementsContract` (refinement) | `ContractIInv` |
| `SqliteCcrProofs!SqliteTypeCorrect`, `!StoredStaysLive` | `TypeOK`, `LiveUntilPromised` | `TypeOK /\ InUse /\ Kept` |
| `SqliteCcrProofs!SqliteImplementsContract` | `ImplementsContract` (refinement) | `ContractIInv` |
| `CompressionProofs!ExactSaving` | `SavingIsExact` | `Sized` |
| `CompressionProofs!FirstKeyGivesInput`, `!NoFailureHidden`, `!NothingDestroyed` | `ReportInv`, `FailuresShown`, `InformationKept` | `IInv` |
| `CompressionProofs!CachedPrefixStays`, `!ZoneIsSound` | `CachedPrefixKept`, `ZoneInv` (with `DivergesOnlyInLiveZone`) of `LiveZone` | `ZoneIInv` |
| `GatewayProofs!NeverAnsweredTwice`, `!EveryMarkerResolves` | `ProxyInv`, `MarkersResolve` of `McpProxy` | `ProxyIInv` |
| `InterruptRelayProofs!SignalsAndDispositions`, `!TwoWaysToLoseASignal`, `!ProducersAreNotOrphaned` | `RelayInv`, `LostInTwoWaysOnly`, `NoOrphanedProducer` | `IInv` |
| `InterruptRelayProofs!ConsoleKeepsEvents` | `ConsoleInv` of `ConsoleRelay` | `ConsoleIInv` |
| `InterruptRelayProofs!CaptureIsWhole` | `CaptureInv` of `CaptureStreams` | `CaptureIInv` |
| `StateDirProofs!WhatIsAnnouncedIsThere` | `ArchiveInv` | `IInv` |
| `StateDirProofs!CutLineCostsOneRecord` | `DamageIsLocal` | `IInv` |
| `GatewayProofs!ProcessesAreAccountedFor` | `ProcessesInv` | `IInv` |
| `GatewayProofs!OneTrueRecord` | `GatewayInv` | `IInv /\ HInv` |
| `ManagedFilesProofs!AppliedIsTrustedOrAsked` | `TrustInv` | `FileIInv` |
| `ManagedFilesProofs!FilesSayWhatWasAsked` | `SaysWhatWasAsked` | `FileIInv /\ SaidIInv` |
| `ExecViewProofs!ReportIsHonest`, `!FailuresAreShown`, `!LeftOutCanBeRead`, `!PromisesAreKept` | `ViewInv`, `FailuresShown`, `LeftOutIsKept`, `PromisedIsShown` | `IInv` |

### 5.1 The stores

* **Types and tickets.** `InUse` adds to the types that a thread has the arguments and the
  ticket its next step uses, without which the types of `map` and `order` are not
  preserved. `EveryEntryEvictable` is inductive with it: a ticket leaves the queue only
  into the hand of an evictor, whose next step removes the entry it was issued for.
* **Capacity.** A put counts shard by shard, so its count describes no moment. The proof
  follows, for each scan under way, its *estimate*: what it has counted and what is still
  ahead of it. `RoomInv` says for every level `m` from the capacity up that the entries
  held and the threads that have passed the test, or whose estimate is still below `m`,
  are at most `m - 1` and one for each thread. One level is not inductive: a removal lowers
  the number held and the estimates of all scans that have its shard ahead, so that the
  bound at `m` after it follows from the bound at `m + 1` before it. When an evictor finds
  its queue dry, every entry held belongs to a thread that has inserted it and not yet
  pushed its ticket; the injection from those entries to threads gives the bound.
* **Contract.** `WindowInv` says that what a get has read so far is in its window. Each
  step of the backend maps to a step of `CcrStore` or a stutter under the mapping that
  sees an expired entry as absent; the second look-up of a get, which does not test the
  lifetime again, is covered because the entry was refreshed within the call.
* **SQLite.** `LiveUntilPromised` is not inductive: it says nothing of the time stored in
  the row. `Kept` says that as long as a promise stands its row exists and bears a time at
  most `MaxWait` older than the promised one; `InUse` that a call's clock is at most
  `MaxWait` behind. `PurgeKeeps` is the heart: a sweep at a past time removes no row whose
  promise stands. For the contract, a lookup compares with a clock read before it waited;
  the window of its call reaches back to that moment, and `MaxWait < Ttl` sees to it that no
  row written meanwhile looks expired. A lookup that fails is a step of the contract of its
  own, so that its `None` is allowed and touches no other call.

### 5.2 The pipeline

* `Sized` states the sum at every step, not only at the end, over texts that are well
  formed.
* `ReportInv` and `FailuresShown`: each step is reduced to the one text it appends, with
  its markers and what it shows and tells (`ReformattedText`, `OffloadedText`,
  `ReinjectedText`, `KeptText`). The markers of the current text name the input or texts
  that were offloaded; re-keying turns all of them into the input. The only marker with
  no key is the source compressor's, and that it names the input needs
  `SourceFirstAssumption`.
* `InformationKept` speaks of a recursive function over the run's texts. `Solvable` states
  that for every set of stored texts the recursion has a solution, `Kept` that every solution
  over the store recovers the input. Both are invariants of the steps, so that the
  induction is over the run and none over data is needed.

### 5.3 The live zone

What the provider caches is bytes, so the question is what a dispatcher makes of one
message in two requests. `Conversation` says that what was sent in a turn is what the
dispatcher makes of a prefix of the history (`Prepared`), with the cache mark of that turn;
`Cache`, that a cached prefix is a request up to its mark. A message before the mark, or
before the last one of the user, comes out the same whatever follows it (`SameMessage`,
`UntouchedMessage`): `CachedPrefixKept` is this for the messages up to a mark,
`DivergesOnlyInLiveZone` for all others. Two facts that look like details carry it. Every
turn of `/v1/messages` adds a message of the user (`Between`), without which two requests
could have their last one in common and differ in it; and the answer of
`lm_resizer_retrieve` comes after its call with the same blocks (`Dialogue`), so that the
dispatcher of the responses route, which looks the call up in the body, finds it in every
prefix that has the answer. Where a client sends only what is new (`delta`), the requests
have no common part, and nothing is claimed of them.

### 5.4 The MCP proxy

(`GatewayProofs`, last part.) A request is in one place at a time (`PlacesInv`): the agent's pipe, the hand of the
forwarding thread before and after it is recorded, the server's pipe, the server, the
answer's pipe, the main loop's hand; and once in each pipe (`OnceInv`). `TableInv` relates
the table to these places: what it holds was recorded and not answered. `CancelInv` says
that a cancellation comes after its request in every pipe, `HandsInv` that a shortened
answer in the main loop's hand is of an original that has been read back, and `EndInv` what
has ended when the table is drained. Without the first two the table's part is not
inductive: a second copy of a request could be recorded after its answer.

### 5.5 The relays

A signal is in one place: not yet seen by others, pending, in a handler's hand, in
`set_child`'s hand, or sent (`PlacesInv`). `DispInv` gives the dispositions at each stage
of `install`, its rollback and `Drop`. `ChildInv` says that a producer not yet reaped has
its guard, hence all signals taken over have the handler. `LatestInv` locates the latest
signal of the running capture; the attempt to prove it without exception led to the
second way of losing one (6.2).

On Windows an event that is recorded while lm-resizer may have a producer is owed until it
reaches the producer's group (`NothingLost`): as long as the relay thread has not ended it
is recorded or in the thread's hand, and the thread does not end before the capture stops
it. `RelayThread` and `HandlerAndProducer` give, for each step of the capture, what the
other thread, the registration and the producer can be.

### 5.6 The capture

Of a stream captured apart, the raw copy, the channel, the worker's hand and the pipe are, in
this order, what was written (`Flow`); where a read failed, the raw copy and the channel begin
it. `Workers` says that a worker ends only when nobody holds the other end of its empty pipe,
so that at the channel's end nothing is ahead of the raw copy. The kept streams are the
raw copy's two projections (`KeptStreams`), what was shown begins them (`Shown`), and
`Outcome` says how each end is reached: producer reaped, tee closed. A projection (`Of`) is a
recursive function of the chunks read so far; that it is defined, and distributes over
appending and concatenation, is proved by induction over the naturals as in 5.10.

### 5.7 The state directory

An archive *heals* (`Heals`): each of its chunks is right or ahead of a writer that will
write it, or a process is about to truncate the file and write it whole. A tee gets the
archive's name only when it is complete, and an archive that was created is fresh, so
that a file announced as whole heals, and with nobody at work is whole (`CleanInv`).
`LosslessInv` keeps a name for captured bytes. For the history, records that readers lose
are mapped injectively to the processes that were killed, or whose write failed, within
their line (`cut`).

### 5.8 The gateway

`Placed` says for each place of a session what its processes are; `Held`, that a session
behind its own proxy holds the address, since only the holder's proxy is killed with it.
For the records, `HInv` says that a request not over has none, so that the step that ends
it is the only one to look at, and that the scanner `Tells` what the lines relayed so far
say: the values come from lines relayed whole and, for each counter, from none earlier
than the last short one. `ScannedTells` is one line's step of it, `FinalTells` the last line
without its newline. Counting records is counting the indices of a sequence whose last
element is the only new one.

### 5.9 Files edited in place

`FileIInv` is about what a text is made of, whatever overtakes a command: tokens that are
nobody's record of trust, and records that somebody decided on. A plan that is not yet
written may add the one record its own command read (`KnownPlan`). For the contents whose
tests fail, `Swapped` counts the changes of the owner: such a record needs one to put them
there and one more, between the two reads of the command that trusted them, to take them
away. A filter that applied without a record is marked as asked for (`Grounds`).
`AppliedIsTrustedOrAsked` follows without any reading of the file as a whole, and holds
also when commands overwrite each other or are killed with the file open.

`FilesSayWhatWasAsked` needs that reading. For each kind of file there is a set of texts
(`Sound`) that has every first text, is closed under the edits and the owner's writes, and in
which `Meaning` can be told: marked blocks with both their marks and at most one of each
kind (`Notes`), an object with a list of entries, ours once or not at all (`Configured`), our
table and what follows it (`Tabled`), a list of records (`Recorded`), four native files
(`NativeTexts`). Each edit has one lemma for what it makes of such a text, and what it means
(`Asked`). `SaidIInv` adds the interleaving: a file that nobody has open says what was asked
(`SaysNow`); one that is open will, and one command has it open (`SaysSoon`); a plan that
nobody overtook is the edit of the text as it is (`Prepared`). The hypothesis `clean` of the
property (no command overwrote what it had not read, none stopped with the file open) is what
makes the last two true; without it the owner's text can be lost, and the code does lose it
(hazards at `main.rs` 4526 and 8273).

The proof found that the arms of `Edit` overlapped, so that their `CASE` left open which one
is taken although the code's `if`s come in an order; so did those of `Plainly`, `ReadToken`
(`ShellRewrite`) and `Survivors` (`RowSelection`). The arms are disjoint now.

### 5.10 The exec paths

`IInv` states what holds by the stage a job has reached on its path: from which stage on
the gate has been passed (`FailureInv`), the keys name the raw output (`KeysInv`), the
Git guard has looked (`CommitInv`), the failure is said (`StatusInv`), the archive holds
the raw output (`TeeInv`). `RunsInv` carries the lines that are only counted from the
fold of a log (`Folded`) to the report: no later step of that path touches them, and
every one follows a line that reads the same. `OmissionsAnnounced` is about `Scan`, a
recursive function over the lines of an output: its existence and its tally (what was
announced, what is still to be announced and what was kept are the lines read) are
proved by induction over the naturals. That induction is stated about sets
(`AllNaturals`) and derived from the well-foundedness of `<` on the naturals through the
library's theorem of the least element, since the library's own induction theorems take
an operator as a parameter, which the provers at hand cannot instantiate.

### 5.11 What stays with TLC

* Liveness: `CallsReturn`, `CrashIsReported`, `ProxyExits`, `CaptureEnds`, `SessionsEnd`,
  `BridgeServes`. They need fairness and `ENABLED`, which the provers do not treat.
* `SourceKept`, `LinesMeanTheSame`, `SelectionsKeep`: one call at a time of algorithms that
  recurse over their input (nesting of code, the scan of a shell line, windows around lines).
  What a recursive definition computes for *every* input takes an induction over that
  input in each lemma, and the operators are declared `RECURSIVE`, which the SMT backend
  does not read. All inputs up to a length are examined instead (section 3).

## 6. Disagreements between the code and what it says

Only 6.1 is shown by a run that violates what a document says. The others were met while
modelling or proving; where a model covers the code, it contains the behaviour and its
properties are stated so as to name it. "Excluded" means that the property is stated for the inputs without it, as the operator
named there says.

### 6.1 Commands that are captured although they should not be (`shell_captured`)

`docs/CLAUDE_CODEX.md` 104-107 says that a command captured by `$(...)` or backticks is
returned unchanged, as are redirected and piped ones. `rewrite_shell_report` judges each
segment by itself (`main.rs` 3754): of several commands in one substitution the ones in the
middle show neither its beginning nor its end and are wrapped, and the substitution takes a
shortened report. So are the middle commands of a group or a loop whose output is
redirected or piped (excluded by `ListOfCommands`; the lines of the instance have no loops).

### 6.2 Two ways to lose a signal (`InterruptRelay`, `LostInTwoWaysOnly`)

* `forward` stores `PENDING_SIGNAL` with `Release` and loads `CHILD_TARGET` with `Acquire`
  (`capture_interrupt.rs` 173-175). That does not order the store before the load, while the
  other thread executes `set_child`; each may miss what the other wrote, and the signal
  stays in the slot until `Drop` discards it. `SeqCst` on both would close this.
* A handler that has loaded its target and been delayed past the end of its capture takes
  (`swap`) whatever is pending then, the signal of the *next* capture, and sends it to the
  process it loaded, or drops it. This is how the proof of `LostInTwoWaysOnly` came to have
  its second exception. The command line makes one capture per process.

Besides, `CHILD_TARGET` is cleared when the guard is dropped (261), after `wait()` and the
tee's `fsync`: a signal in between goes to an id that may be somebody else's, against
127-128. Of two signals that arrive before the id is handed over only the second is
forwarded. With `SIGCHLD` ignored `wait()` fails with the tee unfinished
(`command_capture.rs` 409, 474). On Windows `Drop` does not restore an inherited
"ignore Ctrl-C", and a Ctrl-Break typed by the user reaches the producer twice.

### 6.3 Stores, pipeline, proxies

* `CcrStore::get` "returns `None` if missing or expired" (`ccr/mod.rs` 46); with the SQLite
  backend also for a live key whose SELECT failed (`sqlite.rs` 199-209), so that a caller may
  report as lost what is there.
* **A dangling marker.** `SourceCompressor` is registered as a *reformat*, so its `apply` has
  no store, yet it drops bodies and writes `Retrieve full source: hash=...`
  (`source_compressor.rs` 2118, against `traits.rs` 5-8). `LmResizer::compress`, the C ABI and
  the wasm module return that text as it is. The command line stores the input, whose hash
  it is, and re-keys.
* `ccr/backends/mod.rs` calls the in-memory store a bounded LRU; it is a FIFO with a bounded
  overshoot (`NeverFarOverCapacity`). Stale tickets pile up below the capacity.
  `SqliteCcrStore::len` counts expired rows that no get has swept.
* The MCP server's end of output leaves pending requests unanswered as long as its process
  lives (`mcp_proxy.rs` 360, against `docs/PROXY-MCP.md` 98-102), and a request recorded after
  the drain is not answered at all. `CrashIsReported` is about a process that ends.
* `finish` removes the complete partial file because an archive of that name exists, without
  looking at what it holds (`capture_interrupt.rs` 116, against 8-10); a kill before
  `archive_raw_bytes` rewrites the archive leaves no copy. A reader may meet an archive
  truncated while another process rewrites it. Two history records may share a line and are
  then both skipped.
* The HTTP proxy serialises the body anew, although `live_zone.rs` 485-486 says byte for
  byte; answers non-JSON provider errors with 400 (against `main.rs` 10519-10522); and the
  chat and responses dispatchers shorten without storing. Delta retrieval is answered in the
  live zone (`live_zone.rs` 2497-2501).
* A launch that fails leaves the proxy running (`main.rs` 9888), and a server that accepts and
  says nothing holds up the readiness poll (10026). A Codex header followed by a
  comment is not recognised as one (9829, 9833), so our entry under it stays in the file
  after `uninstall`, and one after our table is removed with it (against 9579-9580).
* The capture waits for a daemon that keeps the pipe, and for a screen that never reads. On
  the separated path a failed read of one stream does not end the producer until the other
  stream ends.
* Batch outputs are named by file name alone (`main.rs` 9203; `docs/CLI-REFERENCE.md` 122):
  two inputs of one name overwrite each other.

### 6.4 Exec paths, hooks and advice

* The Git identity guard "for every output" (`command_views.rs` 290) runs before the generic
  step on the default path, so a nested lm-resizer's output is not looked at after it. Two
  gates, each of which accepts a repeated explanation line for another, do not compose.
* Of a JSON document every distinct line is to stay visible (`main.rs` 4284-4285), but
  `json-table` names the keys of equal objects once. In a log of twenty levelled lines a run of
  one failure is printed once with its count, and no guard follows.
* On the separated path without an archive, the lines a filter removed are nowhere.
  Successive TOML budgets would drop each other's markers.
* Shell text (excluded by `ListOfCommands`): `;;` becomes `; ;` and `>|` becomes `> |` when another segment is
  rewritten; apostrophes in comments, `$'...\'...'` and nested double quotes shift the quote
  state; an escaped `\>` before `&&` splits the line (`main.rs` 4040-4056).
* `advice_cli.rs` 96-99 says that a file changed in between is refused as stale. The hash is
  stamped when lm-resizer itself reads the file, while the symbols come from an index that
  was checked before: a change between the two is not noticed. "Never blocking" (3) does
  not hold when a descendant of the analyser keeps the pipe that `out_reader.join()` reads.

### 6.5 Selections and views

* **Arrays.** Row markers go to SmartCrusher's own store (`json_offload.rs` 69-75); mixed,
  string and number arrays and object keys lose elements without a marker, against
  `crusher.rs` 150-155 ("No data is ever lost"). `plan_top_n` may exceed its budget, change
  points beyond it are dropped, and `crush_object` does not clamp its first and last share.
  `factor_out_constants`, which nothing sets, would make the dropped count off by one.
* **Tables.** The lossless path names long strings by `<<ccr:...>>` without a write, against
  `ir.rs` 86-90. Null, missing and the empty string look alike, as do strings and numbers
  in a `json` column; a key `a.b` beside a flattened `a` (excluded by `NameClash`), strings
  that hold JSON objects, unescaped column names and strings that look like markers are
  ambiguous; a bucket rendering loses the order of the rows.
* **Diffs.** Octopus hunks are dropped without the `parse_warnings` entry that
  `diff_compressor.rs` 594-599 promises; ` +line` of a combined diff counts as context; a
  removed line `-- a/x` is taken for a file header; commit headers after the first file are
  trimmed; neither diffs nor searches announce files they drop.
* **Logs.** The global cap can drop the last error; the note counts all lines of a level;
  adjacent chained traces are one stack cut at its maximum; a result above the accepted
  ratio loses lines without a key. `LogTemplate` collapses white space although
  `log_template.rs` 27-28 says lossless.
* **Tags.** The "Symmetry" of `tag_protector.rs` 663-667 fails in marker mode when only one
  of a pair's placeholders is lost.
* **Test runs.** An aborted cargo suite or jest report may show "N passed, 0 failed"
  (`test_views.rs` 745, 1080-1109, against 1050): the lines `test ... FAILED` and `error: test
  failed` and a suite that did not run are no report the views count, and `SelectionsKeep`
  does not catch it. Only the status line `[FAIL] Command failed` says otherwise
  (`FailureAnnounced`). A run with no failure block and a result without a readable
  duration is shown as its results alone, its other lines dropped (764-768, against 730-733
  and 806), the results after it unread. Reasons of
  the same name in pytest go to the first block. The go JSON and TRX paths are nearly
  unreachable.
* **Source.** A one-line function makes the next block its body (excluded by `OnOneLine`;
  `source_compressor.rs` 3); a Python main guard of at most two lines is output twice; a
  closing line is replaced by a bare `}`; conservative mode drops lines beginning with
  `*`, `--`, `;` or `#`.
* **Views with an inverse.** The encoders of LMR-LINES and LMR-TEXT are compiled for tests
  only; a raw output that looks like a view is decoded by `expand`.

## 7. Not modelled, and why

* **Redis store**: not compiled into any binary of the repository; each call is a single
  server command. **Backend factory** and **opening of the store**: a match and a path.
* **Shared context**: `INSERT OR IGNORE` in the file whose locking `SqliteCcr` models.
* **CLI MCP server**: a loop of one request and one answer over the functions modelled.
* **Batch, wasm module and C ABI**: loops and bindings over the pipeline.
* **Live zone policy, tokenizer and relevance**: numbers from text. The models take any.
* **Knee curve, field statistics and strategy choice of SmartCrusher, prose cutting, symbols
  of an external analyser**: `RowSelection` and `SourceSelection` take their results as
  inputs of any value.
* **Remaining views and filter texts** (`parity_filters.rs`, most of `command_views.rs`): text
  to text; `ExecView` lets them leave out any lines.
* **Memory ordering below sequential consistency**, except the handler's delayed store
  (6.2): the stores use locks, and the MCP proxy's relaxed flag is only polled.
* **SQLite's internals** (WAL, busy time-out, atomicity of a statement) and **refusals of the
  file system** (`refuse_unless_private`): every process is the same user's.
* **Benchmarks and scripts**: not part of the program.

## 8. Plan

Done: the contract and both stores; the pipeline, the exec paths and the live zone; the two
proxies, the wrapper and the bridge; capture and relay on both systems; the state directory
and the agents' files; shell rewriting; the selections. Proved: everything of section 5.

Next, in this order:

1. A module for `SharedContext` (insert-only handoffs of two processes).
2. Strategy analysis of SmartCrusher, and the filters of `parity_filters.rs`, as selections.
3. `SelectionsKeep`, view by view: `Of` and `Without` show how a selection that is written
   as a recursive function can be reasoned about; the others would be rewritten so.
4. Refinement of `Compression`'s calls of the store by `CcrStore`, so that the losses it
   allows are those of a backend.

## 9. Running it

Inside `tla/`:

    tlc -workers 2 -config InMemoryCcr_races.cfg MCInMemoryCcr
    tlapm InMemoryCcrProofs.tla

and likewise for the other configurations (`PROJECT.json`, `runs`) and proof modules.
