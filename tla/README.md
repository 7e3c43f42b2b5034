# ccrouter: a verification project in TLA+

ccrouter is a gateway in front of the HTTP APIs of AI providers. A client
names a *combo*; the gateway sends the request to one member of the combo
(a provider and a model) with one of the provider's keys, moves on to other
keys and members when a health rule says so, records what happened, and can
be reconfigured while it runs. It also proxies MCP servers, and it serves a
Web UI (`web/src`, React) from which it is configured and watched.

This directory holds the models of the parts where concurrency, failure and
time decide whether the program is right, the TLC runs that check them, and
the theorems about them. `PROJECT.json` maps every definition to the lines it
models and every property to the mutated definition that breaks it.

All paths are relative to the root of the repository.

## 1. Inventory

| Component | Code | State | Operations |
|---|---|---|---|
| Key pools | `internal/keys/manager.go` | key list, `rrIndex`, per key: use and error counts, per model a cooldown | `Get`, `RecordError`, `RecordSuccess`, `MergeStats`, `Stats` |
| Combo routing | `internal/combos/router.go` | combos, one `rrIndices` entry per combo | `ResolveRequest`, `NextMemberWithFmt` |
| Proxy | `internal/proxy/*.go` | none of its own: locals of each call | `Handle`: two nested retry loops, streaming, recording |
| Gateway state | `internal/gateway/state.go` | pointers to the service, the MCP gateway and the singletons | `New`, `Service`, `Reload`, `SaveAndReload`, `Close` |
| Request recorder | `internal/db/recorder.go` | two channels of 10000 rows, `queued`, `written`, `dropped`, the database | `Record`, `RecordMcp`, writer goroutine, `Flush`, `Close` |
| Model catalog | `internal/modelsdev/*.go` | options, cached snapshot, last error, last attempt, generation, closed | `Start`, `Reconfigure`, `Refresh`, lookups, `Close` |
| Report log | `internal/report/{format,logger,segment}.go` | queue, batch, file, size, dictionary of the previous chunk, counters | `Log`, writer goroutine, rotation, `Reconfigure`, `Flush`, `Close` |
| Report reader | `internal/report/reader.go` | none | newest records first, over segments and the active file |
| MCP clients | `internal/mcp/client/{stdio,sse,http}.go` | process or stream, pending calls, initialize result | calls with reconnect, initialize handshake, reader goroutine, `Close` |
| MCP gateway | `internal/mcp/gateway/*.go` | clients by provider, combos | tool lists and calls, prefixes and allow lists |
| MCP tokens | `internal/mcp/auth/*.go`, `internal/db/mcp_tokens.go`, `web/src/pages/McpTokens.tsx` | tokens in SQLite, PKCE states in memory, the rows a page shows | `ResolveCredential` with refresh, OAuth start and callback, list, delete |
| MCP transports | `internal/mcp/transport/*.go` | sessions, each with a channel of 32 messages | open, post, stream, close |
| Sign-in | `internal/server/auth.go`, `web/src/App.tsx`, `components/Login.tsx`, `api/client.ts` | login attempts per address; a token in localStorage; flags in each tab | status, login, authorisation, logout, refusal |
| Saving the configuration | `internal/server/admin*.go`, `internal/gateway/state.go`, the pages that save | `config.yaml`, its temporary file, the running configuration, what each page shows | load, edit, save, reload, restart |
| Configuration page | `web/src/pages/ConfigEditor.tsx` | a copy of the configuration, a selection, the state of each row | edit, reorder, suggest limits and prices, save |
| MCP configuration page | `web/src/pages/McpConfig.tsx`, `internal/config/{build,dump}.go` | providers, members with allow lists, a cache of capabilities | edit, sanitise, save |
| Lists and status pages | `web/src/pages/{Logs,Requests,McpRequests,McpLogs,Overview,McpOverview,Info,McpInfo}.tsx`, `components/ModelsDevPicker.tsx` | filters, rows, timers | load, filter, turn pages, refresh, open a row |
| Test pages | `web/src/pages/{McpTest,Test}.tsx` | a choice of combo, tool and format, an answer | load, choose, send, stop |
| Configuration | `internal/config/*.go` | none | load, validate, dump |
| HTTP plumbing | `internal/server/{server,proxy_routes,request_encoding}.go` | none | routes, decompression |
| Pure helpers | `internal/{pricing,script,reqcompress,translate}`, `web/src/format.ts` | none | functions of data |
| Queries | `internal/db/{query,mcp_query}.go` | none | read-only SQL |

How they interact. The proxy routes take a *snapshot* (`State.Service()`): the
router, the key managers and the configuration of one generation. A request
uses its snapshot to the end. Requests share the key managers and the rotation
index of their generation, and every attempt hands a row to the recorder and
to the report log, neither of which ever blocks. `Reload` builds a whole new
generation, carrying over the cooldowns and counters of the old key managers,
and swaps the pointer under `State.mu`. The recorder, the report log and the
model catalog are singletons that survive reloads: the catalog and the log are
reconfigured in place. `main` shuts down in the order HTTP server (at most 15
seconds), `Recorder.Flush`, `State.Close`.

The Web UI talks to the admin API only. Its pages share the token in
localStorage and the wrapper `request`, nothing else: a page that is left is
unmounted with its state, and its requests run on without effect on the next
one. Tabs of a browser share localStorage, and all administrators share one
configuration, which each handler reads, changes and saves as a whole.

What is hard, and what makes each part right:

* **Proxy, keys, routing.** Requests interleave on shared rotation indices
  and cooldowns that expire on their own. Right means: one answer per request,
  nothing after its first byte; each upstream call recorded once; no member
  skipped and no key missed, whoever moves the index meanwhile; an end.
* **Reload.** Runs between any two steps of requests in flight. Right means:
  no request mixes two configurations; cooldowns follow their keys.
* **Catalog.** Downloads outlive the options they started with. Right means:
  a catalog is never shown for another URL, a closed client publishes nothing,
  a failure never stops later attempts.
* **Recorder.** Lossy by design when a channel is full, counters next to
  channels, a shutdown that races callers. Right means: what was accepted is
  stored once, `Flush` and `Close` keep their promises and return.
* **Report log.** A frame decodes only after the frame before it, so a lost or
  torn frame costs its successors; rotation and directory changes happen
  between frames while readers open the same files. Right means: accepted
  records leave memory in order and once, what is on an undamaged file can be
  read, and nothing waits in memory for good.
* **MCP clients.** A process or stream dies at any point between
  handshake, call and answer, and a handshake may outlive the process it was
  made with. Right means: nobody waits for a process that is gone, the reader
  never blocks, a retry runs nothing twice, and every call returns.
* **Sign-in.** A refusal acts on whatever token is stored when it arrives, and
  only in the tab it arrives in; the limiter checks and records under two locks.
  Right means: the number of guesses is bounded, and a tab that is used in peace
  ends up with the pages and a token that is accepted.
* **Saving.** Handlers overlap, share a temporary file, fail between its rename
  and the reload, and are cut off by a restart. Right means: when nothing
  interferes, the file, what runs and what the singletons are set up with are
  one; a page that saves its section leaves the others alone; what a page does
  not mark as unsaved has been running.
* **Editors.** Late answers end in the closure of an old render; a setting is
  kept in two forms and rewritten on save, build and dump. Right means: a
  suggestion changes the member it was asked for, and what was on the page when
  it was saved is what the gateway does.
* **Lists and timers.** No page drops a late answer. Right means: unless loads
  crossed, a page shows the rows of the query it displays; a timer repairs the
  rest.
* **Tokens.** A call reads a row, asks the upstream and writes the row back with
  no lock around the three. Right means: a revoked token stays revoked, and the
  stored refresh token is one the upstream accepts.
* **Test pages.** The page resolves names on its own. Right means: what it sends
  fits the combo that the gateway resolves, and a tool is called on the combo
  that listed it.
* **Transports** (planned). A message racing the end of a stream.

## 2. Plan

Done: `Rotation`, `KeyPool`, `ComboRouter`, `Failover`, `HotReload`,
`ModelsDev`, `Recorder`, `ReportLog` with the abstract `AppendLog`;
`AdminSession`, `ConfigStore`, and the pages `ComboEditor`, `McpEditor`,
`UserTokens`, `PageLoads`, `McpPlayground` and `Playground`, which `Console`
composes; `StdioClient`; the proofs about all of these.

Next, most important first:

1. `SSEClient`: the connection machine of `StdioClient` with streams that
   overlap, because the cleanup of an old one may run after the next was opened.
2. `SseSession` (bounded channel, end of stream); the prefixes and the routing
   of MCP combos.

Each gets one run over small sets (two connections, three calls, one fault).

## 3. Modules

`Failover` EXTENDS `KeyPool` (which EXTENDS `Rotation`) and instantiates
`ComboRouter`; `HotReload` EXTENDS `Failover` and adds reloads between the
steps of its requests. `ModelsDev` and `Recorder` stand alone; `ReportLog` is
shown to implement `AppendLog`. `MCFailover` (for
`HotReload` with the requests of `Failover`), `MCRecorder` and `MCConsole` give constants their values for TLC.
`AdminSession`, `ConfigStore` and `StdioClient` stand alone. `Console` EXTENDS the six modules
of the pages.
`FailoverProofs` (about `HotReload` too, with the lemmas about `Rotation` and
`KeyPool`), `ModelsDevProofs`, `RecorderProofs`, `ReportLogProofs`,
`AdminSessionProofs`, `ConfigStoreProofs`, `ConsoleProofs` and
`McpClientProofs` (about `StdioClient`) hold the theorems.
An operator under a comment that begins with *Mutated form*
is no part of the model: it is a plausible bug that the named property catches.

### Rotation, KeyPool, ComboRouter

`FirstFrom(S, start, n)` is the scan of both rotation loops: the member of `S`
met first when `n` positions are walked cyclically from `start`, as a set of at
most one element, empty exactly when the code returns the empty string.

The code stores `LastErrorAt` and `CooldownSeconds` and compares them with the
clock; `cool` holds the seconds that remain. `RecordError` overwrites, as the
code does. A round-robin `Get` that fails leaves `rrIndex` where it was: the
loop advances it `len(keys)` times modulo `len(keys)`. `MergeStats` is two
steps, because it reads the cooldowns under the old manager's lock and the
counters after releasing it.

Assumption `KeysDistinct`: the model identifies a key with its slot.
`config/build.go` does not refuse a key listed twice; then `index` finds the
first copy only, so the second copy never cools, and `MergeStats` matches the
last. This is the one kind of configuration the models exclude.

### Failover

One record `req[r]` per call of `Service.Handle`, its fields named after the
locals of the function; `pc` is the place in it:

| `pc` | place | left by |
|---|---|---|
| `idle` | before the handler takes the snapshot | `Arrive`, `Refuse` |
| `route` | head of the member loop | `SelectMember`, `Exhaust`, `Unroutable` |
| `key` | head of the key loop | `SelectKey`, `UseClientCredential`, `GiveUpMember` |
| `send` | building the upstream request | `Send`, `BuildFails` |
| `upstream` | waiting for the answer | `Deliver`, `DeliverError`, `RuleMatched`, `StartStream` |
| `cool` | row recorded, key not cooled yet | `CoolKey` |
| `stream` | status line written, frames flowing | `FinishStream` |
| `done` | the handler has returned | |

Each lock region is one action, so two requests interleave wherever the
goroutines can. The upstream is the environment: it may answer anything, and
which health rule matches the answer is its choice among the rules that cover
the model (`Rules`, the set of their cooldowns). Bodies, headers, translation,
usage and scripts are abstracted to the outcomes they lead to. `headers`,
`calls` and `rows` count what leaves the handler.

### HotReload

`BeginReload` takes `State.mu` (no request arrives until the reload ends),
`CopyCooldowns` and `CopyCounters` are the two halves of `MergeStats` per
provider, `Install` moves the pointer, `ReloadFails` drops the new managers.
Requests in flight keep moving in between. `late` is a history variable: what
was cooled on the old pool after its copy was taken.

### ModelsDev

Each fetcher is a goroutine in `refresh` or `Refresh`; its `pc` walks the lock
regions of the code, and what it reads under one lock (`opts`, `gen`) it uses
after the next. Ages of the snapshot and of the last attempt are in seconds
and saturate.

### Recorder

Callers, writer, `Flush` and `Close` interleave between any two operations on
channels and atomics. The rows are a finite set, as a process makes finitely
many calls. `Record` is `Send` then `Count`, in the order of the code. `Flush` loads `written` and then `queued`. `flush.due`, `flush.quiet` and
`close.due` are history variables for the properties.

### AppendLog, ReportLog

`AppendLog` is the promise: a record that was accepted leaves memory once and
in order, its batch reaches the disk or is lost as a whole, and what has left
the disk never comes back. `ReportLog` keeps it (`KeepsPromise`) through
`pending <- InMemory` (queue and batch) and `kept <- OnDisk` (the whole frames
of every segment in every directory).

The loops of the writer goroutine are `writer.mode` (`loop`, `drain` after
`done` is closed, `last` for the final batch) and `writer.pc`. A rotation is
one action per file operation, because a reader and the end of the process can
fall between two renames; `writeMu` is held while `rot.pc # "none"`. A frame is
the records of its batch, the content it was compressed against (`dict`, empty
for a checkpoint) and how much of it reached the file: all (`none`), a few
bytes no header can be parsed from (`stub`), a part of the header that parses
once another frame follows it (`part`), or the header without all of its payload
(`headed`). `WriteFails` leaves any of these behind, `Restart` ends the process
anywhere and starts it again on the files it left. `Indexed`, `Decodes` and
`Yielded` are what the reader makes of a file: the index scan, and the
checkpoint groups from the last one back until one does not decode. The reader
lists, scans and decodes in separate actions, opening each path twice as the
code does.

`UndamagedIsReadable` is about every file without damage, also after faults.
`OldestToNewest` compares the frames of a directory, within a file and across
slots, half-done rotations included.

Simplified: file sizes count frames; renames and removals succeed; a record can
be encoded; a new process has the options of the old one; old plain-text files
and the paging of a read are left out. What a read returns that a rotation, a
reconfiguration, a torn write or a restart overlaps is not followed further
(`Overlap`): in the code it can return a record twice or skip a file, and no
text promises otherwise.

### AdminSession

`calls[t][k]` is the request of kind `k` (status, login, any other, logout) that
tab `t` has under way: sent with the token stored then, past the limiter's check
(a login), or answered. `token` says whether localStorage holds a token that is
still good; a void one is no better than none for either side. `VoidTokens` is
the passing of seven days or a new password; a login that has read the password
but not signed yet is spared by the former. `Refused` is the branch of `request`
for status 401. `calm` ends the disturbances, for the liveness property:
afterwards one tab is used, nothing expires and nobody mistypes.
`guesses` is a history variable.

### ConfigStore

A section is a version number and a configuration three of them: model, mcp and
logging. `save[c]` walks the PUT of page `c` through its handler (`sent`,
`built`, `opened`, `written`, `renamed`) and back (`answered`). Files are inodes:
`os.WriteFile` opens `config.yaml.tmp` (truncating the file another save may
hold), writes through its descriptor whatever that file is called by then, and
`os.Rename` moves the name. A text written over another one, or not to its end,
is `Damaged`. Four inodes do: `config.yaml`, the
files that two other saves may still hold, and a free one. `ReloadFails` may leave `options` (catalog and report log) at the
new or the old ones, as `Reload` sets them first. `Restart` loads the file and
stays down if it cannot. `agree` is a history variable: it is set by a save that
was alone from `Build` on and by a restart, and cleared by what separates the
three. Simplified: a page waits for its own request before it is reopened; the
switch for logging and the form of the same page do not overlap.

### ComboEditor

The combos tab of the configuration page. Combos carry an identity (`name`)
that is history only: the page knows them by index, as the code does. A row of
the detail panel keeps its state (`rowState`: busy, and the model its candidates
are for) under its index when another combo is selected, because rows have
their index as key and the panel has none. `ask[r]` is the request of row `r`
with what its closure holds: the index and the members of the combo selected
when it was rendered. An answer writes those members back (`SuggestApplied`),
so edits made meanwhile are lost and a move of combos misdirects it; what the
property promises is the case without edits (`quiet`).

### McpEditor

Isolation is kept as a flag of the auth section and as `auth_mode`, allow lists
as sets in which `All` is the pattern `*`. `SavePage` sends what
`sanitizeProviders` and `sanitizeCombos` make of the page, `Install` and `Refuse`
are `buildMcpProvider` and `buildMcpCombo`, `AnswerSaved` shows what `Dump` makes
of it. `Checked` is what the boxes say and `LetThrough` what `isItemAllowed`
does. `ShownIsWhatRuns` names the two cases in which they differ: no box checked,
and `*` among other patterns.

### UserTokens

One user at one `oauth2` provider. A call that finds the token about to expire
holds a copy of the row (`call[c].copy`) through the request to the upstream and
writes it back. A flow has the second at which it started, because provider,
user and second are all there is in its state: two flows of one second share an
entry of `pkceCache`. The upstream accepts the last refresh token it issued
(`good`). `revoked`, `dirty` and `disturbed` are history variables.

### PageLoads

The lists, the statistics, the status pages, the inspection drawer and the
catalog dialog are the same hook-written loop with differences that matter:
which timer, when an error goes away, what must have arrived before the
controls are shown, and which controls. Each page is a record of these
(`LogsLoad` and so on) and a set of controls (`LogsControls` and so on), and the
actions are written once. A load carries the query of its closure; `timed` is
the query in the closure of the timer. Answers arrive in any order.

### McpPlayground, Playground

`McpTest.tsx`: loads of tools carry the combo they were sent for and are not
dropped when another is chosen; `tools` is whose tools are listed. `Test.tsx`:
`getFullID`, `Found`, `requestModel` and `availableFormats` are the page's,
`FullName`, `Identifiers`, `ResolveRequest` and `SupportsFormat` the gateway's;
`send` puts together the model name and the format as the page does. An identifier
is the sequence of its parts between slashes. The gateway takes an exact name or
alias first and then the longest part that is a relay combo's, so the upstream
model of a relay can spell another combo: with a relay combo `team` in the default
group and a combo `a` of group `team`, the model `a` goes to the latter, although
the page shows the relay. `FormatAccepted` leaves this case out (`Overtaken`), and
the names that the page itself mistakes (`Mistaken`); the run reaches both.

### StdioClient

One record `call[c]` per call; `pc` is the place in `doSendRequest` and in the
handshake inside it:

| `pc` | place | left by |
|---|---|---|
| `check` | `ensureInitialized`, before it looks at `initRes` | `Check` |
| `lock` | waiting for `initMu` | `LockInit` |
| `send` | before the section that finds or starts the process | `Register` |
| `write` | channel registered, request not written | `Write`, `WriteFails` |
| `wait` | waiting for the channel or the context | `Receive`, `GiveUp` |
| `notify`, `set` | handshake answered; before `initRes` is set | `Notify`, `SetInitRes` |
| `reset` | refused, before `initRes` is cleared for the retry | `Reset` |

A caller with `initMu = c` is making the handshake, else its own request.
The process is what the client knows of it (`running`) and what it is (`alive`,
`served`): it goes on running for the client until the reader has seen the end of
its output (`Cleanup`). Since there is one process at a time, `exits` tells them
apart. `hand` is the answer whose channel `readResponses` has taken from the map
and not sent to yet. What a write finds is decided when it is made: a request of
an old process may reach a new one. `earlier`, `begun`, `refused`, `ran` and
`exits` are history.

A server may refuse `initialize` too with "not initialized"; `sendRequest` takes
that for the refusal of its call and makes the call again (`Retried`), since
`errors.As` looks through the wrapping. `refused` is of the call's own request.
Simplified: a write that timed out was not read; a server serves calls from the
`initialize` it grants on. Between that answer and `notifications/initialized` no caller can
pass `ensureInitialized`, because `initRes` is set after both, so a server that
waits for the notification refuses only calls that had passed on an earlier
handshake.

### Console

One page is open and a behaviour is one visit to it. The pages share no state,
so the product of their state spaces would say nothing more: `Console` is their
sum, with the others at rest. The calls and flows of `UserTokens` go on whatever
is open.

## 4. Runs

| Run | Distinct states | What it shows |
|---|---|---|
| `failover` | 257,256 | two concurrent requests, a reload between any of their steps: one answer each, each upstream call recorded, no member or key given up early, own snapshot, cooldowns kept, and an end, unless an upstream call without a timeout hangs |
| `models_dev` | 103,558 | two fetchers against reloads, close and time |
| `recorder` | 81,787 | three calls on two channels, `Flush`, `Close`, failing inserts |
| `report_log` | 424,564 | batches, rotation, a directory change, one fault and one reader; the log implements `AppendLog` |
| `admin_session` | 368,456 | two tabs, the limiter, expiry, new passwords, restarts: bounded guesses, and the session settles |
| `config_edit` | 763,865 | three pages, up to three saves in their handlers, failures and restarts |
| `console` | 185,519 | a visit to each page with late, crossed and failing answers |
| `stdio_client` | 837,876 | two callers, an exit of the process anywhere in a handshake or a call: nobody is forgotten or blocked, nothing runs twice, every call returns |
| `max_retries` | counterexample | a provider with `max_retries` 1 gets a second request |
| `torn_frame` | counterexample | a torn frame hides the complete frames before it |
| `save_not_atomic` | counterexample | `config.yaml` is empty or damaged when two saves share the temporary file |
| `token_revived` | counterexample | a refresh under way writes a deleted token back |

Bounds, and why they are enough:

* `failover`: two requests (every interference is between two), four
  configurations, two of which are never replaced. Of these one is fill-first with three keys and a relay provider, with
  two rule cooldowns; one is round-robin over two keyed members, with more
  attempts than keys, a rule that cools for 0 seconds, and a relay combo.
  Together they reach exhaustion, keyless members, used-up attempts and expiry
  between two attempts. No counter needs a bound: a request ends.
  The other two are the sides of a reload (`Gens` has two generations; the action
  constraint `OnlyAfterBefore` keeps reloads to this pair): the new
  configuration drops a key, moves one and adds one, and renames the model, so
  position and identity of keys differ. Further generations repeat the same
  step; the theorems cover them. The round-robin configuration and the new one
  have a request timeout (`Timed`), the other two have none: so there are hung
  calls next to requests that must end, and a request of the old configuration may
  hang while one of the new goes on. `max_retries` has the first two configurations,
  in which every provider may be tried at least once, and no reload.
* `models_dev`: two URLs (so a change can be undone, `MaxGeneration` 2), TTL
  and backoff of 1 second, ages up to `AgeCap` 2: older than both is one class.
* `recorder`: channels of capacity 1 and three rows of two kinds, so a channel
  is full, and a row of one kind overtakes one of the other.

* `report_log`: three records in batches of at most two, a queue of one, so
  full and partial batches and a full queue occur; sizes of one and three
  frames, so a file rotates after every frame or holds a chain of three; a
  checkpoint every second frame, so a group has a dependent frame and a chain
  has two groups; one or two backups, so slots are dropped and moved; one
  change of options and one fault, which is enough for each to hit any step of
  the writer, of a rotation and of the reader. Two faults only combine cases
  that start from an empty dictionary again.

* `admin_session`: two tabs (what one does to the other is all there is), a
  limiter that locks after two failures, so that one failure does not lock and
  two logins can pass the check together. Logins, expiries, passwords and
  restarts are not bounded.
* `config_edit`: three values of each section, those of an empty form, those that
  run first and those of one edit (`MaxVersion` 2), which is enough to tell what
  a page sent from what ran and from what it never loaded; three saves
  (`MaxSaves`): one alone, two that share the file, and one after. With two
  edits the run has 6,282,501 states and passes as well. `save_not_atomic` needs
  two saves.
* `console`: three combos in two groups with at most two members each, one
  model, four clicks: enough to ask for a suggestion, select another combo,
  change or move something and come back. Two MCP providers of which one has an
  item more, at most two members, three edits: a box, a provider and a tab. Two
  calls, one flow, two refresh tokens and two rows: a refresh, a deletion and a
  new row. Two values of the filters, two loads under way, two acts of the user,
  one change at the server and one failure. Two MCP combos with the same two
  tools, three loads of them, five choices. Lists of one or two combos with equal
  and different names, groups and formats, with a relay whose upstream model spells
  the other combo or begins with it, and four tries.
  `token_revived` has the bounds of the tokens there.

* `stdio_client`: two callers with two calls in all (`MaxCalls`), `Initialize` among
  them, and one exit (`MaxExits`) besides the one that `Close` causes: a
  handshake of one process may be taken for one of the next. With two exits, the
  second of them under the retry, there are 3,160,540 states, and the invariants
  hold in all of them; `CallsEnd` was not checked there.

Deadlock is not checked where the system stops by design: all requests are
done, the recorder is closed, or the bound on calls of `Log`, on saves or on
what the user of a page or of a client does is reached.

Fairness, and why the code justifies it:

* `Failover` and `HotReload` (`HotFairSpec`): weak fairness of each handler. It runs in a goroutine of its own
  and an upstream call, with the reading of its answer, returns if the HTTP client
  has a timeout: 10 minutes when `request_timeout_seconds` is left out, or a positive
  number. An explicit 0 disables it (`config-schema.yaml:259`, `config.go:33`,
  `build.go:272`, `state.go:153`), and then nothing is assumed of the call: `Timed`
  says which configurations have a timeout, and `MayHang` exempts a request whose
  own configuration, not the one installed since, has none. So
  `EveryRequestAnswered` promises an end with a positive timeout, and without one
  that a request which never ends waits for one upstream call. A client is taken to
  read what it is sent or to go away (the server sets no write timeout, `main.go`),
  and payload scripts to end (they are expressions without loops).
  No fairness of time: termination does not need
  cooldowns to expire. None of a reload: a request in flight does not wait for it.
* `ModelsDev`: goroutines run, downloads end (the client's `Timeout`), time
  passes, and somebody keeps looking at the catalog; a lookup is what spawns a
  refresh, so without one nothing is promised.
* `Recorder`: weak fairness of the writer, of the polling in `Flush` and of the
  end of `Close`, none of which waits for a caller. Strong fairness of
  `TimeOut` stands for the deadline: it is tested on every round of the poll
  in which the counters still differ, and after 5 seconds it is true.
* `ReportLog`: weak fairness of the writer goroutine, which includes the timer
  it has armed, and of the steps of a rotation. None for callers, readers,
  reloads, faults or `Close`.

* `AdminSession`: weak fairness of the server for each kind of request, of the
  tab for each answer, of the end of a lockout (five minutes are a timer of the
  server's clock), and of the pages' own requests and an administrator who fills
  in the form that is shown. None for logging out, reloading, expiry, passwords
  or restarts.
* `StdioClient`: weak fairness of each caller. Its goroutine runs, a write gives up
  after five seconds, and its context ends: every provider has a positive
  timeout (`config/build.go:936`, 30 seconds by default). None for the
  server, its exit or the reader. As calls are bounded, it is enough for
  `initMu` that it is free again and again.
* `Console`: weak fairness of the timers of a page and of the oldest of its
  requests, which the browser answers or fails. None for the user. The
  interval does not wait for the load before, and two loads may go on crossing:
  it is the last one of a quiet query that settles what is shown, and the
  property says so for a timer that stays on.

## 5. Disagreements between text and code

Four runs check what a comment, a document or a message says and find it
violated by what the code does; `findings` quotes the lines.

* `max_retries` is documented as the most attempts within a provider, the first
  included. `Handle` makes one more: with 1, a second request goes to the provider
  when the first one failed.
* A chunk cut off by a crash is said to cost only itself, by `segment.go` and by
  a test. When its header is complete the index keeps it, its group does not
  decode, and the reader gives up the segment there, with every complete chunk
  before it. The test cuts the chunk inside its header.
* `SaveAndReload` is said to write the file atomically. Two saves at once write
  one temporary file, and one of them can rename what the other is still
  writing.
* The page says that a user whose token was revoked has to authorise anew. A
  call that had read the row before refreshes the token and writes the row back.
  Nothing else does: that is checked too (`RevivedOnlyByRefresh`).

Others the models keep as they are, without a run of their own:

* `cooldown_seconds` is documented as how long the pair cools
  (`config-schema.yaml:108`). Two requests that hold the same key when it fails
  can trigger two rules; the later, shorter one replaces the longer.
* `MergeStats` relies on a caller that ensures the old manager is no longer
  written (`keys/manager.go:172`). `Reload` merges while requests in flight write
  to it, so what they record afterwards is lost for the new generation.
* `refreshBackoff` is said to keep background refreshes apart
  (`modelsdev.go:40`). The test and the update of `lastAttempt` are in different
  lock regions.
* `Flush` is said to wait for every record enqueued (`recorder.go:275`). `queued`
  is incremented after the row is visible to the writer. With no call of
  `Record` under way it does wait, and that is checked (`FlushCoversQuietCallers`).

Behaviour of the Web UI that surprised us and that no text contradicts:

* A 401 to a request sent with an old token removes the new one
  (`client.ts:33`); `SessionSettles` says that this ends. If the first status
  request fails, the tab shows the pages without asking for a password
  (`App.tsx:141`): authentication is not known to be required, and the first
  refusal does not change that.
* A member without any box checked is saved as unrestricted (`McpConfig.tsx:1288`),
  and `*` typed among other patterns allows everything.
* A change of the authentication mode ends the isolation of a provider whose
  configuration has `auth_mode` but no auth section (`McpConfig.tsx:98`). An
  `oauth2` provider is isolated again when the page is saved.
* The settings of the log page can be saved before they have arrived; what is
  saved then are the values of an empty form (`Logs.tsx:73`).
* Refreshing the logs from a later page sends the load of that page and of the
  first one, and whichever ends last is shown (`Logs.tsx:279`).
* The detail of a log row that was closed while it was loading opens it again
  (`Logs.tsx:113`).
* A search for suggestions that finds nothing leaves its button waiting
  (`ConfigEditor.tsx:482` returns before the flag is reset).
* Two OAuth flows of one user in the same second have the same state
  (`oauth.go:48`), so the verifier of the second replaces the first one's.

## 6. Proofs

TLAPS checks every theorem to the last leaf, for all values of the constants that
meet the named assumptions of the modules: any sets of requests, providers,
keys, models, rows, tabs, combos, calls with a token, and any bounds.
Every safety property that a passing run checks is a theorem. The type invariants
are proved and not run by themselves: each is part of an inductive invariant.
Each inductive invariant was checked by TLC on the instance of its run first.
(For `LogInv`, with the records to come cut at `MaxRecords + 1`.)

* `FailoverProofs`: a cyclic scan finds a position unless there is none
  (`FirstFromNonempty` rests on a minimum of a non-empty set of naturals); `Get`
  fails only if every key was tried or is cooling; the operations keep the pools
  well formed. `IInv` is inductive. Type correctness alone does not
  survive a step: to know that a cooled key belongs to the pool, and that a
  scan of the member list is a scan of a sequence, one must know where the
  locals of a request point. So `RequestOK` says, of each request: its
  generation is not ahead of the service, its combo exists in its own
  configuration, its member is one of that combo, its key one of that
  provider (and no key for a relay), its attempts are within the budget, and
  the counters agree with its place. The proof has one lemma per action and one
  lemma (`MoveKeepsInvariant`) by which a step of one request leaves the others
  alone. From it follow `TypeCorrect`, `OneReply`, `CallsRecorded`,
  `ExhaustedIsTrue`, and with the scan lemma `GiveUpIsJustified`.
  `BudgetInv` counts what a request may still spend: its calls are within the
  attempts of the members it has given up, plus those at its present one.
  `AttemptsAllowed` is a set of pairs of a member and a number, so that one more
  member adds its own attempts to a cardinality (`AllowedWithOneMore`) and no sum
  over a set is needed. From it follows `CallsAreWithinBudget`.
  For `HotReload`, `HInv` adds that the part of the new pool copied so far
  mirrors the current one except for `late`. From it follow `SnapshotKept`,
  `CooldownsSurvive` and `CooldownsNotInvented`; and since a step of a reload
  leaves requests and their configurations alone (`RequestsOrReload`), what holds
  without reloads holds with them: `ReloadsKeepPromises`, `ReloadsKeepMembers`. A request step may cool a key
  of the old pool only in its own generation, which is what `RequestOK` says.
* `ModelsDevProofs`: a download is told to be out of date by the generation
  alone. `CInv` adds `ReadIsCurrent`: a fetcher whose generation is the current
  one holds the current options, although options may change and change back.
  From it follows `CatalogOfConfiguredUrl`; `ClosedIsSilent` needs no invariant.
* `RecorderProofs`: `RInv` relates the counters to the rows. `written` is the
  number of rows stored, `queued` the number of calls that have counted their
  row (`CountersCount`), and a row that was sent and is not stored or failed is
  in a channel or in the writer's hands (`RowsAccounted`, which is inductive only
  with `OwnKind`, that a row sits in the channel of its kind). `FlushTracks`
  carries `written` as `Flush` has loaded it through its poll: if nobody was in
  `Record` and the counters agree, the sets of rows are equal, not only their
  sizes. `CloseTracks` follows `close.due` to the exit of the writer.
* `ReportLogProofs`: `LogInv` has three parts. `Counters`: `queued` and the calls not
  counted yet are together `written`, the queue and the batch.
  `InOrder` and `InBatch`: the records on disk, then the batch, then the queue
  are in the order of acceptance, in every directory and across the slots a
  rotation has half moved. `Chained` and `Dictionary`: the dictionary of a frame
  is the content of the frame before it, and `prevRaw` is that of the last frame
  whenever the next one may use it. Lemmas are stated once for each thing that
  can happen to the files (nothing, a frame is appended, a segment is opened,
  slots move). `UndamagedSegmentsAreRead` goes from the chain to what the
  reader makes of it. `LogKeepsPromise` is the refinement: one lemma per action
  shows a step of `AppendLog` or a stutter.
  `QuietReadsAreComplete` follows a reader: `ReaderOK` says that, unless something
  overlapped, what is owed to it was returned or can be found in the segments
  still to come, all of which are older than what it has returned. What it adds
  for a segment is a recursive function over the frames; `Flattened` unfolds it
  by the least index at which it could go wrong.
* `AdminSessionProofs`: the limiter compares and counts in different lock
  regions, so failures alone are not bounded by an inductive formula.
  `SessionInv` counts the logins past the check as failures that are still to
  come (`failures + Cardinality(Checked)` never exceeds the bound), and says that
  the wrong passwords compared are at most the failures, and none are counted
  once a lockout has run out.
* `ConfigStoreProofs`: `StoreInv` adds `SolosOK`: what a save that has been alone
  since `Build` has under way is what its place in the handler says (the inode it
  holds is the temporary file, no other save holds it, the text in it is the
  merged configuration), and `RanOK`, what the MCP page took from an answer has
  run. From it follow `FileAgrees`, `UnmarkedRan` and `SectionSavesKeepRest`.
* `ConsoleProofs`: the invariant `ConsoleInv` has one part per page, and two
  lemmas per page (its own steps; the steps of the others).
  `CombosInv`: while nothing has been edited, a request for a suggestion finds
  the combo and the members it was sent for, and names stay distinct; that a new
  name is still free is counted (`FS_Injection`).
  `EditorInv`: what is being saved, what runs and what the page takes as saved
  is what the page said, sanitized. `TokensInv`: unless `disturbed`, one user of
  the refresh token at a time and its copy is the one the upstream accepts.
  `LoadsInv`: the only load under way carries the query that is shown, or the
  page is going to ask again. `ToolsInv`: what is listed, unless loads crossed,
  is of the combo of the last choice. `TestInv`: the format is one the selected
  combo offers, and a relay is sent with an upstream model; `RelayResolves` then
  shows which combo the longest prefix is. From these follow the seven theorems
  on the pages.

* `McpClientProofs`: `StdioInv` has five parts. `Registered`: an id belongs to one
  call, and one that is in the map has an empty channel, which gives
  `NobodyWaitsForever` and `SendsDoNotBlock`. `Once`: a request is in one place
  (unread, answered, or carried out), and one that was refused was not carried
  out, which gives `RetriesRunOnce`. `Locked`: while `initMu` is held `initRes` is
  not set, and a request made without it is a call of a tool. `Process`: an answer "ok" is of a process that was initialized or has
  ended. `RefusalsMeanExit` needs the last part. A handshake may be left over
  from an earlier process, so `initRes` alone says nothing of the present one.
  But a call that found `initRes` set saw nobody at a handshake; if no exit was
  counted since it began, every handshake answered since is of the present process
  (`NoneLeftOver`), and the second request of the call meets a server that is
  initialized or has ended (`SecondIsServed`).

Assumptions, besides types and non-empty sets: `KeysDistinct` (above); the rows of a
recorder, the tabs and the numbers of backups are finite sets; an absent file
is no sequence of frames and an absent inode no inode; a combo of the test page
offers a format (`config/build.go:686` refuses an empty list), and shares no
identifier with another (`config/build.go:216`); what is filled in as an upstream
model is not empty; the
bounds of the editors leave room for what a page starts with (one entry in
`McpEditor`; two names and two members in `ComboEditor`).

Where an argument needs an induction over numbers, the proofs take the least member of
a set of naturals instead (`LeastMember` and `LeastNumber`, from `WFMin` of the
library), because the induction theorems have an operator as parameter.

`NoInventedCooldowns` is proved and no longer run, because it restates the
effect of `CopyCooldowns`.

Model-checked only, and why:

* Liveness (`EveryRequestAnswered`, `StaleKeepsTrying`, `FlushReturns`,
  `CloseReturns`, `NothingWaitsForever`, `SessionSettles`, `CallsEnd`,
  `AutoRefreshConverges`): the prover does not reason about fairness and ENABLED.

## 7. Not modelled

* Message contents: JSON bodies, format translation, SSE framing, usage
  counting, prices, payload scripts, compression. They are functions of data;
  the models keep the outcomes they choose between.
* The matching of a health rule against a response. The models let any rule
  that covers the model match. A response body that breaks off is recorded as a
  success by the non-streaming path, and `Deliver` includes it.
* What is typed into the sections other than combos and MCP (providers, health
  rules, scripts, general settings): edits of a version in `ConfigStore`.
  Formatting, charts, copying, tooltips and layout of the pages; JSON arguments
  of the test pages and the text of their answers.
* Log levels, HTTP plumbing, SQL queries.
* A second user or provider in `UserTokens`, and tokens of providers that are
  not `oauth2`: rows of different users have nothing in common.
* Two administrators in `ComboEditor` and `McpEditor`: what they do to each other
  is `ConfigStore`, where contents are versions.
* The MCP clients for SSE and HTTP, the transports, and the aggregation of MCP
  combos: they are planned (section 2).
