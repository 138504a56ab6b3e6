# Monitor Protocol in TLA+

A model of the reference server of the Monitor Protocol: a log of observations
that several monitors share, subscriptions that read it through a committed
cursor, leases on subjects, the state file all of it lives in; and of what reads
it: the session bridge, which hands observations to a live session and
acknowledges what the session has handled, the watch command, the event stream;
and of the admission of work by a session's tools. Paths are
given as in `PROJECT.json`, with the repository checked out at `src/`; so
`core.ts` is `src/src/server/core.ts` and `spec/` is `src/spec/`.

## The system

| Component | State | Operations | What makes it correct |
|---|---|---|---|
| Store (`store.ts`) | rows, seq, per-monitor heads, floor, dropped marks, tables of monitors, subscriptions, leases, published subjects | append, compact, load, persist, headOf, lostSince, retentionFloor | heads are the real heads; loss is known exactly; a restart finds what was answered |
| Feed service (`server/core.ts`) | none of its own: the store, and the pulls in progress | create, update, pause, resume, retire, publish; subscribe, pull, ack, seek, renew, retire; sweep | at-least-once: nothing is passed over silently; replies are complete; redeliveries are marked; cursors move back only on record |
| Leases (`server/core.ts`) | one record per subject | claim, renew, complete, release, reject, sweep | one worker at a time; a stale worker finishes nothing; a dead letter stays dead |
| State file (`store.ts`) | the file, `.tmp`, `.prev` | persist, loadFirstGood | a crash leaves the old state or the new one, and the server starts again |
| State lock (`lock.ts`, `index.ts`) | the lock file | acquire, release at exit | one writer per state file; a stale lock keeps nobody out |
| HTTP/JSON-RPC (`server/http.ts`) | open connections, the sweep timer | routes to the handlers, `/admin/compact`, batches | each handler is one uninterrupted call |
| SSE stream (`server/http.ts`) | a cursor per connection | probe, pull, write | every row once per connection, in order; it commits nothing |
| MCP (`server/mcp.ts`) | none | tool calls to the handlers | as HTTP |
| Session bridge (`session/bridge.ts`, `source.ts`) | a journal of deliveries, queued marks, receipts and acknowledgements; a worker lock | run, step (pull, add, enqueue, acknowledge), stop, handled | only what was handled is acknowledged; one delivery pending; a worker gives up only over a conflict; everything is committed in the end |
| Capabilities (`session/capabilities.ts`, `workspace-capabilities.ts`) | a chain of awaits per admission, receipts | preflight, admit, resolve a policy, list tools, probe | work rests on fresh evidence for the very runtime; nothing goes on behind a timeout; every caller is answered |
| Drivers (`session/codex.ts`, `claude.ts`, `process.ts`) | child processes | look, enqueue | — |
| Filters and validation (`filter.ts`, `schema.ts`, `vocab.ts`) | none | matches, intersectFilters, validateFilter | an inline filter only narrows |
| Watch, client (`watch.ts`, `client.ts`) | a read position | pull, print, ack, seek on 410 | every row is printed in the end; nothing unseen is acknowledged |
| Workspace (`workspace.ts`) | none: it reads the journal and the receipts | status | what is reported was so |
| CLI, paths, conformance suite, adapters | configuration | — | — |

The server is one Node process. HTTP, MCP and the stream call the service's
handlers; a handler changes the store, and the store writes its snapshot. The
handlers are synchronous but one: `pull` waits for the store's `append` event
or a timer. What is hard is therefore what happens across that wait, between
the writes of a handler that writes more than once, between the calls of one
write, across restarts, between a reply and the acknowledgement of it, and
wherever one shared thing (the log, the floor, a subject) serves several
monitors. `PROJECT.json` lists these places line by line under `hazards`.

## The modules

| Module | Models | Used by |
|---|---|---|
| `Store` | the store's operations on the log and its marks, snapshot and load | `Feed` |
| `Feed` | the handlers of monitors and subscriptions, pulls, compaction, restarts | `MCFeed`, `FeedProofs` |
| `FeedProofs` | theorems about `Feed`: the log, delivery, redelivery, and that it implements `DurableQueue` | |
| `Leases` | `leaseAction`, `sweep`, the releases of retirement | `MCLeases`, `LeasesProofs` |
| `LeasesProofs` | theorems about `Leases` | |
| `StateFile` | `persist` and `loadFirstGood`, call by call | `MCStateFile`, `StateFileProofs` |
| `StateFileProofs` | theorems about what a crash leaves | |
| `StateLock` | `acquireStateLock` and the exit handler, call by call | `MCStateLock`, `StateLockProofs` |
| `StateLockProofs` | theorems about `StateLock`, in every interleaving | |
| `Subscription` | one subscription as a single remote consumer meets it | `Bridge`, `Clients` |
| `Bridge` | the bridge's worker, journal and source, `bridge stop`, `bridge handled` | `MCBridge`, `BridgeProofs` |
| `BridgeProofs` | theorems about `Bridge` | |
| `DurableQueue` | what the feed promises a subscriber, abstractly | `Feed` (refines it) |
| `Clients` | the watch command and the event stream over one subscription | `MCClients`, `ClientsProofs` |
| `ClientsProofs` | theorems about what the watch acknowledges and the stream writes | |
| `Filters` | `matches` and `intersectFilters` | `Monitors` |
| `Monitors` | configuration, grants, publication and inline filters of one monitor | `MCMonitors`, `MonitorsProofs` |
| `MonitorsProofs` | theorems about `Filters` and `Monitors` | |
| `Capabilities` | preflight and admission of work, receipts, the Codex adapter | `Workspace`, `MCCapabilities` |
| `Workspace` | the status report, beside the journal and the receipts | `MCWorkspace`, `WorkspaceProofs` |
| `WorkspaceProofs` | theorems about `Capabilities` and `Workspace` | |

`Feed` extends `Store` and writes the snapshot in one step; `StateFile` opens
that step. Operators named `... Mutant of X` in their comment are plausible
bugs in `X`. No specification uses them; they show that the properties can fail.

### Feed and Store

The log is a set of rows, each with its seq, its monitor and a kind: an
observation (`obs`) or a row of the protocol itself (`proto`: configured,
subscribed, retired, rejected, lease rows). A filter is a set of kinds.
`history` keeps every row ever appended, for the properties only.

*Atomicity.* A synchronous handler is one action, trailing row and write
included. `append` emits its event and then writes; the pulls it wakes read in
microtasks, after the handler and before the next request, which the guard
`~Busy` says. A handler that writes more than once is split where a crash can
fall: a reset is `PullReset` (row logged and written) and `MoveToReset` (cursor
moved and written); a sweep is one step per retired subscription. `Restart` is
enabled everywhere; it drops the pulls in progress and loads `disk`.

*Pulls.* `calls[c]` is a pull: the start and the filter it fixed when it began,
whether it replays from an explicit cursor, and `live`, whether the client that
sent it still holds the subscription's token. It reads (`Deliver`, `Wait` or
`AnswerEmpty`, the page being `IsPage`) and waits until an append or its timer.
The deadline is not a clock: a read that finds nothing either waits or answers.

*Clients.* A client holds replies (`pages`) and acknowledges the `next` of any
of them, at any time, repeatedly and in any order, or repeats the cursor the
server last reported. Any reply may be lost (`Answer`). Tokens are abstracted to
what they decide: after a re-subscription the replies and pulls under the old
token no longer count (`Rekey`). `accounted` holds the seqs that a subscription's
client received, was told are gone (the reset, which the log row also reports),
or chose to pass over (`from`, `seek`). `handed` holds those some pull from the
cursor returned, even if the reply was lost. `reply` is the reply the last step
sent; nothing reads it, so the VIEW that hides it loses nothing.

*Not in Feed.* Token renewal, authorisation, inline filters, provenance and the
change of a monitor's filter by an update (`MonitorFilter` is a constant; see
`Monitors`); states written by versions before 0.4.0 (`droppedKnown` false);
failing writes. An update is the row it logs.

*What Feed implements.* `DurableQueue` has neither pulls nor waiting, compaction
or disk: rows are emitted in order, and each subscription has a position that
moves up over rows its client has settled (received, been told are gone, or chosen
to pass over) and otherwise only in the open. `Feed!Queue` maps `history` to what
was emitted, `accounted` to what is settled, the committed cursor to the position;
`ImplementsQueue` is the abstract specification itself, checked as a property of
the run. So a read, a wait, a compaction, a crash and a restart are all stuttering
steps, wherever they fall. One step back is allowed, from beyond the end to
the end, which is what the clamp of an acknowledgement does.

### Monitors and Filters

One monitor under one subscriber's name, at the detail `Feed` leaves out. A
configuration is in memory (`config`), on disk (`saved`) and as the last
`configured` row shows it (`record`); every log row writes the whole state
(`Save`), so whatever an update left in memory reaches the disk with the next row
of anybody. An update whose rules are refused has already replaced the filter
(`UpdateRefused`); the ghost field `slipped` marks a configuration this has
happened to. Clients are an owner, a holder of the subscribe token and a
stranger; `Presents` is what each can show, `holder` who knows the subscription's
token (a reply with a new token may be lost), `backed` which capabilities were
asked for on the owner's or the subscribe token and ever since.

`Publish` takes every body over five fields, present or not. A webhook and the
system rank as a probe, `certified` as `human_verified`, `derived` and
`falsified` as `measured`: no comparison in `publish` tells them apart. An actor
whose prefix the server does not know is a value of its own (`unknown`), since
`originOf` takes it for an agent (`Inferred`) and the ceiling of the actor does
not apply to it (the last conjunct of `Rejected`).

`Filters` has a list of types (with a pattern), one tag and the two times. A
missing key, an empty list and the empty string are values of their own, since
`matches` and `intersectFilters` treat them differently. The other list keys are
like the types; text and limit can only narrow.

### Leases

One action per request, one clock, one lease per subject for all monitors.
`told` is what each subscription was last told (held until when) and `logged`
what a reader of the log finds. The rows of a retirement count as telling the
worker. An expiry that a request merely notices frees the holder in memory only
(`Refused`, `HolderNow`), as in the code. A claim may carry a duration that is no
number: `ClaimThrows` is the handler failing after it has set the holder.
`halfway` remembers the subjects this has happened to, and the properties of
exclusive work are stated for the others. The sweep is one step: stopping half way equals a smaller sweep.

### StateFile and StateLock

A snapshot is a version. Directory changes reach the disk in order, any number
of the last ones may be missing after a power cut until the directory is
flushed, an unflushed file may be torn, a rename is atomic: these are
assumptions about the file system, drawn from how the code uses it.
`restarted` is what the server runs on until its first write after a restart
has ended. With `CrashAgain` false, no kill hits that first write after a
recovery from a copy, and no power cut hits it after any restart; with
`CrashAgain` true they may. The quarantine of a damaged file is not modelled:
`StateFileReadable` says that crashes alone never reach it.

`StateLock` has one step per file-system call, and nothing orders the calls of two
processes: they start, stop and are killed in every interleaving. `met` is history:
the processes that, when they last started, found another one between two calls,
or were met by one that began to start or to stop. The properties speak of the
others. An id comes back only with another server, never with an unrelated program.

### Bridge and Subscription

`Subscription` is the server's side of one subscription, coarser than `Feed`: every
handler is one step that ends on disk, and the filter is in the kind of a row
(matching, another row of the monitor, a row of another monitor). What other
holders of the token and the administrator may do to it is in `Server`. `passed`
holds the rows below the cursor because somebody else, or a reset, moved it. A read
looks at `ScanCap` rows that compaction has left, whoever emitted them, and no
further (`Scanned`); what it finds there is `From(c)`, from the stored cursor `Due`.
`OutOfReach(i, c)` says that row `i` lies beyond a whole scan that finds nothing.

`Bridge` has two sorts of processes that share the journal directory: workers
(`bridge run`) and commands (`bridge handled`). `at[w]` says where a worker waits
in `step()` and `item[w]` which delivery it has in hand; the lock file is
`lock`, and several workers may be started one after the other or at once.

| `at` | in `step()` and `runSessionBridge` |
|---|---|
| `starting`, `asleep` | before the first step, or between two |
| `entering`, `confirming`, `announcing` | in `active()`: the stop mark is read, the session is being looked at |
| `pulling`, `comparing`, `acking` | a request is out |
| `holding` | the delivery is known, its receipt is not read yet |
| `enqueueing` | the host's queue command runs |
| `down`, `failed` | not running; `failed` after an error that is not retried |

*Atomicity.* A process is split where it awaits; what it does to the journal
between two awaits is one step, since a kill there leaves what a kill at one end
leaves: each file is written beside its place and renamed or linked into it. The
stop mark is read before the session is looked at, so a stop may come between
(`IfActive`, then `Confirm` or `Announce`). A request and its answer are one
step, taken when the answer is: nothing the worker does next depends on when in
between the server acted. A pull that resets the cursor is two steps, since the
reset stands even when the answer is lost. An answer that does not come in five
seconds is retried (`Unanswered`), and an acknowledgement without an answer may
still arrive at any later time (`late`, `LateAck`). An enqueue that fails may
have been accepted (`MaybeAccepted`). A command links its receipt into place
after it found none, which another command may have done meanwhile.

*Failures.* Workers are killed anywhere, and a kill leaves the lock; a person who
has looked removes the lock of a worker that is gone (`RemoveLock`). A command
that is killed takes no further step. A power cut is not modelled: it also ends
the session, which the binding does not survive. A look at the session that
fails counts as a dead session, as in the code.

*Not in Bridge.* The health record and `bridge status`; ownership, permissions and
fingerprints of the files; the shape of a page (it is what `Feed` answers).

### Clients

Both read the server side of `Subscription`, and `reader` says which of them a
behaviour is about: `watch` leaves the acknowledgement to its session, which runs
`ack` with the `NEXT` it was shown (`SessionHandles`), `acking watch`
acknowledges what it has printed, `stream` is an event stream and its client.
`watch` is the request the loop waits for, with its argument in `asked`; `readFrom`
its own place, `told` the highest floor an `EXPIRED` line has named. A request
without an answer may arrive late, also after the watch was killed and another
was started (`late`). The stream's `place` is the cursor of the connection, `wire`
what it has written and the client has not received; a connection that breaks
loses it, and the client comes back with the last event it has (`Open`).

### Capabilities and Workspace

`adm` is one admission: where its chain of awaits stands (`at`), what it has
gathered, and for the properties what the session advertised (`advertised`) and
when each probe succeeded in which runtime (`evidence`). Every await is three
steps: the question is asked by reaching the place, the adapter makes its answer
from the session as it is then (`AnswerBinding`, `AnswerPage`, `AnswerProbe`,
`AnswerFails`, or never), and the chain takes it up later (`Resume`). The session
reconnects and is reconfigured in between. `Timer` tells the caller and leaves the
chain where it is; the deadline that each `Checkpoint` compares is what
stops it. Digests are equality; tools and contracts are model values, a profile
pins one contract of each tool.

`Workspace` keeps of an admission only the receipts it may leave (`Issue`) and
adds the bridge's journal, as its two writers change it, and one report. `status.at`
is where the report stands; each file is read in a step of its own.

| `status.at` | in `workspaceStatus` |
|---|---|
| `binding`, `read` | the live binding is awaited, or has come |
| `inspecting` | the worker is inspected |
| `receipt`, `queued` | the pending delivery is known, its receipt or its mark is read next |

## The runs

| Run | Instance | Shows |
|---|---|---|
| `feed_shared` | two monitors, one subscription, one pull, seqs to 5, two rows a reply, policy `earliest` | heads, loss records and replies survive a shared log, compaction and restarts |
| `feed_calls` | one monitor, one subscription, two pulls, two filters, seqs to 4, one row a reply, policy `latest`, pause, resume and retire | at-least-once, the inductive invariant, marks, the refinement of `DurableQueue` |
| `feed_scan_cap` | two monitors, a scan cap of one row | a statement of the spec that the code does not meet (below) |
| `leases` | three subscriptions of two monitors, one subject, durations 0 and 1 and malformed ones, clock to 3, limit 2 | exclusive work, dead letters |
| `state_file` | four snapshots, kills and power cuts | old state or new one |
| `state_lock` | three servers, every interleaving | nobody joins a server that started alone, a stale lock keeps none out |
| `bridge` | two workers, one command, seqs to 4, scans of two rows, no policy or `earliest` | what is acknowledged, pending deliveries, marks, when a worker gives up |
| `bridge_live` | one worker, two commands, seqs to 3, or to 4 behind a row that does not match, scans of two rows, no policy, fairness | rows are committed, a stop ends the worker, receipts |
| `clients` | either watch or a stream, seqs to 4, scans of one row, one row a page, one late request, one move by somebody else, no policy or `latest`, fairness | nothing unseen is acknowledged, every row is printed, the stream is in order |
| `monitors` | three clients, two capabilities, two stored filters, 96 inline filters, every body | grants, configurations on record, provenance, narrowing |
| `admission` | three policies over two capabilities, two tools, two contracts, two pages, one reconnection, clock to 6 | evidence, timeouts, answers |
| `workspace` | two profiles, clock to 3, two deliveries, receipts of any admission | what a report says was so |

The bounds are small because the cases are: a lost row needs a row, a
compaction beyond it, one more row and a reader (seqs to 4); a mix-up between
monitors needs two of them with a row each before and after the compaction (seqs
to 5); a stale reply needs two replies. One row a reply makes every page full, two
let a page be short. A claim, an expiry, another claim and the first worker's
return take three ticks. Deadlock is not checked where the bounds on seqs, time
and versions end a behaviour, or where the server simply has nothing to do.
For the bridge, the log begins with
the two rows of the monitor and the subscription, so seqs to 4 leave two
observations, or one and the row of a seek, a reset or a retirement. Symmetry is
over pulls, over two workers of one monitor, and over bridge workers; no
definition tells them apart. For the clients the log begins with the
subscription's own row and one matching row, so that two more are left. That one
was compacted, another is behind it, and a seek that comes late for either is the
longest case. An admission needs two capabilities (the second probe comes after a
reconnection), two pages (the catalogue is not known after the first), and a
clock that lets two deadlines run out. A report needs a delivery that is
acknowledged and one that follows it. The monitor's state is finite by itself, so
`monitors` checks deadlock and has no bound.

*The scan cap.* 20000 rows are 2 or 1 in the models, so that a scan can end before
a matching row, as it does in every run over `Subscription`. A reader that finds
nothing stays where it is: the bridge only sleeps (`bridge.ts:343`), and the watch
neither acknowledges nor reads on (`watch.ts:86-88`). So a row behind a full scan of
rows that do not match is never committed nor printed, unless a compaction or
somebody else's move of the cursor brings it within reach. `EventuallyCommitted` and
`EventuallyPrinted` exempt exactly this, a row that stays `OutOfReach` of the place
the reader reads from; without the exemption TLC refutes both. In `bridge_live` the
third row is in reach and the fourth is not, so `ShortSpec` lets the log grow to the
fourth only behind a third one that does not match, and while nobody else has moved
the cursor: past such a move `EventuallyCommitted` asks nothing.

*Fairness.* In `bridge_live` (`Fairness`), a running worker takes
steps, since every request, queue command and `ps` ends after five seconds
(`WF` of `Runs`). A request repeated for ever is answered some day, the queue
accepts some day, and the session attends some day to what its queue holds
(`SF`): the code retries without end and can count on nothing stronger. A command
that was run goes on (`WF`), and the look at the session that it begins with, which
may fail, succeeds some day for a delivery that nobody has handled yet
(`LooksAnew`, `SF`). Nobody
has to start a worker, to remove a lock or to stop anything, so
`EventuallyCommitted` speaks of a worker that stays. `Conflict` exempts what makes
a worker give up by design. In `clients`, a running watch goes on for the same
reason (`WF`: `client.ts` bounds every request), and a pull, an acknowledgement
and a seek that are each repeated for ever are answered some day (`SF`, one per
kind of request; one for all of them would let the network answer pulls and
never a seek). The stream's client and the session promise nothing. In `admission`
the clock goes on and the timer fires (`WF`); that the adapter ever answers is not
assumed, and `AdmissionEnds` does not need it. The other runs check safety.

### Where the code and its documents disagree

`feed_scan_cap` checks a statement of the documents and TLC refutes it: nothing is
lost within retention (`spec/04-delivery.md:7`). A read stops after 20000 rows of the
shared log but still answers `next: head + 1` (`core.ts:486`, `564`). The instance uses
a cap of one row.

Two more claims, of comments in the code, are stated in the modules and fail. No run is
kept for them; naming one as an invariant of the configuration given shows it
within seconds.

- `OneWriter` (`StateLock.cfg`): one writer per state file (`lock.ts:9`). A server that
  reads a lock without an id, or with that of a process that is gone, removes
  whatever file is there by then (`lock.ts:28`). So one that starts while another
  has created the lock and not yet written its id removes it, and both serve.
- `HumanOriginIsBacked` (`Monitors.cfg`): an agent carries a human origin only when it
  names who it acts for (`core.ts:365`). The check is skipped for an actor whose
  prefix is not in `ORIGIN_OF_ACTOR_PREFIX` (`core.ts:366`), which `originOf` takes for
  an agent (`core.ts:129`): under a human owner `bot:x` may claim a human origin, and
  with it the tier `src`, with nobody named.

The following were met while modelling. Their cases are in the models, or were
left out for the reason given, and no run is kept for them; where a property has
to exempt one, its comment says so.

*Store and service.*
- A claim whose duration is no number sets the holder, throws, and leaves a lease
  that its retry is told it holds and a restart forgets (`core.ts:625`;
  `spec/04-delivery.md:16` has acquisition as one conditional write). `halfway` marks
  these subjects.
- The first write after a recovery from `.tmp` truncates that file, the only copy
  of what was recovered (`store.ts:192`, against the comment at 183). `CrashAgain`
  TRUE shows it.
- An acknowledgement clamps a cursor that `from` put above the head back to
  head + 1 (`core.ts:578`); the README and P4 say it never moves backwards.
- A repeated `complete` is refused (`core.ts:630`); `spec/04-delivery.md:20` says it
  returns the prior result.
- A pull that resets the cursor and then refuses the inline filter answers without
  the `reset` it made (`core.ts:538-547`).
- An update whose rules are refused has replaced the filter without a row
  (`core.ts:279-283`); the next update's row compares with the replaced one, so P10's
  record never shows the change. `slipped` marks it.
- `intersectFilters` widens in two corners, against `filter.ts:31`: an inline `until`
  that is the empty string removes the stored one (by RPC; REST drops empty values),
  and a stored tag list that is empty, which nothing meets, gives way to an inline
  one. `WellFormed` names them.
- P1 says that only a person promotes an observation; an agent's explicit
  `measured` is accepted where its default would be `unverified`.
- `lastSourceContact` is set after the row it belongs to was written
  (`core.ts:380`), so a restart may take `covers_until` back.

*Clients of the feed.*
- A matching row behind 20000 rows of the shared log that do not match is out of reach of
  the bridge and of the watch: the page is empty, and neither moves on
  (`core.ts:486`, `watch.ts:86-88`). `OutOfReach` exempts it from
  `EventuallyCommitted` and `EventuallyPrinted`.
- A bridge that is stopped while a step looks at its session may still announce or
  acknowledge a delivery (`bridge.ts:267`). `StopEndsWorkers` says that the worker
  ends, not what its last step does.
- The bridge's source refuses every page whose floor, which is that of the whole
  log, lies beyond the cursor (`source.ts:110`), and the worker ends, as does every
  later one; `docs/decisions.md:59` counts a loss per monitor and says that a
  caught-up subscriber has lost nothing. `GivesUpOnConflict` has this among its
  conflicts. A caught-up stream that reconnects below the floor is refused for
  the same reason (`core.ts:525`).
- A stream's probe commits: a reset it makes moves the stored cursor, although
  `spec/03-bindings.md:69` says the cursor moves only on `feeds/ack`; and it raises
  `deliveredMax`, so that the stream's first row is marked redelivered.
- The watch prints nothing of the `reset` a pull reports. `NothingUnseen` counts the
  rows a reset passed as `passed`.

*Capabilities and workspace.*
- A profile's timeout is said to be one total deadline (`capabilities.ts:40`); an
  admission sets a second one for the last look at the binding (`285`), so it may
  take twice as long. `WorkRestsOnEvidence` says so.
- A receipt that expires while the live binding is awaited is reported as verified
  (`workspace.ts:130` compares with the time the report began).
- A delivery that is written or handled after the report began is reported as
  `evidence-invalid` though it is in order (`workspace.ts:97`, `100`).

## The proofs

`FeedProofs` has four parts. The first, on the log, proves for all values of the
constants that satisfy `FeedAssumption` and `MaxSeqAssumption`:

- `TypeCorrect`: `Spec => []TypeOK`. `TypeOK` is inductive by itself; the proof
  takes one lemma per group of actions. `Persist` is the delicate part: the
  snapshot is well typed because what it copies is.
- `LogCorrect`: `Spec => []LogAndDisk`. `LogInv` says that seqs are unique and at
  most `seq`, that what is missing lies below the floor, and that `heads` and
  `dropped` are exact. It is not inductive without `DiskInv` (`disk = Snapshot`),
  since a restart takes everything from disk; and `DiskInv` needs the writes of
  every handler to come last. `dropped` being exact is what lets `Load` rebuild the
  heads: a monitor's last row is either still there or was dropped.
- `HeadCorrect`: `Spec => []HeadIsRealHead`, and `LossCorrect`:
  `Spec => []LossIsKnown`, both from `LogCorrect`.

The second part, on delivery, goes on under one more assumption, `ScanAll`: a read
may look at as many rows as the log can hold. `feed_scan_cap` shows that rows are
lost without it.

- `InvCorrect`: `Spec => []IInv`. `LogAndDisk` says nothing of subscribers, so three
  parts are added. `Settled(s, n)`: each seq below `n` is accounted for, or its row
  is one that the filter of `s` does not let through. `SubInv` says this of every
  committed cursor and `PageInv` of the `next` of every reply a client holds, since
  that is where an acknowledgement will put the cursor, however late it comes.
  `CallInv` says of every pull in progress that the rows it is to find (`Wanted`) are
  in the log when it reads and that there are none while it waits; this is what
  lets a compaction run under a waiting pull. The proof has a lemma for each kind
  of step (`LoggedStep`, `StillStep`) and one for each action that does more;
  `PageCovers` is the heart of it: what a page leaves out comes after the page, by
  the pigeonhole of `ScansAll` and by `IsFirst`.
- `NoLossCorrect`: `Spec => []NoSilentLoss`, from `SubInv`.
- `RepliesCorrect`: `Spec => ReplyComplete`, from `CallInv` and `PageCovers`.

The third part, on redelivery, needs no `ScanAll`.

- `RedeliveryCorrect`: `Spec => RedeliveryIsMarked`, with `HandedInv`: `deliveredMax` is
  no lower than anything a pull from the cursor has returned. It survives a
  restart because of `DiskInv`, that is, because the mark is written before the
  reply leaves.
- `CursorCorrect`: `Spec => CursorMovesBackLogged`, with `ResetInv`: a reset under way
  is the only one and aims past the cursor, which follows from `LogInv`, because
  the row that was lost lies below the floor and below the head.

The fourth part takes both halves of the feed's invariant, under `ScanAll`.

- `RefinementCorrect`: `Spec => ImplementsQueue`. Each handler is a stutter, an
  `Emit` or one action of the queue. Three of them need the invariant: an
  acknowledgement is a `Commit` because everything below the `next` of a reply is
  settled (`PageInv`); a reset is a `Reset` because it aims past the cursor
  (`ResetInv`); a reply is a `Receive` because it leaves out nothing
  (`PageCovers`).

`BridgeProofs` assumes what `Subscription` and `Bridge` state of their constants:
a log of at least two rows and that `Nobody` is no process.

- `BridgeInvariant`: `Spec => []IInv`. What makes an acknowledgement harmless,
  however late it arrives and whoever sent it, does not depend on where the
  worker is. `JournalInv`: every delivery in the journal is a matching row with
  nothing unsettled below it. It holds when the row is written (`PulledIsNext`:
  what lies between the cursor and the row was not let through, or the read would
  have been refused; the scan may end early, but not before the row, `DueIs`), and afterwards because rows, receipts and what was passed
  only grow (`GrowthKeeps`). `WorkerInv`, `HandInv` and `LateInv` tie workers,
  commands and late acknowledgements to deliveries, the last two kinds to handled
  ones. Most actions are shown to have one shape (`Moves`), which preserves the
  invariant once and for all (`MovesKeep`).
- `BridgeTypeCorrect`, `BridgePassesNothingOver`, `BridgeMarksAreTrue` and
  `BridgeReportsStand` are parts of it.
- `BridgeOnePending`: `Spec => []OnePending`, from a second invariant, `OneInv`: only
  the worker that holds the lock runs, and while it has a delivery in hand that
  is the pending one.
- `BridgeGivesUpOnConflict`: `Spec => GivesUpOnConflict`, from a third one,
  `OursInv`: as long as nobody else moves the cursor, it is at most just past the
  pending delivery, and no farther before it than a scan reaches. Then what is acknowledged lies below it, and between it and
  the delivery there is nothing to return (`JournalInv`), so that a comparison
  finds the delivery again. The delicate case is a late acknowledgement of the
  very delivery that is compared. There is none: it would have been sent for a
  handled one, and the worker had found this one unhandled (`TakeToCompare`); that
  it is handled meanwhile does not matter.

`LeasesProofs` proves all five properties of the run for any subscriptions,
subjects and durations. The invariant says `Right` of every lease in memory and of
every lease on disk: who believes to hold it is the holder, the holder was told
the end that the record has, and the log names both. Memory and disk are
described separately because a restart puts one in the place of the other, and
`Saved` says how far apart they can be: only by a holder whose time was up and
who was freed in memory alone. Subjects in `halfway` are exempt.

- `LeasesTypeCorrect`, `OneWorkerCorrect`, `LogTellsCorrect`, `InTimeCorrect`,
  `DeadCorrect`: `Spec` implies `TypeOK`, `OneWorker`, `LogTellsHolder`,
  `StaleNeverFinishes`, `DeadStaysDead`.

`StateLockProofs` assumes nothing. The claim that there is one writer fails, so the
invariant follows a process that met nobody when it started, among any number of
others that may race each other. While it starts, the others serve or do not run
(`Alone`); it removes a stale lock at most once and then finds none (`Attempts`);
and from its first write on, the lock file is its own and nobody is about to
remove it (`Owned`), since whoever starts later reads its id and is refused
(`Harmless`). A process that is about to write or remove the file therefore never
stands beside such a one (`NobodyElse`).

- `LockTypeCorrect`, `NobodyJoinsCorrect`, `KeptOutCorrect`: any number of servers,
  in every interleaving, killed between any two calls.

`StateFileProofs` assumes `~CrashAgain`, as the run does. A power cut may leave any
of the directories since the last flush, so the invariant speaks of all of them:
each leads a restart to the old snapshot or to the new one, whatever becomes of
the files that are not flushed (`Survives`). Which of the two it is depends on the
place in `persist`, hence one part per place; `DownInv` is what a crash leaves and a
restart relies on. Inodes are named upwards, so that a new file is none that an
older directory still names.

- `StateFileTypeCorrect`, `ReadableCorrect`, `OldOrNewCorrect`: any number of
  snapshots, kills and power cuts.

`ClientsProofs` assumes what `Subscription` and `Clients` state of their constants.
Again the argument does not follow the loop: a request that moves the cursor is
harmless from the moment it is made, because what lies below its argument is
accounted for and stays so (`Harmless`), however late it arrives and whichever
watch receives its answer. `SeenInv` says where such arguments come from: a session
has been shown a row only if it has been shown, or need not be, all rows before it.
`WireInv` says of the stream that each event is the row after the one before it,
and that the connection's cursor is just past the last one.

- `Inductive`, `NothingUnseenCorrect`, `StreamInOrderCorrect`: any log, page size,
  number of late requests and of connections, any scan cap: of a read the proofs use
  only that the first row it finds is the next one that matches (`FromIs`). A page is any
  sequence of rows in order (`InOrder`), so no induction over pages is needed.

`WorkspaceProofs` has two parts. The first is about an admission. Everything a
session gives carries the runtime that gave it, runtimes only grow, and a binding
is read before and after each probe: so what came between two readings of the same
binding came from the runtime it names (`RuntimeInv`, and `ProbesInv` for each
capability up to the one whose turn it is). `Catalogue` holds from the end of the
listing on. `TimesInv` relates the timer to the deadlines: once the caller was told
of a timeout the deadline is over, so no checkpoint lets the chain go on.

- `AdmissionInvariant`, `CatalogueCorrect`, `WorkCorrect`, `TimeoutCorrect`: any
  policies, profiles, tools, contracts, pages, lifetimes and timeouts.

The second part is about reports. Whatever is written into the journal carries a
time, and a mark that is written after the report began carries a time that is not
before it. So a file that is read late says of the past either what was so then or
something that shows itself as later (`Evidenced`, `Reported`).

- `ReportInvariant`, `HandlingCorrect`, `VerifiedCorrect`: any profiles and
  lifetimes, any number of deliveries.

`MonitorsProofs` has one theorem about the filters alone and four invariants.

- `IntersectionNarrows`: what a combination of two filters lets through, both let
  through, for any types, tag values and times, unless a time is the empty string
  or a tag list is empty; a combination that clashes is refused before it is used.
- `GrantsCorrect`, `RecordCorrect`, `ClaimsCorrect`, `InlineCorrect`: the four
  invariants of the run `monitors`. `ClaimsCorrect` is about every body, those with
  an actor of unknown prefix included; that a human origin is backed by a person
  it does not say of those, since TLC refutes that (`HumanOriginIsBacked`). `Shape` gives the variables their sets, which the record
  and the inline filters need; the last one rests on `IntersectionNarrows`.

So every invariant and every action property that a passing run checks is proved,
under the conditions its run also meets: `ScanAll` for what the feed delivers,
`~CrashAgain` for the state file.
`CursorCorrect` is proved of a property that no run lists, since `ImplementsQueue`
implies it there.

*Only model-checked.* Liveness under fairness (`EventuallyCommitted`,
`StopEndsWorkers`, `EventuallyPrinted`, `AdmissionEnds`) is beyond the prover, as are
`ENABLED` and induction over data. No theorem needs the last one, since a read and a
page are defined by what they return and not by their loops.

## The plan

The modules were written in the order of what depends on them: `Store` and
`Feed` with their proofs; `Leases`, `StateFile`, `StateLock`, which the feed's state
rests on; `Subscription` and `Bridge`, which compose a client with the server;
`DurableQueue`, the promise to a subscriber, with the refinement; then the other
clients, the configuration of a monitor, and the admission and reporting of work.
All of these are done, and so are the theorems about the safety properties of the
runs. What would come next:

1. The safety halves of the liveness properties, as action properties that can be
   proved: which steps of a worker, a watch or an admission bring it nearer to its
   end, and that no other step takes it back.
2. What still holds of the state file with `CrashAgain`, where the properties
   above fail.

## Not modelled, and why

MCP and JSON-RPC routing, the command line, adapters and integrations are I/O
around the same handlers. The conformance suite is a client. Session drivers are
child processes and their protocols; `Bridge` has what the worker sees of them.
The Claude transcript probe reads one file and yields an observation that admits
nothing. The health records of the bridge and of a workspace's source are written
and read whole, and nothing acts on them but a reader. Failing and short writes, the
quarantine of a damaged state file, and numbers that are none (`upto_seq` in a
compaction, which would empty the log) are outside the models' values. That a
waiting pull is answered by its deadline is a matter of the timer alone; what it
answers is in `Feed`.
Formatting, digests, timestamps in rows, the computed state and lag are values nothing in the control depends on.
