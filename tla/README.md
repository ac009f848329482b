# Overwatch back end: TLA+ specifications

The back end (`src/app`) is a FastAPI application over MongoDB and Neo4j. It has
no multi-document transactions and no queue: request handlers, background tasks
and polling loops of every process meet in the database. Every `await` is a point
where another task may run, and a process may stop at any of them. That is what
these specifications are about: each call that reads or writes shared state is an
action, and everything between two calls belongs to one of them.

## Inventory

| component | state | operations | what is hard |
|---|---|---|---|
| indexing jobs (`workers/jobs.py`, `github/webhooks.py`, `github/service.py`, `github/repository.py`) | `repos`, `index_locks`, `webhook_deliveries` | webhook delivery, connect, re-index, disconnect, `run_index` and its follow-ups | one lock per repository shared by all workspaces and processes; requests made while it is held; stale locks; crashes |
| indexing pipeline (`knowledge_graph/pipeline.py`, `sync_plan.py`, `build/diff.py`, `services/facts_repository.py`, `db/knowledge_graph_store.py`) | `file_facts`, the Neo4j graph | discover, plan, extract, merge, link, diff, write graph, write facts | two stores without a common transaction; a run may stop between any two writes |
| sessions (`auth/service.py`, `auth/repository.py`) | `refresh_tokens` | create, rotate, grace period, reuse detection, sign-out | concurrent refreshes, lost answers, a sign-out that races a refresh |
| connector sync (`connectors/sync.py`, `repository.py`, `service.py`) | `sync_targets`, `work_items` | claim, incremental and full sync, sweep, request a full sync | takeover of a slow run, the incremental window, a full request during a run |
| documents sync and push (`connectors/doc_sync.py`, `documents/repository.py`) | `documents` (version, push state, external version) | save, push, pull, conflict, resolve | edits, pushes and pulls of one page, stuck pushes sent twice |
| documents tree (`documents/service.py`) | `documents` (parents, archive groups) | create, move, archive, restore, purge | overlapping subtrees, several writes per operation |
| account merge (`accounts/service.py`, `merge.py`) | `users`, `account_merges`, proposals | propose, confirm, run, resume | two locks, a dozen resumable steps, sign-ins meanwhile |
| native sign-in (`auth/native.py`, `otp.py`) | one-time codes, `users` | request, resend, redeem, reset password | attempts and resends of several tabs |
| OAuth tokens (`db/oauth_tokens.py`) | `oauth_tokens` | save, refresh | a rotating token refreshed by two requests |
| workspaces and invites (`workspaces/service.py`) | `memberships`, `invites` | roles, leave, invite, accept, revoke | the last owner; an invite accepted twice |
| realtime (`realtime/hub.py`, `router.py`) | subscriptions and outboxes in memory | subscribe, publish, revoke | access revoked between check and registration; slow clients |
| decisions (`decisions/*.py`) | decisions, leases | suggest, accept, check cycle | a lease outlived by its holder |
| rate limits (`core/rate_limit.py`) | `usage_counters` | take from several windows | compensation when a later window is full |
| boards, sprints, work items | `work_items`, `boards`, `sprints` | edits written to the tracker and mirrored | an edit here against the next sync |
| chat and query engine (`chat/`, `query/`) | `chat_conversations`, the prompt's lines | ask, look up, answer, check the answer | lookups of a round run together; a question races others for windows and messages |
| discussions (`decision_comments/`) | messages, attachments, the object store | send, edit, react, delete, upload, sweep | a send retried, a file swept while it is sent |
| extraction, linking, views (`knowledge_graph/`) | the checkout, facts, a snapshot | walk, read, resolve, build, draw | workers that hang or die; a graph replaced while it is read |
| GitHub access (`github/`) | `repos`, token cache, checkouts | connect, disconnect, events, purge | events out of order, a purge against a connect |
| storage, mail, previews, waitlist | objects, caches | reads, single inserts | little shared state; external services |

How they meet: webhooks and routers queue indexing jobs, a job runs the pipeline,
the pipeline owns both stores; an account merge and a password reset end sessions;
the polling loops of `main.py` run connector syncs and document pushes, and resume
merges; leaving a workspace revokes realtime subscriptions.

`PROJECT.json` lists every component, and under `hazards` each thing that can go
wrong at its line, with the properties that watch it.

## What is modelled

### IndexJobs

One repository, connected by any number of workspaces. `Runs` are the background
tasks together with the request handlers that start them.

| variable | code |
|---|---|
| `conn` | the `repos` document of each workspace: `parse_status`, whether `updated_at` or `parse_started_at` is older than the timeout (`stale`), whether a current builder built its graph (`built`) |
| `lock` | the `index_locks` document: `started_at`, `sync_requested_at`, `pending_full` |
| `seen` | `webhook_deliveries` |
| `run` | the program counter and the locals of a task |
| `leave` | the progress of a disconnect request |
| `graph`, `facts` | the commit whose graph Neo4j holds; whether `file_facts` holds anything |
| `head` | the default branch at GitHub |
| `lost` | history: pushes up to here are excused because a task failed, died, or found nobody connected |

Actions follow the calls: `Claim`/`ClaimFails`, `MarkRunning` (the rest of
`_claim`), `RecordPending`, `Find`, `Checkout`, `WriteGraph`, `WriteFacts`,
`Record`, `TakePending`/`StopDraining`, `Fail`, `ReleaseStatus`, `ReleaseLock`;
`Deliver`, `Dispatch`, `DispatchFails`, `Connect`, `Reindex`; `LeaveCheck`,
`LeaveDelete`, `PurgeGraph`, `PurgeFacts`. `Crash` ends a task anywhere;
`LockGoesStale` and `PendingGoesStale` are the passing of
`parse_lock_stale_minutes`.

`SlowRuns` says whether a live run may outlast that timeout. With `FALSE` a lock
goes stale only when nobody holds it. The code does not enforce this: the lock's
`started_at` is not renewed between follow-ups. The properties of a single holder
are stated, checked and proved under that assumption and not without it.

An `update_many` over a repository's connections is one action.

### IndexPipeline

One repository, one run at a time (what `IndexJobs` shows), in front of the facts
cache and the graph. A tree gives each path a content; the content `Importing`
stands for a file whose edges depend on which other files exist, so that linking
needs the whole tree. `Start` is everything before the first write: `discover`,
`plan_sync`, extraction (any file may be skipped), `merge_facts`, `diff_snapshots`
or `full_delta`. Then each element of the delta is a write of its own, in the
order of `apply`; then the facts. `Crash` stops the run between any two writes.
`Deploy` is a new `PARSER_VERSION`, which hides stored facts from `fingerprints`
but not from `load_all`.

`torn` and `wiped` are history: which trees interrupted runs were writing since the
last completed run. They state when a run must leave exactly its tree (`trust`).

### Sessions and SignIns

`Sessions` has the token documents of one user, and requests that refresh, sign
out, or die between two calls. Tokens are random, so a token is minted once.
`Known` holds the tokens a client may present: those whose insert was answered.
Retries, second tabs and copied tokens are all the same action.

`SignIns` is what the service promises of a sign-in: it begins once, is usable or
being swapped, and is over for good once it is over. `Sessions` implements it
(`ImplementsSignIns`): a family is `swapping` while a request has claimed its
token and not stored the successor, `usable` while it has a live token.

### TargetSync

One sync target of a tracker: its `sync_targets` document, the runs that claim it
(polling, boards opened, requested syncs), the mirrored items, the tracker itself,
and requests that change an item at the tracker first and then here.

Only what the code derives from timestamps is kept:

| variable | code |
|---|---|
| `tracker`, `mirror` | the items at the tracker; `work_items` of this target |
| `recent` | what changed at the tracker within `OVERLAP_MINUTES` |
| `dirty` | what `updated >= last_synced_at - OVERLAP_MINUTES` selects now |
| `target` | `status`; `sync_status`; whether `sync_started_at` is fresh, stale or none; whether `last_synced_at` is set; whether `last_full_sync_at` is none, within the hour or older |
| `run[r].changed` | what `dirty` becomes when the run ends with `last_synced_at = started` |
| `run[r].todo`, `page`, `seen`, `gone` | the pages still to come, the page in hand, what `seen` and `sweep` collected |
| `edit` | a request between its call to the tracker and its write here |
| `overlapped` | history: two runs were in flight at once |

Each fetch of a page, each write of it, the two halves of the sweep, the claim and
the end of a run are actions of their own; `Fail` and `Crash` end a run anywhere. A
page is one item. An item that changes while a run reads may show on a later page
or not.

Two runs are in flight at once when a run outlasts `sync_lock_stale_minutes`
(`SlowRuns`) or when its target is removed and connected again meanwhile:
`add_target` resets `sync_status`, so the new target can be claimed at once. The
late end of the first run then overwrites what the second one recorded; no line of
the repository says what should hold then, and `StaleIsDirty` excuses it.

### DocPush

One page mirrored from a docs source (Confluence), the push loop, the docs sync,
people who edit the page on either side, and the answers they give to a conflict.

| variable | code |
|---|---|
| `page` | the `documents` document: title and content, `push_state`, whether `external_version` is the source's latest (`current`), whether `push_started_at` is older than `STALE_PUSH`, `conflict_title` and `conflict_content` (`kept`) |
| `source` | the page at its source |
| `push[p]` | the locals of `_push` and of the `_take_remote` it calls |
| `sync` | the locals of `_sync` that concern the page: what was stored, what was listed, what was fetched |
| `owed` | history: the last title and text saved here that neither reached the source nor were given up |
| `unseen` | history: the source holds an edit that was never loaded here |

Version numbers only ever grow and are only compared for equality, so every holder
of one knows what matters: whether it is still the latest (`current`), or whether
the page was written since it was read (`moved`). A save with content is one
action, because its version guard makes reading and writing one step; a title alone
neither checks nor counts the version.

`push_done` writes twice, `RecordVersion` and `FinishPush`; a push that hit a
conflict fetches, reads the local edit and stores, in three actions. `PushLater` may
come after the source took the content (an answer that was lost); the page is then
pushed again, refused, and ends in a conflict with its own edit.

`Pushers` are the push loops. The deployment runs one process (`Dockerfile`) and its
loop is sequential, so the runs have one. With two, the end of one push clears the
state of the other's, and `TextKept` does not hold.

Pages that are gone at the source, the shape of the tree, and images are left out.

### Accounts

Two accounts of one person are merged: `users` documents, what each has proven
(`merge_proposals`), the merge's record and its task, and the requests that meet it.
A merge locks both accounts (`LockFirst`, `LockSecond`), writes its record
(`InsertMerge`) and is then one action per write, from `Revoke` (sessions) through
`MoveSeat`, `MoveRows`, `SettleToken` and `TakeMethods` to `FinishMerge` and
`UnlockSurvivor`. `Stop` ends a task before any of them and `Resume` starts it again
from the top, as `resume_stalled` does. Meanwhile requests sign in, refresh, add and
take off sign-in methods and write rows. `late` and `known` are history: what
requests wrote to an account a merge held, and the methods somebody proved.
`MergeSafe` excuses exactly three things the code leaves open: what a request that had
looked before wrote for the absorbed account after it was locked, methods added or taken
off while a merge holds the account (the profile of the snapshots is written over them),
and a method added after the check for conflicts and before the locks.

### Workspaces

One workspace: roles, whose personal one it may be (`creator`), whether it is
deleted, its invites (links, for a GitHub login, for an email), and requests that
change roles, remove, leave, delete, invite, send again, revoke and accept. Each read
and each write of a request is an action of its own, but for the two reads that
authorise it: the target is found (`FindTarget`), the owners are counted
(`KeepAnOwner`), the role is written (`SetRole`, `Remove`); an invite is looked up, its
workspace, the membership, then it is claimed and the person joins. `pending` is the
`pending_email` of the unique index. `crossed` is history: owners were counted while
another request was about to lower a role; `OwnerKeptAlone` excuses what follows,
`last_owner` shows it. `admitted` records whom each invite let in. In `people` an
invite of an initial state is an owner's in a workspace of one member; a workspace
with none has any members, and two when it is somebody's personal one.

### Codes

One account's emailed codes: issue, resend, attempt, redeem, and what redemption
does (verify, reset the password, end the sessions), with sign-ins and password
upgrades that race a reset. A code is a number; 0 is a wrong guess. `tried`,
`redeemed`, `since` and `late` are history.

### Grants

The grant the products of one provider share: the pair stored, the pairs the
provider issued and still takes, connections, and requests that refresh, connect,
disconnect and use it. A refresh token works once, so a refresh whose answer is not
stored loses the pair (`lost`), which no code can prevent; nothing else may.

### RepoAccess

What GitHub lets the App do (`app`), the events it sends of it, in any order and
again when a handler fails, the `repos` documents, connects, disconnects with their
purge, and an index run as far as it asks GitHub and stores: token cache, checkout,
graph, facts. `blurred` and `strewn` are history: events that crossed or were lost,
and disconnects that overlapped something that stores or connects.

### Realtime

The hub's maps, each connection's reader frame by frame, its outbox and writer, the
writes elsewhere that take access away, and the calls that tell the hub of it. What
has no `await` in it is one action. `due` and `got` are history: what was published
while a connection listened, and what its socket was given.

### Chat and Lookups

`Chat` is everything that asks the model: the usage windows taken one write at a time
and given back when a later one is full, the calls with their retries and their
bills, the extra calls counted against the day, and the messages appended to the
conversation. `Lookups` is what one question shows the model: the context laid out
within its budgets, the lookups of a round that run together, and the answer checked
against what was shown. A line of the prompt is what it refers to.

### DecisionChecks and Suggestions

`DecisionChecks` has sources whose texts change, decisions with evidence, the checks
and what else adds evidence, asks for attention or makes vectors. A text is a version
and its own fingerprint; which texts hold which passages, and which sources are close
to which decisions, are constants.

| variable | code |
|---|---|
| `text` | what `service.sources` finds of each source |
| `dec` | the `decisions` documents: status, evidence, numbered sources, `needs_attention` |
| `lease` | `running_until` of `decision_check_settings` |
| `scanned`, `due`, `created` | whether `scanned_until` is set; what `updated_at >= since` and `created_at >= since` select now |
| `read` | `decision_checks`: the fingerprint each source was last read with |
| `embedded` | the fingerprints in `embeddings` |
| `task[t]` | the locals of a check, a scan, a suggest, a read of decisions or an addition |
| `owed`, `missed` | history: what was edited and not yet read; what was edited and not yet found by a check that ran to its end |

A check claims (`Claim`), refreshes attention (`Compare`, `StoreAttention`), reads the
accepted decisions and what they quote (`Look`), what was written and which of it was
`Edited` (`Changed`), stores vectors, relates sources and decisions and compares with
what was read (`Embed`), and then takes a reading of the day's cap, asks and records,
source after source (`TakeCheck`, `Ask`, `Cite` to `AddEvidence`, `Record`); `End` moves
the window if it was not capped, and `Release` gives back the lease. Before the first
check ran to its end the window is the interval before a check starts: `Claim` then
lets any edits fall out of it. At most `MaxSimilar` decisions that are only close, and
at most `MaxPerSource` in all, the strongest first, are kept of a source. A source
without a vector counts as edited only if it is new; without embeddings all that was
written does. The vectors may be stored in part, and nothing is near in meaning when
one could not be made. `_fill_backlog`, a scan and a suggest (`Suggest`,
`RefreshVector`) make vectors too. The decisions and the quoted sources are read in
one step, as are a fingerprint and the text it is compared with.

`Suggestions` has what the AI drafts from a source and what people dismiss.

### Discussion

A decision's messages, sent with a client's id as often as it likes, edited, reacted
to and deleted; files from upload to send, release or sweep; and viewers that keep the
copy with the highest version. `index_jobs` has two instances of it, one with files
and one with reactions.

### DocTree

Folders and pages with their parents, the path and the number of children stored
beside them, archive groups and purges; and the tree a sync builds of a target's
pages. Requests are whole and one at a time. `documents` has one instance of native
nodes and one of mirrored pages.

### PageFormat

A Confluence page in its own format (`page`) and in the editor's (`body`), both
sequences of nodes, and the two conversions of `connectors/adf.py` between them. Each
is recursive in the code; here a node becomes what it does from what the nodes it
holds became, level by level (`Converted`). `TheyWrite`, `TheyReplace` and `Fetch` are
the source's side with the pictures that are copied, the editor's actions put blocks
into others, beside one another, or change them, and `Push` writes the page back.

### GraphStores

Neo4j and the dictionaries that stand in for it, with every read and write of
`db/knowledge_graph_store.py` but those of the interactive view. Both are written the
same deltas; each query is an operator of either, written the way its code finds the
answer, and the property compares the answers.

### NativeBoard and TrackerBoard

`NativeBoard` is the workspace's own board: columns, items, sprints, types and
comments, under requests that read first and write later. `TrackerBoard` is a
tracker's board mirrored here: columns offered, used, followed and declined, items
placed by syncs and by changes made here, comment records. Each read, each call to
the tracker and each write of a sync or a request is an action of its own
(`AskMove`, `Transition`, `Refresh`, `Fetch`, `Store`), so what one read may be stale
when it is used; an item has a new `_id` each time it is inserted, and a request holds
the one it read. Four things are coarser than the code: `place_items` and
`mark_hidden` are one step each, a page is one issue, the board's layouts show some
status, and its sprint field is known. Completing a tracker's sprint and editing or
deleting a comment are left out.

### Extraction, ProjectConfig, Linking, GraphBuild, GraphView

`Extraction` walks a checkout and reads it, in this process or in batches by a pool
whose workers may hang or die, and stores facts. `ProjectConfig` reads the settings
imports are resolved with. `Linking` says what imports and references mean,
`GraphBuild` (which extends it) makes nodes and edges of it, and `GraphView` draws a
view of a stored graph that an index run may replace between two queries.

### Composition

Most of these components share no variable with each other, so their product would
only multiply states. A run that checks several gives each its variables and one
more, `part`, that says which of them a behaviour is of; the others rest.
`MCPeople`, `MCMirrors`, `MCDocuments`, `MCRecovery` and `MCIndexJobs` extend one
component and `INSTANCE` the others; a property of a component is checked, and where
it is proved also proved, of the behaviours of its part. Where components do share
state the sharing is modelled inside a module: a merge ends sessions in `Accounts`, a
reset in `Codes`, leaving a workspace tells the hub in `Realtime`, and a run's purge
and storage meet the connections in `RepoAccess`.

## Runs

| run | components | what it shows |
|---|---|---|
| `index_jobs` | IndexJobs, Discussion (twice) | one index at a time, no delivered push forgotten, statuses follow the lock, the graph never goes back, a requested full rebuild is served; no sent file is swept, viewers end with what is stored |
| `people` | Sessions, Codes, Grants, Workspaces, Accounts, RepoAccess | one usable token per sign-in and sign-out for good, refining `SignIns`; codes bounded and redeemed once; the provider's newest pair kept; an owner kept; an invite admits one; a merge leaves nothing behind; access follows GitHub and a purge leaves nothing |
| `mirrors` | TargetSync, IndexPipeline, Suggestions, TrackerBoard, NativeBoard, GraphView, GraphBuild, ProjectConfig | an item out of date is read again; a completed run leaves exactly its tree and facts are never ahead of the graph; nothing drafted twice or suggested after a dismissal; no item off its board; a graph drawn from what the code says, in a view in which nothing vanishes |
| `documents` | DocPush, Chat, DocTree (twice), PageFormat, Lookups, GraphStores, DecisionChecks | no saved text lost, no edit at the source replaced unseen, the page settles; windows hold, each call billed once; the tree keeps its shape, and a page comes back from the editor as it went; answers cite what was shown, from either store and one repository; what a decision quotes is not taken for read before it was, and no edit leaves the window of the checks unfound |
| `recovery` | Accounts, TargetSync, IndexJobs, Chat, Realtime, DecisionChecks, Extraction, with fairness | merges finish, mirrors catch up, repositories become indexable, questions and readings end, revoked readers stop hearing, broken evidence is flagged; no silent gap, no file unaccounted for |
| `index_lost_request` | IndexJobs | violated: a request recorded between the last look and the release is left on the free lock |
| `index_pipeline_redo` | IndexPipeline | violated: a full rebuild stopped after it wiped the graph is not redone by an incremental sync |
| `sessions_tabs` | Sessions | violated: two tabs refreshing together are taken for theft when the second looks before the first has stored the successor |
| `checks_capped` | DecisionChecks | violated: what a capped check left unread is not picked up by the next one when it was only close in meaning |
| `doc_push_title` | DocPush | violated: a sync that lists a page whose rename is still on its way puts the old title back |
| `accounts_locked` | Accounts | violated: a merge that stops between its locks and its record leaves an account locked for ever |
| `last_owner` | Workspaces | violated: two owners who step down at once leave a workspace with none |

A violated property is what a comment or message of the repository says; the
findings in `PROJECT.json` quote it.

### Bounds

Two tasks, runs or requests race on every pair of calls; a third contender repeats
what the second does, unless the protocol counts them. Where more is needed it is
there: three tokens reach the successor of a successor, three users let one member
outlast two who leave, three ids let a merged account's methods be taken by a third.

- `index_jobs`: 2 tasks, 2 workspaces (the last connection and another), 2 commits
  (an old and a new head), 1 follow-up (which exhausts the drain). Discussion: with files,
  1 sender, 2 messages and 1 file; with reactions, 2 users, 1 message of two texts, 2
  emojis and 3 changes.
- `people`: 3 tokens, 2 requests, 3 others' tokens or users, 2 challenges, 2 attempts,
  1 resend, 2 codes, 3 token pairs, 1 invite sent at most twice, 2 changes at GitHub
  and 2 requests about a repository. Accounts: 3 ids, 2 merges, two
  GitHub accounts and one address. The first account is a member; when it has the row
  the second is an owner, and when the second has the row it is no member.
- `mirrors`: 1 item with 2 contents, 2 overlapping runs, 1 edit, slow runs; 2 paths, one
  content that depends on the other file; five source files with a handful of contents
  each, chosen so that aliases, barrels, routes and default exports meet; a graph of
  eleven nodes and a smaller one that replaces it; a tracker's board of two statuses and
  two layouts with one issue, 2 requests and the tracker's own changes at most 2 between
  them, where a new issue is asked for last, when no other request is under way.
- `documents`: 1 page with 2 titles and 2 texts, 1 push loop, 2 questions against
  windows of one and two, a conversation that is nearly full, trees of four nodes, 2
  lookups; 2 sources, a quoted page and one written later, with 3 texts and 2
  decisions of which each source keeps 1, 2 checks of which one may also be a request,
  2 pieces of evidence, checks only once something is accepted, one decision settled
  before the other changes, and either the later page or two edits of the quoted one
  (no check outlasts its lease or dies here; `recovery` has crashes, the theorem both);
  four source pages that between them have each
  kind of node, up to 8 deep (`Depth`), of which 2 edits at a time make other shapes,
  columns in expands and five columns among them, and at most 4 blocks; a graph of five
  nodes in two repositories, written by deltas that overlap, cut and drop, and asked
  with limits below, at and above what there is.
- `checks_capped`: one page, one decision near it, one check at a time.
- `recovery`: the smallest instances in which something can be interrupted: 1 stop,
  1 removal, 1 tracked item, 1 commit.

In `TargetSync` and `DocPush` items and pages do not influence each other, so one
meets every order of reads and writes. What is proved (below) holds for any number.
Bounds that are not the code's are `Max...` constants marked "bound" in the modules.
Sets of requests, values and tokens are symmetric where no liveness is checked.

`CHECK_DEADLOCK FALSE` where the instance may stop: every token minted, the last
commit pushed, every request of a behaviour made.

### Fairness

Liveness is checked in `recovery` (`MCFairness`) and `documents` (`MCFairSpec`), each
part under its component's own fairness:

- a task or request that can take its next step does (weak fairness): the event loop
  runs every ready task;
- timeouts pass: stale locks, leases, `STALE_PUSH`, a token's lifetime, the age at
  which a socket is asked again;
- a polling loop of `main.py` claims its target if it can again and again (strong
  fairness): it returns to every target for ever, and boards opened by people may keep
  a target busy at one visit but not at every one.

Nothing is assumed to push, connect, edit, ask, fail or crash. `EventuallyMirrors` and
`PageSettles` assume that from some point on only `Routine` steps are taken: no
changes, failures, crashes or removals.

## What the code does that its text does not say

Besides the findings, the models show, and their properties excuse by name (through
the history variables), the following. None contradicts a line of the repository.

- `suggest.py`: a dismissal deletes the draft first and records it later, and a suggest
  in between drafts it again; a text read before the lease is asked about twice.
- `checks.py`: besides the day's cap (`checks_capped`), whatever comes between the vector of
  an edited source and its reading loses an edit that is only close in meaning, or that only
  names what a decision quotes: a failing AI, a process that dies, a suggest
  (`suggest.py:90`) or a filled backlog that stores the vector first. An edit of what
  a decision quotes or is linked to is found again without its vector. A source with more
  than `MAX_DECISIONS_PER_SOURCE` (8) decisions is recorded as read although the rest were
  not shown with it, until its text changes again. A source never read counts as read
  when a decision quotes it as it is (`checks.py:284`), also for the other decisions it
  relates to. An edit that a check found before a decision that quotes it was accepted
  is recorded as read without that decision (`SeenByChecks`; its scan skips what it
  quotes). Before the first check ran to its end, what was edited longer ago than the
  interval is not looked at (`checks.py:242`).
- `connectors/sync.py:58`: a full sync requested while a full run is in progress is
  erased when that run sets `last_full_sync_at`; the next full sync, due within the
  hour, makes up for it.
- `decision_comments`: a crash between claiming files and inserting the message, or
  between deleting one and listing its files, leaves files nobody removes; removing a
  reaction prunes groups without a new version.
- `documents/service.py`: moving children out of an archived folder, or restoring to the
  top level, leaves archived nodes with the old path, which can strand what is restored
  under them; an emptied folder keeps its count after a restore; a mirrored page
  archived here does not come back with the next sync; overlapping requests leave
  counts wrong.
- `github/service.py:123`: two disconnects at once each see the other, and nothing is
  purged. A connection indexed during a purge says DONE without a graph. An unsuspend
  marks the connections of deselected repositories active; events that cross leave the
  access of the one applied last; a handler that dies after recording the delivery
  loses the event.
- `view/lod.py`: methods of a shut class are drawn against the open file.
- `boards`, `sprints`, `work_items`: a done item of a completed sprint that is reopened is
  in no open sprint and not in the backlog; column, sprint and type changes race item
  writes, which then hold removed columns, closed sprints or deleted types; a comment
  written across a deletion outlives its item. `keep_default` and
  `use_tracker_columns` act on the offer they read, which a sync may have replaced.
- `knowledge_graph_store.py`: of a node its own edges lead back to, Neo4j alone says
  it is its own neighbour; a limit on neighbours counts nodes in one store and paths in
  the other, and which of equally used edges it leaves out may differ.
- linking: requests and handlers of one key collapse to the last; a renamed import binds
  the original name; a change of configuration alone never reaches the graph in an
  incremental run.
- `extract/pool.py`: a worker that dies breaks the pool, the rest of its batch is
  recorded as failed, and the next batch's submission raises; files never started are
  recorded as timeouts; a small batch is read in this process without a limit.
- `project_config.py`: a root that declares no `baseUrl` has `""`, so bare specifiers
  also resolve at the root; below it an unreadable `tsconfig.json` hides a
  `jsconfig.json`.

## Proofs

Seventeen components are proved about. Each proof module starts from an inductive
invariant, the conjunction of the types and of what makes the property inductive,
shows it for `Init` and for each action of `Next`, and ends in the theorems below.

`IndexJobsProofs` proves of `IndexJobs`, for every set of tasks and workspaces and
every bound:

- `TypeCorrect`: `Spec => []TypeOK`.
- with `~SlowRuns`: `OneIndex` (`OneIndexAtATime`), `PushesSurvive`
  (`PushesNotForgotten`), `StatusAgrees` (`StatusFollowsLock`), `GraphMonotone`
  (`GraphNeverGoesBack`) and `FullNotDowngraded` (`FullIsServed`).

`Inv` is the conjunction of `TypeOK`, `OneIndexAtATime`, `InOrder` and `PushInv`.
`OneIndexAtATime` is inductive with the types: a claim needs a lock that is not fresh,
and then nobody holds it. `InOrder` orders the numbers a run carries: the graph, the
commit checked out and the excused pushes are never ahead of the branch.
`PushesNotForgotten` is not inductive: a task about to read the head answers a push
only if it will read a head that is not older, and a task past the read only with
what it read. `PushInv` therefore says of each delivered push who answers for it
(`Answers`), and the proof follows each action that takes an answer away to the one
that gives another. `GraphNeverGoesBack` and `FullIsServed` are step properties: what a
holder is about to write is at least what is in the graph, and what it took off the
lock is what it runs. `StatusInv` says which statuses go with each place a task may
be in.

`TargetSyncProofs` proves of `TargetSync`, for every set of items, contents, runs and
requests, whether or not runs may be slow: `TypeCorrect` and `StaleItemsAreDirty`
(`StaleIsDirty`). The latter is not inductive: what a run is about to write decides it.
`RecentInv` says that every run in flight will leave dirty what is within the overlap;
`EditInv` that a request in flight can only undo a change within the overlap, because
it writes what it fetched sooner than that; and `RunInv` follows the only run in flight
through its pages: an item that is out of date has changed since the run started, or is
on a page to come, or on the page in hand, and what the sweep is about to drop is gone
at the tracker or has changed since. When the run ends, only what changed is left, and
that is what becomes dirty.

`DocPushProofs` proves of `DocPush`, for every set of titles and texts: `TypeCorrect` and
`TheirsAreSeen` (`TheirsSeenFirst`) for any number of push loops, and `TextsSurvive`
(`TextKept`) with at most one. `Typed` adds to `TypeOK` that a push carries one content
where the page will take it from. `Behind` says that while an edit at the source was
never shown, neither the page nor a push about to send or to record holds the latest
version: then the source refuses what is sent. `KeptInv` makes `TextKept` inductive:
while the page is as a push marked it, that push sends its text (`Faithful`), so what it
has sent is all that was owed when it clears the state; and a sync fetches nothing for
a page whose edits are on their way (`Fetching`), so what it stores replaces no edit.

`PeopleProofs` proves of `Sessions`, for every set of tokens and requests:
`TypeCorrect`, `OneToken` (`OneTokenPerSignIn`), `ChainsExtend` (`SwapExtendsChain`),
`SignedOutStays` (`SignedOutForGood`) and the refinement `SessionsImplementSignIns`
(`Spec => ImplementsSignIns`). A family is a chain: every token but the last is revoked
and names its successor. `ReqInv` and `ChainInv` say what each request holds of it: one
that claimed the last token owns the right to append, nobody else will, and the token
it minted is stored nowhere. `EndedInv` keeps an ended family ended but for what such a
request may still append, which `SignedOutForGood` states. For the refinement each
action is shown to begin, swap or end one sign-in, or to stutter.

Then it proves of the composition `MCPeople` that each component's part keeps its
invariant. `PartStep` reduces a step of the composition to a step of one component.

- `GrantsKeepToken` (`TokenKept`; `GrantsTokenKept` of `Grants` by itself) assumes
  `MaxTokens \in Nat`. `HeldInv` follows the newest pair: it is stored, or a
  request that will store it holds it, or it was lost or revoked.
- `OwnerStays` (`OwnerKeptAlone`) and `InviteAdmits` (`InviteAdmitsOne`) assume that
  `None` is no user. `OwnerInv` says that unless requests crossed, some owner is the
  target of no request about to lower a role: counting more than one leaves another
  (`MemberCounts`). `Asked` keeps what a request found of its invite until it writes,
  and `InviteInv` adds that whoever was admitted is whom the invite records.
- `CodesAreSafe` (`CodesSafe`) assumes that the limits are numbers and `None` is no
  purpose. `Counted` ties the guesses counted to the attempts stored, `UsedUp` says
  that a redeemed challenge is gone, `Looks` what a request that has looked may rely on,
  and `SignedIn` which sessions may outlive a reset.

Then comes `RepoAccess`, for any number of workspaces: `AccessFollowsGitHub` (`AccessSafe`; `AccessIsFollowed` of
`RepoAccess` by itself) assumes that `None` is no connection. GitHub's events may be
delivered in any order, so what a connection shows is not what GitHub shows. `Followed`
keeps the history of the installation, `h[0]` to `h[changes]`, with one state per event:
while no event was applied out of order, there is a `k` such that the events not yet
applied are exactly the later ones (`ToldFrom`), and every connection, and every
connect that has asked, is as one of the states from `k` on would have it (`Shown`).
When nothing is pending `k` is `changes` and they are as GitHub is. `PurgeInv` and
`StoredInv` follow the disconnects: one that counted itself the last is alone, one that
counted another leaves somebody, and what has been removed is what its purge has come to.

And `Accounts`, for any accounts, merges, requests and rows: `MergesLeaveNothing` (`MergeSafe`;
`MergesAreSafe` of `Accounts` by itself) assumes `MergeConstants`: `None` is no request, account
or sign-in method, and the ids of accounts are ordered, as the ids of documents are. A merge
that ran has no memory but its record, so `MergeInv` says for each place of its task what holds
of the record (`RecordInv`), of the two locks (`StandInv`: the survivor stays held while the
merge runs, the absorbed account is held or gone), and of what has been moved (`MovedInv`: what
the task is past, or was past before it stopped, is no longer the absorbed account's, but for
`late`). A run that is resumed starts from the top, where `MovedInv` asks nothing, and
everything is moved again before the merge is done. `SnapshotInv` keeps the methods of both
accounts equal to those of the snapshots until the merge frees them and gives them to the
survivor, while nobody changed an account that is held. From it `MethodsInv` follows each
method: it is an account's, or on the record of a merge that runs. `UniqueInv` is the unique
indexes. `AskedInv` types what a request and a proposal carry, so that no account is proven by
itself.

`MethodsInv` is where the proof changed the model's property. It needs the snapshots of a
merge to agree, and they need not: `service.py:85` looks for conflicts before the locks are
taken, the snapshots are read after, and a method added in between makes the two accounts
disagree. `merged_profile` (`merge.py:56`) then keeps the survivor's method and drops the
absorbed account's, though its docstring says "whichever sign-in methods either account
had": a sign-in with that GitHub account then makes a new, empty user. With two, TLC
finds it in 23 states; `MethodsKept` now excuses it by name (`Conflicts`), and `people`
checks it with two GitHub accounts.

`MirrorParts` proves four components that `MCMirrors` runs beside `TargetSync`, each by
itself and for any constants; `TargetSyncProofs` instantiates it and concludes of the
composition, whose `MCSpec` implies a component's `Spec` as long as the component moves.

- `PipelineMirrors` and `GraphComesFirst` (in the composition `PipelineKeepsItsPromise`
  for `CompletedRunMirrors` and `PipelineStoresLast` for `GraphBeforeFacts`) assume
  `PipelineConstants`: there is a path, a file that imports is a file, no content is
  `Absent`. `CompletedRunMirrors` is not inductive, since interrupted runs leave the graph
  half written. `Knows` says when a run can tell what is in the graph it writes to;
  `Between` that the graph has nothing but what the facts or one tree say, and all that
  both do; `PlanInv`, `FactsInv` and `GraphInv` how far the run's writes have come, and
  `IdleInv` what holds between runs.
- `SuggestionsKeepTheirPromise` (`DraftsKeepTheirPromise` for `SuggestionsSafe`) assumes
  `DraftConstants`: texts are numbers, one is the first, none is `None`. `TaskInv` says
  what a suggest has read and means to mark, `SaidInv` that it knows what had been
  dismissed when it took its lease, and, for suggests that end within their lease,
  `LeaseInv` that the lease is one suggest's, whose text is no older than what was drafted
  from and which knows what decisions quote of its source. `FinishedInv` keeps on record
  the last text that was drafted from.

- `BoardMirrorsTracker` (with the next, `BoardsAreSafe` for `BoardsSafe`) assumes
  `BoardConstants`: the tracker has a first status, and `None` is no layout, issue, card
  or page. `MirrorPlaced` says nothing of what is half-way, so `PlacedInv` says what is
  left to do: while `calm` holds, either nothing is under way and the items are placed, or
  one sync is alone, and what it has listed, has yet to list and is about to drop make up
  the tracker's issues, or one request is alone, and the only issue out of place is the one
  it has in hand. `ColumnsInv` settles which columns each sync and request read while those
  in use changed, and what a decline puts on record; `RecordsInv` that a comment's item is
  here unless whoever removed it has yet to remove the comment.
- `OwnBoardLosesNothing` assumes `OwnConstants`: each of the first columns has an id of its
  own, `Task` and `Bug` are names of types, and `None` is no item, sprint, name or number.
  `NothingLost` holds while nobody is at work; `ArrangedInv`, `ScheduledInv`,
  `TypedInv` and `CommentsInv` say the same of each item at any time, unless it is astray, and
  of each request under way what it has read and nobody changed since: a rearrangement that
  is alone has moved what it has moved to the columns it is about to write, a completion
  holds every open item of its sprint among those to move, a deletion of a type has or will
  reassign what has it. `ActiveInv` is the unique index on the active sprint. That the
  default type is one (`DefaultType` chooses the oldest) takes a least element of a set of
  numbers, by well-founded induction.

`DocumentParts` does the same for what `MCDocuments` runs beside `DocPush`, and
`DocPushProofs` concludes of the composition.

- `ChatKeepsItsPromise` (`ChatKeepsItsWord` for `ChatSafe`) assumes `ChatConstants`: the
  requests are finitely many, the limits are numbers, a conversation has room for a pair.
  `WindowInv` says that a counter is the number of the pairs `Held` of its window and that
  nothing is held of one that does not exist yet, so that whoever inserts it may start at
  one; `PlanInv` that a request takes its windows in their order and calls the provider
  only with all of them, and that each further call follows a lookup; `CallInv` that a call
  is made for each count of the day and is billed now or later, never both.

`DecisionProofs` proves of `DecisionChecks`, for any sources, decisions, texts, checks and
requests, what `ChecksSafe` says; `DocPushProofs` concludes of the composition
(`ChecksKeepTheirWord`, which only needs that `None` is no text). `CheckConstants` asks that
texts are numbers with a first, none of them `None`, that what they say are passages, that
`Near` pairs sources with decisions, and that the limits are numbers.

- `NumbersStay` (`EvidenceSound`) holds however slow a check is. `Numbered` says that a
  decision's sources are distinct and that each item of evidence quotes one of them;
  `Shape` what a task holds at each place, so that an addition writes the numbers it saw
  only while they are the latest. `Alone` has one check at a time, with the lease, and is
  the part that assumes `~SlowRuns`, as `EvidenceSound` does.
- `EditsRead` (`EditsAreRead` and `EditsAreListed`) assumes nothing of how long a check
  takes or how many overlap. An edit is owed to each accepted decision that quotes the
  source, until a check that read it as it is with that decision, or with `MaxPerSource`
  others, records it, the source goes, or the decision no longer quotes it. `EditsAreRead`
  says that what is owed is not on record as read, and excuses nothing a cap leaves unread.
  It is not inductive, since a check records what it read earlier. `Ordered` says that
  what a check found is what the source says or said before (`Past`). `Shown` says of a
  check that has yet to relate sources and decisions that it saw the decision of whatever
  is owed quote it, unless it found another text. `Reads` carries that over to what it has
  left to read: a source it will record as it is now it reads with every decision that is
  owed, or with as many as a reading takes. `OwedInv` says what can be owed: the decision is
  accepted and quotes the source, which is there and was not read as it is. `Listed` says
  that what no finished check found is among what a check under way found or on the list
  of what changed since it began; so the window can move to where any check started, in
  whatever order they end, and `missed \subseteq due` is kept.

`DiscussionProofs` proves of `Discussion` (`DiscussionKeeps`), and `IndexJobsProofs` of
both of its instances in `MCIndexJobs` (`DiscussionsAreSafe`), what `DiscussionSafe` says,
for any users, messages, files, emojis and requests. It assumes `DiscussionConstants`:
`None` is nothing else that a variable holds, the requests are finitely many, and no
request dies (`MaxCrashes = 0`, as in the run). `FileInv` says that what is being
removed, or is due for it, is `Expendable`: no message that is there needs it. `SentInv`
gives a file to one message from the moment its record is claimed, and `UploadInv` an
upload the files that nobody else has. `VersionInv` bounds a message's version by those
who may still change it, so that it is never at the bound when a change is made.
`ViewInv` is what makes the viewers catch up inductive: a viewer has nothing newer than
what is stored, and while it does not have the latest change, or that the message is
gone, whoever made that change is on the way to tell (`Tells`, `TellsGone`).

`IndexJobsProofs` also proves of `Realtime` by itself that its sockets miss nothing
(`HubMissesNothing`: `TypeOK` and `NoSilentGap`), for any users, topics and events. It
assumes `HubConstants`: there are finitely many sockets and topics, an outbox has room for a
frame, `None` is no user. `InTurn` says of a socket that is not being closed that the events
written to it, then those that wait among the control frames, rise and are the events it
is due: an event that is published is later than all of them, and a frame that is written
goes from the head of the one to the end of the other. `Fits` keeps an outbox within its size,
or to the close alone. `HeardInv` ties the hub's lists of listeners to the topics of each
socket, so that who is due an event is who is sent it, and `PlaceInv` that only a socket
somebody has is on a topic. `NoSilentGap` says "in order" of the two queues by their places,
where a filtered sequence would need induction.

## Only model-checked

Liveness (`MergesFinish`, `EavesdropEnds`, `EventuallyMirrors`, `EventuallyRetryable`,
`TasksEnd`, `AttentionAsked`, `PageSettles`) rests on fairness and `ENABLED`, which are
beyond the prover. So is what a recursive definition computes for every input, which takes induction over
data: the folds of `GraphView`, `DocTree`, `PageFormat`, `Lookups` and `GraphStores` (`GraphSound`, `TreeSafe`,
`AnswersSound`). No module declares a `RECURSIVE` operator, since tlapm loses its SMT
solver in every module that reaches one: they are recursive functions and folds.
`NothingSilent` stays checked too: of its two halves, that of `Realtime` is
`HubMissesNothing`, and that of `Extraction` counts and walks files with folds. Every other
invariant and action property of a passing run is the subject of a theorem.

## Not modelled, and the plan

Of the connectors, `TargetSync` leaves out boards' columns and details (`TrackerBoard` has
those), sprints and `set_sprint`, which writes the sprint it asked for instead of
reading it back. Not modelled at all: syntax trees, prompts, rankings, wording, the
adapters of storage, mail, HTTP and git, link previews, the waitlist. Each component's
note in `PROJECT.json` says what is left out of it.

Planned: the records of `connectors/jira.py` and the Markdown
of `connectors/adf.py`.
