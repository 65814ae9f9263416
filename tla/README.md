# Formal models of ConvHub

TLA+ modules that follow ConvHub's source, TLC runs that check them on small
instances, and TLAPS proofs of what matters most for every instance.  All paths
are relative to the repository's root.

## 1. The system

ConvHub keeps AI conversations of a team in a PostgreSQL database behind a
FastAPI server (`backend/app`), shows them in a React client (`frontend`), and
collects the transcripts of external AI tools through plugins
(`plugins/claude`).

The server is asynchronous.  Every request has one database session
(`db/session.py`, `api/deps.py`): READ COMMITTED, no autoflush, rows cached in
the identity map and not refreshed by later reads, written back with absolute
values.  No service takes a row lock before it reads.  So between any two
statements of a request other requests may commit, and a value read early may be
out of date when it is written back.  That, clients that die or give up in the
middle of a request, and operations made of several transactions are where this
code is hard; nearly every hazard listed in `PROJECT.json` is one of these.

| component (source) | state it keeps | operations | interacts with | what makes it correct |
|---|---|---|---|---|
| Transcript sync, server (`external_ai_sessions`, `transcript_snapshots`) | sessions with status and `last_synced_offset`, chunks, one snapshot per session | connect, upload, disconnect, get, snapshot | plugin, repository memory | chunks join up to the offset; the snapshot joins all chunks; closed sessions take no more; one ACTIVE session per machine |
| Claude plugin (`plugins/claude`) | `~/.convhub/state.json`: session id, offset, sequence number, transcript path, dirty | five hooks, `convhub push`, `pull`, each a process of its own | server over HTTP, Claude Code's transcript file | never ahead of the server; everything pending is eventually sent; recovers from kills and lost replies |
| AI gateway (`ai/gateway.py`), budgets (`resource_management`) | budgets per member, ledger, AI requests | generate: reserve, call, reconcile, refund; allocate, adjust, monthly reset | routing, resource sharing, providers, conversations | no credit appears or disappears; the ledger explains every budget; a hard limit holds |
| Resource sharing (`resource_sharing`) | lending preferences, borrow records | find lender, reserve, record, release | gateway | a lender's limit holds; failed borrows are returned exactly once |
| Branch memory and sync (`branch_memory`, `sync`) | one memory per repository branch, append-only sync records with versions | sync for attach, detach, commit, restore; register push; state | repositories, commits, developer sessions, repository memory | versions count up without gap; records continue one another; a digest describes one record |
| Repositories and branches (`repositories`, `repository_branches`) | repositories, branches, default flag, attachment of conversations | attach, detach, delete, default, rename, archive | branch memory | a repository keeps a default branch |
| Conversations (`conversations`) | conversations, participants, messages, checkpoints, branches | create, message, branch, archive, participants | gateway, commits, realtime | an owner takes part in his conversation; a branch is a prefix of where it comes from |
| Commits, packages, restore (`conversations/commits.py`, `context_packages.py`, `restore.py`) | commits, context packages | checkpoint, commit, package, restore | conversations, branch memory | no message said before a commit is missing from the packages of its line; the graph is a forest |
| Developer sessions (`workspace_sessions`, `workspace_client`) | session status and heartbeat | connect, heartbeat, push, close, sweep | sync | a session closed before a request began is not touched by it |
| Realtime (`realtime`) | connections, subscriptions, presence, typing in memory | connect, subscribe, typing, broadcast, expiry, heartbeat | all services | nobody is online without a connection; the indexes agree; dead connections and stale typing go away |
| Workspaces, invitations (`workspaces`) | members, invitations | create, invite, refresh link, accept, expire | budgets | an invitation makes one member, whole (role, budget, preference) or not at all |
| Routing (`routing`), AI accounts (`ai_accounts`) | accounts with keys and spending, policy, demo override | create, update, delete account; settings; read, choose, use | gateway | a request runs on an account of its owner; an account that is switched off is taken up by nobody |
| Authentication (`auth`) | users, refresh tokens | register, login, refresh, logout | - | a token renewed or logged out is never renewed again |
| Repository memory, pull packages, handoff (`repository_memory`, `pull_packages`, `adapters/claude`) | aggregates and their versions | rebuild, read, render | branch memory, transcript sync | an aggregate is that of its sources |
| Projects (`projects`) | projects, the default one | create, change, delete, resolve | workspaces, conversations | every conversation is in a project that exists |
| Insights (`conversations/insights.py`) | none: views | branch tree, overview, commit graph, compare | conversations, commits | the views of one family agree |
| Demo, settings, frontend, migrations, scripts | plain records, UI | - | - | see section 8 |

## 2. Plan

Done, the most consequential first:

1. `ExternalSessions`, `TranscriptSync`: server and plugin, with the abstract log
   `TranscriptLog` they implement, checked and proved.
2. `Budgets`, `Gateway`: credits, from the choice of an account to the
   reconciliation of its cost, with the ledger `CreditBook` they implement,
   checked for concurrent requests and proved.
3. `BranchMemory`: repositories, branches, sync records and digests, with the
   append-only `SyncHistory` they implement, checked and proved.
4. `Conversations`, `Insights`: messages, commits, packages, branches, restored
   conversations and the views of them, checked and (all but the totals) proved.
5. `Hub`: the realtime hub, safety and liveness, checked; its safety proved.
6. `Routing`: AI accounts and the choice among them, checked and proved.
7. `Workspaces`, `DeveloperSessions`, `Logins`: checked and proved.

Left: the splitting of UTF-8 sequences between transcript deltas; the sections of a pull
package.

Every module declares its parameters as CONSTANTS with named assumptions, has one
action per operation or per part of it between two commits, states invariants as
conjunctions of named parts and uses no RECURSIVE operator.

## 3. Modules

**`ExternalSessions`** is the server side.  `status`, `synced`, `chunks` and
`snapshot` are the columns and tables of sessions, chunks and snapshots;
`created` numbers sessions in the order of `started_at`.  `req[k]` is the request
in slot k together with what its handler has read: `phase` is the point the
handler is at.  A handler is cut where another transaction can commit in between:

| code | actions |
|---|---|
| `connect` | `ConnectFind` (look for an ACTIVE session, construct one otherwise), `ConnectCreate` (its commit), `ConnectRefresh` (the row read again), `EnsureSnapshot`, `RebuildRead`, `RebuildPublish`, `Respond` |
| `upload_chunk` | `UploadLoad` (row, status, offset), `UploadCheck` (sequence number), `UploadAppend` (chunk, offset and snapshot in one commit, or the unique constraint) |
| `disconnect` | `DisconnectLoad`, `DisconnectCommit` |
| `get_session`, `get_snapshot` | `GetSession`; `EnsureSnapshot` as in connect |
| rollback in `get_db` | `ServerFail` |

All sessions of a model belong to one (provider, repository, branch, user,
machine), the key `connect` searches by.  A chunk is the triple (file, start,
end): its content is what the file holds there.  Lookups that can only answer 404
are left out, as are `snapshot_version`, `ended_at` and the conversation of a
session, which no decision depends on.

**`TranscriptSync`** adds the plugin: `disk` is state.json, `size[f]` the bytes
Claude Code has written to file f, and `proc[p]` a hook or push process with its
copy `st` of the state.  A process is cut at each access to the state file and at
each request and reply; its `pc` says what it does next.  `Begin...` are the five
hooks and push up to their first such point, `Save` is save_state with the
continuation of each handler, `Flush...` the three ways through
`flush_transcript`, and every request has an action that sends it (`Connect`,
`FlushUpload`, `Disconnect`, `Verify`, `Fetch`) and one that takes its reply
(`Connected`, `Uploaded`, `Disconnected`, `Verified`, `Fetched`, or `Rejected` for
an error).  `GiveUp` is a timeout or broken connection, `Unreachable` the URLError
that `handle_session_end` catches, `Kill` the 30 s limit of a hook or a user's
interrupt.  After `GiveUp` or `Kill` the request stays in its slot and the handler
runs on; `Discard` frees the slot at the end, or drops a request that never
arrived.

**`TranscriptLog`** is what the two promise: sessions open once and close once,
and each is a log that grows only at its end, each piece starting where the log
ends.  `TranscriptSync!LogSpec` is that specification under the mapping
`state <- status`, `log <- chunks`.

**`Budgets`** is the arithmetic of one row of `user_budgets`: what a charge, an
adjustment, a loan, its release and a monthly renewal make of it, who may lend and
who is preferred.  `Overwrite` is what SQLAlchemy's UPDATE does: it writes the
columns the session changed, with absolute values, and leaves the others.

**`Gateway`** is `AIGateway.generate` with `BudgetService` and `BorrowEngine`, for
several chat requests.  `db` holds the committed rows, `draft[u]` the row as the
request that has locked it (`lock[u]`) has left it, `flow` and `grants` the
committed ledger summed by member, `spent` the accounts' `monthly_spent`.
`req[r]` is a request: where it is (`pc`), what it has read (`mine`, `seen`), whom
it borrows from (`acct`, `lender`), the month when it last read rows and
`reset_if_needed` judged them (`today`; the month may end before they are written), and its
uncommitted ledger rows (`net`, `allocs`).  A request is one transaction, cut at every read, at every UPDATE and
at the provider's call:

| code | actions |
|---|---|
| `generate` up to the charge | `Begin`, `Quote`, `Check` |
| `_resolve_borrowed_routing` | `Route`, `Pick`, `NoProvider` |
| `reserve_shared_credits` | `Reserve`, `Match`, `NoLender`, `Lend` (the two UPDATEs of a flush, by key) |
| `consume_credits` | `Consume`, `Charge`, `CannotCharge` |
| `reset_if_needed` | `RenewAuthor`, `RenewLender` |
| the provider's answer | `Succeed`, `RetryBorrowing`, `GiveUp` |
| rollback in `get_db`, PostgreSQL | `Fault`, `AbortDeadlocked` |

An answer is one action although it changes several rows, because the rows are
locked by then (`CallHoldsRows`) and nobody sees them before the commit.  What the
identity map does matters twice: without hard enforcement the budget read for the
warning is still referenced when `consume_credits` reads again, so the old values
are used (`kept`); with it the row is read anew.  Limits, preferences and account
ownership are constants; the two settings of a workspace that `generate` loads once
are chosen for each request.  Free providers (estimate and cost zero) touch no
budget and are left out.

**`CreditBook`** is what the ledger promises: each request ends once, and leaves its
whole effect (its cost, and one loan if it borrowed) or none.

**`BranchMemory`** has one slot per HTTP request and cuts a request at its commits
and where something it read may be stale when it is used.  `records[b]` is
`branch_sync_records` in insertion order, `memory[b]` the counters of `branch_memories`,
`digest[b]` the row of `repository_memories`; a request carries what it read
(`branch`, `seen`, `repo`, `marks`, `read`).  Commits become visible in the order of
`commits`, but carry their `created_at` and their package's `generated_at`, which
`create_commit` takes at two moments before its commit (`TakeTime`, from `clock`): of
commits that overlap, any order of the three can result.  `NewestCommit` and
`NewestPackage` are the two queries, each by its own timestamp.

| code | actions |
|---|---|
| `sync_for_conversation`, `_resolve_default_branch`, `_append_sync_record` | `Resolve`, `OpenDefault`, `AppendRecord` (refused by the unique constraint when the version read has been used) |
| `build_repository_memory` | `ReadForDigest`, `Publish` |
| `attach_to_conversation`, `detach_from_conversation` | `Attach`, `WriteAttach`, `Refresh`; `Detach`, `WriteDetach`, `Collect`, `DropAll` |
| `enable_coding`, `disable_coding` | `EnableCoding`; `DisableCoding`, `WriteDisable` (no record is written) |
| `create_commit`, `create_branch`, `restore` | `CreateCommit`, `TakeTime` (twice), `WriteCommit`; `Fork`, `WriteFork`; `Restore`, `WriteRestore` |
| `register_push` | `Push`, `PushRead` (commit and package in two queries), `AppendRecord` |
| repositories and branches | `CreateRepository` ... `DeleteRepository`, `WriteDelete`; `CreateBranch`, `WriteBranch`, `RenameBranch`, `ArchiveBranch`, `RestoreBranch`, `DeleteBranch`, `WritePrune` |
| `get_memory`, pull packages | `ReadDigest` |

A push names a commit or a package, not both; users, notes and `convhub_branch_id` are
left out.  **`SyncHistory`** is what the records promise: opened once by an attach,
growing at the end, each record continuing the one before it.

**`Conversations`** keeps conversations, participants, messages and commits as sequences
in the order of commit; `time` is `created_at`.  `Send` (`ai/service.send`) stores the
question, waits and stores the answer with its checkpoint and commit; the answer carries
the time right after its question however late it comes.  `CreateCommit`, `TakeTime`,
`ReadPackage` and `WriteCommit` are `create_commit` cut between choosing the parent, taking
`created_at`, cutting the package and committing.  `InOrder` sorts by `Rank`, the number of messages not later.  `Branch` and `Restore` read and write in one step.  Texts are
assumed distinct, two rows never have the same time, and titles, activity and renaming
are left out.  **`Insights`** computes from these tables what `get_branch_tree`,
`get_family_overview`, `get_commit_graph` and `compare` return.

**`Hub`** is the process-wide `WebSocketManager` on one event loop: a step is what lies
between two awaits.  `connections`, the three indexes, `presence` and `typing` are its
dictionaries, `handler[c]` the coroutine of a connection, `scans[t]` the stack of
presence broadcasts coroutine t is in, `expiry` the typing loop.  `ScanBreaks` is the
RuntimeError of a dictionary that grew while it was iterated over; `SendFails` the
removal of a client by whoever fails to reach it; `Die` a client that vanishes;
`Malformed` a message that is
no JSON or names no room and ends its handler; `Publish` stands for a broadcast by any
other request.

**`Routing`** has the AI accounts, the workspace's routing settings and the requests
that choose an account: `Bind` (`bind_workspace_demo_context`), `ReadSettings`,
`ReadAccounts` (`load_user_accounts`, `filter_healthy_accounts`), `Choose`
(`AccountRoutingOrchestrator.select` with the four policies, the sender-first resolver and
the demo override), `Use` (the `AIRequest` row, whose foreign key keeps the account from
being deleted), `Complete` or `Fail`.  `Key` is the tuple each policy sorts by.  The
gateway passes no provider, so the provider filter is not part of it; a request that goes
on with a lender's account after the sender's failed is a further request here.

**`Workspaces`**, **`DeveloperSessions`** and **`Logins`** follow one pattern: an action
that checks what a request reads (`Invite`, `Accept`, `DeleteProject`, `Heartbeat`,
`MarkIdle`, `Refresh`, ...) and one that writes (`Write...`), where unique indexes and
foreign keys refuse the whole transaction.

The **`MC...`** modules hold the finite values of the constants; `MCAccounts` also puts
`Routing`, `Workspaces`, `DeveloperSessions` and `Logins`, which share no table, side by
side: a behaviour is one of the four.  The **`..._proofs`** modules hold the proofs about
the module of that name (section 7).

Operators commented "Mutant" are plausible bugs of the definition after them; a
run with the mutant in its place violates the property it is meant for, which
shows that the property is able to fail.

## 4. Runs

Passing:

| run | instance | shows |
|---|---|---|
| `sync_serial` | 1 process, 1 slot, 2 sessions, 3 bytes, all events, payloads with and without a path, all faults | `SnapshotMatchesChunks`, `SingleActiveSession`, `PushSynchronizes` and `NoUploadAfterClose`, which hold as long as processes do not overlap; `StartRealigns`: a SessionStart leaves exactly the server's offset and sequence number, whatever was killed or lost before |
| `sync_race` | 2 processes, 2 slots, 1 session, 2 bytes, no faults | `Contiguous`, `NeverAhead`, `PushUploadsTranscript` and the inductive invariant `SyncInv` when processes overlap |
| `sync_orphan` | 1 process, 2 slots, all faults | handlers that outlive their client race with the next process; the abstract log is still implemented |
| `sync_live` | 1 process, fairness, pushes repeated | `PushDelivers` |
| `credits_serial` | 2 requests one at a time, 3 members of whom one only lends and one has no account, 2 month ends, all settings, all failures | `CacheCoversLedger`, `LenderKeepsReserve`, `AllocatedOnce` and `AccountSpendGrows`, which hold as long as requests do not overlap |
| `credits_race` | 2 requests at once, 2 members who may lend to each other, 1 month end | `WithinShare`, `LendsAboveFloor` and `OverdrawnKnowingly` hold in every interleaving, stale writes included; the ledger implements `CreditBook`; the invariant `CreditInv` |
| `credits_live` | 2 requests at once, fairness | `Answered`: retries are bounded and deadlocks are broken |
| `memory` | 2 requests at once, 4 in all, 2 repositories, 2 branches, 2 conversations, 2 commits | `VersionsAgree`, `DigestDescribesRecord`, `ConflictHasCause`, `KeepsDefault`; the records implement `SyncHistory`; the inductive invariant `MemoryInv` |
| `conversations` | 2 requests at once, 5 in all, 2 members, 3 conversations, messages and commits | `PackagesComplete`, `BranchIsPrefix`, `CommitGraphIsForest`, `TotalsAgree`, `OwnerParticipates`; the inductive invariant `ConversationsInv` |
| `live` | 2 connections of 1 or 2 users, 2 workspaces, 1 conversation, 3 messages, fairness | `HubInv`; `DeadConnectionsLeave`, `TypingEnds` |
| `accounts` | one of: 2 routed requests with 2 members, 2 accounts and 4 requests and events; a workspace with 3 invitations, 2 projects; 2 sessions and 4 points of time; 3 tokens | `RunsOnOwner`; `RetiredStaysUnused`: an account switched off while requests are on their way is taken up by no further one; `AccountsInv` (the four components' invariants), `AccountsSteps` (`ClosedStaysClosed`, `RevokedStaysRevoked`) |

A disagreement of the code with its own words:

| run | the repository says | the code |
|---|---|---|
| `failed_borrow` | ADR-006-credit-ledger.md:44, the budget is a cache of the ledger | a failed borrowed request leaves credits that no ledger row gave |

Bounds, transcripts.  `MaxSize` and `MaxSessions` bound bytes and sessions; 2 bytes
give one chunk or two, a partial upload followed by another, and a conflict at a
nonzero offset; 2 sessions give a closed one and its successor.  Two processes and
two slots are what every race here needs: one to read, one to overtake it.  The
runs keep one transcript per machine; with a second one `PushUploadsTranscript`
and `PushSynchronizes` fail, because a resumed session's offset into the first file
is applied to the second.

Bounds, credits.  A limit of 3 or 4 and estimates of 1 or 2 let a member have plenty, just
enough for one request, or too little, and costs go below, to and above the
estimate; `UsedBefore` starts members rich or poor.  `MaxActive` bounds the requests
in flight, `MaxMonth` the month ends; two of each are enough for one request to
overtake another and for a row to be two months behind.

Bounds, the rest.  Two slots let one request overtake another between any two of its
steps, which is what every race found here takes.  Two branches give a
default one and one to replace it, two commits a parent and a child, and four requests an
attachment, a commit and two that race.  Three messages are a question, its late answer
and one sent meanwhile; three conversations a root, a branch of it and a branch or a
restored conversation of that.  Two connections are one that fails and one that tells;
with `Assignments` they belong to one user or to two.  Slots and users are symmetric only
in runs without liveness.

Deadlock checking is off: when all files are written, all requests answered and no
event comes the system rightly stops.

## 5. What does not hold

Met while modelling; the properties above are stated so that they allow for it.

* Transcripts: two SessionStarts at once leave two ACTIVE sessions; a snapshot rebuild that
  overlaps an upload can overwrite the newer content (`rebuild_snapshot`); after an upload
  whose reply was lost, every `convhub push` is refused until the next SessionStart,
  although TEST_MATRIX.md:72 promises that a repeated push succeeds.
* Credits: of two concurrent charges of one member one is lost in `user_budgets`
  (`consume_credits` writes an absolute value), and of two costs
  charged to one account one is lost in `monthly_spent`;
  two requests at once can allocate a month twice and take a lender below the reserve by
  what the ledger says was spent; an overdrawn member who borrows exactly the
  estimate gets 500 and not 402 (gateway.py:220).
* Sync records: `disable_coding` leaves the latest record attached; a commit, an attachment
  or a move is committed before its record, which can then be refused; two default branches
  can result from two creations at once; two concurrent rebuilds can leave an older digest
  over a newer one; `delete_inactive_branch` can delete a branch restored meanwhile; a
  repository whose only branches are archived, one under the default name, refuses every
  sync.  A branch can be shown in conflict although no client named a commit: a push of
  one conversation, overtaken by a commit of the same, is taken over by an attachment of
  another (`_append_sync_record` carries both ids over, `_compute_sync_state` compares
  them).  So can it when nothing was named and nothing handed on: of two overlapping commits
  the one dated later (commits.py:120) may have the package generated earlier
  (context_packages.py:273), and once it is recorded last, the newest commit is its own and
  the newest package is not; a later commit ends the conflict.
* Commits: two at once can have the same parent (ADR-011 describes a chain); an assistant's
  message gets at most one commit, although a second is answered with 500 and not 409 when
  it races (migration 021's unique constraint); packages overlap when an older message is
  committed later; the common ancestor in a branch's status can be a tip the branch lacks;
  a restored conversation holds only what its package introduces.
* Participants: the guard against removing the last one never applies, because the owner
  cannot be removed; workspace members never leave.
* Realtime: closing one of two connections shows the user offline; somebody joining during a
  presence broadcast raises RuntimeError in whoever broadcasts, and the typing loop, which
  catches nothing, never runs again; a user who types on while expiry is telling others is
  removed; leaving a workspace by subscribing to another is told to nobody; joined and left
  events can arrive in the wrong order.
* Workspaces: a second acceptance is answered with 500, because `create_budget` flushes
  before the `try`; two invitations of one address make later lookups fail; two default
  projects make the creation of a conversation without a project fail; a project or
  workspace with a repository cannot be deleted (the ORM sets `project_id` to NULL, which
  the column refuses).
* Sessions and tokens: a heartbeat or a sweep that loaded a session before it was closed
  writes its status over the close; two connects at once create two sessions; two refreshes
  at once issue two tokens.
* Routing: ADR-010-ownership-first-routing.md:24-27 says that the workspace's policy ranks the sender's accounts, the code (and
  ai-account-ownership.md) uses it for lenders' only; `monthly_spent` is kept in cents, is
  never reset, loses overlapping costs, and the balanced policy compares it with this
  month's usage; a mock account with a damaged key counts as healthy and fails with 500.

## 6. Fairness

`FairSpec` assumes weak fairness of each process's own steps (the operating system
schedules it), of each handler (asyncio resumes it) and of `Discard`.  Hooks are
never assumed to be started, replies never to arrive in time when "loss" is among
the faults.  `PushSpec` adds strong fairness of `BeginPush`: somebody keeps running
`convhub push`.  That is an assumption about the user, and `PushDelivers` says
what it buys: without a push, bytes written after the last hook stay where they
are.

For `Gateway`, `FairSpec` assumes weak fairness of each request's own steps: its
handler is resumed, the provider's HTTP client answers or times out, and
PostgreSQL aborts a deadlocked transaction (`AbortDeadlocked` is one of these
steps).  Requests are not assumed to be sent, nor faults to happen.

For `Hub`, weak fairness of each handler's own steps and broadcasts, of each connection's
heartbeat task and of the typing loop: asyncio resumes whatever is ready, every send
returns or raises, and `run_heartbeat` sleeps a finite time.  Clients are not assumed to
send, leave or die, nor requests to publish.  The other modules state no liveness.

## 7. Proofs

`TranscriptSync_proofs` proves for any number of processes, slots, files, bytes
and sessions, from the assumptions `SessionsAssumption` and `PluginAssumption`
alone:

* `Invariance`: `SyncInv` is invariant; `TypeCorrect`, `ChunksJoin`
  (`Contiguous`) and `NothingAhead` (`NeverAhead`) follow.
* `ImplementsLog`: `Spec => LogSpec`.

Neither `Contiguous` nor `NeverAhead` is inductive.  `Contiguous` needs to know
what an upload between its checks and its commit knows (`RequestKnows`): its start
equals the offset unless it has been overtaken, and if it has been, its sequence
number is taken and the insert fails.  `NeverAhead` needs the same of replies that
are on their way (an offset in a reply may be old but never too large), that a
waiting process's slot holds its own request (`ProcessesWait`), that processes past
their flush are bound (`Bound`), and that uncommitted sessions are empty and
constructed by one request each (`SessionRows`, `RequestsKnow`).  `SyncInv` is
their conjunction.

The proof has two halves.  For processes, `ProcessMoves` and `ProcessSends` show
once what any step of a process does to the invariant, and one lemma per action
instantiates them.  For handlers, `TablesGrow` (the tables only grow, and an offset
moves only with a chunk), `ServerFrame` (other slots are untouched) and
`ServerCommits` (a session appears by its own connect) carry over what the other
requests and the processes know; `OwnKnows` and `ServerContiguous` treat the
handler's own action by cases.

Some promises hold only while something does not overlap.  They are theorems under
exactly that condition, stated on the constants, and for every value of the others:

* `Slots = {k}`, one request at a time, with any processes, files and faults:
  `SnapshotsComplete` (`SnapshotMatchesChunks`), `OneActiveSession`
  (`SingleActiveSession`), `ClosedIsFinal` (`NoUploadAfterClose`); with one process
  as well, `StartsRealign` (`StartRealigns`).  `AloneInv` says that what a request has
  read is still so when it acts on it.
* `Paths = {f}`, one transcript file, with any processes, slots and faults:
  `PushesUpload` (`PushUploadsTranscript`).  Its invariant `DeliveryInv` needs no
  condition (`Deliveries`): the chunks cover every offset below `synced`, and a push
  past its flush has synchronized its goal.  The condition is needed only to say
  whose bytes they are.
* `Procs = {q}` and `Paths = {f}`, one process and one file, with any slots and faults,
  so with orphaned requests still running: `PushesSynchronize` (`PushSynchronizes`).
  `run_push` takes over the server's offset without a sequence number, which is right
  only if the offset is its own already; `SettledInv` shows that it is.  Nothing on the
  server, nor any upload on its way to it, is beyond what the flush read (`Bounded`), so
  that from the flush on the session cannot move past the push's goal.

The conditions are needed: TLC refutes the first four as soon as a second slot lets
requests overlap, `PushUploadsTranscript` with a second file, and `PushSynchronizes` with
a second file or a second process.

`Gateway_proofs` proves for any members, requests, limits, estimates and costs, any
number of requests in flight and of month ends, with faults and deadlocks, from
`BudgetsAssumption` and `GatewayAssumption` alone:

* `Invariance`: `CreditInv` is invariant; `TypeCorrect` and `ShareKept`
  (`WithinShare`) follow.
* `ReserveKept`: `Spec => LendsAboveFloor`.
* `ImplementsBook`: `Spec => BookSpec`.
* `DebtsExplained`: `Spec => OverdrawnKnowingly`.

`WithinShare` is about committed rows, but what is committed was written earlier from
values read earlier still, so `CreditInv` speaks of drafts as well: `ShareInv` says
that a draft that lends more than is committed belongs to the lender of the request
that holds its lock and keeps the reserve.  A row is overtaken only while nobody
holds its lock, hence `LockInv`, and a loan still to be written fits the row as it
was read (`Loaned`); since the UPDATE writes absolute values, the row written fits
too, whatever was committed in between.  For the ledger, `Netted` says what the
uncommitted ledger rows of a request come to at every point of its way, with or
without a loan, so that each way to end a request can be seen to leave all or
nothing.  `CallHoldsRows` is what makes the commit of an answer write those rows.

`StepKeeps`, `CommitKeeps` and `RollbackKeeps` show once what a step of a request, a
commit and a rollback do to the invariant; one lemma per action instantiates them.
`RefundFacts` is the core of the failure paths: after a release and a refund the
request's ledger rows sum to zero for every member.

`OverdrawnKnowingly` compares two committed rows, while the balance that is committed was
computed by a charge made long before, perhaps from a row that has been renewed or charged
since.  `DebtInv` carries it over: a draft that is below zero where the committed row is not
is the author's own, of a soft request, or of a hard one between its loan and its charge.
That exception is real (a loan that is added to a balance read too early may not suffice) and
harmless: such a request fails the check of its charge and is rolled back.  Hard requests never
keep the object they read (`KeptSoft`), so what they refund and reconcile is what they
have written.

With `MaxActive = 1`, one request at a time, and any of the other constants:

* `SerialHolds`: `SerialInv` is invariant; `CacheCovers` (`CacheCoversLedger`),
  `MonthlyOnce` (`AllocatedOnce`) and `SpendingGrows` (`AccountSpendGrows`) follow.
* `LenderReserve` (`LenderKeepsReserve`), for members who start with their reserve
  (`ReservedAtStart`): one who has charged below it before the model starts does not get it
  back by lending nothing.

`SerialInv` says that the rows a request has read are still the rows there are (`Informed`),
month ends included, since a renewal is written and read again in one step, and that the
request's ledger rows and allocations account for what it has written at every point, not
only at the end.  `Covered` is an inequality for authors, because a release stops at zero
(the finding `failed_borrow`), and an equality for members who only lend.  TLC refutes
these four with two requests at once; section 5 says what goes wrong.

`Routing_proofs` proves for any members, providers, accounts, policies, costs and
requests, from `RoutingAssumption` alone:

* `Invariant`: `RoutingInv` is invariant; `TypeCorrect`, `AlwaysRunsOnOwner` and
  `AlwaysSpentIsCovered` follow.
* `AlwaysCanChoose`: with a usable account some account is chosen, whatever the policy and
  the override.
* `AlwaysRetiredStaysUnused`: `Spec => RetiredStaysUnused`.

`RunsOnOwner` speaks of the accounts as they are, while a request decides by rows it read
before: `RequestHolds` says that what it holds was true of its owner's accounts then, and
`Grows` that owner and provider of an account never change, accounts only come, and what
they have cost only grows.  `SpentIsCovered` needs the same: the sum written back is an
old one plus the cost, which is covered because the old one was (`RequestHolds`), and
rounding to cents at most doubles it (`RoundedBound`).  `BestExists` is where every policy
is seen to have a best account: the keys are ordered lexicographically and end in the
account itself, so that a least one exists among any of them.

`BranchMemory_proofs` proves for any repositories, branches, conversations, requests and
bounds, from `MemoryAssumption` alone:

* `MemoryHolds`: `MemoryInv` is invariant; `VersionsHold` (`VersionsAgree`) and
  `DigestsHold` (`DigestDescribesRecord`) follow.
* `ConflictsHaveCause`: `Spec => []ConflictHasCause`.
* `DefaultsKept`: `Spec => KeepsDefault`.
* `HistoriesImplemented`: `Spec => ImplementsHistory`.

A request decides by what it has read and writes transactions later, so `MemoryInv` says
for each stage of a request what of that is still true (`Knows`).  `Seen(b, n)` is the
core: the version read is the number of records there were, and they are still the first
ones; if the unique constraint lets an append through, none has come since (`Current`),
and then what the request concluded from the latest record holds.  `BranchKnown` says this
of appends, pushes and each branch a move detaches, `PushKnows` of the commit and package a
push has looked up, `DigestKnown` of the record a digest is made from.  `Families` and
`RecordsSound` tie conversations, branches and records together.  `MemoryInv` is
`Consistent`, which says all this, and `StampsSound`: no timestamp is taken twice.  What a
record or a push knows of two ids is about `generated_at` alone: a package found after a
commit was generated later than the commit's own package, for the newest package can only
become newer.  Nothing relates it to `created_at`, so a record that names the newest commit
and another package is either split by a commit in between, or two commits have crossed
(`Crossed`).  Stating it found what
the model left implicit and TLC could not miss on its instance: a commit is made in a
conversation that exists, only a push waits for a package, a request that rebuilds digests
is none.  It also refuted a property that the run confirmed with one commit only, that a
branch in conflict has an id a client named; with a second commit and an attachment of another
conversation there is a conflict nobody named (section 5).  `ConflictHasCause` says
what is true.  The steps share `RequestStep` and `ReadStep` (no table changes),
`KnowsKept` (what other requests know survives), `AppendsStep`, `DigestRowStep`,
`RemovedStep` and `BirthStep`.

`Hub_proofs` proves `HubHolds` (`Spec => []HubInv`) for any connections, users,
workspaces, conversations and messages, from `HubAssumption`.  `HandlersKnow` is what
makes it inductive: a handler that has yet to register is in no index, and the workspace
it is asked for is known when it subscribes.  `DropStep` and `JoinStep` do the work, since
every failing send drops a connection in the middle of somebody else's broadcast.

`Conversations_proofs` proves for any members, requests, conversations, messages and
commits, from `ConversationsAssumption` (bounds are numbers, and the members, rows of a
table, finitely many: counting them needs it), about `Conversations` and `Insights`:

* `ConversationsHold`: `ConversationsInv` is invariant.
* `OwnersHold` (`OwnerParticipates`), `PackagesHold` (`PackagesComplete`),
  `ForestHolds` (`CommitGraphIsForest`), `PrefixHolds` (`BranchIsPrefix`),
  `TotalsHold` (`TotalsAgree`).

`ConversationsInv` carries two arguments.  Times: no two messages of a conversation share
one, which has to be said of the times of pending questions and answers too
(`RequestsKnow`), and copies are older than what is said or pending in a branch, so that a branch
begins with them.  Packages: one not yet written already introduces what was visible
between its parent's message and its own (`PackageSound`), and messages that become visible
later do not count against it.  `PackagesHold` follows by the parent: what is not between
the two messages is not later than the parent's, and was covered there or came late
(`PackageCovers`); ancestors stay ancestors (`AncestryKept`).  `PrefixHolds` counts: the
copies and their originals are `Twins`, so each has the same number of messages before
it, and `InOrder` puts twins at the same place.  `ForestHolds`: an edge comes from a
smaller commit of the same conversation or from the conversation it was forked from, which is
older; so of any commits the smallest of the oldest conversation has no edge from
another.  Orders, ancestry and the absence of cycles are stated by sets and closures
rather than by walks, so that these arguments need no induction over data.

`TotalsHold` is about the walks themselves, which the code takes one parent or one level
at a time and `Insights` therefore models by recursive functions.  No induction theorem
can be used (they take an operator as a parameter), so each walk is handled by two facts.
A function given in closed form satisfies the recursion, so a function that does exists;
and what satisfies it agrees with the closed form, since there would be a least number of
steps (`LeastNumber`), a last conversation (`GreatestNumber`) or a smallest set where it
does not.  The closed forms are paths from branch to branch (`Steps`): `Above` is the
oldest conversation with a path to here (`AboveFacts`), `Descent` everything a path leads
to (`DescentFacts`), and `TreeTotal` the number of things that the conversations below
count (`TreeTotalFacts`).
That is well founded, and no two branches lead to the same conversation (`OneLine`), because
`ConversationsSound` says that a branch comes after its parent.  `SumCounts` does the
same for `MapThenSumSet`, and gives the overview's sum over the family.

`Workspaces_proofs` proves for any users, requests and bounds, and without an assumption
on the constants, that `WorkspaceInv` is invariant (`WorkspaceHolds`).  `RequestKnows` makes
it inductive: the invitation a request has read and is about to accept is still there, for
the same person and role, unless the workspace has been deleted since; and `NothingLeft`
says that a deleted workspace has no rows that such a request could act on.  That the person is
still no member and the invitation still open is not known, and need not be: the unique
constraint on members decides, and the transaction is rolled back as a whole.

`Accounts_proofs` proves about the other two components and the four together:

* `SessionsHold`: `SessionsInv` is invariant; `ClosedStays`: `ClosedStaysClosed`.
* `LoginsHold`: `LoginsInv` is invariant; `RevokedStays`: `RevokedStaysRevoked`.
* `AccountsHold` and `AccountsStepsHold`: `MCSpec => []AccountsInv`,
  `MCSpec => AccountsSteps`.

Both components need to know of a request what it had seen to be over when it began: a
session it writes to was not closed then, a token it renews not revoked then, and a token
that a request has loaded remains its user's.  A sweep writes many rows at once, each
of which it found open.  `PartsHold` shows that a behaviour of `MCSpec` is, for each part, a
behaviour of that part's specification, so that the theorems of the parts apply; for
workspaces, which have a module of proofs of their own, `SameSteps` identifies the two
instances action by action.

Only model-checked: the liveness properties under fairness (`PushDelivers`, `Answered`,
`DeadConnectionsLeave`, `TypingEnds`).  Every invariant and action property of the passing
runs is stated by a theorem.

## 8. Not modelled

Components with status `not_modelled` in `PROJECT.json` give their reason.  Within the
transcript components: `pull` (reads only), a torn state file, transcripts that shrink, and
the decoding of a delta that ends inside a character (listed as hazards).  Within the
credits: the records of AI requests and loans, messages, events, free providers, an
administrator's changes of limits and preferences while requests run, and the month as a
calendar date; an adjustment of a charge of the month before is booked on the new one, as
in the code.  Budgets' events, broadcast before the commit they tell of, are not modelled:
clients only show them.  Within branch memory: the texts of a digest or a pull package,
clients that cancel a request, and code nothing calls (`_ensure_default_branch`,
`rebuild_for_conversation`).  Within conversations: search, statistics, timeline and the
requests that `execution.py` starts after a fork or a restore.  Within the hub: contents of
events and more than one server process (the hub is in memory and knows one).  Within
routing: the environment's fallback when there is no account.

Some steps of the models join two that the code takes one after the other, where no
property can tell: `ReadForDigest` reads what a digest is made of together with the digest's
own row (when another rebuild publishes between the two reads, the code counts both where the
model counts one, or updates the row where the model's insert fails; what is written is the
older content either way, and `DigestDescribesRecord` is about the content; the step of its own
would double the largest run for a count nothing decides by);
`SyncState` is computed from the tables of one moment, while the code reads the latest
record, the newest commit and the newest package in turn.  Two timestamps are never equal,
where the code would go on to compare ids.
