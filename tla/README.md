# JennGate in TLA+

Specifications of the session gateway in this repository: modules that model its
services from their Go source, TLC configurations that check them on small
instances, and theorems that TLAPS proves for instances of any size.

Run everything from this directory:

    tlc -workers 2 -config SessionRace.cfg MCSessionService    # any run below
    tlapm SessionServiceProofs.tla                              # any *Proofs module

`PROJECT.json` lists the runs, the properties, the code lines behind each
definition, the hazards the properties are aimed at, and the disagreements
between code and documentation that came up.

## 1. The system

JennGate brokers remote access to devices. Users talk to an HTTP API and a
WebSocket terminal, daemons on the devices report to it, everything durable is in
PostgreSQL, and recordings are files on disk. Several instances may run against
one database (README.md:224).

| component | code | state | operations | must be true | hard because |
|---|---|---|---|---|---|
| SessionService | `internal/services/session_service.go` | rows of `gate_sessions`; one `sync.RWMutex` per process | create, change state, mark connected, disconnect, clean up expired, GUI start and end, get, list | the order REQUESTED → AUTHORIZED → ACTIVE → DISCONNECTED; closed rows stay closed; expired sessions get closed | the writers read and write in two statements under a *shared* lock; several processes; statements that fail after taking effect |
| DaemonServer | `internal/daemon/daemon_server.go` | none of its own | GUI start and end reports; the other calls are stubs that log | the row describes one GUI server, the one that is up | reports overtake each other, protocols change, the session ends meanwhile |
| SessionStatus | `internal/handlers/handlers.go` | none | shows one row | what it shows belongs together | derives `gui_active` from columns others leave behind |
| RecordingService | `internal/services/recording_service.go` | rows of `gate_recordings`, `.cast` files, a mutex per process | create, update, delete, get, list | a row that can be found has its file; a delete is final | database and file system fail separately; crash between the two; other processes |
| CAService, IssueCert | `internal/services/ca_service.go`, `handlers.go` | the CA key, loaded once | load, issue, verify | certificates are signed with the right key and valid for the time asked for | rotation and expiry while running, five clock readings per request |
| PolicyService | `internal/services/policy_service.go`, `handlers.go` | an in-memory cache per process, a mutex | sync, set, check | a check sees whole batches and only what Jenn held; the cache comes to agree with Jenn | requests overtake each other; merges only; lost on restart; one cache per instance |
| Terminal | `internal/handlers/websocket.go` | one connection, its deadlines | greet, input, resize, close, pong | ends in bounded time; nothing after the close frame | deadline moved by pongs only, ignored write errors, buffered messages |
| Start-up | `cmd/jenngate/main.go`, `internal/migrations`, `migrations/` | schema version and dirty mark, advisory lock, ports | configure, connect, migrate, load key, serve | serves only a complete system; comes back after faults | interrupted and concurrent migrations, ports taken |
| configuration, database | `internal/config`, `internal/db` | none after start-up | load, open | a process without a usable configuration or database ends | – |
| the rest | handler stubs, `models`, `api`, `monitoring` | none | – | – | no state that lasts |

Interactions: handlers and DaemonServer call the services directly, on as many
goroutines as there are requests. Services meet only in the database: a row
written by one is read by all others, in this process or another. Nothing is
called back. At this commit the gRPC server registers no service yet
(`daemon_server.go:47-49`) and no handler calls a method that changes a session;
only tests do. The models are of these methods as they would be called
concurrently, the use for which they take their locks; the workload (who calls
what) is a parameter.

## 2. The modules

| module | what it is |
|---|---|
| `SessionStore` | `gate_sessions` as a function from ids to rows, and each SQL statement as an operator from the table before to the table after |
| `SessionLifecycle` | abstract: what the documentation says of a session's state |
| `SessionService` | the service: callers, mutexes, statements, crashes |
| `SessionProperties` | its properties, its refinement mapping, its inductive invariant |
| `SessionServiceProofs` | eleven theorems about it |
| `MCSessionService` | workloads for its four runs |
| `DaemonServer`, `MCDaemonServer` | GUI reports and the status endpoint, over `SessionStore` |
| `DaemonServerProofs` | five theorems about it |
| `RecordingLifecycle` | abstract: the life of a recording and its file, without calls or failures |
| `RecordingService`, `MCRecordingService` | recordings and their files |
| `RecordingServiceProofs` | five theorems about them, the refinement of `RecordingLifecycle` among them |
| `PolicyMap` | abstract: a map per process into which whole batches are merged |
| `PolicyService`, `MCPolicyService` | Jenn, the network, and the policy caches of the processes |
| `PolicyServiceProofs` | five theorems about it, the refinement of `PolicyMap` among them |
| `CAService`, `MCCAService` | CA keys, processes that load one, and requests for certificates |
| `CAServiceProofs` | five theorems about it |
| `Terminal` | one WebSocket terminal |
| `TerminalProofs` | three theorems about it |
| `StartUp`, `MCStartUp` | processes from configuration to serving |
| `StartUpProofs` | five theorems about it |

### SessionService

Each caller in `Callers` is a goroutine of process `Home[c]` that makes one call
at a time out of `Workload[c]`. `call[c]` holds where it is:

    idle -> lock -> (drain) -> (check) -> exec -> return -> idle

* `RLock`, `LockAnnounce`, `LockDrained`, `Return` are the RWMutex of the process. A
  writer first shuts out new readers and then waits for those inside, as Go's
  does. Which methods take `Lock` (`Exclusive`) and which take only `RLock` is read
  off the code.
* `Select` is the `SELECT state` of UpdateSessionState, MarkConnected and
  DisconnectSession with the decision that follows (`Accepts`, `ValidTransitions`).
  One definition stands for the three, so its lines in the map span them.
* one action per method is its write statement, with the columns exactly as in the
  `SET` clause. A method that checks does so in `Select` and **does not check again**
  here: neither does the `WHERE` clause.
* `Stamps`: `time.Now()` is read some time between the previous step and the
  statement, so any instant in between may be written.
* `Executes`: a statement may fail. The caller gets an error, and the statement has
  been applied, or not, or not yet; a lost connection does not say which.
* `Crash(i)` drops all calls of process `i`; the table stays, and statements that had
  been sent may not have been run yet.
* `late` are the statements that PostgreSQL has received and that nobody waits for any
  more; `RunLate` runs one, at any later time, beside calls that know nothing of it and
  with the clock reading it was sent with. The constant `LateWrites` says whether
  there are such statements: the run `SessionRace` has them.

`DoorOpen`, `Drained` and `Unlocks` are what a call waits for at the mutex: no writer has
announced itself, nobody holds it, the deferred unlock at the end of the method.

`authorized` is a history variable: the sessions that were AUTHORIZED at some time.

Abstractions. `user_id`, `device_id`, `cert_serial` and `ssh_port` are left out; no
modelled statement depends on them. A statement is atomic (the cleanup updates
many rows in one statement, and is one step here). Clocks of all processes and of
PostgreSQL agree, and run in one time zone, as the columns are `TIMESTAMP`
without a zone. `uuid.New` never repeats an id.

### DaemonServer

One process. Both reports end in one statement under an exclusive lock, so a
handler changes the table in one step; what is concurrent is the order in which
the goroutines of different reports get there. `calls` are the reports being
handled, `reports` remembers all that were sent, `applied` those that were written and
answered without an error, `follows` which of them were sent after which others
were over; `status[s]` is the last reply of
SessionStatus, computed from the row. A statement takes effect before its caller
hears of it or dies, or never, here and in RecordingService; statements that come
later still are modelled in SessionService only. A port may be 0, which is also what
the column of the other protocol holds. An update of a session that does not exist
matches no row and is no error, in the code and in the model.

### RecordingService

DeleteRecording is three steps after the lock: `FindFile` (the SELECT), `DeleteRow`,
`RemoveFile` (whose error is ignored). A UUID is part of every path, so the id
stands for the file as well. Nothing under the repository's Go code writes the
files: the recorder (`StartRecorder`, `WriteFile`, `StopRecorder`) is external, and
is assumed only to take up the file of a recording whose row it finds open. `Cascade`
is `ON DELETE CASCADE` of `migrations/001`: the deletion of a session or device takes
rows and leaves files; it counts as a fault. The RWMutex is simpler here than in
SessionService (no announcement): it is only used for safety.

Refinement: a recording is absent until its id is drawn and deleted when its row has
gone; `RecordingLifecycle` says what it may do in between, and what becomes of its file.

### PolicyService

Jenn (external) holds `jenn[s]` for every slot `s`: a principal, a target, and their
types. `Change` pushes one entry to every instance, `FullSync` everything it holds,
and `Delete` pushes nothing, as a request has no way to say that a policy is gone.
Requests are a set `net`, so they arrive in any order; `Lose` drops one, and a `Deliver`
that leaves its request in `net` is a retry after a lost reply.

`call[c]` is a goroutine: `idle -> lock -> run -> idle`. `Lock` is the RWMutex, shared
for CanAccessGUI; `SyncPolicy` is one round of the loop in SyncPolicies, so that a
batch half merged is a state of the model; `SyncPolicies` is the return, which unlocks.
`SetPolicy` is the other writer ("used for testing and policy synchronization").
`NewPolicyService` is a restart. A key is a pair of ids: the text `user:device` is
unique, as ids are UUIDs.

Refinement: callers see the cache of before (`call[c].before`) until SyncPolicies
returns, and at that moment the whole batch: that is `PolicyMap`.

### CAService

`NewCAService` reads the newest key that has not expired, once per process. A
request takes one step per reading of the clock: when it is accepted (`IssueCert`),
`Serial`, `ValidAfter`, `ValidBefore`, `Expiry` (the `expires_at` of the reply) and
`Reply` (the session id). `Tick`, other requests and rotation happen in between.
`certs` remembers every certificate with what its reply said. Serial numbers have
the width of the code, as a parameter. The key is read once per request, at its
acceptance; nothing changes it within a process.

### Terminal

The handler, the client that sends what it likes, the bytes in the socket and those
that the reader has buffered. `Replies` is the switch on the message's type: what
is written in answer to each kind of message. Two clocks count down: the read
deadline, moved by `Pong` only, and the write deadline, set by every `sendOutput` but
not before the close frame. A write may fail at any time, and after the close frame
every write does; the handler looks at the error only while it greets. Of the
websocket library the module's head says what is assumed.

### StartUp

`pc[i]` follows main from `Load` to `serving`; every `log.Fatal` is `Dies`, and the
process starts again. A migration is three statements (mark dirty, run, mark
clean) under an advisory lock that goes with the connection; that is golang-migrate
(external). The daemon server runs in a goroutine of its own, which tries its port
once. That port is 9090 in every process (`DaemonPort`, `main.go:82`), and the HTTP
port is any port (`config.go:55`), 9090 among them: `Taken` asks for both servers of
all processes of the host, the process's own among them. `Valid` are the migrations
that PostgreSQL accepts. `AddKey` is the operator who inserts a CA key, which nothing
under `src/` does.

## 3. The runs

| run | instance | shows | size |
|---|---|---|---|
| `SessionRace` | 1 session, 3 callers, 2 processes, clock 0..2, 1 fault, late statements | `SessionInv` (inductive), `ActiveWasAuthorized`, `CleanupReasonSound`, `TimesFollowCreation`, `OnlyStaleChecksBreakOrder`, `SettledRowsAreFinal`: what survives every race | 4.3 M states |
| `SessionIndependent` | 2 sessions, 3 callers, 2 processes, clock 0..1, 1 fault | `LifecycleSpec` (refinement), for callers that keep off each other's sessions | 4.2 M |
| `SessionLiveness` | 1 session, 3 callers, 1 process, clock 0..1, 1 fault | `NobodyIsStuck`, `EveryCallReturns`; `CleanupsCloseExpired`: cleanups that are repeated close every expired session for good | 35 k |
| `SessionFinality` | 1 session, 2 callers, 1 process, no fault | **violated**: `DisconnectedIsFinal` | |
| `DaemonReports` | 1 session, 3 reports, 3 protocols (1 unsupported), ports 0 and 1, clock 0..1, 1 fault | `StatusIsOneReport`, `GUITimesMatch`, `NewestReportShows`, `DaemonInv` | 3.4 M |
| `Recordings` | 1 recording, 3 callers in 2 processes, 2 faults | `NoRowLosesItsFile`, `OrphansAreExplained`, `LifecycleSpec` (refinement), `RecordingInv` | 83 k |
| `Policies` | 1 process, 2 goroutines, 1 device with a user's (2 sets of permissions) and a group's policy, 2 edits, 1 loss, retry or restart | `MapSpec` (refinement), `OnlyWhatJennHeld`, `FullSyncRepairs`, `AgreementLasts`, `Reconciled`, `PolicyInv` (inductive) | 376 k |
| `PolicyRevoked` | 1 process, 1 policy, no fault | **violated**: `RevokedIsForgotten` | |
| `Certificates` | 2 keys, 2 requests, concurrent or in turn, durations −1, 0, 1, 3 of at most 2, clock 0..2, serials of 2 × 2, 1 crash or failure, symmetry | `GoodForTheTimeAsked`, `ReplyPromisesNoLess`, `SerialsTellSecondsApart`, `SignedByTheKeyOfTheStart`, `CAInv` | 4.5 M |
| `Terminals` | deadlines of 2, 2 messages in the socket and 2 in the buffer | `OverstayIsBounded`, `NothingAfterClose`, `EndsWithoutPongs`, `TerminalInv` | 2.1 M |
| `StartUps` | 5 processes, 2 hosts, one HTTP port of 9090, 2 migrations, 2 faults | `ServesACompleteSystem`, `AppliedOnceInOrder`, `DirtyIsExplained`, `ServesUnlessDirty`, `DaemonServerComesBack`, `StartInv` | 37 k |
| `StartUpShipped` | 1 process, migration 2 refused | **violated**: `ComesUp` | |

Bounds, and why they are enough to be interesting.

* **Callers and sessions.** A stale check takes one caller between its two
  statements and one that gets in between; the third opens the session or cleans
  up. No statement but the cleanup touches two rows, and no property relates two
  rows, so one session shows every race for a row; `SessionIndependent` has two
  so that a statement that hit the wrong row would be seen.
* **Workload.** In `SessionRace` one caller opens, one uses and one ends the session;
  in `SessionIndependent` one caller may make every checked call, an invalid state
  name ("BOGUS") among them. That run excludes the races by its workload: it shows
  that what each method writes follows the documentation, and `SessionRace` shows
  what is left of it when callers race. Callers repeat their calls without limit.
* **`MaxTime`.** Expiry needs an instant at and one after `cert_expires_at`: 1 suffices
  with an expiry of 0. `SessionRace` has 2 and a certificate that expires at 1, so that
  a reading can be older than a creation that is older than the statement. In the
  liveness runs the clock stops at its bound, after the expiry.
* **`MaxFaults`.** Bounds failing statements, crashes and cascades together. The
  liveness runs need faults to end; safety does not depend on it, and the
  theorems hold for every bound.
* **`MaxReports`.** Three: a start, an end and a start that overtakes it. Two instants are
  enough to tell the start of a GUI from its end.
* **`MaxEdits`.** Two pushes of one policy are needed for one to overtake the other.
* **Batches** (PolicyService). Up to two entries, in either order: one that counts and
  one of a group that must not. One device is enough for two syncs to spoil each
  other's result; that keys do not mix, and batches of any length, are in the proofs.
* **`Capacity`** (Terminal). Two messages: one that is answered while the other waits
  beyond the deadline. The bound on the overstay is checked, and proved, as a
  formula in the deadlines and the capacity. Deadlines of 2 let time pass before,
  at and after each of them.
* **`Minute`, `Width`, `LongestMinutes`** (CAService). A minute of one second makes the
  time that a request takes comparable with what it asks for; serials of two
  seconds wrap around within the clock's range. The theorems hold for the values of
  the code.
* **Processes** (StartUp). Two hosts: one where every process has ports of its own, and
  one where a process was given the daemons' port for HTTP. One process cannot load
  its configuration, and does not count as a user of the HTTP port it names.

`CHECK_DEADLOCK FALSE` is said where the system really stops: a terminal that has
ended (Terminals), a clock and requests that have reached their bounds
(Certificates), and start-up when every process that can serves (StartUps,
StartUpShipped). In the other runs some caller or request can always move.

### Fairness

`FairSpec` of SessionService assumes that a goroutine that holds the mutex goes on
(weak fairness of its steps: statements return, with a result or an error) and that
the RWMutex starves nobody (strong fairness of `RLock` and `LockAnnounce`): Go
documents that a blocked Lock excludes new readers, and Unlock admits the readers
that queued before another writer gets in. Nothing obliges a caller to call.
`SessionLiveness` has this and no more: that cleanups are called and succeed time and
again is a premise that the property `CleanupsCloseExpired` states itself. Nothing in `main` fulfils it (the comment of
CleanupExpiredSessions intends an hourly call); the property says what such calls
would achieve, in spite of all that reopens sessions behind them.

`PolicyService!FairSpec`: Jenn repeats its reconciliation of every instance (hourly, by
the design), a request that is sent again and again is delivered in the end (strong
fairness of `Deliver`, without the retry), a goroutine with the lock goes on, and
the RWMutex starves nobody. `Terminal!FairSpec`: the handler runs and time passes;
the client owes nothing. `StartUp!FairSpec`: processes run and are restarted
(`--restart=always` in the deployment guide), PostgreSQL gives its advisory lock to
a process that keeps asking whenever it is free (strong fairness), and an operator
puts in a key in the end.

## 4. What the code does not keep

1. **Disconnected is not final** (`SessionFinality`). UpdateSessionState, asked for
   AUTHORIZED, reads REQUESTED; DisconnectSession, which also holds the mutex only
   shared, reads REQUESTED and closes the row; UpdateSessionState's UPDATE
   (`session_service.go:196`, `WHERE id` only) makes it AUTHORIZED again, with
   `disconnected_at` and a reason still set. MarkConnected (`session_service.go:232`) has
   the same gap and makes a closed session ACTIVE. `OnlyStaleChecksBreakOrder` says
   that stale checks are the only way in which the order is ever broken, and
   `CleanupsCloseExpired` that repeated cleanups would repair it in the end. A
   DisconnectSession that has passed its check may also overwrite the reason and
   time of a row that was closed meanwhile.
2. **A revoked policy is never forgotten** (`PolicyRevoked`): `policy_service.go:67-76`
   adds and overwrites, and a request cannot name what is gone. Sending an entry
   with no permissions would work, since such an entry is a `Change`.
3. **The program as shipped does not come up** (`StartUpShipped`): migration 002 says
   `ADD COLUMN ( ... )`, which PostgreSQL refuses; that leaves version 2 dirty, and
   the next start fails because of that.

Read off the code while it was modelled, without a run of their own:

* Nobody cleans up: `session_service.go:404-405` intends an hourly run, which main never
  starts. `CleanupsCloseExpired` is about a program that has such a
  loop.
* The unused GUI port is stored as 0, not NULL as `daemon_server.go:210` has it.
* An HTTP port of 9090 passes the configuration's checks. Its process and the daemon
  servers of the host then compete for the port: if the HTTP server gets it, the host
  has no daemon server for good; if a daemon server has it, the process with that
  HTTP port dies again and again. `OwnPort` excludes this.
* A crash, or an error of `os.Remove`, after the DELETE of a recording leaves a file that
  nothing removes (`recording_service.go:171`). `OrphansAreExplained` is about runs
  without failures.
* A disconnected session shows an active GUI until the daemon reports its end (the
  test plan at `tests/integration/gui_test.go:222` says otherwise).
* A missing session is a 500: GetSession wraps `sql.ErrNoRows`, so the branch at
  `handlers.go:270` is dead.
* Of two pushes of one policy the one handled last wins, not the newest: nothing in
  them says which that is. `Reconciled` says that the next full sync repairs it.
* Policies do not survive a restart, though `README.md:224` has all state in
  PostgreSQL; `Reconciled` covers this too.
* The session id that IssueCert returns is the time in seconds (`handlers.go:175`), so
  two replies of one second share it.
* Start-up needs a CA key in a table that it has just created and that nothing
  fills: on a fresh database it fails until an operator acts.

## 5. The proofs

For every set of sessions, callers and processes, every workload and every bound:

| theorem | says | rests on |
|---|---|---|
| `SessionInvariant` | `Spec => []SessionInv` | – |
| `TypeCorrect`, `LockExcludes`, `ActiveOnlyAfterAuthorized` | type, mutual exclusion, `ActiveWasAuthorized` | `SessionInvariant` |
| `CleanupReasons` | `CleanupReasonSound` | `ReasonsAreTheCallersOwn`: nobody else passes the reason "cert_expired" |
| `OrderBrokenOnlyByStaleChecks`, `SettledIsFinal` | the action properties `OnlyStaleChecksBreakOrder`, `SettledRowsAreFinal` | `SessionInvariant` |
| `SomebodyCanMove` | `NobodyIsStuck`, freedom from deadlock | `SessionInvariant` |
| `TimesAreInOrder` | `TimesFollowCreation` | `SessionInvariant` |
| `ClosedRowsAreFinal`, `ImplementsLifecycle` | closed rows, refinement of `SessionLifecycle` | `Independent`: no two callers check and write one session, nobody cleans up beside a checker, no statement outlives its method |
| `RecordingInvariant` | `Spec => []RecordingInv` | – |
| `FilesOutliveRows`, `DeletesAreFinal`, `OrphansExplained` | `NoRowLosesItsFile`, `DeletedStaysDeleted`, `OrphansAreExplained` | `RecordingInvariant` |
| `ImplementsLifecycle` (of `RecordingServiceProofs`) | refinement of `RecordingLifecycle` | `RecordingInvariant` |
| `DaemonInvariant` | `Spec => []DaemonInv` | – |
| `DaemonTypeCorrect`, `StatusShowsOneReport`, `TimesMatchGUI`, `AcknowledgedReportsWin` | type, `StatusIsOneReport`, `GUITimesMatch`, `NewestReportShows` | `DaemonInvariant` |
| `PolicyInvariant`, `GrantsWereHeld` | `Spec => []PolicyInv`, `OnlyWhatJennHeld` | – |
| `ImplementsPolicyMap` | refinement of `PolicyMap`, for batches of any length | `PolicyInvariant` |
| `ReconciliationRepairs`, `AgreementIsStable` | the action properties `FullSyncRepairs`, `AgreementLasts` | `PolicyInvariant` |
| `CAInvariant` | `Spec => []CAInv` | – |
| `CertificatesLast`, `RepliesPromiseNoLess`, `SignedByKeyOfStart`, `SerialsAreDistinct` | the properties of `Certificates` | `CAInvariant` |
| `TerminalInvariant`, `OverstayBounded`, `NothingShownAfterClose` | `TerminalInv`, the bound, the close frame | – |
| `StartInvariant`, `ServesComplete`, `MigrationsOnceInOrder` | `StartInv`, the complete system, migrations once and in order | – |
| `DirtyExplained`, `DirtyIsFinal` | `DirtyIsExplained`, `DirtyIsForGood` | `StartInvariant` |

The constants' assumptions are those of the modules: `NULL` is none of the values
it stands beside, `Home` maps callers to processes, requests are well-formed, bounds
are natural numbers.

**`SessionInv`.** `ActiveWasAuthorized` is not inductive: a MarkConnected about to write
could be anywhere. Its missing half is `ChecksWerePassed` (past the check, a call
holds a state that its request may leave, and if that was AUTHORIZED the session
is in `authorized`) together with `AuthorizedRemembered` (the history keeps up
with the table). This remains true when the check is stale, which is why the
property survives the races that break finality. `InsertsAreFresh` keeps an INSERT
from hitting another's row: an id about to be inserted has no row and no other
taker. `WritersTakeTurns` is the lock: at most one writer has announced itself,
and one that is inside is alone; `CallsInOrder` ties program counters to requests.

**Nobody is stuck.** Take a process with a call under way. If one of its calls is inside
(`Holds`) it can move: its statement returns, or it unlocks. If none is, a call that
has announced itself finds the mutex drained; and if there is none of those either,
any call that waits finds the door open. That a statement about to run has an
instant to stamp is an invariant of its own (`ClocksWereRead`). The theorem is the
part of `EveryCallReturns` that needs no fairness; the liveness stays with TLC.

**Settled rows.** Finality fails only for calls that are past their check
(section 4). `SettledRowsAreFinal` is what is left of it without any condition on
callers: once nobody is past a check of a DISCONNECTED row, and no statement of such a
call is on its way, nobody ever gets past one again, because `ValidTransitions` has no
way out of it, no INSERT draws its id (`InsertsAreFresh`), and the cleanup's WHERE
leaves it alone. A late statement was sent by a call that had passed its check
(`LateComes`), so there is no new one either.

**Refinement.** `ImplementsLifecycle` maps a table to the states of its rows. Under
`Independent` the state that a call saw is still the state of the row at its UPDATE
(`ChecksAreFresh`, inductive together with `SessionInv`: lemma `FreshChecks`), so each
write is a step of `ValidTransitions` and thus of `SessionLifecycle`; a cleanup is
`Close` of the set of overdue sessions.

**Times.** `TimesFollowCreation` holds whoever writes, so its invariant cannot rest on who
else is about: `ClocksFollowCreation` says that whoever is past a check, or left a
statement behind, carries a clock reading that is not before the creation of its
session, because the check saw the row and the clock is read after the check, and no
creation time ever changes. A cleanup has no check: it may carry an older reading,
but its WHERE then selects only rows whose certificates had expired before that
reading, which is the exception that the property makes. `WrittenStamps` says once
which columns each statement stamps.

**`RecordingInv`.** `NoRowLosesItsFile` needs `RemovalFollowsDelete` (whoever is about to
remove a file has seen its row deleted), which needs that no row comes back:
`InsertsAreFresh`, `OthersWereDrawn` and `RowsWereDrawn` confine INSERTs to ids that
nobody has used. The refinement of `RecordingLifecycle` rests on the same parts: an INSERT
that is executed is `Create`, or `Abandon` if it fails; an UPDATE of a row that has
gone matches nothing and is a stutter; `RemoveFile` is `Remove` because of
`RemovalFollowsDelete`.

**`DaemonInv`.** A row's GUI columns are those of one report that was sent, its start and
end times exclude each other, and a report under way was sent; the last reply is
computed from such a row. `NewestReportShows` is inductive together with
`ReportsInOrder`: what follows a report was sent when that one was over, so a report
that is being written follows nothing that is still to be written, and nothing
acknowledged follows it yet. The numbers of the reports (fewer than there are) make a
new one differ from all that were sent.

**`PolicyInv`.** `SyncsRunAlone` is what the mutex gives. `MergesInProgress` says that after
`n` entries the cache is `Merged(before, entries, n)`; it carries over a step because
merging one entry more is one `Put` (lemma `MergedNext`), and because nobody else
writes meanwhile. `RequestsWereHeld` follows a policy from Jenn through the network
and the call to the cache, which gives `OnlyWhatJennHeld`. For the refinement, the
cache that callers see is the old one while a merge runs; when it returns, `n` is
the length of the batch and `MergesInProgress` is the definition of `M!Apply`. `ReconciliationRepairs` asks what `Merged` does to one key of
a batch with several entries for it: the last one counts, and that there is a last
one is the well-foundedness of the naturals (`LastExists`), not an induction over the
batch. `AgreementIsStable` goes entry by entry: a `Put` of an entry that is `Current` keeps
the instance in agreement, and `InStep` says that everything under way is `Current`.

**`CAInv`.** `InOrder` lists what a request has read so far against the clock: each
reading lies between the request and now, so a difference of two readings is at most
the time the request took. `Signer` mentions only the start of the process, and
rows only come to the table with later creation times, so it stays true. From the
same bounds a certificate ends no earlier than the time asked for after the request,
and no later than that after the reply: both ends of `GoodForTheTimeAsked`.

**`TerminalInv`.** `OverstayIsBounded` is inductive as stated: `Ahead` is a potential, the
time that the outputs and buffered messages ahead may still take, and `Tick` lowers
it by what it adds to `over`. `RepliesInOrder` says what can be left to write.

**`StartInv`.** `VersionMatches` ties the schema's row to what has taken effect; `Placed`
says what is true at each point of main. The holder of the advisory lock is the
only process between marking a version dirty and marking it clean, and whoever is there
holds it (`Locked(i) <=> lock = i`). `DirtyIsExplained` needs just that: a dirty schema that
nobody will clean was left by a process that died, at a refused statement or at a
failure. `DirtyIsForGood` is the other side, and why `ServesUnlessDirty` has its condition.

**Only model-checked.** Liveness (`EveryCallReturns`, `CleanupsCloseExpired`,
`Reconciled`, `EndsWithoutPongs`, `ServesUnlessDirty`, `DaemonServerComesBack`) is out of the
prover's reach. Every invariant, action property and refinement that a passing run
checks has a theorem.

**Only proved.** Some theorems say what follows from properties that the runs check, and
no run repeats it: the type invariants (`SessionInv` and `DaemonInv` contain them),
`LockExcludes` (from `WritersTakeTurns` in `SessionInv`), `ClosedRowsAreFinal`
(`SettledRowsAreFinal`, where no check is stale), `DeletesAreFinal` (the lifecycle's
`deleted` is final) and `DirtyIsFinal` (the other side of `ServesUnlessDirty`).

## 6. Not modelled

* The daemon's other calls (`daemon_server.go`) and the handlers of devices, termination,
  audit and reports are stubs: they log, or answer with a constant.
* Health, ListSessions, GetSession and GetRecording read at most one row and format it.
* Request and response models, the protocol file and the monitoring files hold no
  code with a state.
* The contents of recordings and of certificates (principals, extensions, the GUI
  fields of the reply), and the columns `byte_size`, `duration_seconds`, `timing_path`,
  carry no decision. VerifyCertificate does not check signatures, so neither does the
  model.
* The size of the connection pool: a statement that waits for a connection is a
  slow statement.

## 7. Plan

Done: sessions with their abstract specification and proofs, GUI reports, recordings,
policies with theirs, certificates, terminals and start-up, each with proofs of its
invariants. What remains:

1. **A shared RWMutex module** for SessionService, RecordingService and PolicyService, so
   that liveness of all three locks is checked against Go's protocol.
2. When the code grows into them: sessions created by IssueCert, the gRPC service, and
   terminals that forward to a daemon.
