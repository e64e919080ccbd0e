# A TLA+ model of CodexEverywhere

CodexEverywhere lets a browser drive the Codex app-server of a host. A per-user
*Agent* owns the app-server and a small state database; a *Web page* talks to the
Agent over an encrypted gateway, directly or through a *Relay*; an administrator's
*Controller* and a *provisioner* manage the Unix users and their Relay routes. The
Agent must never send a prompt twice, never forget a side effect it may have
caused, and tell the page the truth about both, while processes crash, sockets drop
and writes fail. This directory models these parts, checks them with TLC and
proves the central results with TLAPS.

## 1. Inventory

| Component | State it keeps | Operations | What is hard | What makes it correct |
| --- | --- | --- | --- | --- |
| state file (`repositories/sqlite-state-file.ts`, `*-state-database.ts`) | sql.js database in memory, file on disk, revision, schema version | open, transaction, reload, snapshot, migrate | a commit in memory whose persist fails; other processes and other releases writing the file | what was reported as committed stays; a restart sees only the file |
| queue delivery (`queue-service.ts`, `queue-repository.ts`, `codex-runtime-gate.ts`) | queue rows, delivery claims, dispatcher, gate | add, remove, steer, acknowledge, dispatch, recover | crash between claim and completion, lost responses, steer against dispatch, stale reads before the gate | at-most-once delivery; claims outlive requests; every delivery settles |
| durable mutations (`mutation-middleware.ts`, `mutation-receipt-repository.ts`) | in-flight promises, receipts with expiry | run, claim, complete, mark, recover, status | replays racing the first execution, crash before the outcome is stored, expiry | a key is executed once; answers are truthful; receipts settle |
| the page's operations (`durable-mutation.ts`, `composer-actor.ts`, `gateway-port.ts`) | pending operations, current transport; the connection's mutation queue | submit, time out, reconnect, poll | late responses, queries overtaking queued mutations | "done" means done; nobody polls for ever |
| connection flows (`connect-host.ts`, `encrypted-transport.ts`, `storage.ts`) | flow, port, saved hosts | pair, log in, connect, enrol, reconnect | a connection lost between the Agent's acceptance and the page's save | an accepted key is kept; a port comes back |
| encrypted channel (`packages/crypto`) | assemblies, shared byte budget, sequence numbers | encrypt, assemble, give up, close | timers, errors and closes that end the same assembly | the budget is given back once; mutations run in order |
| thread leases (`thread-lease-manager.ts`, `interaction-broker.ts`) | leases, creations, disposals, references; turns, observers, interactions | acquire, start, release, dispose; notify, ask, answer | disposal racing acquisition, turn responses after completion notices | one client per task, within the limit; a held lease stays; ends of turns are heard |
| gateway sessions, threads, titles, workspaces | views of a session, authorization revision, pending title | open, close, turn, rename, add and remove workspaces | overlapping open and close, stale authorizations, concurrent names | one reference per view; a derived title yields; a path is authorized when used |
| task permissions and the terminal proxy | stored settings, generation, what is in effect | open, update, delete, observe, repair | late notifications, half-done changes, a terminal that quits | no silent divergence; deleted stays deleted |
| side chats (`side-chat-service.ts`) | rows, forks at the app-server | start, send, delete, abandon, recover | partial failure between row and fork, requests executed late | no fork without an owner; what is offered exists; nothing stays open |
| app-server supervisor and set-up | lock, record, reservation, socket; switch file, gate | start, adopt, restart, install, log in | supervisors killed anywhere, restart against running work | one app-server; work is spared; the gate is given back |
| identity (`identity-service.ts`, tickets, limiter, ephemeral replay window) | credentials, codes, devices, tickets, window | pair, register, log in, recover, rotate, replay | two first owners, double redemption, an evicted replay | one owner; a code is accepted once; a device stays bound to its key |
| lock files (`state-lock.ts`, `process-files.ts`) | lock, fence, owner, proof and quarantine files | acquire, reclaim, fence, release | two reclaimers of a dead owner's lock; quarantines listed first and read later | mutual exclusion |
| relay (`relay-server.ts`, `relay-connector.ts`, renewal loop) | routes, tunnels, budgets; capability, transition | register, rotate, expire, connect, accept, forward | lost registrations, late closes, limits | the Agent never falls behind the relay; tunnels are authorized; a route comes back |
| kernel and Web actors | generations, effects, snapshots, timers | open, refresh, load, mutate | late results, lost connections | once quiet the page shows what the Agent has |
| onboarding page | step, controls, host state | install, log in, restart | lost and early events | the step catches up; a control is busy only while its work is |
| admin controller, watchdog | user rows, access marker, Agent, files | register, disable, enable, remove, maintain | root processes, and the watchdog's script, dying between steps, beside each other | who is not enabled is shut out; a removal finishes |
| provisioning | bindings, credentials, spool files, configurations | request, grant, bind, rotate, renew | a daemon killed between signing and answering, recycled accounts | one route per account; renewal catches up |
| scenario gateway (`scenario-gateway.ts`) | a host in memory: tasks, questions, queue, set-up, users; options still to be played, timers | every method of the gateway, a timer per turn | timers that fire after an interruption or a deletion, answers before the status is stored | it behaves as a host does: a turn ends once, whoever waits can be answered, one outcome per operation |
| host configuration, legacy queue store | configuration file; old queue rows | updates of Agent and commands; reserve, send, migrate | dying writers, other releases | no lost update; sent once |

The parts interact as follows. A page sends an envelope through its port to one
connection of the Agent; the connection queues mutations and runs queries at once;
the router passes a durable mutation through the middleware, which brackets the
handler with a claim and a stored outcome in the state file; handlers read and write
rows of the same file, hold a thread lease and call the app-server, those that begin
work under the runtime gate. The dispatcher of the queue does the same on a timer.
Every access to a file goes through the state lock; one process per role holds a
process lock. Recovery (receipts, side chats, queue) runs before the gateway listens.
The hazards of these interactions, each at its line, are in `PROJECT.json`.

## 2. Modules

| Module | Models | Extends |
| --- | --- | --- |
| `StateFile` | transactions of the state file, their ways to fail, reloads, loss of memory | |
| `QueueDelivery`, `QueueDeliveryProofs` | QueueRepository, QueueService, CodexRuntimeGate and the app-server they call | `StateFile` |
| `DurableOperation` | the abstract promise of a durable mutation | |
| `MutationReceipts` | the durable half of AgentMutationMiddleware, MutationReceiptRepository; implements `DurableOperation` | `StateFile` |
| `MutationClient`, `MutationClientProofs` | the page's operations, its port and transports, the Agent's connections; the proofs of both modules | `MutationReceipts` |
| `Connect` | the flows that pair, log in, connect and enrol a page; ReconnectingGatewayPort | |
| `SecureChannel` | SecureSession's records and assembly, the order of requests of a connection | |
| `ThreadLeases`, `ThreadLeasesProofs`, `TurnTracking` | ThreadLeaseManager: clients and references; turns, observers and interactions | |
| `Threads` | sessions' views of a task, workspaces, derived titles | |
| `Permissions` | settings of a task, its mutation fence, the terminal's permission proxy | |
| `SideChats` | SideChatService, SideChatRepository and the threads they fork | `StateFile` |
| `Runtime`, `ServicesProofs` | app-server supervisor, SetupService, runtime switch and gate | |
| `Onboarding` | set-up operations at the host and the page that follows them | |
| `Access`, `AccessProofs` | identity, tickets, rate limiter, peer authentication, ephemeral replay window | |
| `StateLock`, `ProcessLock`, `StorageProofs` | lock files, one file operation at a time | |
| `StateDatabase` | creation, migration, change and replacement of the state file by several releases | |
| `HostConfig`, `HostStore` | updates of the configuration file (proved in `StorageProofs`); the old queue store | |
| `Relay`, `RelayProofs` | relay server, connector, capability renewal | |
| `Page` | kernel actors and the actors of the page | |
| `Scenario` | ScenarioGateway, the host the page's demonstrations and browser tests run against | |
| `Admin`, `ServicesProofs` | AdminService, helper and maintenance processes, marker, watchdog | |
| `Provisioning`, `ProvisioningProofs` | provisioner daemon, sudo helper, clients, Controller installation | |
| `MC*` | values of the constants and combinations of components for TLC | see section 3 |

### How state and actions correspond to the code

An action is the code between two `await`s, so everything JavaScript can interleave
there interleaves in the model; for code of several processes it is one file
operation or one locked access. `pc` names the await a worker or request is at.

*StateFile.* `transaction` commits in memory and then writes the file. It can throw
with nothing changed (`aborted`), with memory changed and the file not (`memory`), or
with the file replaced (`unreported`). Nothing rolls the second case back, so later
reads of the same process see it, the next commit of any repository writes it
(`OtherCommit`), a commit of another process undoes it (`ForeignCommit`) and so does a
crash (`LoseMemory`). All failures count against `MaxFaults`.

*QueueDelivery.* `mem` and `disk` map an item to its row joined with its claim. The
dispatcher goes through `DispatchNext` (read `nextPending`), `EnterGate`,
`InspectForDispatch`, `Pause` or `Claim`, `Send`, then a response (`ReceiveTurnId`,
`ReceiveRefusal`, `LoseResponse`) and `Complete` or `MarkIndeterminate`; a steer request
joins at the gate. `Accept`, `Refuse`, `Drop` and the turn actions are the app-server,
modelled from how the Agent uses it. A `clientUserMessageId` is a number drawn from a
counter (`issued`): the code draws a UUID.

*MutationReceipts.* `Arrive` is `#runDurable` (join the promise in flight or become the
runner), `Claim` the claim transaction with the branches of `#executeDurable`, `Execute`
and `Return` the handler and `captureOutcome`, `Complete` and `MarkIndeterminate` what
stores the outcome; `Settle` answers everyone who shares the promise. The fingerprint of
an input is a value per request; `now` and `TTL` are the receipts' expiry. `from`, `ran`
and `pruned` are history.

*DurableOperation.* What the middleware promises of a key: at most one execution that
is not forgotten (`Execute`), one outcome of it (`Finish`), and answers that are its
outcome, unknown or a refusal (`Settle`, which may also forget what has finished).

*MutationClient.* `client[r]` is what the page knows of operation r: waiting, unknown
(polling), resolved, failed, or manual (the user is asked). Operations in `Composers`
follow the composer actor, the others `durableMutation`. `queue[e]` is transport e with
the frames on their way and the connection's `#mutationQueue`.

*Connect.* `page` is the flow the user started, `port` the ReconnectingGatewayPort,
`opening` the attempts over the list of targets, `links` connections with what is on
their way, `call` the one request of the flow, `saved` and `agent` what either side has
stored. The replay of a one-time mutation is `Ask`, `Delay` and `Hear`.

*SecureChannel.* Per direction the records on their way and the assembly under way; the
budget is shared by all connections. `AgentReceives` is decryption with its reservation,
`AssemblyTimeout`, `ProtocolError` and `AgentCloses` are the three ways an assembly is
given up.

*ThreadLeases.* `leases`, `creating`, `disposing` and `starting` are the manager's maps,
over numbered clients instead of promises and scopes. A holder is one caller: `Acquire`
runs up to the first await, `AfterDisposal` and `Attach` are its continuations,
`Release` gives the reference back; a starter goes through `Start`, `Initialized` and
`StartAfterDisposal`. Continuations are microtasks: a socket event (`Connected`,
`Closed`, `Notify`, ...) needs `NoMicrotasks`.

*TurnTracking.* The socket as a sequence of answers, notifications and questions; a
notification is handled when it is read (`Read`), a caller continues after the rest of
the chunk (`Started`, `Steered`, `Interrupted`, `Adopt`). `terminal`, `observers`,
`startObs` and `timers` are the lease's maps.

*Threads.* `view`, `opening` and `closing` are the session's maps, `viewers` the
references in the lease; `req` are requests in progress. `Snapshot` and `Recheck` are
the two reads of the authorization, `Schedule` to `FinishContinues` the derived title.

*Permissions.* `row`, `obs` and `gen` are the state file, `lock` the mutation fence of
the task, `op` a request of a page, `tui` the terminal's request in the proxy; `orphan`
is a request whose sender is gone and that the app-server may still execute.

*SideChats.* One parent, one workspace, one row. A call begins when it has the parent's
coordination lock and `Leave` returns it; in between `pc` is its next transaction or
request. A request whose caller gave up, or died, stays in `orphans` and may be executed
at any later moment. `abandoned` and `unseen` are history.

*Runtime.* Attempts to start the server are numbered; the number is the nonce, the
process and its record. `pc` walks through `ensureAppServer` and `restartAppServer` for
two supervisors, for the `operation` that called; `install`, `restart` and `login` are the
operations of SetupService.

*Onboarding.* `host`, `install`, `logins` and `op` are the host, `page`, `load` and
`login` the actor's state, `wire` the answers and events between them. A request may be
refused before it does anything (`Refused`) or fail after Codex has been started, told to
cancel, or logged out; `expiring` are the logins that the Agent has forgotten and for which
it still waits before it emits their end.

*Access.* The rows of the identity tables, one record per connection and per execution
(`Run`), the ephemeral window as a sequence of executions. A request is `Start`, its reads
and verification, its transaction, and `AuthenticatedResult`. An execution has the
operation key it was asked under: one that the full window has lost may still go on when
the key is executed again. `codes` are the issues in force: a Passkey's codes are added to
them (`AddCodes`), a rotation or a recovery replaces them. `owners` and `spent` are
history: the first registrations that were stored, and who was let in by a code.

*StateLock.* `lock` and `fence` are the names all processes share, `quar` and `fquar` the
names a process moves them to. A look at the quarantines lists them (`ListNames`) and reads
each name later (`ReadName`), if it is still there, and an attempt makes two such looks.
What is read is judged when the fence has been looked at, so a lease that expires under a
live owner may be found either way. `fresh` stands for the state file itself: who has read
its present version; `crowded` is history: a lock was moved aside while two live attempts had
published one. *ProcessLock.* A file is known by the process whose record it
holds; every call of the file system is an action. The other modules assume what these
two check, that holders of a lock do not overlap.

*StateDatabase.* One locked access is one step; `open` is four of them. *HostConfig.*
A writer reads, changes and publishes under the coordination lock and may be killed or
fail anywhere. *HostStore.* Reservation, sending and completion by callers of the old
queue, and stops between which another release takes the file over.

*Relay.* A capability is the pair of its issue time and its expiration. `auth`, `route`
and `rel` are the relay, `cap`, `control`, `tp` and `ts` the connector and its
transitions, `loop`, `snap` and `grant` the renewal loop, `config` the file. Sockets have
two ends that close one after the other.

*Page.* The reducer of every actor as an operator on its state with the effect of its
generation; `up`, `work` and `down` are requests and answers on their way. A behaviour
exercises one part of the page, its `focus`.

*Admin.* `ops` are root processes, each at the next step of its request; `marker`,
`agent`, `session`, `watchdog` and `data` what they act on, `tick` the watchdog's script with
the directory that is its lock. *Provisioning.* `job` is the
request the daemon handles, step by step; `requests` and `answers` the spool. `bindings`
is the registry, `held` what is in each account's configuration, `routes` the number of
routes drawn (the code draws 128 random bits); `known` and `granted` are history.
`registered` are the rows of managed users in two databases, the daemon's own and root's,
in which a user is entered before a route is looked up and with which later accounts may
conflict (`Conflict`). Neither is the Controller's database: no command changes a status or
removes a row in them, so the look at the status that precedes the entry
(`self-provision.ts:230`) never refuses, and the model has no status there.

*Scenario.* A request of the page is one action, for nothing in the dispatch of this host
is awaited; the timers it arms (`due`, `short`) fire later, and so does the
status of a mutation, which is set in the continuation (`Settle`). `once` are the options
of the scene that are played once. A method that only answers from the state is left out.

## 3. Runs

| Run | Module | Properties | What it shows |
| --- | --- | --- | --- |
| `queue_safety` | `MCQueueDelivery` | `AtMostOnce`, `ClaimOutlivesRequest`, `CompletedMeansAccepted`, `DeliveryInv`, `RemovedNeverSent` | One queue item, the dispatcher and one steer request, a retry, a crash, another client's turn and two failing transactions: at-most-once delivery, with the inductive invariant that proves it. |
| `tasks` | `MCTasks` | `TurnsFollowed`, `LeaseSafety`, `PermissionsAgree`, `ForkIsOwned` | What the Agent keeps of a task: the leases on its Codex client, the turns it follows, the permissions that pages and a terminal change, and its side chat. |
| `progress` | `MCProgress` | `MutationInv`, `ExecutedOnce`, `AnswersTruthful`, `RequestsAnswered`, `ImplementsOperation`, `MessagesProceed`, `AcquisitionsReturn` | Replays and one misuse of an operation key through a crash, an expiry and failing transactions: executed once, answered truthfully, as DurableOperation specifies it; and under fairness requests, queued messages and acquisitions of leases all come to an end. |
| `links` | `MCLinks` | `NeverBehind`, `PairingKept`, `RouteComesBack`, `OperationsSettle`, `PortComesBack` | What survives broken connections: the Agent's route at the relay, the operations of a page across two transports, and the flows that pair, log in and connect a page. |
| `services` | `MCServices` | `AppServerKept`, `AccessSafety`, `GateReleased`, `RemovalFinishes`, `OperationSettles` | Two supervisors of one app-server with an installation, a restart, a login and a turn; the Controller's changes of a user with a process, or the watchdog's script, dying between any two steps; a side chat through a crash and a failing transaction. |
| `sessions` | `MCSessions` | `ReportsTruthful`, `ChannelKept`, `ReferencesKept` | Sessions that open, run and rename a task while workspaces come and go; the verdicts of durableMutation and the composer; two encrypted connections that share an assembly budget. |
| `storage` | `MCStorage` | `LockSafety`, `Exclusion`, `UpdatesKept`, `StoresKept` | The files of a host: the state lock of a dead process taken over by three others on two hosts, the lock of a running process likewise, the configuration with dying writers, the state database with an older release, and the old queue store. |
| `web` | `MCWeb` | `PageTruthful`, `SetupTruthful`, `TunnelsAuthorized`, `ScenarioKept` | The page's actors over a connection that is lost and answers that come late, the set-up page on a new, installed or ready host, where requests fail before or after they took effect, two browsers that compete for the one tunnel of a route, and the host in memory of the page's demonstrations, an area of its methods at a time. |
| `accounts` | `MCAccounts` | `AccountsKept` | Browsers with one device id and two keys connect, pair, register, log in, recover and rotate through a replay window of one entry, which may lose an execution that goes on, with a command of the owner or a restart of the Agent, and transactions that may fail. |
| `provisioning` | `MCProvisioning` | `OneRoute`, `RenewalCatchesUp` | One user through two rotations of the credential, two users with one while accounts change, an account that is recycled, and the Controller, with daemons killed between signing, registering and answering. |
| `process_lock_four` (*violation*) | `MCProcessLock` | `Exclusion` | Four processes start on the lock of a dead one: the second look at the quarantines lists a name and reads it after its link was put back, while another process moved the reader's own link away; two processes hold the lock. |
| `connect_lost_answer` (*violation*) | `MCConnect` | `LostAnswerReplayed` | An executed one-time mutation is reported as failed at the first retry that finds the port reconnecting. |

Components that do not interact are checked side by side: in `MCTasks`, `MCProgress`,
`MCLinks`, `MCServices`, `MCSessions`, `MCStorage` and `MCWeb` a behaviour
is about one component, chosen by the variable `part` in the initial state, and
`x1, x2, ...` hold that component's variables. Nothing else is shared, so each part
behaves exactly as its module's `Init` and `Next`; a property of the run is guarded by
the part it speaks of. A component that a module `EXTENDS` keeps its own variables.

The runs marked *violation* check what a comment of the repository says, and TLC finds
behaviours of the code that contradict it; the findings quote the lines.

### Bounds

Bounds are constants with `Max` in their name and limit guards only. In `Connect`,
`Access`, `Provisioning` and `Scenario` they are the fields of a record: a behaviour keeps
one of `Scenes`, so that a run covers several combinations that would be too many at once.

- `queue_safety`: one item, one steer request, one retry, one crash and two failing
  transactions: a first delivery, something that goes wrong with it, and a second one.
  Competition within a task needs two items (`progress`).
- Durable mutations: three requests on one key give a runner, a replay and a misuse; a
  clock of two ticks with a retention of one gives a receipt before, at and after its
  expiry. Two transports and two operations give a queue with something to overtake.
- Leases: two holders of one task and a starter, with two clients in a behaviour, give a
  lease that is shared, one that is closing while another is wanted, and a provisional
  client that meets both; `ClientsLeft` keeps a client for everyone who already waits,
  so that the bound never blocks an acquisition.
- Locks: the lock of a process that died, with three live attempts: a reclaimer, a
  slower reclaimer and one that comes in between. Both locks fail with four attempts
  (`process_lock_four`, and `crowded` in section 4) and hold with three.
- Accounts: three executions and a window of one entry: an execution that leaves the
  window before it ends, one that displaces it, and its own repetition.
- Provisioning: a recycled account needs three events, a removal, a creation and what went
  wrong before, which the scene with a budget of three has.
- Side chats: two creations, a crash and a failing transaction let a request of the
  first creation meet the second one.
- Relay: three clock units with a lifetime of two give a capability before, at and after
  its renewal window; two control sockets an old and a new one; two faults a loss and a
  restart. Two browsers and one tunnel give a limit to compete for.
- Everything else has two actors, the operations each property needs, and one or two
  faults, stated beside each `INSTANCE` of the `MC` modules.

The theorems of section 4 do not depend on any of these. `CHECK_DEADLOCK FALSE` is set
because users may stop acting and the bounds end every behaviour.

### Fairness

Only the system's own progress is assumed. The supervisor restarts the Agent
(`Start("ok")`, `Recover("ok")`: a start-up that keeps failing is not live by anyone's
standard); timers repeat; awaited calls return; the app-server ends its turns and answers
a request or loses the connection. Nothing is assumed of users, of other clients or of
the network: a page may never get a transport again, and then `OperationsSettle` holds
because it gives up and asks its user. Liveness that a failing transaction defeats says
so: in `MutationClient` a claim that only memory knows stays open until the next restart
(`faults > 0`), and a side chat whose last write threw does (`unsettled`).
`ThreadLeases` has strong fairness of continuations and of the completion of connecting
and closing: a microtask always runs before the next event, and an event of a socket
waits behind microtasks again and again but is served between them. `Relay` has weak
fairness of both ends' handlers and timers, `Connect` of the page's, the Agent's and the
port's steps, `Runtime` of supervisors, operations and the server, `Admin` of a process
that was started, of the minutely maintenance and of the minutely watchdog, where no killed
run of it has left its lock, `Provisioning` of the daemon, the
clients' loops and root's restart of the daemon.

## 4. Proofs

| Module | Theorem | What it establishes |
| --- | --- | --- |
| `QueueDeliveryProofs` | `DeliveryInvariant` (`DeliveryInv`) | The inductive invariant of the delivery protocol: who holds the gate, which deliveries own which claims in memory and on disk, and which attempts the app-server has seen. |
| `QueueDeliveryProofs` | `TypeCorrect` | Type correctness for any set of items, tasks and steer requests. |
| `QueueDeliveryProofs` | `AtMostOnceDelivery` (`AtMostOnce`) | No attempt of an item reaches the app-server twice, whatever interleaving, crash or failing transaction occurs. |
| `QueueDeliveryProofs` | `ClaimOutlives` (`ClaimOutlivesRequest`) | A request is sent only under a claim that is on disk, so that a restart knows of it. |
| `QueueDeliveryProofs` | `CompletionsTruthful` (`CompletedMeansAccepted`) | An item recorded as completed was accepted by the app-server. |
| `QueueDeliveryProofs` | `RemovedItems` (`RemovedNeverSent`) | An item the user removed is not sent afterwards. |
| `MutationClientProofs` | `MutationInvariant` (`MutationInv`) | The inductive invariant of the durable receipts, in memory and on disk, for any set of requests and operation keys, any retention and any pattern of crashes and failing transactions. |
| `MutationClientProofs` | `MutationTypeCorrect` | Type correctness of the receipts and the requests. |
| `MutationClientProofs` | `MutationsExecutedOnce` (`ExecutedOnce`) | While the receipt of an operation is kept, its effect happens at most once, however often the operation is replayed, also across restarts. |
| `MutationClientProofs` | `MutationAnswersTruthful` (`AnswersTruthful`) | An answer of success or failure tells what the execution of that very operation returned. |
| `MutationClientProofs` | `RefusedMutationsNeverRan` | A request refused for misusing a key did not execute anything. |
| `MutationClientProofs` | `RunningMutationsRecorded` | A mutation executes only under a pending receipt that is on disk, so that a restart knows of it. |
| `MutationClientProofs` | `PendingMutationsHaveRunner` | While the Agent is up, a pending receipt in memory belongs to a request that is still running it. |
| `MutationClientProofs` | `MutationsRefine` (`ImplementsOperation`) | Receipts, shared executions and recovery together implement the abstract durable operation: every step of the middleware is a step of DurableOperation or changes nothing in it. |
| `StorageProofs` | `ConfigInvariant` | The inductive invariant of the configuration file: at most one writer is inside the lock, and what it is about to publish was computed from the file as it is now. |
| `StorageProofs` | `ConfigUpdatesKept` (`UpdatesKept`) | No accepted update of the configuration is lost, for any number of writers that fail or die at any point. |
| `MutationClientProofs` | `ClientInvariant` | The inductive invariant of the page's side: what it reports is over, and an operation that was not submitted, or was rejected for want of a transport, is in no queue. |
| `MutationClientProofs` | `ClientUsesReceipts` | Behind connections that queue, drop and repeat requests the Agent still behaves as the receipts' specification says, so every theorem about receipts holds of the composition. |
| `MutationClientProofs` | `PageReportsTruthful` (`ReportsTruthful`) | What the page reports as done was executed with success, and a composer that reports a failure for good is not contradicted by a later execution. |
| `ServicesProofs` | `AdminInvariant` | The inductive invariant of a managed user's row, marker, Agent and files, for any set of helper and maintenance processes that run beside each other and die anywhere. |
| `ServicesProofs` | `AccessIsSafe` (`AccessSafety`) | A user who is not enabled is shut out, a removed one has neither files nor a running Agent, and files are deleted only under a claim, in every interleaving the revision protects. |
| `ThreadLeasesProofs` | `LeaseInvariant` | The inductive invariant of the lease manager: how its maps, the clients and everyone who waits for them agree. |
| `ThreadLeasesProofs` | `LeasesAreSafe` (`LeaseSafety`) | For any number of tasks, holders and clients: the lease of a holder is not closed under it, a task has one client, clients in any phase count against the limit, and a busy lease is not disposed of. |
| `StorageProofs` | `LockInvariant` | The inductive invariant of the lock files: the lock of a live owner is in its place or in a quarantine; and of two attempts that have published one, one has it in its place and will still read the name the other's lie under, as long as nobody moves the lock of one of two such attempts aside. For any attempts, processes and hosts that die anywhere, with the names of the quarantines listed in one step and read one by one. |
| `StorageProofs` | `LocksAreSafe` (`LockSafety`) | As long as no lease has expired under a live owner, and no lock was moved aside while two live attempts had one published, one attempt at most is between the check of its lock and the release of its fence, and what a transaction publishes was computed from the state file as it is then, for any attempts, hosts and deaths. Without the second condition it is false: four live attempts can break it. |
| `ServicesProofs` | `RuntimeInvariant` | The inductive invariant of the supervisors and the runtime gate: every app-server is known by its record or by the reservation of its start, whoever is inside a call knows which there are, and what a restart was found to be safe by stays so until it signals. |
| `ServicesProofs` | `AppServersKept` (`AppServerKept`) | A user never has two app-servers, and the agent never signals one with a task or a device login under way, for any starts, calls, turns and installations, crashes of either supervisor, servers that hang or die, and reboots. |
| `RelayProofs` | `RouteInvariant` | The inductive invariant of a route: every capability installed at the relay or on its way there is one the configuration file has and a running connector keeps, the renewal loop rotates to nothing older, and rotations do not overlap. |
| `RelayProofs` | `ConnectorNeverBehind` (`NeverBehind`) | What the connector, or the agent that is started after it, registers with is never older than what the relay has installed, for any sockets, lifetimes, lost registrations and answers, crashes of both sides and renewals by another process. |
| `RelayProofs` | `RouteIsCovered` | No order of expiry, pruning, close events and restarts leaves the relay with a route or a connection that no authorization covers, or with more connections than a route may have, in whatever stage they are. |
| `AccessProofs` | `AccessInvariant` | The inductive invariant of the identity tables, the tickets and the executions on their way, for any browsers, devices, keys, connections and issues of codes, several of which may be in force, with executions that leave the replay window before they end, failing transactions, restarts and commands of the owner. |
| `AccessProofs` | `AccountsAreKept` (`AccountsKept`) | Of any number of first registrations one becomes the owner, a recovery code or handoff lets one request in, and a remembered session has the row of its device under its own key, for any interleaving of reads, transactions, failures and restarts. |
| `ProvisioningProofs` | `ProvisioningInvariant` | The inductive invariant of the provisioner: every claim to a route, in the registry, a home, a request or the daemon, is of the account that owns it, and the Controller's route is nobody else's. |
| `ProvisioningProofs` | `AccountsHaveOneRoute` (`OneRoute`) | An account gets the route of its first grant and no route is given to two accounts, for any users, names, credentials, deaths and recycled accounts. |

The assumptions are those of the modules, evaluated by TLC in the runs: bounds are
natural numbers, a missing value is not a value, and, for the queue, items are positive
numbers whose order is the order of the queue.

*Queue.* `AtMostOnce` is not inductive: that two requests for an item never share a live
claim depends on what both copies of the database say about the requests that were
sent. `DeliveryInv` adds, for memory and disk alike, that every request ever sent for an
item is either given up by a retry or recorded as the row's claim (`RowInv`); that a
worker about to send holds the newest identity under which nothing was sent, with its
claim open in both copies (`SendReady`); that workers past the gate hold it (`GateHeld`),
which makes such a worker unique; and that a stopped Agent has no memory of its own
(`DownIsIdle`). `RowTransaction` shows once that a transaction with any outcome keeps the
row invariant if its new database has it; each action then needs only its new row.

*Receipts.* `MutationInv` says of each copy of the receipts what it knows of the requests
(`ReceiptsInv`: a receipt belongs to a request with its key and input, a completed one
holds the outcome of an execution that is over, and an execution stays on record until
its completed receipt expires). It is stated for memory and disk because a failing
transaction lets them differ in both directions; `SameExpiry` keeps them from expiring
apart, and `InSync` says that they agree until a transaction fails, which `PendingHasRunner`
needs. `InFlight` makes the request that works for a key unique, `DownIsQuiet` says what a
crash leaves, and `Progressed` relates how far a request got to whether it ran. For the
refinement the execution of a key is the one member of `Unforgotten(k)`: `Execute` and
`Return` map to the steps of the same meaning, everything that answers or forgets to
`Settle`, and the rest stutters.

*The page and its Agent.* `MutationClient` extends the receipts, and `ClientUsesReceipts`
shows that behind connections that queue, drop and repeat requests it still implements
`MutationSpec`, so that the theorems about receipts hold of the composition.
`ReportsTruthful` needs little more: what is reported is over (`ReportsFinal`), and an
operation that was not submitted, or that was rejected for want of a transport, is in no
queue.

*Leases.* `LeaseInv` describes how the maps of the manager, the clients and everyone who
waits agree: `MapsAgree`, `ClientsKnown` and `HoldersKnown` for the entries, and
`DisposalsAwaited` for the hard part, the gap between the end of a disposal and the
continuation of those who awaited it, in which nobody may dispose of the same client
again. That one task has one client and that the capacity is kept follow by counting
(`EntriesCount`, `ClientsCounted`), from the library's theorems on finite sets.

*Configuration.* `LockHeld` says that one writer is inside the lock however others died,
`WorkIsCurrent` that what it is about to publish is an update of the file as it is now.

*Locks.* An attempt that has published its lock owns it until it checks it for a commit,
and `LocksKept` says where that lock may be: in its place, or in the quarantine of somebody
who moved it by mistake. That one attempt at most gets past its second look at the
quarantines cannot be said of the look alone, which lists the names in one step and reads them in
others. `OneHolder` says of any two attempts that own a lock that one of them (`Overlap`)
has it in its place and the other's lies under a name that the first one will still read:
its look has not begun, has found a live lock already, or has that name before it. So two
cannot both be past it. What would break this is that somebody moves the lock of the first
one aside meanwhile, which is what `crowded` records; it takes a fourth live attempt, TLC
finds the overlap then, and the theorem says so in its hypothesis. Attempts, owner files,
hosts and deaths are arbitrary, also in the middle of a reclamation. Both conjuncts of
`LockSafety` moreover need `expiries = 0`: a process suspended for a minute, whose heartbeat
does not renew its lease, may lose its lock to another host, and then the check before the
rename (`AssertOwned`) and the fence are all that protects the file. They are not enough:
with one lease that expires under a live owner TLC finds two attempts in the section after
40 steps, in which a late reclaimer moves the fence aside.

*App-server.* A process can be lost sight of between its start and its record, and after
its supervisor has died. `ServersKnown` says that it never is: it has its record or a
reservation of this boot that names it, and there is only one. `Informed` says what the
supervisor that holds the lock knows at each step: where it removes files and spawns, no
process lives; where it has spawned one, nobody else's does; and the record whose process
it signals is the one it read. That a restart spares work needs the gate: while an
operation that restarts has it, nothing is asked of the server (`GateHeld`), work needs a
live process (`WorkHasServer`), and so `RestartWarranted` keeps what
`#assertRuntimeRestartSafe` found: if a task is running, it is not with a process that has
a record or is about to get one. The reservation counts here as well: without
`Starting` the server that another supervisor is about to publish could be at work.

*Relay.* `NeverBehind` says that the configuration file and the connector have reached
what the relay has installed. A registration whose answer is lost may have been installed
or not, so the invariant says the same (`Reached`) of every registration on its way, and
that the candidate of a transition, whenever it is sent, is no step back: a rotation is
the loop's, there is one, and its candidate is what the loop has read (`ChainSound`);
that is at least what the connector has and at most what the file has (`LoopAhead`). The
file only grows because a grant is bounded by the lifetime and the credential that hold
when it is made (`Granted`), both of which only grow; so a renewal by another process is
never smaller. The connector drops its capability only when the process ends, and a new
one takes that of the file. `LiveIsAuthorized` and `LoadKept`, two of the three parts of
`TunnelsAuthorized`, are inductive by themselves; the third one, the byte budget, is a sum.

*Managed users.* The three properties of `AccessSafety` are not inductive: that the row
says enabled when a marker is removed depends on the revision that the operation read.
`RowsRead` says that an operation whose revision is still the row's has a status it may
change, and that a run about to claim a removal finds it pending; `MarkerStays` that whoever wrote the marker finds it; `ClaimHeld` that a removal
has its claim to itself; `RemovalTakesHold` what it has achieved so far. The exceptions
(`crossed`, `doubled`, `slipped`) are those of the properties, where they are explained.

*Accounts.* `AccountsKept` is about what several requests do between their reads and their
transactions. That one first registration is stored follows from `OwnersInitialize` (an
owner leaves an Agent that is initialized) because the transaction looks again; that a
code lets one request in from `CodesRunOut`: an accepted code belongs to an issue that is
not in force any more and never will be again, for a new issue has a new number, whether it
is added or replaces the others; so no later transaction finds it, whatever was read before.
`RememberedIsBound` needs to know where a session's identity came from: a row of the
devices keeps its first key (`RowsAreKeyed`, and every action that touches a row), the
peer of a connection was checked against it when it was admitted (`PeersKnown`), a
ticket is only kept for such a peer (`TicketsBound`), and a request that finishes belongs
to the connection it came over, or to one that is gone, and remembers a device
only with its row (`RequestsOwned`). Connections, keys, devices, codes, executions
and commands of the owner are arbitrary sets and numbers.

*Routes.* That no two accounts get one route cannot be said of grants alone: a route
travels from the registry to an answer, a home, a later request and the
daemon's memory, and an account that is removed and created again
leaves all of these behind. `Claims` collects whoever holds a route in any of these
places, and `OneClaim` says that a route has one claimant there. A new claim copies one
that is there or draws a route above `Drawn`. `GrantsBound` and `OneBinding` give
the other half, that an account gets the same route again: what an answer carries was
registered first, and the registry has one route for a user; `IdsMatch` that
an answer reaches the client that asked, although ids and files outlive both. The
Controller's route lives in a file of root and a registry of the daemon: `AdminKeeps`
says that both agree and that it is nobody's claim, `NoAdminYet` that before the first
installation nobody knows it.

The invariants were checked by TLC, as invariants of their components' specifications,
before they were proved. Only `MutationInv` and `DeliveryInv` are properties of a run: the
runs check what follows from the others.

What is only model-checked, and why:

- Liveness needs fairness and `ENABLED`, which the prover does not handle:
  `RequestsAnswered`, `MessagesProceed`, `AcquisitionsReturn`, `RouteComesBack`,
  `OperationsSettle`, `PortComesBack`, `GateReleased`, `RemovalFinishes`,
  `OperationSettles`, `RenewalCatchesUp`.
- What recursive definitions and folds compute for every input: the budgets in
  `ChannelKept` and `TunnelsAuthorized` are sums over connections (the rest of the second
  one is `RouteIsCovered`), the timelines of `PageTruthful` select from sequences.
- `TurnsFollowed`, `PermissionsAgree`, `ForkIsOwned`, `ReferencesKept`,
  `SetupTruthful`, `PairingKept`, `ScenarioKept` and
  `StoresKept` speak of messages on their way in sequences whose every content an inductive
  invariant would have to describe, or hold of histories that the runs bound; no
  inductive invariant was found for them that is worth more than the run.
- `Exclusion` of the process lock is checked for three processes. It is false for four
  (`process_lock_four`), so it has no proof for every number.

## 5. What the checks found

Two findings have a run of their own:

1. `process_lock_four`: with four processes on the lock of a dead one, two can hold it.
2. `connect_lost_answer`: an executed one-time mutation is reported as failed when the
   retry finds the port still reconnecting.

Disagreements between the code and what the repository says of it that were met while
modelling. The definition stays in the module and TLC refutes it, but it is not among the runs:

| Definition | Module | What was said | What the code does |
| --- | --- | --- | --- |
| `IndeterminateBlocksTask` | `QueueDelivery` | `docs/architecture.zh-CN.md` 5.3: an item with unknown outcome holds back its task | `nextPending` takes no account of it |
| `FailureIsFinal` | `MutationClient` | `durable-mutation.ts:95`: a rejected operation did not happen | an error of the status query is rethrown as the mutation's failure |
| `NoOverlap` | `ThreadLeases` | one client per task | `closeThread` forgets the lease before its client is closed |
| `FenceFailsClosed` | `StateLock` | reclaimers fail closed while a commit fence exists | a process that looked before the fence existed may quarantine the lock |
| `SwitchMarkTruthful` | `Runtime` | the mark says that a restart is due | a restart that began before an installation clears the mark it wrote |
| `ExplicitNameWins` | `Threads` | an explicit name wins over a derived one | a third name is lost when another client sets the name that is being restored |
| `RotationKeepsTunnels` | `Relay` | a rotation keeps established tunnels | one whose registration never arrived is taken for done, and tunnels are cut at the old expiration |
| `NeverRegresses` | `TurnTracking` | an authoritative read brings the lease up to date | an older read overwrites a newer notification |
| `EnsureKeepsState` | `StateDatabase` | `ensure` creates what is missing | it fills a file as new after another process committed a change |

Five more have no definition of their own, because the properties that are checked, or
their theorems, state them as exceptions:

- `LocksAreSafe` (`StateLock`): with four live attempts on the lock of a dead one, two can
  transact at once, and one overwrites what the other has published. A publishes its lock
  and B moves it aside by mistake; C, whose first look came before, publishes its own
  in the free place and lists the name that B gave to A's; D moves C's lock aside; B puts
  A's back; C finds no file under the name it has listed (`state-lock.ts:329-341` reads the
  names after the directory) and takes the lock, which A has too. The second look was to
  prevent that. TLC needs 49 steps, more than a run of the suite affords; `crowded`
  becomes true at D's step. Apart from that, a lock that is put back after its owner has
  swept the quarantines (`state-lock.ts:322`) stays, and blocks everybody on the host
  until the owner's process ends; three attempts are enough for it.
- `RemovalFinishes` (`Admin`): a watchdog's script that is killed leaves its lock directory
  (`watchdog.ts:63`), and no later run removes it: the session of a user who was shut out
  is no longer closed, and no Agent is started again, until somebody removes it.
- `ControlsTruthful` (`Onboarding`): `#cancelLogin` forgets the login and then asks Codex
  (`setup-service.ts:433`). When that fails the page is told of an error and keeps a code
  whose login nobody follows any more.
- `RenewalCatchesUp` (`Provisioning`): an account with the uid or the name of an earlier
  one is refused for ever, because rows of managed users and bindings are never removed
  (`admin-repository.ts:123`). And a user whom the Controller disables is not
  refused: the provisioner looks in another database.
- `OperationSettles` (`SideChats`): a creation whose last write throws leaves a row
  `creating` that start, delete and abandon refuse until the Agent is restarted.

Smaller observations, none of which contradicts a property that is checked: a failed
save of settings re-opens a task the user has left (`ThreadSettingsPanel.tsx`); after a
failed refresh the page keeps the older snapshot; a compaction that happens while the
page is disconnected is only seen at the next reload; a transport lost between `open()`
and `#attach` is never noticed (`gateway-port.ts:71-75`); `encrypted-transport.ts:203`
consumes sequence numbers before its aborted check; a failed `replaceSnapshot` may take
effect later; a disable that is refused by its revision leaves the access marker; a first
pairing that times out falls back to `sudo` and draws a route that has no binding
(`cli.ts:946`); killed writers of the configuration leave temporary files, and a failed
directory sync after the rename reports an error for a published change; a login whose
answer is lost blocks restarts for 15 minutes; a lease whose task went to `systemError`
is not idle and stays until its holders go (`thread-lease-manager.ts:463`).

## 6. Plan

Order in which the model was built: state file and queue with proofs; receipts, their
client and the abstract `DurableOperation`; leases, locks, side chats; sessions, turns,
permissions, supervisor, identity, relay; the page, set-up, connection flows, channel;
databases, configuration, admin and provisioning.

The proofs followed in the order of what a failure would cost: the queue's deliveries, the
receipts, their client and the refinement of `DurableOperation`; the configuration, managed
users and leases; accounts, grants of routes, locks, the app-server and the route at the
Relay. What is not proved is named at the end of section 4.

## 7. What is not modelled

Cryptographic primitives and handshakes, wire schemas and JSON projection (libraries and
data formats); rendering of the user interface; installers, deployment scripts and generated Codex schemas; the parts of
the command line that only print; archive, unarchive and hand-over of tasks; browsing of
directories; preferences, a single row with a revision; audit logs; the old host stores
other than the queue, which nothing in the present Agent calls. The app-server, the file
system and the browser are external and appear through the behaviour the code relies on.
Time is abstracted to expiry ticks and to timeouts that may fire at any moment.
