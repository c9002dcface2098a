# mykubespray: a verification project

mykubespray is an HTTP server (gin) that installs and operates Kubernetes
clusters: it runs commands on hosts over SSH, streams their output to
websockets, copies files, applies manifests, watches rollouts, imports users
into Keycloak and samples the state of machines. This directory models the
parts of it whose behaviour comes from concurrency, failures and time, checks
them with TLC on small instances, and proves their safety properties with TLAPS
for every size.

The source is `src/pkg/...`; all paths below are relative to `src/pkg`.
PROJECT.json relates every definition of a module to the lines it models.

## 1. Inventory

| Component | State | Operations | Interacts with |
|---|---|---|---|
| SSH executor pool (`utils/ssh_session_pool.go`, `service/pool.go`) | `Executors` map by host name, one mutex, per call: wait group, results channel, answer | nine `...Parallel` methods, eight single-host methods | remote executor (calls), pool handlers (return value) |
| Remote command streaming (`utils/remote.go`) | session, two scanners, unbuffered `logChan` | `ExecuteCommand`, `ExecuteCommandNew` | cluster jobs (caller), websocket consumer (channel) |
| Remote file copy (`utils/remote.go`) | temporary files on the host, results channel | `CopyMultiFile`, `CopyFile` | pool (caller) |
| Remote host files (`utils/remote.go`) | `/etc/hosts`, `/etc/resolv.conf` | `AddHosts`, `AddMultiHosts`, `UpdateHostsFile`, `UpdateResolvFile` | pool (caller) |
| Keycloak user batch (`utils/keycloak/userbatch.go`) | wait group, semaphore, attempts | `ProcessUsers` | Keycloak server (HTTP, lossy) |
| Request chain (`router`, `aop`) | handler index, captured error, writer | middleware of two route groups | every handler (calls, panics) |
| Kubernetes apply (`utils/kubernetes/apply.go`, `utils.go`) | shared answer under a mutex, attempts | `ApplyYAMLs`, `DeployYAMLs` | API server (HTTP) |
| Rollout and status checks (`utils/kubernetes/apply.go`) | a timer and a ticker per call | `UpgradeDeployment`, seven `Check...Statuses` | API server, Deployment controller |
| Cluster jobs (`service/kubekey.go`, `utils/kubekey.go`) | configuration file on the host that runs `kk` | create, delete, add node, delete node | streaming (calls), other jobs (the file) |
| Machine manager (`utils/machine`) | machines, observers, update channel, subscription slices | register, remove, subscribe, unsubscribe, periodic sampling | observers (callback), hosts (SSH) |
| Health checker (`utils/kubernetes/health.go`) | informer caches, two health maps, a stop channel | `IsClusterHealthy`, `UpdateCache`, the checks, start and stop of the informers | API server (watches); its own check goroutines (the maps) |
| Disk mount, OS client (`service/os.go`, `utils/os.go`) | LVM volumes of a host | `Mount`, many single commands | hosts (SSH) |
| Service configuration (`service/haproxy.go`, `keepalived.go`, `apiserver.go`) | configuration files, units and the API server's manifest of a host | `Configure`, `ConfigureManifest` | hosts (SSH), OS client (calls) |
| Local executor (`utils/local.go`) | two scanners, the caller's channel | `ExecuteCommand`, single commands, file copy | made by every service, its methods not called |
| Server (`server`, `httpx`) | signal channel, listener, shutdown context | `Run`, `Init` | request chain (connections), `os/signal` |
| Database helpers (`utils/mingorm`, `db`, `migrate`) | query cache, query builder | CRUD, snapshot | unused by handlers |
| Logging, JWT, encryption, entities, scripts | – | – | – |

What makes each of them correct, and what is hard about it:

* **Pool.** One connection per host; nobody sends on a closed channel; a host
  that hangs stops nobody else, unless it is asked with the mutex held; the
  answer is made of all hosts' reports. Hard: interleavings of goroutines, a
  lock that one function takes and another relies on, connections shared by
  name.
* **Streaming.** Lines in order, none lost, and a last message. Hard: three
  goroutines send into one channel, nobody waits for the scanners, and a panic
  of a send is recovered and forgotten.
* **File copy.** A success is a copied file. Hard: temporary names are shared.
* **User batch.** The batch ends; the bound on concurrency holds; the log says
  what happened. Hard: lost replies and retries of requests that were done.
* **Request chain.** A panic in one request is contained and told. Hard: two
  middlewares recover, one of them across a goroutine.
* **Apply.** The answer is what the cluster accepted. Hard: check-then-act,
  concurrent manifests of one object, timeouts after the write.
* **Rollout.** "Updated" means the new image runs. Hard: a status that lags.
* **Cluster jobs.** `kk` runs on its own request's configuration. Hard: jobs
  that share a file, errors that are ignored.
* **Machine manager.** Observers hear of the machines they chose, and in the end
  what is true of them. Hard: an unsynchronised slice that is shifted in place
  under a reader; samples that overtake each other.
* **Host files.** A name that was added resolves to its address, and all others
  as before. Hard: read, edit and write are separate commands, each of which is
  several steps; requests overlap; scripts hide the failure of their first half.
* **Disk mount.** A success is a grown file system. Hard: four commands that
  cannot be repeated and are not undone.
* **Service configuration.** A success is a configuration in effect. Hard: files
  that are empty while they are written, units that already run.
* **Health checker.** The answer is about the cluster as it is. Hard: it is made
  of what earlier checks left in maps that nobody clears or guards.
* **Server.** A signal ends it, after the requests it has accepted. Hard: a
  channel that drops signals, handlers that hang, connections that Shutdown does
  not know.

PROJECT.json `hazards` lists these at their lines.

## 2. Modules

Each module has its state as VARIABLES, one action per step of the code between
two synchronisation points or remote calls, and the environment (servers,
remote commands, the clock) as actions of its own. Definitions whose comment
begins "Mutant of" are variants with a plausible bug, which show that a property
notices; no specification uses them.

| Module | Models | How state and actions correspond to the code |
|---|---|---|
| `ParallelCall` | what a call that fans out promises: the `...Parallel` methods, `CopyMultiFile`, `ApplyYAMLs` and `DeployYAMLs` | one report per host, file or manifest, then one answer |
| `StreamedCommand` | what `ExecuteCommand` promises who follows it | a session or none, a command, one terminal message |
| `ExecutorPool` | the pool | `mutex`, `executors` are the fields; `results`, `closed`, `received`, `verdict` the locals of a call; `pc` of a thread: `lock`, `get` (GetSSHExecutor), `dial`, `got` (unlock), `run`, `push`, `done`. A method is a record: pooled or not, and the outcomes its goroutines push; a single-host method is a record: unlock before or after the operation |
| `LogStream` | the three streaming methods (`ExecuteCommand`, `ExecuteCommandNew`, the local one) and the consumer | `mode` is the method; `main`, `scanner`, `consumer` are the goroutines; a send on the unbuffered channel is a joint step of sender and consumer |
| `FileCopy` | the copy methods | `content` are the temporary files, `dest` the destinations, which a failing `cp` may have left alone, copied or truncated |
| `UserBatch` | `ProcessUsers` and `performAction` | `wg`, `sem` are the locals; `accounts`, `effective` the server |
| `RequestChain` | both route groups | `stack` is the Go call stack of middleware, `index` gin's; `Unwind` is a panic passing a frame that does not recover |
| `Server` | the process around it | extends `RequestChain`; `main` is the goroutine of `Run`, `listener` the one of `httpx.Init`, `signal` the channel of one signal |
| `KubernetesApply` | apply and deploy | `stored` is the API server; `unheard` are writes whose answer was lost |
| `Rollout` | upgrade, rollback and status polls | `now` is a clock, `tick` the ticker's buffered channel; `image`, `version`, `status` the Deployment; a look at its pods finds any counts the image allows (`Counts`) |
| `ClusterJob` | the four kubekey jobs | `content` maps (host, cluster name) to what the file holds; `Truncate` and `Write` are the two effects of `echo > file`; `StartError` is a `session.Start` that is refused, of which the client hears as of the end of `kk` |
| `MachineManager` | manager and `AdvancedObserver` | `array` is an observer's backing array, read by index while another goroutine shifts it; `sample` are the goroutines of `UpdateMachineStatus`, `handler` the one of `handleUpdates`; `heard`, `changedAt` and `late` are history |
| `ManagedHost` | a machine requests work on | `root` is `WhoAmI`; reboots |
| `HostFiles` | the four methods on `/etc/hosts` and `/etc/resolv.conf` | extends `ManagedHost`; `hosts`, `resolv`, `tmp` are the files, `content` what a request has read, `edit` what it, or its `sed`, is about to write; `sed -i`, `cp` and `tee` are two steps each; a line is [`ip`, `names`, `spaced`], and `EndsIn` is what the expression of `sed` matches |
| `DiskMount` | `Mount` | extends `ManagedHost`; `pv`, `vg`, `lv`, `fs` are the devices that have come that far; `step` is a request's next command |
| `ServiceConfig` | HAProxy, Keepalived and the API server's manifest | extends `ManagedHost`; `unitFile` and `unitRuns` are what is in a unit's file and what it runs with, `manifest` the manifest's kind and flags; `WriteError` is an `echo > file` that fails after the truncation |
| `HostRequests` | the three on one machine | extends `HostFiles`, `DiskMount` and `ServiceConfig`; a reboot is one step of all |
| `HealthChecker` | `K8sHealthChecker` | `requested` and `started` are the informers, `indexer` what they know, `cache` the two maps, `checks` the goroutines under way (a bag) |

Each module `...Proofs` extends the module it is named after. Three of them
extend a second module and hold its theorems as well: the rest of `apply.go`
(`Rollout`) is in `KubernetesApplyProofs`, the jobs whose `kk` is a streamed
command (`ClusterJob`) are in `LogStreamProofs`, and the other watcher
(`MachineManager`) is in `HealthCheckerProofs`; the names of those modules
(`RolloutSpec`, `JobSpec`, `ManagerSpec`) tell the two apart.
`HostRequestsProofs` covers the three parts that `HostRequests` extends, and
`ServerProofs` the request chain that `Server` extends.

The `MC...` modules give the structured constants of their module; `LogStream`
and `Rollout` are run directly.

A component meets the one that calls it in an abstract module, which one
implements and the other relies on. `FileCopy` is what `CopyMultiFileParallel`
runs per host: `ExecutorPool` takes its outcome from `ResultPerFile` (a success
per file that arrived, and nothing else), and `OneResultPerFile` of `FileCopy`
says that a copy has just these outcomes; over its files, each copy implements
`ParallelCall` as the pool does over its hosts, and so do the two apply methods
over their manifests. `LogStream` is what `ClusterJob` runs as `kk`: the stream
implements `StreamedCommand`, and so does each job as its client sees it.
`RequestChain` takes each handler as one of its outcomes: data, a page error, a
panic, or a panic in a goroutine it started, which is what `KubernetesApply`
calls `crashed`; `Server` puts the requests into a process that starts, listens
and is told to stop. The three parts of `HostRequests` share the machine, its
login and its reboots and nothing else, so its requests work on one part in
each behaviour.

## 3. Runs

| Run | Shows |
|---|---|
| `executor_pool` | safety of pool and answer, `OthersFinish`, `ReturnsUnlessHung`, and that the fan-out implements `ParallelCall` |
| `log_stream` | order, explained losses, the terminal message, and that the remote `ExecuteCommand` loses no line |
| `user_batch` | the bound, honest outcomes, and when the batch returns |
| `server` | what the client and the logs learn of a panic; every accepted request is answered, whatever another one does; what a shutdown waits for, and that SIGTERM ends the process |
| `recovery_500` | **violated**: the comments of `Recovery` promise a 500 for a panic, the code sends an empty 200 |
| `kubernetes_apply` | the answer is true; a namespaced object is never updated; the call returns |
| `cluster_job` | whose configuration `kk` reads, with the complete list of insecure registries |
| `file_copy` | a success is a copied file but for shared temporary names; when the call blocks |
| `rollout` | what "updated" is worth; the polls end |
| `machine_manager` | who is told of a machine, and when what was told last is true |
| `host_requests` | what a success of a host-file, mount or configuration request is worth, what its failure, a lost reply, a reboot or an overlapping request costs |
| `health_checker` | when the health answer is about the cluster |

Several properties describe exceptions that the code has, precisely enough that
nothing else can hide behind them. Read them as statements of what callers may
rely on:

* `OwnMachineUnlessNameShared`: two entries with one `host.Name` in one pool
  run on the machine that connected first.
* `OthersFinish`, `ReturnsUnlessHung`: a host that accepts the connection and
  never completes the handshake stops everyone else, since the dial is made with
  the mutex held; and so does any host that never ends an operation of the four
  single-host methods that defer their unlock (`CopyFile`, `CopyMultiFile`,
  `AddHosts`, `AddMultiHosts`: lines 416-438 and 594-616). A call whose own
  hosts all answer then never returns.
* `SuccessIsHonest`: a dial error of a `...WithoutPool` method, and a file that
  `CopyMultiFileParallel` did not copy, are not failures of the call.
* `LossesExplained`: a line is lost only to `ExecuteCommandNew`'s close, to the
  local `cmd.Wait`, which closes the pipes under the scanners, or to a line
  longer than the scanner's buffer; `TerminalMessage` names the command that gets
  stuck behind such a line, and the session that `ExecuteCommand` cannot open; a
  command that cannot be started, or fails, is told of in every method.
* `OutcomeHonest`: a lost reply makes a done change look failed.
* `BatchReturns`: an unknown action, or `MaxConcurrent` 0, hangs the batch.
* `UnloggedIffRecovered`: a panic on a websocket route is logged as a success,
  one on an http route is not in the access log at all.
* `NamespacedNeverUpdated`: applying a changed manifest of an existing
  namespaced object is an error, never an update.
* `RunsOwnConfiguration`: `kk` may run on a stale file after a failed write,
  and on another job's if both name the same cluster.
* `SuccessIsCopied`: two destinations with one base name may be mixed up; and a
  file reported as failed may be as it was, copied (the exit status of `cp` was
  lost) or truncated (a full disk).
* `RolledOutMeansReady`: an image that cannot run is reported as rolled out if
  the controller has not seen the edit by the first look; or if the Deployment
  has no pod at all, since 0 = 0 = 0; or if somebody else's edit is what the
  status is about.
* `VerdictIsFair`: an observer misses an update only while its list is shifted.
* `SettledStatusHeard`: what was last told of a machine is how it is, once a tick
  has come after its last change and its samples are delivered; but not if an
  older sample was still under way at that tick, which may be delivered after the
  new one. "Not working" may also mean that the command failed
  (`utils/os.go:286-293` makes no difference), and either may be about the last
  machine's process.
* `DrainedOrTimedOut`: a websocket is cut off by a shutdown, and `kk` with it.
* `TermEnds`: a SIGTERM that arrives while a SIGHUP is unread is lost.
* `DoesAsAsked`: its comment lists what each of the host-file methods takes away
  or leaves besides. In particular `AddHosts` leaves a line in which the domain
  is not the last name, or is set off by a tab, and then its own line is not the
  one that counts; and it deletes the line of another name that its domain
  matches as a regular expression (`lb-cars.local` for `lb.cars.local`); although
  the script's comment says "Remove all lines containing the hostname"
  (`utils/remote.go:453`). A `cp` or `tee` that fails on a full disk leaves
  `/etc/hosts` empty, and the error does not say so.
* `BystandersKept`: overlapping `AddHosts` requests lose each other's lines, and
  those that `sed` takes for theirs, but no others.
* `NameserverOnce`: a nameserver counts as present if its address is part of a
  longer one or of a comment; two requests at once list it twice.
* `RetryNeverCompletes`: a mount that failed after its `vgextend` can never be
  completed by a repetition.
* `ConfigurationInEffect`: a unit that was running keeps its old configuration,
  and Keepalived may be configured without an interface.
* `OidcTakesEffect`: going back to an earlier issuer changes nothing; an empty
  manifest, or one without that container, is left without flags. A container
  without a command panics, at the unchecked assertion of
  `utils/apiserver.go:69`, before it reaches the branch for it ("if there is no
  command field, initialise it", in Chinese, line 77).
* `ManifestKept`: a write that fails after the shell has emptied the file leaves
  no manifest; and overlapping requests, or one after such a failure or after a
  reboot in the middle of a write, may leave an empty map, with a success.
* `BlindUntilStartedAgain`: with `StartInformers` called once and first, as its
  name suggests, the checker answers yes for ever.
* `SettledAnswerIsRight`: pods of one name in both namespaces hide each other,
  and an object that is gone keeps its last entry.

### Bounds, and why they suffice

* Pool: two workers and one single-host caller, whose host has the name of the
  first and the address of the second. Two threads race for the mutex and the
  map, and a third makes a queue; the interesting conflict is between equal
  names, and whoever of the two connects first decides where both work. The
  first address may never answer: it is reached by its own worker, by the
  single-host caller over the shared connection, with the mutex held or not, and
  not by the second worker, whose waiting is the question. Two files make partial
  copies. The theorems cover all sizes.
* Streaming: two lines per stream, a window of one. One line is in flight, one
  follows it: a loss, a reordering, and blocking behind an overlong line all
  need two. The 64 KiB limit of the scanner is the kind of a line.
* User batch: three users, two of one name, semaphore 2 (somebody waits), two
  attempts (there is a retry and it ends).
* Server: one request on an http route and one on a websocket route, for
  containment and for the two ways a shutdown treats them; the chain itself is
  complete. Two signals: one may meet another in the channel.
* Apply: two manifests of one object and two attempts of the code's five
  (`Steps`): a first, a retry, and the end of the backoff.
* Jobs: two jobs, the fewest that share a file; the four host lists hold the
  empty list, one registry host, two of them, and an empty registry list.
* Copy: the three calls differ in number of files (two, none, one); all share
  the one temporary name, the worst case.
* Rollout: five units of the clock, interval 2, timeouts 1 (before the first
  tick) and 3 (after it, between two ticks); up to two pods, so that some, all or
  none of them are of the new image, and ready.
* Machines: two machines, which run one process or different ones, so that the
  second's is the one that is looked for; one observer, with no list, one of one
  machine or one of two, in which the machine that is reported is first or
  second. Two ticks, so that samples of one machine overtake each other. One
  change (`MaxChurn`): a connection or a process that changes between the ticks,
  or a list or registration that changes while an update is delivered; what two
  changes do to each other is left to the theorems.
* Host requests: two file requests (an overlap, or a second one after the first
  has failed), over three records (a name twice, an address twice) and four
  initial files (empty; an alias after the name; the alias before it, and a
  longer name; a line with a tab, and a name that looks like another to `sed`);
  three mounts, two of one device; two configuration requests with two settings
  over five kinds of manifest; one reboot, which may hit any of them half-way,
  and after which the next request runs.
* Health: a node and two pods that share their name; two initial clusters from
  which the others are one change away (`MaxChanges`); `MaxChecks` 4: the three
  checks of a call beside one that is left over from an earlier call, the fewest
  that can overtake each other.

Every run finds its bound cases: each action of each next-state relation fires.

### Fairness

Weak fairness is assumed for every goroutine of the server: Go schedules each
goroutine that can run. Strong fairness is used in two places, where a
goroutine waits in a queue that Go serves first in, first out: for the sends
into the unbuffered `logChan` (`Report`, `SendLine`) and for the sends into the
semaphore (`UserBatch!Acquire`), whose receivers or tokens come and go. In
`ExecutorPool` weak fairness is enough even for the mutex, because each of the
finitely many threads takes it once. Dials and operations of a machine in
`Hung` get no fairness, whoever asks for them: a worker, a single-host caller,
or one of these over a connection that another entry of the same name has
opened. In `LogStream` the remote command is fair (it prints and ends when it
can), and so is the websocket consumer. The clock of `Rollout` is fair. Neither
`ssh.Dial` nor `session.Run` has a deadline (`utils/ssh.go:45`); of the
machines that are not in `Hung`, all dials and operations end, as all HTTP
requests do, with a result or an error. In `Server` the goroutine of `Run`, the
listener's goroutine and the steps of each request are fair; a handler may hang
at any time (`Hang`), after which it has no fairness left, and nobody is made
to send signals or requests. `HostRequests` and `HealthChecker` are checked for
safety only. Every retry is bounded by the code itself, so no property needs a
server to recover.

## 4. Proofs

`ExecutorPoolProofs` proves, for any sets of workers and single-host callers,
any names, addresses, number of files and set of hosts that hang, from
`PoolAssumption` alone:

| Theorem | States |
|---|---|
| `TypeCorrect` | `Spec => []TypeOK` |
| `OneConnection` | `Spec => []OneConnectionPerName` |
| `OwnMachine` | `Spec => []OwnMachineUnlessNameShared` |
| `NoSendAfterClose` | `Spec => []NoSendOnClosed` |
| `HonestAnswer` | `Spec => []SuccessIsHonest` |
| `PoolImplementsCall` | `Spec => ImplementsCall` |

None of these properties is inductive by itself. The inductive invariant `IInv`
strengthens them by three parts, each proved to be preserved by every action:

* `PoolInv`: whoever looks up, dials or stores, and whoever runs with a deferred
  unlock, holds the mutex; a thread has opened nothing before its dial; one that
  is about to dial finds nothing under its name; and whatever was opened through
  the pool is in the map. Without the last two `OneConnectionPerName` is not
  inductive: a second dial under one name is excluded only by the map.
* `LedgerInv`: the books of the results. What a worker has pending, what is in
  the channel and what was received belong to that worker, appear only once its
  operation has returned, and contain its failure exactly when it had one,
  unless that failure is one of the two that are lost.
* `AnswerInv`: the channel is closed only when all workers are done, and the
  verdict is given when it is closed and empty, as a failure exactly if a failure
  was received.

From the first part of `AnswerInv` follows `NoSendOnClosed`, from the other two
together with `LedgerInv` follows `SuccessIsHonest`.

`OwnMachine` adds `OpenerInv` to it: an opener works on its own machine, what is
stored under a name was opened by a pooled caller of that name, and only pooled
callers look a name up.

`PoolImplementsCall` uses `IInv` to map each step: a worker's last step is its
`Settle`, the return is `Answer`, all others stutter.

`HostRequestsProofs` proves, for any requests, devices, records, manifests and
files of any length, any number of reboots, and every interleaving, from the
assumptions of `ManagedHost`, `HostFiles`, `DiskMount` and `ServiceConfig`:

| Theorem | States |
|---|---|
| `MountTypeCorrect`, `MountIsHonest`, `NoRetry` | `Spec => []MountTypeOK`, `[]MountedMeansGrown`, `[]RetryNeverCompletes` |
| `MountAlone` | the same three of `MountSpec` |
| `ManifestIsKept` | `Spec => []ManifestKept` |
| `InEffect`, `TakesEffect` | `Spec => ConfigurationInEffect`, `Spec => OidcTakesEffect` |
| `ServersOnce` | `Spec => []NameserverOnce` |
| `OthersStay` | `Spec => []BystandersKept` |
| `DoAsAsked` | `Spec => DoesAsAsked` |

* `MountInv`: whether a success is honest depends on where the device was at each
  of the commands before, although another request's `lvextend` may have taken
  its extents. Its parts are `Nested` (file system, volume and group contain each
  other), `Progress` (how far a request's device is at each of its commands) and
  `OneJoiner` (no two requests have put one device into the group), of which
  `RetryNeverCompletes` is a consequence.
* `ConfigInv`: requests that are under way at once know it (`AloneOrMixed`); so
  what one that is alone finds in its unit's file, or in the manifest after its
  write, is its own (`OwnUnit`, `OwnManifest`). `KeptSomewhere` says where the
  flags are while the file is empty: in the hands of the request that is about
  to fill it, unless a write has failed. This is what makes `ManifestKept`,
  which speaks only of moments when nobody writes, inductive.
* `ResolvInv`: a request that is about to append an address has not found it, and
  it is not there now unless another one has appended it meanwhile
  (`NotThereYet`); two such requests overlapped.
* `FilesInv` adds the hosts file: how far a request that has been alone has come
  (`AsFar`: the file is what it read, or what its `sed` has made of it, and what
  it is about to write is made of what it read, and the file is empty between the
  truncation and the write), and where a name that no request
  is about stands (`LinesStay`): the line it resolved by at first is still the
  first line it is on, in the file and in every copy that a `sed` is about to put
  in its place. `OthersStay` follows from the second, `DoAsAsked` from the first
  with lemmas on what each method makes of a file (`AddKeeps`, `AddDoes`,
  `MergedLines`, `ReplacedLines`).

`UserBatchProofs` proves, for any users and names, any `MaxConcurrent` and number
of attempts, from `BatchAssumption`: `BatchTypeCorrect` (`[]TypeOK`),
`BatchIsBounded` (`[]ConcurrencyBounded`), `LogIsHonest` (`[]OutcomeHonest`).
`BatchInv` needs `Counted` (the semaphore and the wait group count the
goroutines that hold them: cardinalities of sets that change by one), `Booked`
(a change of the server is a success, soon one, or its reply is lost) and
`OneChange` (the server refuses the same change a second time).

`KubernetesApplyProofs` proves, for any finite set of manifests and any number
of attempts, from `ApplyAssumption`: `ApplyTypeCorrect` (`[]TypeOK`),
`AnswerIsHonest` (`[]AnswerIsTrue`) and `NamespacedKept` (the action property
`NamespacedNeverUpdated`), and `ApplyIsACall` (`Spec => ApplyImplementsCall`):
the result list makes the reports of a `ParallelCall` and the shared flag its
answer, although each is written under a mutex of its own, one after the other;
and of `Rollout`, for any interval, timeouts and set of good images, from
`RolloutAssumption`: `RolloutTypeCorrect` and `ReadyWhenRolledOut`
(`[]RolledOutMeansReady`, for any number of pods). `ApplyInv` books writes
against outcomes and results as `BatchInv` does. The type of `Rollout` holds
only because the Deployment is edited at most four times, which takes
`FewEdits`: where each poll is says how many edits have been.

`FileCopyProofs` proves, for any calls, files and shared temporary names, from
`CopyAssumption`: `CopyTypeCorrect` and `SuccessCopied` (`[]SuccessIsCopied`).
`CopyInv` says that a temporary file holds the content of the copy at it until
another one touches it (`Held`), and that a destination is as it was, truncated
or has its own content, and has that content after a success (`Landed`).
`CopyIsACall` (`Spec => CopyImplementsCall`) maps a call to `ParallelCall`: the
push of a result is its file's `Settle`, the return is `Answer`, and the steps of
other calls stutter even if they share its temporary files. A call without an
sftp session has no counterpart and keeps the initial state. It takes `Answered`:
a call has its goroutines from the moment it copies, and when it has returned,
either none of them was started, or all are done and the answer is made of them.
`FilesAreCounted` (`[]OneResultPerFile`), which says what the pool assumes of a
copy, follows from it.

`ServerProofs` proves, for any requests, routes and number of signals, from
`ChainAssumption` and `ServerAssumption`: `ServedAsChained` and `ChainCorrect`
(`[]ChainInv` of the server, and of the chain alone), `ToldByTheChain`
(`[]OnlyPageErrorsAreTold`), `MissingFromTheLogs` (`[]UnloggedIffRecovered`)
and `DrainedBeforeExit` (`[]DrainedOrTimedOut`). `ChainInv` says that a
request's Go stack is always a prefix of the chain's frames, and that it is in
one of six phases, climbing to unwinding, each of which fixes its index, panic,
response and log.

`LogStreamProofs` proves, for outputs of any length and any window, from
`StreamAssumption`: `StreamTypeCorrect`, `LinesInOrder` (`[]StreamsInOrder`)
and `NothingElseIsLost` (`[]LossesExplained`); and of `ClusterJob`, for any
jobs, clusters and host lists of any length, from `JobAssumption`:
`JobTypeCorrect` and `OwnConfiguration` (`[]RunsOwnConfiguration`).
`StreamIsACommand` and `JobIsACommand` (`Spec => StreamImplementsCommand`,
`JobSpec => JobsImplementCommand`) prove that both implement `StreamedCommand`;
the first takes `LeftOpen` (the remote `ExecuteCommand` never closes its
channel, as `ExecuteCommandNew` does) and lemmas on what one more message, of a
scanner or of the command itself, does to the number of terminal ones. The
scanners stutter. For the stream the invariant relates each scanner to the
channel: what was written lies behind what it has scanned, and of what it has
scanned only the line it holds may be unwritten. For the jobs, a text in a file
was written to it by a job of that file, and holds that job's registries; that
the loop of `ParseToTemplate` has put all of them there, each followed by a
comma but the last, is proved by induction over the hosts.

`HealthCheckerProofs` proves, for any objects, callers, number of checks and
changes, from `HealthAssumption`: `BlindTillThen` (`[]BlindUntilStartedAgain`)
and `AnswerInSettled` (`[]SettledAnswerIsRight`); and of `MachineManager`, for
any machines, observers and processes, from `ManagerAssumption`:
`ManagerTypeCorrect`, `FairVerdict` (`[]VerdictIsFair`) and `SettledIsHeard`
(`[]SettledStatusHeard`). In the first, `CacheExplained` relates each entry of
the map to the last check of its place, and `Seen` what a caller has looked at
to the cluster that stays settled. In the second, `ListAsItWas` says where the
machine stands in the list that the loop of `shouldNotify` is reading by index,
as long as nothing has moved under it, and `SampledOnce` that a machine has one
sample, yet to be sent or the last one heard, since a tick at which none was
under way.

Assumptions. They name what the constants are (finite sets, functions, sequences,
distinct values, counts of at least one where the code starts a ticker or an
attempt), and nothing about the behaviour; TLC evaluates each of them in a run.
Where a module was changed for the sake of a proof, its meaning is the
same: `StreamsInOrder` and `RegistriesAsGiven` speak of indices where they spoke
of filtered sequences, and `sed`, and the loop over the registries, are recursive
functions (the prover knows nothing of `SelectSeq` and of the folds).

Induction over data: no RECURSIVE operator is used. Where a proof is about a
sequence of any length that a loop walks through (`Printed`, `InsecureRegistry`),
it goes by induction over the numbers stated with a set in the place of a
predicate (lemmas `Least` and `Induction`, from the well-foundedness of `<` on
the naturals), with the recursive function unfolded from its definition.

Model-checked only: liveness, which is out of the prover's reach as ENABLED is
(`OthersFinish`, `ReturnsUnlessHung`, `TerminalMessage`, `NoLineLost`,
`BatchReturns`, `EveryRequestAnswered`, `TermEnds`, `ApplyReturns`,
`CopyReturns`, `PollsEnd`), and the run `recovery_500`, whose property the code
violates. Every other property of the runs is a theorem. The other way round,
the four refinements `CopyImplementsCall`, `ApplyImplementsCall`,
`StreamImplementsCommand` and `JobsImplementCommand`, and `OneResultPerFile`,
are theorems and in no run; TLC finds them true on the runs' own instances.
They are refinements of safety: the abstract modules state no fairness.

## 5. Abstractions and what is not modelled

* Messages, log texts, templates and manifests are model values; a line of
  output is one of three kinds, a manifest one of the kinds its parsing can
  tell apart. The exception is the comma-separated registry list, which
  `ClusterJob` computes element by element, because its end is an edge case.
* Data races are modelled where a property is about them: an index read of the
  shifted slice in `MachineManager` may return any element.
* A new pool is made per HTTP request and never closed: a model of one pool is
  a model of one request (`service/pool.go`). Two callers on one pool are what
  its methods allow (and its mutex is for), not what the handlers do today.
* `HostFiles` takes a file as its lines, a line as an address and names with
  blanks or tabs between them; that a domain is part of another's text, or
  matches one as a regular expression, is a relation (`Within`, `Matching`).
  What is written to a file after its truncation is short enough to be written
  whole or not at all. `WhoAmI` decides only whether `EchoEntry` may write; the
  prefix it chooses does not change what a command does otherwise. What sudo
  prints into the combined output, blank lines and comments of `/etc/hosts` are
  left out.
* Remote commands of `ServiceConfig` and `DiskMount` either have no effect and
  fail, or take effect, after which the reply may be lost; `echo > file` has two
  effects and may fail between them (`WriteError`). A text that is cut off counts
  as none.
* `ServiceConfig` compares configurations by what the request set; the rendering
  of the templates and the six flags of the API server are one value each.
* `LogStream` delivers a line as a whole; a last line without its end, which a
  closed pipe may cut in the local executor, is a line that is not delivered.
* `HealthChecker` writes the entries of one list in one step, since writers hold
  the lock; readers do not, and meet a write between any two of their looks, or
  Go's detection of it, which ends the process (`MapCrash`).
* `Server` leaves out the debug listener on :6060, which only logs its error,
  and the read and write timeouts of the HTTP server, which close a connection
  under a handler that goes on.
* Not modelled: `utils/mingorm`, `db`, `migrate` (GORM and a database behind thin
  wrappers that no handler calls), the REST client of Keycloak but for what the
  batch uses, getters, Helm, logging, JWT, encryption, entities, scripts (no
  state or no logic of their own), the SSH pools and the OS commands that
  nothing calls, the installers of HAProxy and Keepalived (one streamed command
  each), the local executor's single commands and file copy.

## 6. Plan

Done: the modules above, in the order of the table; the proofs of all their
safety and action properties; and the compositions, each as a refinement of the
abstract module in which two components meet: the pool, the copy and the apply
methods of `ParallelCall`, the stream and the jobs of `StreamedCommand`, with
`OneResultPerFile` for what the pool assumes of a copy.

Next: the components listed as not modelled, as soon as handlers call them; and
the liveness properties, which stay with TLC.
