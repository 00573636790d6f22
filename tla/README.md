# A TLA+ specification of kubeport

kubeport keeps local ports forwarded to Kubernetes services and pods. This
directory models what is hard to test in it: the goroutines of the proxy manager,
daemons and commands that share files and ports, the file that is edited while it
is served, clients that outlive what they are connected to, and the rules by which
configuration becomes ports. The models are translated from the Go source;
`PROJECT.json` maps every definition to the lines it stands for and lists the
hazards, each at its line, with the properties that would catch it.

## The system

| Component | State it keeps | Operations | Talks to | Modelled in |
|---|---|---|---|---|
| Proxy manager (`internal/proxy/manager.go`) | `forwards`, `order`, `children` under `m.mu`; `externalForwards`; `cmdCh`, `doneCh` | `Start`, `AddService`, `RemoveService`, `Stop` | a supervisor per forward, a resolver per multi-port service | `Manager` |
| the same, changing its configuration | `reloadMu`, `sourceConfig` of forwards | `Reload`, `Apply`, `ReleaseBySource`, external set | file watch, RPCs, other instances | `Reload` |
| Supervision, mux mode | `portForward`; `backoff`, `failCount` | resolve, dial, watch, fail, back off, preempt | port forwarder, pod watcher | `Forward`, coarsely in `Manager` |
| Pod watcher, counting dialer, port probe | watch position, `eventCh`; counters | `run`, `drain`; `Dial`, `CreateStream` | supervisor | `Forward`, `Shaping` |
| Lazy and isolated runners, transport cache | listener, tunnel, cached pod; cached transport | accept, dial, relay, evict | supervisor, API server | `Runners` |
| Network and chaos simulation | token bucket; `chaosOverride`, `hasChaosOverride` | delay, throttle, inject; set, reset | streams, RPCs, reconnects | `Shaping` |
| Daemon server (`internal/daemon`) | socket, config path | RPCs, persist, `Shutdown` | manager, config file | `Reload`, `Fleet` |
| Instance registry, external conflicts, lifecycle commands | `instances.json`, PID files, sockets | start, stop, restart, delegate, offload, conflict detection | each other | `Fleet` |
| Configuration (`pkg/config`), editing commands | config files | load, inherit, merge, validate, edit, resolve ports | everyone | `Settings` |
| SDK (`pkg/proxy`) | process-wide address registry, clients, resolvers | New, Refresh, Close, resolve, discover | daemon | `Addresses` |
| SOCKS and HTTP proxies | connections | handshake, dial, relay, keep-alive stream, shutdown | SDK client | `Gateway` |
| Hooks, gRPC authentication, self-update, display commands, generated code | | | | not modelled |

What is hard: goroutines share structs under two levels of locks and hold none of
them while they call the API server; a struct outlives its entry in the directory;
cancellation only reaches the attempt that happens to be published; events, errors
and signals arrive after the connection they are about has been replaced; several
processes check files and then act on them; loads, snapshots and stores of one
configuration interleave.

What makes each part correct is stated under *Runs*.

## Modules

| Module | What it is |
|---|---|
| `ServiceDirectory` | Abstract: a set of names on which concurrent adds and removes take effect one at a time |
| `Supervision` | Abstract: the life of one forward, as `superviseSingle` promises it |
| `Manager` | The directory, its event loop and callers, multi-port resolvers, supervisors, `Stop`; implements both abstract modules |
| `Forward` | One mux forward in detail over a cluster; implements `Supervision` |
| `Runners` | One lazy or isolated forward with its clients and the transport cache |
| `Shaping` | The chain of stream wrappers, the token bucket, and the chaos settings |
| `Reload` | A running daemon whose configuration changes, over a directory whose calls are single steps, which `Manager` justifies by implementing `ServiceDirectory` |
| `Fleet` | Instances, commands, registry, PID files, sockets and ownership on one machine |
| `Addresses` | SDK clients, the address registry and one gRPC resolver |
| `Gateway` | A SOCKS or HTTP proxy and its connections |
| `Settings` | Config files, and the algorithms from a file to local ports |
| `MC*` | The instances TLC checks |
| `*Proofs` | Inductive invariants of `Manager`, `Forward`, `Runners`, `Shaping`, `Reload`, `Fleet`, `Settings` and, in `SdkProofs`, of `Addresses` and `Gateway`, with the theorems that rest on them |

### `Manager`

One action is one critical section of `m.mu` or `pf.mu`, or one `select`.
`forwards` maps a name to the number of the `portForward` struct registered under
it; structs are numbered because a supervisor keeps its pointer after the entry is
gone. `CallAdd`/`CallRemove` read `cmdCh`, `LoopReceive` is the rendezvous,
`LoopAdd` is `reserveForward` and the spawn, `LoopRemove`, `LoopUnlink` and
`LoopCancel` are `doRemove` and `removeSingle`, whose two critical sections are
apart. `ResolveFails` and `ResolveSucceeds` end a resolver's API call; the
registration loop holds `m.mu` until `RegisterDone`. `sup[p]` is the control point
of `superviseSingle`, the outcomes of `runPortForward` are one step each, and
`InAttempt` is the time during which `pf.cancel` reaches the attempt in progress.
`bound` is the operating system's view of the local ports. Which ports a resolution
returns is the constant `Expansion` (how they are chosen is in `Settings`); that a
child is never named like its parent (`ChildAssumption`) is how `superviseMulti` makes
its name.

### `Forward`

`pc` runs through `superviseSingle` and, inside an attempt, `runPortForward`: the
pod is resolved, published in a separate step, dialled, and the health-check loop
begins after the tunnel has begun to serve (`Arm`). The ticker, the age timer,
`errChan`, `fwCtx` and `preemptCh` are the branches of its `select`. `Drain` is the
watcher: it may deliver a termination any number of times, or never, and only
while `eventCh` has room. A connection may break, which its attempt is told, or fall
silent, which only the failing streams show. `StreamFails` and `LateStreamFails` are
`CreateStream` failing on the connection in use and on one left behind: a returning
attempt does not wait for its connection to be closed (`old`, `OldCloses`).

### `Runners`

`pc` is the runner, `client[c]` the handler of one connection. In lazy mode the
accept loop dials and the clients share `tunnel`, of which `link` says what has become
of it; a returning runner forgets that connection without closing it, and the clients
on it live on. In isolated mode every handler
resolves (if no pod is cached), publishes and dials its own connection, beside
`isolatedSupervise` with its ticker, age timer and preemption. `orphan` marks
handlers whose runner has returned. The transport cache is its one entry: absent,
good or bad. `calm` is a history variable: from its step on nothing fails that
could succeed.

### `Shaping`

A stream is idle, delayed, or asleep in the limiter; `Wait` consumes before it
sleeps, so the bucket goes into debt that later streams pay. `excess` is the
history variable of the arrival curve: bytes passed beyond the rate; it never exceeds
one second's burst or one transfer, whichever is larger. The chaos
settings are two atomics which RPCs (`StoreFirst`, `StoreSecond`) and reconnects
(`DialTest`, `DialStore`) read and write in separate steps.

### `Reload`

Two reloads, that of the file watch and that of a request (the RPC or SIGHUP): load,
take `reloadMu`, look at the other instances, snapshot, remove, resolve the multi-port
services anew, add, release. A single-port service whose settings have changed is left
as it is, as in the code. The watcher starts after the file has been loaded (`WatchStart`).
An addition is refused when the name or the local port is taken, and a reload passes over that
(`refused`). `AddService`/`RemoveService` requests persist in two steps, load and save,
of which the second may fail unnoticed; `Apply` adds service by service, `ReleaseBySource`
makes its list first; resolvers register children in a step of their own, or the entry
that shows a failed resolution, which carries no source (`Untraced`). Other instances take
and give up services, which the reload finds by asking them. A request that adds a
service already known to be another instance's is recorded (`Imposes`): nothing in
`Reload` stops it again while it stays external.

### `Fleet`

`proc[p]` is the process behind a PID, with the control point of `runProxy` or
`runDelegateProxy` from boot to clean-up, the control point of its socket server,
and what it forwards. `cmd[k]` is a command process. Every directory that `CentralDir` gives
has a registry, whose operations are one step each, as its file lock makes them; that
a root config which is created later moves the directory is left out. PID files and
sockets are not locked, and each read and write is a step of its own. The look at
other instances, with what `SetExternalForwards` makes of it, is one step, and the additions
that follow are another, at the start (`DetectExternal`, `StartManager`) and in a reload
(`RefreshExternal`, `ReloadServices`). Asking several instances takes time in the code; but whoever
is between its own look and its additions at the moment of the step is
recorded (`Unseen`). Writing a PID file, registering, looking and deregistering may fail, and
the daemon goes on as the code does. A process may crash at any step, the file system
keeps what it left, and its PID may become another process.

### `Addresses`

`job` holds every call at work on the registry: between its reply and its store,
between its store and its swap, between the swap and the notification of resolvers,
and between a resolver's translation and its `UpdateState`. Keys are a name's short,
namespaced and fully qualified forms. The daemon's forwards move. Its specification is
`AddressSpec`, so that one module can extend this one and `Gateway`.

### `Gateway`

`pc[c]` is a handler's control point: greeting, credentials, request, dial, then a
relay or the loop of plain HTTP requests. `serve` is the goroutine that owns the
server, with its drain at the end; `daemon` is its client of the daemon, which an
embedded proxy closes at the end of the context and a command after `Serve`.
`upstream` collects all that was sent to a target.

### `Settings`

The algorithms are operators over file contents: `UnmarshalYAML`,
`ParsePortsFromRaw`, `LoadRaw`, `LoadWithInheritance`, `MergeConfigs`, `Load`,
`LoadForEdit`, `LoadConfig` with flags, `ResolvePorts`. The actions write files by hand
and by command; `put` is a history variable with the services each file should hold,
in order. What the code does in loops and by recursion is a recursive function here
(`Kept`, `WithAll`, `LoadWithInheritance`, over the set of files being visited), and the
properties are reference definitions without recursion: `IsWayUp` is a sequence of
files each of which extends the next, and a setting is that of the nearest file along it.

### Refinements

`Manager!ImplementsDirectory` maps the names that are registered or reserved to the
abstract set; a removal takes effect when the name leaves, its answer follows.
`Manager!ImplementsSupervision` and `Forward!ImplementsSupervision` show that the
coarse and the detailed supervisor live the same life, so what `Manager` leaves
out of an attempt does not hide anything from the directory.

## Runs

| Run | Instance | Shows |
|---|---|---|
| `single` | two names, one static port, a dynamic variant, an invalid service, two callers with two calls, three structs, one restart, an optional external set | the directory's structures agree, static ports are distinct, forwards are given up only at the limit, calls are linearisable |
| `multi` | a parent with two ports, one caller, two calls, three structs | children stay reachable through their parent, reported state agrees with the supervisor; both refinements |
| `lifecycle` | one name, two callers, no restart limit | calls return, `Stop` ends all goroutines and frees all ports, a cancelled attempt ends |
| `zombie` | one name, one call | violated: see *Finding* |
| `forward` | two pods, threshold 1, no restart limit, age limit on | refinement of `Supervision`; the forward has a live connection again and again once the cluster has settled with a ready pod, whatever events were lost and whether connections broke or fell silent |
| `runners` | two pods, two clients, threshold 1, both modes | the report follows the tunnel that is held and is corrected when a client comes, a client's failed dial disturbs nobody else, all clients end after removal or `Stop`, and in a calm cluster those that keep coming are served |
| `shaping` | rate 2, two streams, transfers of up to 3, latency 1, two callers, two calls | beyond the rate there passes one second's burst or one transfer, whichever is larger; a chaos override holds |
| `reload` | a single-port service that asks for a port and a parent whose child may have it, one client, three events | an undisturbed reload ends with exactly those services of the file that no other instance owns and no port refuses; what stays in the file is finally served; the file is what edits and accepted requests made of it, service by service; a delegate that has gone leaves nothing |
| `fleet` | two PIDs, two configs of one directory that want one port, one command process, four events: commands, reloads, crashes, failures | one owner per port, one daemon per config, who registered and serves is listed, who serves keeps its socket, who is reported stopped stops |
| `addresses` | one forward that may change once, two clients with both cluster domains | no leftovers in the registry; the resolver ends with the address the daemon gives |
| `gateway` | two connections, two hosts; both kinds, embedded or not, with and without credentials | targets are sent only what trusted clients meant for them; handshakes and shutdown end |
| `settings` | three files, two YAML and one TOML, three drafts, three edits, four lists of flags, ports up to 4 | the nearest file wins, edits save only a file's own settings, flags do what they say, expansion is exact |

Deadlock is checked in `settings` only, which has no end. Elsewhere calls, events
or commands are bounded and a stopped daemon has nothing left to do.

**What the properties excuse.** Some races the code does not guard against; a history variable
(`excused`, `raced`) records them, and the property says that *only* they lead to the bad state.
`SingleOwner`: an instance that looked while another was between its look and its additions, out
of reach or not registered; a look that failed; a hand-over. Instances of two directories do not
see each other and are outside it. `OneDaemonPerConfig` and `ServerKeepsSocket`: a start that
overlaps another start or a stop of the config, a PID file that could not be written, or a
delegate started over a daemon of the same config, which `start --delegate` does not check for.
`RunningIsRegistered`: a daemon that could not register. `ReloadConverges`: a service whose
local port is taken, a child removed on its own, and a service added by request although another
instance was known to own it. `FileIsLedger`: the services whose own save failed or overlapped
another, and all of them after a save that truncated the file or went over an edit.
`FileEventuallyServed`: an edit before the watcher's first look that nothing has loaded since, a
service refused its port, an older load applied last, a child removed on its own, a removal that
is not persisted, a released contribution. `DelegateLeavesNothing`: a hand-over still being
resolved, or one whose resolution has failed. `NoLeftovers`: a Refresh overlapping another or
the Close. `OverrideHeld`: overlapping RPCs or a reconnect between its test and its store.
`OnlyOwnSettings`: a TOML list with a port called `all`. `FlagsApplied`: a file with two
services of one name. `ExpansionExact`: a selector that matches two ports of a service, and one
that a later selector of the same port overrides. `OnlyOwnSettings` looks at the services and at
the namespace, of which a file can inherit one and the environment give another. `HandshakeEnds`
is about connections that have not been served yet. The mutants in `PROJECT.json` show that each
property still fails for plausible changes of the code.

**Bounds.** They limit a behaviour, not a component's state: the races need two structs of one
name, two resolvers, two reloaders (always there), two daemons on one port, two jobs on the
registry, and each is within the bounds above. Two resolvers that both register are beyond
`multi`, where only the second finds room, and left to `ChildrenAreReachable`. Three events of
`Reload` reach an edit, a request and a change of ownership, or two requests and a failing save,
in any order around a reload. Four of `Fleet` reach two daemons with a reload each, or start,
crash or failure, and start again over what was left; as the two configs and the two PIDs are
alike, its action constraint `FirstInUse` fixes which is used first. `RestartCap` saturates its
counter at the limit it is compared with; an `ErrorCap` of 2 leaves a failure to count after one
that came before the loop began, and `EventCap` 1 suffices to fill the channel. `addresses`
follows behaviours up to the first recorded race. `settings` has a file chain as long as there
are files, circles, and an offset past the last port.

**Fairness.** Goroutines that can run do run; API calls, dials and readiness waits
carry timeouts in the code, timers fire, and a `select` with a ready branch takes
one. Nobody is obliged to call, stop, edit, start or drop a healthy tunnel, and the
watcher's deliveries are not fair. Per module:

* `Forward` and `Runners`: a terminating pod goes, and a connection to a pod that is gone
  breaks, unless in `Forward` it has fallen silent. On a silent one a stream fails in the end,
  because every probe of the ticker asks for one; that the probe itself fails is not assumed.
  `Forward` has strong fairness of resolutions and dials: those that are possible again and
  again do not all fail. `Runners` has `calm` instead, and its clients keep connecting, without
  which a runner has nobody to serve.
* `Reload`: the watcher polls, and `reloadMu` does not starve whoever waits for it
  (strong fairness of `ReloadLock`), as Go's mutex does not.
* `Fleet`: daemons and commands take their steps; crashes are free to happen.
* `Addresses`: the ticker comes round and the daemon answers it.
* `Gateway`: deadlines and dial timeouts pass; clients and targets are obliged to
  nothing. `ShutdownEnds` says what shutdown depends on.

## Finding

`zombie`: `RemoveService` between two attempts cancels nothing (`pf.cancel` is nil or belongs to
the last attempt); the forward comes up and stays up although it is in no directory. A removal
during an attempt cancels that one, and the next follows all the same. `manager.go:499` says
that `RemoveService` stops a service.

## Where code and documents part

Met while modelling; each is how the model behaves, and none has a run of its own.

* Two resolvers of one re-added name pass the same check; if the ports have changed
  in between, the first one's children become unreachable (`manager.go:851`,
  against its comment at 847). `multi` therefore has a stable expansion, and
  `ChildrenAreReachable` has it as its hypothesis.
* `Validate` accepts two services of one name, and `--svc` then replaces only the first
  (`cli.go:308`): the other one of that name is started too.
* A selector that matches two ports of a service forwards only the first
  (`manager.go:903`), of a pod both (`manager.go:967`); of two selectors of one name the
  last one's local port wins for both (`manager.go:1008`).
* `SetExternalForwards` returns what has *just* become external, so a service that a
  request adds although it is known to be another instance's is served on through
  every reload (`manager.go:334`, against the comment at 598).
* A child skipped because its name is taken is supervised all the same
  (`manager.go:867`).
* A preemption token left over from an ended attempt tears down the next tunnel
  (`manager.go:1347`), and a late stream failure is charged to the connection after
  its own (`counting.go:75`, against the comment at 20).
* A stop request that arrives before the manager has started is answered and lost
  (`server.go:274`); the daemon runs on although it is reported stopped.
* A primary's reload removes what delegates have handed over (`manager.go:647`). The entry
  of a service whose ports could not be resolved survives the delegate that handed
  it over: it has no `sourceConfig` (`manager.go:800`; 1828 says *all*).
* `AddService` and `RemoveService` with persist answer with success although the file was not
  saved (`server.go:306`, 353). A persisted removal of the last service, or an addition beside
  a service with the same port, leaves a file that `Validate` refuses, and reloads fail.
* What is written between the daemon's start and the watcher's first `os.Stat` is taken for
  seen (`cmd_proxy.go:167`).
* A lazy runner that returns leaves its connection open, and status shows a tunnel as open
  after it has closed, until a client comes (`lazy.go:150`; `manager.go:96` says
  *currently*).
* A daemon that could not register or write its PID file warns and serves on
  (`cmd_proxy.go:260`, 284), unseen by the others.
* `chaos enable` and `disable` send no parameters and the ones set before are lost
  (`cmd_chaos.go:137`; `docs/cli.md:290` says they are kept).
* A multi-port service's local ports are dynamic unless an offset or selector fixes
  them (`computeLocalPort`); `docs/configuration.md:104` says they default to the
  remote port.
* An instance also reports services it leaves to another owner, and may so be taken
  for their owner (`cmd_proxy.go:70`; `docs/architecture.md:110`).
* `Refresh` drops a client's custom cluster domain (`client.go:252`).
* A TOML list of ports containing `"all"` means all ports, a YAML list does not
  (`config.go:161`); a selector by number ignores its local port (`manager.go:1020`); a
  hand-over drops `exclude_ports`, such selectors and the namespace a service has from its file
  (`cmd_start.go:301`).

## Proofs

The theorems hold for all values of the constants that satisfy the named assumptions
of the modules: any number of names, ports, callers, structs, pods, streams, clients,
processes and commands. The bounds that the runs need are parameters like the others.
All safety invariants of the runs except `ServerKeepsSocket`, their action properties and both
refinements are proved. `Fleet` is proved for any directories, while its run has one.

| Module | Theorem | States |
|---|---|---|
| `ManagerProofs` | `TypeCorrect`, `OrderCorrect`, `StaticPortsCorrect` | `TypeOK`, `OrderEnumeratesForwards`, `StaticPortsDistinct` |
| | `StatusIsTruthful`, `GivesUpCorrectly` | `StatusTruthful`, `GivesUpOnlyWhenExhausted` |
| | `ChildrenAreReachable` (of stable ports) | `ChildrenReachable` |
| | `DirectoryImplemented`, `SupervisionImplemented` | `ImplementsDirectory`, `ImplementsSupervision` |
| `ForwardProofs` | `TypeCorrect`, `CurrentPodIsServed`, `BackoffStaysBounded` | `TypeOK`, `TunnelIsCurrent`, `BackoffBounded` |
| | `SupervisionImplemented` | `ImplementsSupervision` |
| `RunnersProofs` | `ReportIsCorrected`, `FailedDialIsLocal` | `ReportFollowsTunnel`, `FailedDialHurtsNobody` |
| `ShapingProofs` | `BandwidthIsBounded`, `OverrideIsHeld` | `BandwidthBounded`, `OverrideHeld` |
| `ReloadProofs` | `PersistsAreExact`, `ReleaseIsComplete`, `ReloadIsExact` | `FileIsLedger`, `DelegateLeavesNothing`, `ReloadConverges` |
| `FleetProofs` | `ServicesHaveOneOwner`, `DaemonsAreAlone`, `ServingIsRegistered` | `SingleOwner`, `OneDaemonPerConfig`, `RunningIsRegistered` |
| `SdkProofs` | (of `Addresses`) `RegistryHasOwners` | `NoLeftovers` |
| | (of `Gateway`) `TypeCorrect`, `TrustCorrect` | `TypeOK`, `UpstreamTrusted` |
| `SettingsProofs` | `FilesKeepTheirOwn`, `NearestFileDecides` | `OnlyOwnSettings`, `LoadNearestWins` |
| | `CommandLineApplies`, `PortsResolveAsDescribed` | `FlagsApplied`, `ExpansionExact` |

**`ManagerProofs`.** Three layers, each inductive over the one before.

*The directory.* `IInv == TypeOK /\ ControlOK /\ DirInv`. `TypeOK` alone is not
inductive: `ControlOK` says what the event loop's control point implies (it serves a
caller whose request has the matching operation, `pending` is not empty while it
unlinks, there is a victim while it cancels). `DirInv` adds to the two properties that
the entry of a registered struct carries the name it is registered under and that
registered structs have been allocated (`EntriesNamed`): only then is a fresh struct
different from the registered ones, and a port looked up through the directory that of
the right service. That each name occurs once in `order` is what makes the removal of
its first occurrence remove the name; `RemoveFirstFacts` proves it about the library's
`RemoveFirst`. For the static ports the argument is that `reserveForward` is the only
way in for a single-port service and compares with every registered one; children of
multi-port services are outside the property, because the code checks no conflict for
them.

*The structs.* `SupInv`. A removal writes the state of a struct whose supervisor goes
on writing it too, and so does `Stop`. What saves `StatusTruthful` is `VictimOK`: between
the two critical sections of `removeSingle` the victim is registered under no name, and
nobody can register it again, because only fresh structs are registered (`FreshOK`) and
those of a registration that began later are younger than it (`RegisteringOK`). `GaveUp`
is `GivesUpOnlyWhenExhausted` of all structs, since a struct may end registered or not.
`SupervisionImplemented` then shows for each struct that a step of its supervisor is
the abstract step, the spawn is its start, the writes of removals and `Stop` are its
`Mark`, and everything else stutters.

*The tree.* `TreeInv`: an idle caller has no request; the children on record come from
the parent's expansion; `doRemove` works through the name it was given or through
children of it, and that parent stays out meanwhile; a registration's parent stays
reserved, because `m.mu` is held. For `DirectoryImplemented` the mapping is written out
(`Opened`, `Names`, `Asked`, `Gone`). An add takes effect when the event loop replies; a
removal of a parent at its first critical section, of anything else when its name is
unlinked, and the unlinking of children is the abstract `DropChild`. That a child's name
is not its parent's is needed here: it tells a removal that has taken effect from one
that has not. `ChildrenAreReachable` adds `ParentOK`: a registered child is *doomed*
(still in `pending`, beyond the head once that is unlinked) or *listed* (its parent is
reserved and lists it, or its registration runs). The hypothesis `StablePorts` is what
the step `RegisterDone` needs to keep the children of an earlier registration, and
without it that step does lose them.

**`ForwardProofs`.** Types are inductive as they are. `CurrentPodIsServed` says that terminating
pods are compared with the pod the connection in use goes to, nothing about those left behind;
`BackoffStaysBounded` needs that the ceiling may lie below the first value. In the refinement
each end of an attempt is an abstract failure, preemption or shutdown, and all that happens
within an attempt stutters. As `Manager` implements the same module, the coarse and the detailed
supervisor agree for all parameters.

**`RunnersProofs`.** A lazy forward dials for one client at a time, while its accept loop waits
(`OneDial`); its connection lives in that loop only, and what is reported follows it
(`TunnelServes`); and what it relays goes over that connection or has lost it, or was accepted
by a runner that has returned (`SharedTunnel`). The action property follows: a dial fails in
lazy mode when there is no connection to share, and the clients of returned runners are
cancelled anyway.

**`ShapingProofs`.** `Wait` takes tokens before it sleeps, so the bytes that have passed depend
on who sleeps. The invariant counts them: `Conserved` says that tokens, excess and what the
sleepers hold stay within the bound; `DueBounded`, `DebtBehind` and `Spaced` relate the debt to
the order in which sleepers wake. Sums over sets of streams are cardinalities of sets of bytes,
so that the library's theorems about finite sets apply. `OverrideIsHeld` needs that as long as
no calls overlap at most one is under way, and what the flag tells in between.

**`ReloadProofs`.** `PersistInv` speaks of the services that are not known to be unsaved: of
each the file says what it should, or the one persist under way that is about it will see to it,
because what that persist has loaded was right for all the others. `ReleaseInv`: what a delegate
contributed is still to be removed by the release, or belongs to a service it has not
found; an untraced entry stands under a multi-port service's own name (`UntracedInv`).
`ProgressInv` says how far an undisturbed reload has got in
terms of its snapshots, phase by phase; `ExternalInv` that services known to be
another's are served only until the reload that found out has removed them. They rest
on `DirInv` (every child is reachable through its parent) and on what the mutex protects.

**`FleetProofs`.** `Sound` relates a daemon's control point to its entry in the registry, its
server and its forwards. `OneInv`: as long as starts exclude each other and PID files are
written, the PID file leads to the config's daemon or its parent is about to write it (`Filed`),
and neither a start nor a stop in progress is aimed at another (`Aimed`). `OwnerInv`: of the
daemons of a registry at most one is between its look and its additions (`OneLooks`), and it has
seen every service of the others that it wants (`Seen`). Since a reload is in that window too,
`Seen` has to hold again whenever one begins, for the services the others forward by then.

**`SdkProofs`, of `Addresses`.** `NewInv`, `CloseInv` and `RefreshInv` say what a call at work
on the registry knows; `HeldInv` that each entry has an open client that holds it or is about to
take it out. They hold until two calls of one client have raced.

**`SdkProofs`, of `Gateway`.** What was sent says nothing about what will be sent, so the invariant
adds what a handler's control point implies. `Granted`: a handler that dials, or is
connected, has seen good credentials if they are required; in SOCKS, which asks for
them before the request, so has one that reads the request. `RequestMatches`: the host
asked for exists, and the request in hand is for it, which the refusal of another
host in a kept-alive stream preserves.

**`SettingsProofs`.** Files of any number, content and length, any flags and any ports.

*Files.* `Inv`: every file is absent or `Own`, which means that it has the types, does not hold
the environment's namespace, and reads back as its services in `put`, place by place (`Keeps`).
`CodecFaithful` is the step: decoding what was encoded gives the service back,
unless it is `Garbled`. The names stay even then, and removal by name needs that. The
other four properties are about the algorithms, applied to files that satisfy `Inv`.

*Induction.* The library's induction theorem takes an operator as parameter, which the
provers cannot instantiate. `Induction` states it for sets instead, and follows from the
least-number principle that the library's `WFMin` gives for the order of the natural
numbers (`LeastNumber`). An invariant of a loop is then a set of numbers. `KeptRuns`,
`WithAllRuns` and `LoadRuns` show that the recursive functions have a value and obey their
equations; the last is by induction on how many files are not being visited yet, since
each call visits one more (`FewerLeft`).

*Loading.* `LoadSound`: when a load succeeds, there is a way up from its file.
`LoadAlong`: along such a way a load succeeds and merges what is on it. A file
that is met twice is on no way up, because from there it would have two ways of
different length (`NeverTwice`), so the code's test for circles never refuses a load that would end.
`MergesStep` is why the nearest file wins: a file in front of a way takes the
place of the nearest where it has the setting, and leaves the nearest alone where not.

*Flags and ports.* `After(w, b, extra, k)` is the invariant of the loop over `--svc`: where services
of the file have been replaced, by which argument, and which arguments came last of their
name. `ChosenPorts` says which ports the selectors of a service and of a pod choose,
`LocalPort` on which local port each is.

`NamesAssumption` says only that four strings are strings, which TLC evaluates and the
provers cannot see.

**Only model-checked.** `ServerKeepsSocket`. Liveness: fairness and `ENABLED` are out of the
prover's reach, so `CallersReturn`, `StopTerminates`, `CancelledAttemptEnds`, `SelfHealing`,
`ClientsServed`, `StopEndsClients`, `FileEventuallyServed`, `ReachedDaemonStops`,
`ResolverConverges`, `HandshakeEnds` and `ShutdownEnds` are shown on the instances above.

## Not modelled

* Hooks: apart from the start gate, whose refusal is `StartupFails` in `Fleet`, they
  run asynchronously and change no state of the other components.
* Self-update, gRPC authentication, display commands, generated code: downloads, a
  stateless comparison, output, and bindings. An instance that refuses a key is one
  that cannot be reached, which `Fleet` has.
* TCP listening with its certificate, foreground mode, migration of old files,
  log handling, hooks and key derivation in the configuration.
* Byte counters, random draws of jitter and chaos (any draw may happen), wording.
* The health-check interval and the merge of network settings for one service.

Worth doing next: the invariants on which the liveness properties rest (who holds
`reloadMu`, which handlers have a deadline) as theorems; type correctness of `Runners`,
`Shaping`, `Reload`, `Fleet` and `Addresses`, which is part of the invariants here, as theorems of
their own; services whose names differ in case only, which flags take for one and files for two.
