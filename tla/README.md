# Portical in TLA+

Portical keeps the port mappings of a UPnP gateway in line with what running
containers and systemd units ask for. This directory models the parts of it
that are hard to test - passes that race with the world they change,
goroutines, retries, leases, restarts - checks the models with TLC on small
instances, and proves the results that matter most with TLAPS for every
instance.

Sources are named relative to `internal/`. `PROJECT.json` maps every definition
that models code to its lines.

- [The system](#the-system)
- [Modules](#modules)
- [Runs](#runs): what is checked, bounds, fairness
- [Theorems](#theorems)
- [Where the code and its documents disagree](#where-the-code-and-its-documents-disagree)
- [What is not modelled](#what-is-not-modelled)
- [Conventions](#conventions)

## The system

| Component | State it keeps | Operations |
|---|---|---|
| Reconciliation, `reconcile/`, `model/` | none: a pure function | `Reconcile` turns wanted forwards and existing mappings into actions: add, replace, renew, keep, conflict, remove, orphan |
| Daemon, passes, `daemon/` | `written` (addresses it has put on the gateway), `tally`, the pass in flight | `Once`, `Cleanup`, `apply`, `write`, `attempt` |
| Daemon, run loop, `daemon/` | a request channel with room for one; a worker, a ticker and the caller as goroutines | `Run`: first pass, ready, event streams with backoff, interval, return |
| Command line, `cli/` | signal handler, context | `run`, `update`, `list`, `relay`; wiring |
| Sources combined, `source/` | the answers and streams of one call | `Combine`'s `Desired` and `Events` |
| Docker client, `docker/client.go`, `version.go` | the negotiated Engine API version, under a mutex | lists, events, `RunInNetworkOf` (a helper container) |
| Docker source, `docker/source.go`, `resolve.go` | none | `Desired`: choice of network, target, published ports |
| Relay, `docker/relay.go`, `namespace.go` | none | a request to the gateway made from inside a container's network |
| systemd source, `systemd/` | `declaring`, the cache of unit files, per stream the states heard | `Desired`, `Events`, `Watch` |
| UPnP client, `upnp/` | none | `Mappings` (a walk by index), `Add`, `Remove`; discovery |
| The gateway (external; `fakes/gateway.go` in the tests) | the table of mappings, their leases | one row per external port, protocol and RemoteHost |
| Docker, systemd (external) | containers, networks, units | events, listings |

How they interact:

- `Run` asks for passes through a channel: once at the start, on each event of
  the source and on each interval. A pass calls the source's `Desired`, then the
  gateway's `Mappings`, then makes one request per action. There is no
  transaction over any of it: other programs, other hosts and the gateway itself
  change the table at any moment, and the wanted forwards change while it is
  read.
- The gateway has no notion of an owner. Portical's rows are known by their
  description, and which of them are this Portical's by the address they point at;
  after a restart that is all there is.
- A row that points elsewhere is moved by a delete and an add. A row about to
  expire is renewed by an add over it, without a delete.
- `Combine` asks all sources at once and merges in the order they were named.
  Its stream ends when any of theirs does, and `Run` reopens it.
- Every call to Docker shares one negotiated version, dropped and negotiated
  again when Docker refuses it.

What is hard, and what correct means for each component:

| Component | Hard because | Correct means |
|---|---|---|
| Passes | every step can fail or be cut short, decisions rest on rows read earlier, leases run down | forwards wanted all along stay in service; rows of others stay; in a settled world the table comes into line and stays there without churn |
| Cleanup | only what this process remembers tells its own rows from another's | what this run wrote goes |
| Run loop | requests are coalesced; two goroutines, a stream and a signal race | no request is lost, passes never overlap, nothing runs after the return, a signal always ends it |
| Combine | sources answer in any order, streams end in any order | the first named keeps a slot, an answer is never partial, one stream's end ends all |
| API version | calls share a version while Docker changes | one retry is enough, no negotiation is undone by another call, nobody waits for ever |
| Docker source | two requests are joined while containers and networks change | an answer is whole, stable, renewed by events, and comes right once Docker rests |
| systemd source | signals are dropped, repeated and deduplicated, files change with reloads and under a cache | when all has been heard the last pass read what is so; what a pass reads is what the files held |
| UPnP client | the table is read one row a request while it changes | what is decided from a listing was due at some moment of it |
| Relay | a helper container is five orders to Docker, each late, lost or refused | it is removed, it asks nothing when its call has returned, and calls end |
| Two Porticals | all they share is the table, and rows do not name their writer | each keeps to its own rows, and the two come to rest |

## Modules

| Module | Models | Shape |
|---|---|---|
| `Reconcile` | `reconcile/reconcile.go`, `model/model.go` | operators: `ForForward` is the decision for one wanted forward, `LeftoverActions` for the rows nothing asks for |
| `Daemon` | `daemon.go`'s `Once`, `Cleanup`, `apply`, `write` | one action per request: `Begin`, `ReadDesired`, `List`, then one of `ApplyQuietly`, `RemoveToMove`, `Write`, `WriteNowhere`, `ApplyLeftover` for each action in order, `Finish`; the world is `WantChanges`, `OthersChange`, `Reboot`, `LeaseAges`, `LeaseExpires`; the process is `Stop`, `Restart` |
| `MCDaemon` | | instances: forwards, tables and flags for TLC |
| `Hosts`, `MCHosts` | two daemons of two hosts, and other programs, on one gateway | this host's is `Daemon`, the other's an instance of it with its own source, address, flags and state; a step is one host's (the other's variables but the table stand still) or the gateway's |
| `Listing`, `MCListing` | `upnp.go`'s `Mappings` and what `Reconcile` decides from it | the walk by index, one row a step, while rows are added, overwritten and removed, requests fail and the end is said early or never |
| `RunLoop` | `daemon.go`'s `Run`, `cli.go`'s signals | one variable per goroutine saying where it is; `requested` is the channel |
| `OnDemand` | | what `Run` promises whoever asks for passes; `RunLoop` refines it |
| `Combine`, `MCCombine` | `source/source.go` | `Desired` as ask, answer, collect, claim in order; `Events` with its mutex, its channel and its wait |
| `SourceContract` | the contract of `Source.Events` in `source/source.go` | what one source promises; `Combine` refines it |
| `EngineAPI`, `MCEngineAPI` | `docker/version.go`, `Client.do` | any number of calls, the lock, the cached version, Docker's offer |
| `Containers`, `MCContainers` | `docker/resolve.go`, `source.go`, `Client.Containers`, `rules.Collapse` | Docker's containers and networks, and a pass of two requests |
| `UnitEvents` | `systemd/dbus.go`'s `Watch`, `systemd.go`'s `Events` and the reading in `Desired` | systemd and its reloads, the stream, passes |
| `UnitPass`, `MCUnitPass` | `systemd.go`'s `Desired` in full: `dbus.go`'s `Units`, `unitfile.go` with its cache, `published.go`'s rules | asking systemd, so many at a time; stat, then hit or read, file by file; what the texts declare |
| `Helper`, `Helper_proofs` | `Client.RunInNetworkOf`, `namespace.go`, `relay.go` | a call's orders to Docker, what Docker does about them and when, the relay in the helper, timeouts, the process being killed |
| `Daemon_proofs`, `Hosts_proofs`, `RunLoop_proofs`, `Combine_proofs`, `Listing_proofs` | | theorems about the module of that name, as is `Helper_proofs` above |
| `Docker_proofs`, `Systemd_proofs` | | theorems about `Containers` and `EngineAPI`, and about `UnitEvents` and `UnitPass` |

Abstractions the modules share. A slot is an external port and protocol. A lease
is `"forever"`, `"long"` or `"short"` (close enough to its end to be renewed).
Descriptions are reduced to whether a row is Portical's. Addresses are names, with
`NoAddress` for one that could not be found out. Text - rules, descriptions,
reasons, logs - is left out.

Some variables belong to no program: `calm`, `steady`, `mine`, `emptied` and
`noticed` in `Daemon`, `listed` in `Hosts`, `owed` and `outdated` in `RunLoop`,
`disturbed` and `moved` in `EngineAPI`, `missed`, `blurred`, `forwarded`,
`rewired` and `quiet` in `Containers` and `UnitEvents`, `standing`, `held`, `free`,
`passed` and `moved` in `Listing`, `during`, `raced` and `fooled` in `UnitPass`,
`astray` and `trouble` in `Helper`. They are history: written by actions, read
only by properties. (`calm` is also read by the world: once the world has
settled it does nothing more but run leases down.)

Definitions with an underscore and a comment that begins "Wrong:" are not the
code. Each is a bug that could be written in its place - a guard left out, a
lock not taken - and each property is checked to fail with one of them.

## Runs

Each line is one configuration, checked by TLC in full.

| Run | Module, configuration | Shows |
|---|---|---|
| `hosts` | `MCHosts`, `MCHosts.cfg` | Two Porticals and another tool write to one gateway, each between any two requests of the others: neither changes a row its pass listed as someone else's (`NeitherTakesTheOthers`), what is written is remembered (`WrittenRemembered`), moves are completed (`MovesCompleted`), a cleanup takes all this run wrote (`CleanupTakesOurs`), and once the world settles both are in line (`BothConverge`) and stop taking slots from each other (`HoldersSettle`) |
| `converges` | `MCDaemon_converges.cfg` | On a host that does not know its own address, with no flags, with `--dry-run` and with `--manage-all --force --steal`, on a gateway with `secure_mode`, limited leases, that refuses moves and never accepts one of the slots, through crashes, reboots, failed reads, requests not served, answers lost and other writers: forwards wanted all along stay in service (`ServedStaysServed`), the status never counts too much (`StatusNeverOverstates`), and once the world settles the table comes into line and stays there (`Converges`), with no working row taken down any more (`NoChurn`) |
| `loop` | `RunLoop`, `RunLoop_loop.cfg` | No request is lost, no two passes at once, nothing after the return, every change is read, a signal ends the process, and all of it implements `OnDemand` |
| `combine` | `MCCombine`, `MCCombine.cfg` | `FirstNamedWins`, `OneFailureFailsAll`; and `Combine` implements `SourceContract` (`IsASource`), so that one stream's end ends all and nothing is said after |
| `engine` | `MCEngineAPI`, `MCEngineAPI.cfg` | `OneRetryIsEnough`, `GoodVersionIsKept`, `CallsEnd` |
| `containers` | `MCContainers`, `MCContainers.cfg` | What each container asks for is answered whole if it did not move while it was listed (`WholeAnswer`), and alike by passes over the same Docker (`SameAnswer`); events are enough but for running containers that change networks (`UpToDate`), and once Docker stops changing every answer comes right, theirs and those of mixed or failed passes too (`EventuallyWhole`) |
| `units` | `UnitEvents`, `UnitEvents_units.cfg` | `UpToDate`, `ReloadIsRead`, `StopsAreLogged` |
| `listing` | `MCListing`, `MCListing.cfg` | Every row there all through the walk is read, but those hidden by a removal or behind an early end (`StandingRowsAreRead`); what is decided for a slot was due at one moment of the walk (`EachDecisionWasDue`); where rows are only added ahead of it, the walk is the one step `Daemon` takes it for (`ReadsOneMoment`); it ends (`WalkEnds`) |
| `unitpass` | `MCUnitPass`, `MCUnitPass.cfg` | A pass goes by what each file held while it ran, unless its stamp lied (`ReadsAreCurrent`); what is forwarded is what the files declare, said without the order it is computed in (`ForwardsWhatIsDeclared`); asking about more units than may be asked about at once does not wedge (`PassEnds`) |
| `helper` | `Helper`, `Helper.cfg` | `NothingLeftBehind`, `NothingIsAskedLate`, `FailsForAReason`, `CallsEnd`: which failures leave a helper behind and which let it ask the gateway late, that no output is lost to a race, and that calls end |
| `churn`, `reload` | `MCDaemon_churn.cfg`, `UnitEvents_reload.cfg` | each finds what a document says violated: see below |

No run checks a type invariant: they are what the inductive invariants begin with,
and are proved.

### Bounds, and why they are enough

- `Daemon`: three slots in `converges`, one of them refused, two internal
  ports, three addresses - this host, a container with its own, another host's -
  and a few answers and tables chosen so that each decision of `Reconcile` occurs:
  a new forward, one already served, one to be moved, one whose address is not
  known, a row of another tool, one about to expire, one left by an earlier
  process. `Reconcile` decides slot by slot, and slots meet only in the order of
  requests and in `written`, which two show. The host of `converges` is the unusual
  one, whose own address is not known, so that writes with nowhere to point at
  occur; that of `hosts` knows it. With answers lost `WrittenRemembered`
  is false (see below), so `hosts`, which checks it, has no such fault: of the
  faults it has the other tool.
- `Hosts`: two slots, both hosts after one of them, one forward in each answer, a
  row an earlier run of this host left, a container whose address is neither
  host's, one row the tool may write. A third host would be to each of the two
  what the tool and the other are already (theorem `TwoThatShare`).
- `Listing`: at most three rows, of two slots, one with a RemoteHost and one that
  cannot be read, and a limit of three indexes, so that a full table reaches it.
  A row removed before, at and behind the index all occur.
- `UnitPass`: two units of one template, which share a file, one with a drop-in and
  a socket unit; two texts, each with an assignment in the wrong section, one with
  a reset; room for one question at a time, fewer than there are units; two stamps,
  the least with which one file is replaced by another and put back.
- `Helper`: two calls, so that what one left acts while the next is under way. The
  safety properties are proved for any number.
- `RunLoop` has no bounds: its channel has room for one as in the code, and
  changes are not counted.
- `Combine`: three sources (so that a claim can be lost to one whose own claim is
  lost), two slots, answers that ask for one slot twice.
- `EngineAPI`: three calls, three offers - older than the client, as new, too new.
- `Containers`: two containers, one left to choose its network and one that names
  it, two networks, a driver on the LAN, one behind the host and one not supported;
  one label with rules of its own, one with published ports only; one address, as
  no two are compared.
- `UnitEvents`: one unit, three signals on their way. Units meet only in `asked`
  and `holding`: whatever another unit's signals do to those, `Tick` and
  `ReloadStarts` do too.

### Fairness, and what justifies it

- `Daemon!FairSpec`: a pass that is under way goes on, and a stopped process is
  started again. Requests have timeouts (`upnp.RequestTimeout`,
  `docker.RelayRequestTimeout`), the interval keeps asking for passes, and the unit
  file restarts the service. The world is not fair: it may settle or never do, and
  the liveness properties are about worlds that do (`calm`).
- `RunLoop!Scheduling`: goroutines are scheduled; strong fairness only where a
  `select` chooses at random among what is ready (`WorkerReturns`,
  `TickerReturns`), and for a source that, read again and again, is at last read
  well. The ticker is *not* fair: the interval may be as long as one likes, and
  only `EveryChangeIsRead`, which needs it, assumes it.
- `EngineAPI!EngineFairSpec`: Go's mutex is fair to those that wait; calls end by
  their context.
- `Combine!FairSpec`: a source keeps the contract of `SourceContract`, as `Combine`
  may rely on: once its context is done it returns.
- `Hosts!HostsSpec`: each host as `Daemon!FairSpec` has its one.
- `Listing!FairSpec`: each request of a walk is answered, or fails by its timeout.
  The other programs are not fair, and may go on for ever.
- `UnitPass!PassFairSpec`: systemd answers each question, if only to fail it. This is
  *assumed*: the calls carry no timeout (see below). The files are changed or not.
- `Helper!FairSpec`: the program goes on when it can, and timeouts run out. Of
  Docker, the helper and the gateway nothing is assumed.
- `Containers!FairSpec`, for `EventuallyWhole`: the interval keeps asking
  (`daemon.go:429`), and a pass that is asked for, or that has listed the containers,
  does not fail for ever. Docker is not fair: it may stop changing or not, and the
  property is about one that does. The theorems are about `Spec`, without fairness.
- `UnitEvents` checks safety only, stated at rest ("once everything is heard and
  acted on"); that everything is acted on is `RunLoop`'s.

## Theorems

TLAPS proves, for every value of the constants:

**`Daemon_proofs`**

- `TypeCorrect`: `Spec => []TypeOK`. The interesting part is the table: the
  gateway never has two rows for a slot and RemoteHost, and nothing is written
  that names no address. The invariant is inductive with `TodoOK`: a row is being
  put back only for a move that took it down.
- `OthersAreLeftAlone`: no step of the program touches a foreign row
  (`OthersUntouched`), assuming that no other program writes while Portical runs,
  and that no row `--steal` may take names a RemoteHost. The property is about the
  table *now*, the program decides on rows it listed *then*; `AsListed` bridges
  them: what is still to be removed, moved or put back was, and still is, not
  foreign. It is not inductive without `TypeOK` and `NoStealRemote`.
- `WhatIsWrittenIsRemembered`: assuming no answer is lost.
- `EveryMoveIsCompleted` (`MovesCompleted`): a row taken down to move it is back
  when the pass is over, whatever other programs, leases and containers do between
  the two requests. `MoveInHand` says that at most one row is down, and that it is
  the one about to be put back; `TodoWanted`, that it is put back for a forward the
  pass read. It needs requests to be `Answered`, no crash, and an `Obliging`
  gateway: the source knows the address each forward leads to, the gateway takes
  its slot and takes it from who asks, and a gateway that will not move rows has
  nobody else to put one in the gap. Each of these is a reason for which the second
  request really fails, and then the code leaves the row down until the next pass
  (`Converges`); nothing else is.
- `CleanupIsComplete` (`CleanupTakesOurs`), assuming requests are `Answered`. What
  this run put on the gateway and nobody has changed since points at a remembered
  address (`MineIsOurs`), and a cleanup that has listed still has all of it to
  remove (`ToClean`) - whatever the passes before it were doing when they stopped.
- `ServiceIsNotInterrupted` (`ServedStaysServed`), assuming that the source asks
  once for each slot and no other program writes while Portical runs. The
  invariant adds to `AsListed` that what is wanted all along is in the answer read
  (`SteadyWanted`), and that a move is pending only for a slot that no such
  forward is served from (`MovesAreNeeded`).
- `StatusIsNotOverstated` (`StatusNeverOverstates`), assuming that the source asks
  once for each slot. The count is bounded by the slots already dealt with that
  are in service (`TallyOK`): for that, each slot has one task at most
  (`OneTaskEach`), what is only kept or renewed is in service already, and nothing
  is removed where something is wanted (`LeftoversUnwanted`).

The last three are what `Converges` and `NoChurn` say without fairness: not that
passes happen, but that one undisturbed pass (`Settling`: the world is calm, and this
is neither a cleanup nor a dry run) is enough. All assume that the source asks once
for each slot.

- `APassPutsInPlace` (`PutsInPlace`): when it finishes, `InPlace` holds, whatever
  table and whatever remembered addresses it started from. `PassInHand` follows the
  pass: what is already dealt with is `Settled` (served, or refused with the slot
  empty, or somebody else's), what a task still presumes of its slot is true, and
  every `Stray` row has a removal pending. It also assumes that a gateway that looks
  at who asks (`secure_mode`) is asked for each forward from where it leads.
- `MovesComeToAnEnd` (`MovesAreOver`): from there on no pass takes a row down,
  whatever leases do. `AtRest` is closed under every step of a calm world: a forward
  is served, or what holds its slot is foreign, and nothing pending is a move.
- `WhatIsPlacedStays` (`PlacedForGood`): a forward that is then in place is served
  for ever after, if the gateway accepts it and its address is known. Leases keep
  running down, and may run out between passes for any row a pass found close to
  expiry: `Renewing` says that such a row of a wanted forward is rewritten before
  that pass ends, and `Held` that nothing else disturbs it. Where the address is not
  known and the gateway refuses moves, a renewal may be refused, and the row goes
  until the next pass.

The latter two assume that no row names a RemoteHost: of two rows with one identity
the code looks at the one listed last, so a later pass may see the other.

That a source asks once for each slot (`OnePerSlot`) is what `rules.Collapse` and
`Combine` see to within a label and between sources; between two containers
nothing does, and the run `churn` shows what becomes of it.

**`RunLoop_proofs`**: `TypeCorrect`, `NeverTwoPasses`, `NoRequestIsLost`,
`NothingRunsOn`, and `Refinement`: `Spec => Promise!Spec`, every step of `Run` is a
step of `OnDemand` or leaves it alone. `RunInv` says where each goroutine can be
when.

**`Hosts_proofs`**, for any two sources, addresses and flags, any gateway and other
programs. Neither Portical is told of the other, so to each the other is no more
than somebody who writes to the table. `Daemon_proofs` says that as `SharedSpec`:
`Daemon` on a gateway where somebody may change any rows at any step (`Meddled`).

- `TwoThatShare`: `HostsSpec` implies `SharedSpec` of this host, and of the other,
  which is an instance (`Other`) of the same proofs. What is proved of `SharedSpec`
  therefore holds of both: `BothRemember` (`WrittenRemembered`),
  `BothCompleteTheirMoves` (`MovesCompleted`) and `BothCleanUp`
  (`CleanupTakesOurs`), under what the theorems for one assume - and for the moves,
  that the gateway is not one that refuses to move a row, as the other may fill the
  slot in the gap.
- `NeitherIsRobbed` (`NeitherTakesTheOthers`): what a pass has still to write or
  remove is for slots where its listing had no row of somebody else's
  (`ClearAsListed`), whatever has become of the table since. A foreign row stays
  foreign through the pass, and one that is not may not become so, because what is
  managed only grows (`ClearInKept`). It assumes that where either of the two may
  steal no row names a RemoteHost: with two rows for one slot a pass decides by one
  of them, and may take the other's with it.

**`Systemd_proofs`**. Of `UnitPass`, for any units, files, texts and sockets:

- `PassTypeCorrect`.
- `FilesReadAreCurrent` (`ReadsAreCurrent`). It is inductive with: no two files of a
  path have one stamp (`AllStamped`, `SetAside`), what is on the disk was during the
  pass (`Noticed`), and what is cached under the stamp of the file there is, is that
  file's text, unless the path was raced or a stamp lied (`CachedFor`).
- `DeclaredIsForwarded` (`ForwardsWhatIsDeclared`): what the folds over the
  assignments, the terms and the rules come to, for every input. `EveryNumber` is
  induction said of a set of numbers rather than of a predicate; a fold is then taken
  through the prefixes of its sequence (`FoldPrefixes`), with what it has made of
  each: the reset and the terms after it (`DeclarationIs`), the terms of a kind in
  their order (`SiftIs`), the first rule of each slot (`CollapseIs`).

Of `UnitEvents`, for any units and any bound on signals:

- `TypeCorrect`.
- `EveryStopIsLogged` (`StopsAreLogged`): whatever passes find, a unit that
  declared forwards and comes to a stop on a stream that has seen it elsewhere is
  said in the log.
- `EventsAreEnough` (`UpToDate`) and `ReloadsAreRead` (`ReloadIsRead`). Both are
  about a system at rest; their invariant `OnItsWay` is about one that is not: the
  last the bus says of a unit is how it is (`LastWord`), and whatever `Events` has
  not heard, the listing does not have or the files do not agree with is in a
  signal still to come, or a pass is asked for (`HeardOrSaid`, `ListedOrSaid`,
  `ReadOrSaid`) - but for the units that moved during a reload.

**`Docker_proofs`**. Of `Containers`, for any containers, labels, networks and drivers:

- `TypeCorrect` (a lemma), with where containers and what was listed of them may be.
- `AnswersAreWhole` (`WholeAnswer`): from what `SelectNetwork`, `Collapse` and
  `DescribeTarget` return for one container (lemmas `SelectIsBest`, `CollapseIs`,
  `FoundIs`), and that `Resolve` puts these together for each (`ResolveEach`).
- `ChoicesAreStable` (`SameAnswer`): the order `selectNetwork` sorts in leaves one
  best choice (`OneBest`), so that `Resolve` has one answer to a listing
  (`OneAnswer`); what was listed since the last change is what there is now
  (`ListedNow`).
- `EventsSuffice` (`UpToDate`): while nothing is asked for, what a pass under way
  has listed of the containers that kept their networks is as it is now
  (`ListedAsNow`).

Of `EngineAPI`, for any number of calls and any offers: `EngineTypeCorrect`,
`OneRetrySuffices`, `OneNegotiationEach`. The invariant says that a call that was not
disturbed only holds a version the daemon takes or one negotiated before the call
began (`Undisturbed`), and was refused in a version that is no longer cached when
it asks again (`RefusedInVain`).

**`Listing_proofs`**, for any table, limit and other programs:

- `NoStandingRowIsMissed` (`StandingRowsAreRead`): a row there since the walk began
  was read, is known to have been passed over, or is at the index or behind it
  (`StandingAccounted`).
- `DecisionsAreDue` (`EachDecisionWasDue`): what was read of a slot, the slot held at
  some moment of the walk (`HeldIsKnown`); and a slot of which nothing was read was
  empty at one, has a row ahead, or is one of the exceptions (`SlotsAccounted`).
- `AnUndisturbedWalkIsOneStep` (`ReadsOneMoment`): what was read is the first rows of
  the table, in its order (`FirstRowsRead`). It is what lets `Daemon` list in one
  step.

**`Helper_proofs`**, for any number of calls and any faults: `TypeCorrect`;
`NoHelperIsForgotten` (`NothingLeftBehind`), by an invariant that says where a
call's helper, the orders about it and what is heard of them stand to each
other - a removal that is on its way or awaited has the helper in hand;
`NoLateRequests` (`NothingIsAskedLate`), as only a running helper asks and a
helper runs only by a start that came before its removal; and
`NoFailureWithoutReason` (`FailsForAReason`): `Reasons` says that a refused answer, a
failed helper and an empty output each have a trouble behind them, and that a
helper which exits by itself has printed before.

**`Combine_proofs`**: `TheFirstNamedWins`, `AnAnswerIsWhole`, `TypeCorrect` and
`ACombinationIsASource` (the safety part of `SourceContract`), for any number of
sources. The invariant of the merge is that after the first sources are merged,
`claimed` and `desired` are what those alone would make them, and of the
streams that only the holder of the mutex notifies.

Assumptions on constants are the named `ASSUME`s of the modules, which every run
evaluates: `DaemonAssumption`, `NoAddressAssumption`, `CleanupAssumption`,
`EngineAssumption`, `CombineAssumption`, `HelperAssumption`, `HostsAssumption`,
`ContainerAssumption`, `UnitAssumption`, `ListingAssumption`, `UnitPassAssumption`.
What a theorem assumes beyond them stands in its `ASSUME`; the constants of the run
`hosts` satisfy those of `EveryMoveIsCompleted`, `CleanupIsComplete`,
`StatusIsNotOverstated` and all of `Hosts_proofs`, those of `converges` the ones of
`StatusIsNotOverstated`, `APassPutsInPlace`, `MovesComeToAnEnd` and `WhatIsPlacedStays`.

`OthersAreLeftAlone` is proved for one Portical and no other writers; with them it
is false (a row may come to a slot between the listing and the write), and
`NeitherTakesTheOthers` is what is left of it.

Each inductive invariant was checked by TLC on a small instance before it was
proved. Proving found one property stated amiss: what `Containers!IsWhole` asked of
a container with published ports only was true of any answer. It is put right,
and `MCContainers` has such a container now.

Only model-checked:

- Everything under fairness, which is out of the prover's reach: `Converges` and
  `NoChurn` (but for what `APassPutsInPlace`, `MovesComeToAnEnd` and
  `WhatIsPlacedStays` say of them), `BothConverge`, `HoldersSettle`, `EveryChangeIsRead`, `Stops`, `CallsEnd`, `EventuallyWhole`,
  `WalkEnds`, `PassEnds`, and the fairness of the two refinements.

Every invariant and every property of single steps that a run checks is proved.

## Where the code and its documents disagree

Each of these two is a run that TLC ends with a counterexample.

- **`churn`**: two containers of one source that ask for one slot with different
  internal ports take it from each other for ever (`reconcile.go:110`: each forward
  is compared with the row that was there *before* the pass). The one whose row
  that is gets a Keep, and is counted as forwarded; the other gets a Replace, which
  takes the row down and puts its own there. The next pass does the same the other
  way round: one working row is taken down on every pass. README.md:105-106 says
  that "anything already correct is *left alone*"; `rules.Collapse` and `Combine`
  prevent it within a label and between sources, and nothing does between two
  containers.
- **`reload`**: what units say during a reload is dropped, but the states `Events`
  compares with are kept (`dbus.go:201`, `systemd.go:221-223`). A unit that moves
  then, and moves back after the pass the reload's end starts, looks like a repeat,
  and its second move asks for no pass. `dbus.go:195-196`: "so nothing is lost by
  waiting for it".

Further limits are not checked by a run of their own but built into the
properties or the models, and are worth knowing:

- `Run` tells systemd it is ready before it opens the first stream of events
  (`daemon.go:439`), where docs/systemd.md:178-179 has "ready only once its first
  pass is done and it is watching for changes". `RunLoop` models it so; a change
  in between waits for the interval (`EveryChangeIsRead`).
- A run that finds a macvlan container's mapping already correct never writes
  it, so `--cleanup-on-exit` leaves it (`daemon.go:191`: what is managed is this
  host's address and what this process wrote), where `daemon.go:177` has "Cleanup
  removes every mapping we own". `CleanupTakesOurs` is about what this run wrote.
- A row removed below the index while the table is walked hides one that stays,
  and 501 or 402 in the middle of a walk (`upnp.go:230`) hides all behind it. What
  is hidden reads as absent: a row of Portical's is written again, and a slot where
  another tool's row is hidden is written over, which README.md:106-107 says is
  not done without `--steal`. `StandingRowsAreRead` names
  these two cases and shows there is no third; `EachDecisionWasDue` leaves out,
  besides, a slot where rows of two RemoteHosts took turns.
- The calls to systemd carry no timeout (`dbus.go:109`, `dbus.go:139`) and a pass
  outlives the cancellation of `Run` (`daemon.go:391`), where `daemon.go:388-390` has
  "Each request they make is still bounded by the client's own timeout". A systemd
  that stays silent without closing the connection holds the pass, and with it
  `Run`'s return. `PassEnds` assumes that it answers.
- A helper outlives its call when its creation was not heard of in time, when its
  removal was not, or was refused, and when the process is killed
  (`docker/client.go:174`). Nothing looks for it later. `NothingLeftBehind` names
  these.
- A text cached under the stamp of the file before (`unitfile.go:194`, after the
  stat at 166) is taken for that file's if the file comes back with its old stamp;
  `ReadsAreCurrent` names this, and an edit in place that neither size nor time
  show, as the only two.
- With `"reply_lost"` among its faults `WrittenRemembered` is false: a mapping
  whose AddPortMapping was carried out but not answered is in place and its
  address is not remembered (`daemon.go:300-306`), so a macvlan container's row may
  stay behind when the container stops, until it is written again.
- `Containers!UpToDate` leaves out containers put on or taken off a network while
  running: of that Docker announces `connect` and `disconnect` of the network, and
  `client.go:131-135` asks for events of containers only. The interval finds it
  (`EventuallyWhole`).
- `Containers!WholeAnswer` leaves out containers that changed networks between the
  two requests of a pass. One that left a network which was removed at once is
  joined with no driver and drops out of the answer, although it had another
  network all along (`client.go:406-413`). A later pass puts it back
  (`EventuallyWhole`).

Those of a pass are covered by the next one that is not so disturbed.

## What is not modelled

- **The commands** `list` and `relay` as typed by a user, `update` but for the one
  pass it is, options and wiring (`cli/`). They keep no state.
- **Parsing and formatting**: declarations and the lines of unit files, SOAP, XML,
  relayed requests. No property here tells their results apart; `UnitPass` starts
  from assignments.
- **Discovery** (SSDP, the choice among several gateways, the host's own address):
  network I/O once at start. Its result is `HostAddress`, known or not.
- **How a systemd unit's sockets are found** (control groups, `sockdiag`): `UnitPass`
  is given which sockets are whose.
- **Two Porticals on one host**: README.md:293 says to run one, as neither could tell its rows
  from the other's by the address they share.
- systemd's word that a unit's state is stale, without the new one:
  `UnitEvents` takes it always to say the state.

## Conventions

A component's theorems live in a module whose name ends in `_proofs`; constants carry
named assumptions; no module with a theorem uses a `RECURSIVE` operator; actions are
named for the code they stand for.
