# Verification of uds-policy

TLA+ modules for `uds-policy`, the wire-agnostic half of a privileged
`AF_UNIX` daemon: who owns the socket path, who is calling, may they, what
happened, and is the daemon busy or wedged. TLC checks the modules on small
instances; TLAPS proves the central ones for every instance. Paths below are
relative to the repository (`src/socket.rs`); in `PROJECT.json` the repository
itself is `src/`, so the same file is `src/src/socket.rs`.

## The system

| part | source | state | operations |
| --- | --- | --- | --- |
| socket path | `src/socket.rs` | the inode at the path, its mode and group, the listener | `Socket::bind`, `reclaim_stale_socket`, `give_socket_to_group`, `Drop` |
| accept | `src/socket.rs` | the accepted stream's deadline | `Socket::accept`, `set_accept_timeout` |
| caller | `src/caller.rs` | none; the kernel's peer credentials | `Caller::of_socket` |
| caller names | `src/caller.rs` | a process-wide memo behind a mutex | `name_for_uid` |
| calls | `src/call.rs` | none; a tag, gated or unprivileged | `Call::gated`, `Call::unprivileged` |
| authorization | `src/authorization.rs` | the gate's lists | `PeerGate`, `AllowSocketPeers`, `DenyAll` |
| audit | `src/audit.rs` | an operation's label | `Operation::begin`, `finish` |
| watchdog | `src/watchdog.rs` | `ServeActivity` behind a mutex | the four stamps, `is_alive`, the heartbeat thread |
| watchdog configuration | `src/watchdog.rs` | the environment | `heartbeat_from`, `notify_to` |
| example daemon | `examples/gatekeeper.rs` | its locals | `serve`, `answer`, `exchange`, `self_test` |

The crate has no loop of its own. The example's loop shows how the parts meet,
and the models follow it: the main thread binds, spawns the heartbeat thread,
accepts one connection at a time, stamps the shared `ServeActivity` around it,
asks the gate, brackets the exchange with two audit lines, and closes. The
heartbeat thread shares only the `ServeActivity`. Outside the process are the
file system and other daemons on the same path, clients, the account directory
behind NSS, and systemd.

What is hard in it:

* **Interleaving on the path.** `bind` is up to eight system calls that name
  the inode by its path and hold no lock. Anything may happen between two, by
  another daemon or by whoever else can write to the directory.
* **Crashes.** A killed daemon leaves its inode; a daemon killed in an
  operation leaves an announcement without a completion.
* **Two clocks.** The heartbeat samples the time before it reads the stamps,
  and the margin between the heartbeat's interval and systemd's timeout is one
  missed pet.
* **Clients.** They hang up, dawdle, stop reading, and change credentials
  between any two steps of the daemon, which serves one at a time.
* **Restarts.** A daemon that stalls is killed with its queue full of clients
  and perhaps with the probe of its successor among them; the next one finds
  its inode.
* **Partial failure.** Several failures are swallowed on purpose (group,
  cleanup, notification, unreadable caller); each must stay harmless or be said.

## The modules

**`PathOwnership`** is the abstract promise about a path: it is a lock with an
owner and the daemons that serve.

**`SocketPath`** is `socket.rs` on one path, an action for every system call:
`Exists`, `SymlinkMetadata`, `Connect` (the probe), `RemoveStale`, `BindInode`
and `Listen` (the halves of `UnixListener::bind`), `SetPermissions`,
`RemoveWreckage`, `GiveSocketToGroup`, `Drop`, `CloseListener`, and `Crash`
anywhere. `pc[d]` is the next call of daemon `d`; `path` is what the path
names: nothing, something foreign, or the inode some daemon bound. A call acts
on what `path` is when it runs, so `SetPermissions` can well change another
daemon's inode. `SerialStarts` says whether a supervisor runs one `bind` at a
time; serving, shutting down and dying are concurrent either way. Each call
may fail for a reason of its own, which is a `Fault`, of which there are at
most `MaxFaults` (a chown's failure needs none: it changes nothing else). A
failed listen(2) leaves the inode; a refused unlink whose result the code
ignores leaves it too, and the outcome `"Left"` remembers that.

**`SharedDirectory`** EXTENDS it by an outsider in the socket's directory, who
between any two of those calls puts something at the path that is no socket
(`Replace`) or removes what is there (`Remove`), at most `MaxMeddles` times. In
`SocketPath` itself the path is foreign from the beginning or never. Here the
`is_socket` check, the probe and `remove_file` each meet what the path names by
then, and so do the unlinks of `bind`'s error arm and of `Drop`, which ask nothing:
a file that was put in a serving daemon's place goes with its shutdown, and so
does the socket of a daemon that found the path free. `unaware` remembers who had
looked at the path, or bound it, before what is there now was put there; `raced`,
that of two starts the second has taken the first's inode for a stale one.

**`SocketPathProofs`** and **`SharedDirectoryProofs`** prove what the runs of
those two modules check.

**`Watchdog`** is the serve loop as the watchdog sees it, the heartbeat thread
and systemd, over a clock. The loop's places are `accept`, `accepted` (between
`accept` and `call_started`), the two shapes of a call, `turn` (between the end
of a call or of an idle accept and `tick`), and `dead` (the lock is poisoned).
`Wake`, `Judge` and `Pet` are the three steps of the heartbeat: the clock is
sampled in the first and used in the second. `Advance` moves time, and not past
the moment a healthy thread is due, give or take `Jitter`. `Wedge` and `Panic`
make the loop unhealthy; `ailing` remembers when it last was, or was overdue.
In the example the loop runs on the main thread, whose panic ends the process;
`Panic` is the daemon that serves on another thread, which is what the poisoned
lock in `is_alive` is about.

**`Supervision`** is the abstract promise of the watchdog, without stamps, pets
and a heartbeat thread: a loop that stops or moves, the moment `due` at which it
is killed if it does not move (or none, if it is trusted for good), and when it
last ailed. Only a `Move` of the loop changes `due`, `Pass` stops short of it, and
`Kill` needs an ailing within the last timeout. `Watchdog` instantiates it with
`due` computed from the ceiling of the place its loop is in.

**`WatchdogProofs`** proves what `Watchdog`'s run checks, the refinement included.

**`CallerNames`** is the memo of `name_for_uid`: two critical sections and a
lookup between them, for several threads, while accounts change and the
directory comes and goes.

**`Authorization`** is pure: the two tags of a call, what a caller has of a uid
and a gid, and the three authorizers with `PeerGate`'s constructors, `DefaultGate`
being what `#[derive(Default)]` makes.

**`Gatekeeper`** is what happens to a connection: the steps of `Socket::accept`,
the gate, the operation, the exchange, with clients that act between any two of
them. `config` is how the daemon was put together: its authorizer, whether its
call is gated, its read timeout (none, some, or zero, which
`set_read_timeout` always refuses), and whether the listener has a timeout of
its own to be inherited. The example is one of them; the library can be put
together otherwise. `peer[c]` are the credentials the kernel took down at connect(2), `cred[c]`
those of the process now. The journal holds the audit lines, the refusals and a
line per start; the `answered` line is left out. A name with a line break makes a
line of what follows the break, unless `sanitize` has replaced it. `Read` is one
read(2) of `read_to_end`: it meets the end of the request, or some bytes and is
followed by another under the whole deadline, or no byte within the deadline. So
a client that keeps writing keeps the daemon, deadline or not. A connection that
is closed is forgotten.

**`Mediation`** is the abstract promise of gate and audit trail together: which
connections have come, which of them the policy lets in and are still to be
worked for, the operation that is open, the journal, and who was answered. It
knows neither a socket nor a deadline. `Gatekeeper` instantiates it, with a
client's connection awaiting its turn while it is queued or open and not yet
worked for.

**`CallerNamesProofs`** and **`GatekeeperProofs`** prove what those modules'
runs check of safety.

**`Service`** composes: daemons on one path (it EXTENDS `SocketPath` and every
step of a bind is a step of its), the prologue of `serve` with `heartbeat_from`
over the environment systemd gave, the accept loop over a listener's queue, calls
that stall, systemd's kill, the supervisor's restart, and clients that connect,
lose their connection with the daemon, and connect again. The probe of a start is
an entry in the queue it probes: it waits while the queue is full, is accepted
like a client, and is closed. `loop[d]` is where `serve` is once `bind` has
returned. There is no clock: of `is_alive` it says what it is in the long run
(`AliveInTheLongRun`), and `Watchdog` is what says when.

**`SelfTest`** is `self_test`: its main thread, which is one daemon of
`SocketPath`, and its client thread, which meets it on the path.
**`SelfTestProofs`** proves what its hang is, and that its check of the gate is
right.

The `MC` modules hold the values TLC needs that a cfg cannot write.

## The runs

| run | bounds | what it shows |
| --- | --- | --- |
| `path_serial` | 3 daemons, 2 crashes, 2 faults, started one at a time | a daemon in its loop is the one the path reaches; only a stale inode is removed; the configured mode and group are there or the group's absence was said; `AlreadyActive` is true; `SocketPath` implements `PathOwnership`; some daemon always serves again |
| `path_taken` | 2 daemons | violation: a live socket is taken |
| `shared_directory` | 3 daemons (symmetric), started at will, 1 crash, 1 fault, 1 change by the outsider | what is no socket is removed only by a daemon that had looked, or bound, before it was put there; an orderly end leaves no inode; a daemon that the path leads to has its configured mode and group, or has said so, although a take-over lets chmod and chown act on another's inode; until two starts race, a change strands one daemon at most |
| `self_test` | the 2 threads of 1 process | violation: the self-test hangs when its client connects between bind(2) and listen(2) |
| `service` | 2 daemons, started one at a time, 2 clients, queues of 1, 5 environments, 1 each of crash, fault, stall and shutdown | the path is a lock in the composition too; systemd kills only a daemon that has stalled, whatever the environment and although an accept timeout may fail to be set; a start's probe never hangs on a watched daemon; every client is answered in the end |
| `watchdog` | timeout 4, jitter 1, bounded ceiling 5, stream ceilings none and 3, time to 14, no lost pet | no healthy daemon is killed; a wedged one is, within its ceiling, a timeout and the jitter; `is_alive` tells the one from the other at every moment; `Watchdog` implements `Supervision` |
| `watchdog_lost_pet` | the same with 1 lost pet | violation: a swallowed pet kills |
| `caller_names` | 2 threads, 2 uids, 1 name, 3 calls each, 2 changes | only answers are remembered; lookups are bounded; an entry nobody is still looking up is for good; racers agree until the directory changes or fails; a hit never waits for NSS |
| `caller_names_race` | 2 threads, 1 uid | violation: racers disagree |
| `gatekeeper` | 5 daemons, 2 clients with two parties' credentials, queue of 1, 1 fault, 1 crash | every completion follows its announcement in the same words and no name makes a line; lines name who connected; a connection is refused or worked for, once; only admitted clients are served, gated calls on the record and others never; the deadline is the request's; `Gatekeeper` implements `Mediation`; no connection stays for good unless one client holds the daemon in one of three ways: silence where no deadline was asked for, a long reply it does not read, or a byte within every deadline |
| `gatekeeper_probe` | 1 probe | violation: a probe is logged and written to |
| `gatekeeper_default_gate` | 1 client, 1 fault | violation: the default gate admits the unreadable |

Why the bounds suffice. On the path, a race needs the reclaimed inode, a
reclaimer and a third to be taken from, hence three daemons; each crash or
fault makes the initial situation of a new start, and two of each let one fall
into the aftermath of another. The outsider's one change strands a
daemon, whose shutdown then unlinks the socket of a second, and that one's the
socket of a third. For the watchdog, time 14 holds the first pet, an
idle ceiling of three intervals or a ceiling of five, the timeout after it, and
the kill; the timeout is even, so that the second missed pet ties with systemd.
For the memo, two threads can race and a third call of one can follow the
race; every change of the directory is an outage, a return or a rename. For the
gatekeeper, two clients let one wait behind the other, and the second connection
follow a crash; its five daemons are the example, the example with a zero
timeout, and one with each other authorizer, of which one clears the deadline,
one serves an unprivileged call and one admits the unreadable. For the service,
two daemons are one that serves or has stalled and one that starts beside it; a
queue of one is full with one client in the call and another waiting, which is
when a probe blocks; two clients, a crash, a fault, a stall and a shutdown let
each of a client's connections be lost in another way. The environments are no
watchdog, a watchdog for this process with and without `WATCHDOG_PID`, one for
another process, and the shortest one.

Deadlock is checked in the path, directory, watchdog and service runs. The watchdog ends in
`Ended` by construction of its clock. In the service everyone may wait for good
in one place, `WaitForGood`: a call has stalled and no watchdog watches.
`CallerNames` and `Gatekeeper` stop when every call or connection is spent.

## Fairness

* `SocketPath!Fairness`: a `bind` in progress and a listener being closed get
  their next step, and a supervisor keeps starting daemons (`Restart=`). The
  fairness of starts is that of *some* daemon, so a daemon told
  `AlreadyActive` is not retried on its own account. Crashes, faults and
  shutdowns are never owed.
* `CallerNames!FairSpec`: threads run. The lookup has no fairness: NSS may hang.
* `Gatekeeper!Fairness`: the daemon's thread runs, its deadlines fire, and a
  daemon that died is restarted. Clients owe nothing: not to write, nor to end
  their request, nor to read, nor to hang up. `NoHostage` therefore names what they
  can do with that, and says that there is no fourth way; the code ends none of
  the three.
* `Service!ServiceFairness`: threads run; systemd kills and restarts; and a client
  that could, again and again, get into a queue does so some day (strong
  fairness: connect(2) waits its turn, and a refused client tries again).
  Stalls, crashes, faults and shutdowns are never owed.
* `SelfTest!SelfTestSpec`: both threads run.
* `Watchdog` states its bounds as safety: time cannot pass a moment at which a
  healthy thread is due, and systemd's kill is due at the timeout.

## What is proved

`SocketPathProofs`, for every set of daemons and every bound:

* `TypeCorrect`, `NoWreckageHolds` and `ReachableConfigured` hold of `Spec`, with
  starts at will. The first needs nothing. `NoWreckage` rests on `NothingLeft`: a
  daemon that is still closing its listener has no inode at the path any more,
  either, short of a refused unlink. `ReachableConfigured` rests on
  `ConfiguredSoFar`: chmod and chown name the path, so a daemon the path leads to
  after its chmod had it act on its own inode, which nobody can put back once it
  is gone.
* The rest assume `SerialStarts`. The inductive invariant is `SupervisedInv`:
  at most one daemon is in `bind` (`OneStart`); from bind(2) until its unlink a
  daemon is what the path names (`OwnersHoldPath`); at the unlink of a reclaim
  the path is an inode nobody owns (`ReclaimOnlyStale`); after its chmod a
  daemon's inode has the configured mode (`ModeSinceChmod`). `ServingIsReachable`
  alone is not inductive: it says nothing of the daemon that is about to remove
  the path, or about to serve.
* `NotTakenOneByOne` is the promise that `path_taken` refutes, with the assumption
  it lacks: it follows from `OwnersHoldPath` before and after a step.
* `PathIsALock` is the refinement: the path's owner, computed from `pc` and
  `path`, changes as `PathOwnership` allows, step by step.

`SharedDirectoryProofs`, for every set of daemons and every number of changes:

* `ForeignIsSafeFromLaterStarts`, with starts at will, by `CommittedAreUnaware`:
  whoever is past the `is_socket` check or bind(2) while the path is no socket was
  so before it was put there.
* `OwnInodeInSharedDirectory`: `NoWreckage` and `ReachableIsConfigured` hold of the
  shared directory, too, because an outsider never makes the path a daemon's inode.
* `StrandingBounded`, with starts at will, by counting: an outsider's step strands
  one daemon more at most, a daemon that unlinks another's socket is stranded
  itself and is so no longer, and a reclaim that takes the path from an owner has
  raced (`EveryStepMoves` sorts the system calls).
* `StrandingBoundedOneByOne`: with `SerialStarts` no two starts race, because a
  reclaim about to unlink takes the path from no owner (`UnlinksNoOwner`, what an
  outsider leaves of `ReclaimOnlyStale`).

`WatchdogProofs`, for every timeout, jitter, ceiling and clock bound with the
jitter at most an interval and less than the slack the timeout leaves
(`WatchdogAssumption`): `HealthyIsSafe`, `WedgedIsKilled`, `VerdictsAreExact` and
the refinement `LoopIsSupervised`. The invariant `WatchdogInv` says that no stamp is of the future, that the record in the
`ServeActivity` is that of the place the loop is in, that a healthy loop has
ticked within three intervals whenever the heartbeat judges it idle, that the
pending wake is one interval after the last pet unless the loop ailed since, and
that the last pet was one the ceiling allowed.

* The two directions of the verdict are lemmas about `is_alive` at any instant not
  after now (`NotAliveIsAiling`, `AliveIsAllowed`), because the heartbeat judges by
  a clock it has read before; both bounds, and `VerdictsAreExact`, rest on them.
* For the refinement, a step of the loop gives it a `due` that begins now
  (`LoopMoves`), no other step changes it (`SameDue`), and `Advance` respects it
  (`TimeIsSupervised`) because it respects the next pet, and the last one was
  allowed. `LostBounded` is needed for the kill: without a lost pet every kill has
  its cause.
* `AdvisoryIfDelivered`: with `MaxLost = 0`, what `watchdog_lost_pet` refutes holds.

`ServiceProofs`, for every set of daemons and clients, every environment and
every length of queue:

* `ServiceTypes`, and `KillsAreEarned`, by the invariant `WatchedLoops`: a daemon
  that systemd watches has its heartbeat from its first accept on, and a ceiling
  is set only with the accept timeout armed (which takes more than half of one
  microsecond, hence `Halves`).
* `PathInService`: with `SerialStarts`, `SupervisedInv` of `SocketPathProofs` is
  an invariant of the composition. Every step of `Service` is a step of
  `SocketPath`, leaves the path alone, or is a death systemd deals out
  (`PathStep`), which `SocketPath` bounds by `MaxCrashes` and `Service` does not.
  The same split gives `LockInService` (a death is a `Release`, or nothing if the
  daemon owned nothing) and `ClaimsInService`: `SocketPath`'s promises are those
  of the unit in service.

`CallerNamesProofs`, for every finite set of threads, and however often the
directory changes:

* `FailuresForgotten`: who is about to store holds an answer the directory gave
  about that very uid (`StoresWhatWasGiven`), so the memo holds nothing else.
* `LookupsBounded`, by counting (`AskersCounted`): until a uid is in the memo,
  every thread NSS has answered about it is still on its way to store, so that
  those answers and the lookups under way are at most one per thread; once it is
  in, nobody joins the lookups. `LookupsAreBounded` alone says nothing of the
  lookups under way, and so is not inductive.
* `EntriesSettle`: an entry nobody is looking up or storing any more is never
  written again, because a call that finds it there asks nobody.
* `QuietRacersDoAgree`: until the first change of the directory, the memo, the
  answers on their way to it and the results of races all equal the one thing it
  has to say about a uid (`OneVerdict`), and a race is one both threads take part
  in, about the same uid (`RacersMeet`).

`GatekeeperProofs`, for every set of clients and of daemons, the authorizers being
the three of `src/authorization.rs` (`GatekeeperAssumption`):

* `LinesNameTheConnector`: what the loop holds of the connection in hand is that
  connection's, or nothing (`HeldIsTheConnectors`), and the kernel's record of a
  connected client never changes (`PeersStay`).
* `JournalBracketed`: while an audited operation is in flight its announcement is
  the journal's last line, in the words it has kept (`AnnouncedLast`); only four
  kinds of steps say something (`WhatIsSaid`), and each says one line, because no
  label holds a line break.
* `WorkAnnounced` joins the two: whoever is past the authorizer is admitted by
  the credentials it connected with, or the gate takes the unreadable
  (`AuthorizedMayBe`).
* `RejectingGateRefuses`: of the gates with empty lists, those that reject the
  unreadable answer nobody; `gatekeeper_default_gate` is about the one that does not.
* `DeadlinesAreTheRequests`, from the moment the deadline is set.
* `FatesAreOne`: a connection the journal tells of is closed, or it is the one in
  hand and being worked for (`FatesAreSettled`); so one that is about to be refused
  or begun has not been told of (`NoFateYet`), and one that was refused is not the
  one that is answered. `OneFate` alone says nothing of the connection in hand.
* `LoopMediates` is the refinement. It needs `LifeInv` besides: those in the
  queue are distinct and waiting, the one in hand is open and none of them, and
  who was answered is done; without it a connection could be worked for twice.

`SelfTestProofs`, for any daemon and any uid:

* `StuckForGood`: a refused client and a daemon in its accept make a state no step
  leaves, and an exit is one too, so that a self-test that is ever stuck never
  exits. Run `self_test` shows that it can get there.
* `StrangerIsRefused`: the next uid, modulo the range, is never one's own, and the
  self-test's gate refuses it and the unreadable. The hypotheses say that there are
  two uids or more and that a peer is no `Unreadable` or `InProcess` caller.

Of the six statements below that the code does not keep, five have a theorem that
says where the line is: `NotTakenOneByOne` (one start at a time),
`AdvisoryIfDelivered` (no lost pet), `QuietRacersDoAgree` (a quiet directory),
`RejectingGateRefuses` (a gate that rejects the unreadable), and `StuckForGood`
(no way back). The sixth, `ProbeMeetsSilence`, is broken by every probe that gets as
far as the gate.

Only model-checked: the liveness properties `Recovery`, `CachedNeverWaits`,
`NoHostage`, `StartsEnd` and `ClientsAreServed` (the prover has no rule for
fairness or `ENABLED`). Every invariant and action property of a passing run is
stated by a theorem.

## What the code does not do

Six statements of the repository are not true of the code; each has a run that
shows it.

1. `path_taken` — "a live one is not [reclaimed]": two starts at once reclaim
   each other's socket (`src/socket.rs:274`). Under one supervised unit it
   cannot happen, which is what the theorems show.
2. `self_test` — "runs both halves in one process and exits": its client takes
   an existing path for a listening socket. Between bind(2) and listen(2) it is
   refused and gives up, and the daemon waits for it forever. (For the same
   reason `ECONNREFUSED` does not prove that the listener is gone,
   `src/socket.rs:262`.)
3. `watchdog_lost_pet` — a notification that is swallowed can take the daemon
   down: the heartbeat has one pet to spare in no timeout.
4. `caller_names_race` — racing lookups do not always agree, only while the
   directory neither changes nor fails.
5. `gatekeeper_probe` — the example answers the startup probe with lines in the
   journal and bytes on the socket.
6. `gatekeeper_default_gate` — `PeerGate::default()` does not refuse everyone.

A seventh is true only of what the start finds: "a non-socket [is] left exactly where
[it is]" (`README.md:165`). The `is_socket` check and `remove_file` are two calls, and
a file that takes the stale socket's place in between is removed
(`src/socket.rs:274`); `LaterStartsLeaveForeign` says where the line is.

One corner has no promise to break: with `WATCHDOG_USEC=1` half of the timeout is
0, `set_accept_timeout(0)` disarms the accept timeout, and the idle ceiling is 0.
`Service` has that environment, and its properties except it (`Halves`).

## Not modelled

* `notify_to`'s address forms and the parsing in `heartbeat_from`: a datagram
  arrives or does not, a malformed value is an unset one. A wrapper whose child
  is the daemon, with `WATCHDOG_PID` naming the wrapper, is seen only from the
  child's side (the watchdog is not ours).
* The texts of denials and failures, with `bound`; the length at which names are
  cut; durations in audit lines; the `Display` of `BindError`.
* The rounding of durations to microseconds other than to 0. A timeout of more
  than `i64::MAX` microseconds is an error of `set_accept_timeout`; half of a
  `u64` never is.
* The 20-second deadlines of the self-test's client: they end a wait for a path
  that is never bound, which is not the wait that hangs.
* A caller that is `InProcess` is known to `Authorization` and is nobody's
  connection.
* An `accept` that fails for ever. The loop turns and ticks, and the code promises
  nothing.
* The crate facade and the build, lint, policy and supply-chain files: they have
  no behaviour at run time.

## Plan

1. Done: every module above, the three refinements, and the safety of each module
   proved.
2. Next: the invariants behind the liveness of `Service`, as far as they are safety:
   where each connection is, and that a queue is only that of a daemon that still
   listens; which step of a bind waits for whom.
2. `Socket::accept` in a daemon that serves each connection on a thread of its
   own, which the library allows and the example does not do.
