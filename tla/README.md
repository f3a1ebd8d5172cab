# crabsend in TLA+

crabsend is a LocalSend-compatible file transfer application: a Rust core
(`crates/crabsend-core`: HTTP server and client, discovery, TLS identity, file
names) and a Tauri application around it (`src-tauri`, with a TypeScript
interface under `src`).  A sender offers files with one `prepare-upload` call;
the receiving user accepts some of them; every accepted file is then one
`upload` call.  The receiver serves one session at a time.

This directory models that transfer (the receiving server, the application
behind it, the sending application in front of it, the files on disk and their
names) and what surrounds it: how server and discovery are started, stopped and
restarted, and which devices the user is offered and is paired with.  The modules
are checked with TLC on small instances; most of their invariants are also proved
with TLAPS for every number of calls, files, attempts, devices and restarts, and
for names of any characters and any length.

Paths below are relative to the repository: `server.rs`, `client.rs`,
`fs_util.rs` and `discovery.rs` are in `crates/crabsend-core/src`, `state.rs`, `settings.rs`
and the other Rust files of the application in `src-tauri/src`.

## Inventory

| Component | State | Operations | Modelled |
|---|---|---|---|
| Receiving server: session (`server.rs`) | the slot `Shared::session` behind a tokio mutex; per-file status and attempts; `last_activity` | `prepare_upload`, `upload`, `settle_file`, `cancel`, `Server::cancel_session`, `watch_sessions`, `PendingGuard::drop` | UploadServer |
| Receiving server: files on disk (`fs_util.rs`, `receive_body`) | the download directory | `sanitize_relative_path`, `resolve_destination`, `unique_path`, create, write, remove | FileName, Destination |
| Receiving server: PIN gate and plumbing (`server.rs`) | failures per address, the listeners | `check_pin`, `Server::start`, `shutdown`, `accept_loop`, `register`, `info` | Lifecycle, without the HTTP itself; `register` in Peers |
| Application: receiving (`state.rs`) | event channel, `incoming`, `sessions`, `history` | the event pump, `incoming_request`, `respond_to_upload`, auto-accept, `cancel_session`, `dismiss_transfer` | ReceivePath |
| Application: sending (`state.rs`, `client.rs`) | `sessions`, each with a `SendJob` and a cancellation token | `start_send`, `run_send`, `send_files`, `upload_with_retry`, `cancel_session`, `dismiss_transfer` | SendPath |
| Application: lifecycle (`state.rs`) | `server`, `discovery`, `server_status`, `settings` | `restart`, `stop`, `start_discovery`, `update_settings`, the `ListenerFailed` event | Lifecycle |
| Application: paired devices (`state.rs`) | `paired` and its file | `pair_from_qr`, `unpair`, `forget_device`, `refresh_paired`, `save_paired`, `load_peers`, `devices` | Peers |
| Discovery (`discovery.rs`) | the device list | `store`, `remove`, `clear`, `forget_unseen`, probes and scans | Peers; announcements and sockets stay out |
| Settings (`settings.rs`) | the settings and their file | `needs_server_restart`, `normalized`, load and save | which changes restart the server: Lifecycle |
| File selection, pairing codes, protocol types, TLS, Tauri glue, Android, interface, scripts | - | - | no, except the prompt of `views/incoming.ts` and the buttons that call `cancel_session` and `dismiss_transfer` |

How they interact.  Handlers of the server run on the tokio runtime, several at a
time; they share the slot's mutex, and every await between two critical
sections lets others in.  The server tells the application what happens over an
unbounded event channel that one task pumps; the application answers a request
over a oneshot channel and calls `Server::cancel_session`.  Commands of the
interface run beside the pump.  The sender's task, its concurrent uploads and
its cancel command share the session list and a cancellation token; it meets the
receiver only over HTTP.  Restarts of the server, scans and pairing commands are
tasks of their own: each list has a lock, which is held for one read or one
change and never across a request, a shutdown or a write of a file.

What is hard about it:

- *interleaving and stale decisions*: the slot is claimed, given up and taken
  again in separate critical sections, with the user's answer, a cancellation, a
  timeout and a disconnection racing in between;
- *order of events*: events are sent after the mutex is released, so the end of
  a session and the progress of its files can overtake each other;
- *unreliable calls*: a reply can be lost after the receiver acted on the call;
- *ends*: the last file, two kinds of cancellation, the watchdog and a dropped
  handler all end a session, and each must do so once;
- *tasks that overlap*: nothing orders two restarts, two scans, or two saves of one
  file, and each works on copies that others change meanwhile;
- *the end of the program*: it may come between the truncation of a file and its
  write, or between a change and its save;
- *liveness*: there is one slot, and the sender sets no timeout on its requests.

What makes each part correct: nothing is received without consent; at most one
sender owns the slot, and it gives the slot back; a session is reported over
once; the retry budgets of the two sides agree; what the lists show is what
happened; stored files are whole, do not overwrite each other and stay inside the
download directory; there is one listener, and it is the one that is shown; a
device is offered once, and a pairing is kept until the user drops it, in memory
and in the file.
`PROJECT.json` lists the places where the code is exposed, with the property
that covers each.

## Modules

```
Sessions <- UploadServer               what is promised of a session, and the server
UploadServer <- ReceivePath            server + receiving application
UploadServer <- SendPath               server + sending application and network
FileName, Destination <- MCDestination names and files on disk
PairingBook <- Peers                   what is promised of pairings, and the lists
Lifecycle                              restarts, listeners, settings, PINs
```

`UploadServer` is written once, with the free behaviour of its surroundings
(callers that call at any time, an application that answers anything).  The two
compositions extend it and replace one side of those surroundings by the code;
every step they take on the server's variables is a step of `UploadServer`,
which is proved (`ServerImplemented`, `SendImplementsServer`): `UploadServer` is
the abstract specification that both implement, so its theorems carry over.

### UploadServer

Every call is a process with a program counter (`prep`, `up`, `ctl`).  Taking the
tokio mutex (`ClaimLock`, `InstallLock`, `EnterLock`, `SettleLock`, `CtlLock`)
and the critical section that releases it are separate steps.  This matters
because `PendingGuard::drop` uses `try_lock`: `GuardDrop` clears the claim only
when the mutex is free.

| Code | Actions |
|---|---|
| `prepare_upload` up to the claim | `RefuseEarly`, `ClaimLock`, `ClaimRefused`, `Claim`, `Raise`, `RaiseFailed` |
| its `select!` | `CancelSeen`, `DecisionTimeout`, `DecideNo`, `DecideYes`, in the order of the biased branches where it matters |
| its second critical section | `InstallLock`, `InstallNothing` (204), `Install` (200) |
| `PendingGuard::drop`, a dropped handler | `GuardDrop`, `Disconnect` |
| `upload` | `EnterLock`, `EnterRefused`, `EnterWrongFile`, `Admit`, `NoDestination`, `StartReceiving`, `BodyEnds`, `DropUpload` |
| `settle_file` | `SettleLock`, `SettleGone`, `Settle`, `Report` |
| `cancel`, `Server::cancel_session`, `watch_sessions` | `CtlLock`, `CtlNothing`, `CancelPending`, `CancelActive`, `CancelSession`, `WatchSessions`, `CtlReport`; `GoesQuiet` is the idle time passing |
| the application | `Accept`, `AcceptAtOnce`, `SendAccept`, `Decline`, `Discard` |

Abstractions: time (a timer may fire whenever it is armed), addresses and tokens
(a call that shows the wrong one takes the refusing disjunct), and the random
session id, which is the call that created it.  `reported` stands for the
`SessionEnded` events; `withdrawn` is a history variable that remembers which
pending claims a cancellation cleared.

### Sessions

What the server promises of a session, without calls, mutex or timers: it is asked
for, the user answers once, it may begin once, with the files the user kept, its
files are settled or have to come again, it ends once, and whoever ended it owes the
others a word, which is told once.  One sender at a time is asked about, and nobody
while files come in.  Only a cancellation before the session begins (`disturbed`)
lets the next sender ask early, and lets a session that begins replace the active
one, of which then nobody is told.

`UploadServer` implements it (`SessionsKept`): the phase of a session is read off the
program counter of its call and the slot (`Phase`), `left` is `ToCome`, the pending
files of the active slot, and `owed` is one entry for every upload and control
process that is between its critical section and its report (`Owing`, `Owed`).  An
answer counts from the moment the application lists the session, and it may still be
given to a request whose handler is gone.

### ReceivePath

Adds the event channel, the prompt (`incoming`), the session list (`rows`), the
history and `cancel_session` for a received session.  A handler's step and the
events it sends are one action; the pump handles one event per step.
`respond_to_upload` is two steps, because the code lists the session
(`RespondYes`) before it sends the decision (`SendDecision`), and the handler can
leave in between.  `Shown` says which request the interface may still be
answering: the prompt it renders can be one snapshot old.

Merged into one step because nothing that others can see lies between: the
`UploadFailed` and `SessionEnded` events of one settled file; in auto-accept,
listing the session and sending the decision; after a user's cancel, the event of
the server and `finish_session`.  Left out: progress figures, the length limit
of the history, `clear_history`.  The cancel button is taken to show the live
status of the row.

### SendPath

Adds the sending task (`send`, `verdict`), the row in its list (`status`,
`rows`), `upload_with_retry` for each file (`task`), the cancel command in its
steps (`command`), and the calls (`want`, `reply`).  A server step driven by a call also
yields its reply; a reply travels until the sender reads it, and
the network may lose it or the call at any time (`ConnectionFails`).  The client
sets no timeout after connecting, so a peer may also say nothing any more on a
connection that never fails: before the reply (`FallsSilent`), or between its status
and its body (`BodyStalls`), which the client reads after the `select!` that looks at
the token.  A send session and its `prepare-upload` call share their name; every
upload attempt is a call of its own.

| Code | Actions |
|---|---|
| `start_send` | `StartSend` |
| `send_files` | `SeesStop`, `NoClient`, `HashLast`, `Offer`, `Accepts`, `GrantLost`, `NothingWanted`, `Refused`, `Activate`, `StartFile`, `Collect` |
| `upload_with_retry`, `HttpClient::upload` | `Call`, `CannotOpen`, `TaskSeesStop`, `Uploaded`, `Retry`, `GivesUp` |
| `run_send` after `send_files` | `EndSend` |
| `cancel_session` for a send | `CancelReads`, `CancelStops`, `CancelArrives`, `CancelHandled`, `CancelReturns`, `CancelUndelivered`, `CancelFinishes` |
| `dismiss_transfer` | `Dismiss` |

`CancelReads` is a step of its own because the code copies `remote_session_id`
under the lock and acts on the copy later.  Left open (TLC tries all): which
upload starts first, and which failure `send_files` meets first.  A `POST /cancel`
is lost before it arrives, returns, or never returns; the order of its late loss and
`finish_session` would change neither side.  Left out: the `hashing` status of single files, progress figures, `retry_file` (a `start_send`
with one file) and the resubmission with a PIN.

### FileName and Destination

A component of a name is a sequence of characters; what the code asks of a
character (a dot, white space, forbidden, how many bytes) is a constant, so the
operators are `sanitize_component` and `sanitize_relative_path` step by step:
`Replaced`, `trim_end_matches`, `Underscored`, `Titled`, `NotADevice`,
`truncate_bytes`.  Separators have split a file name into its components.  Upper
and lower case are one character, as they are where the code compares them; the
letters a name keeps would differ only in case.  `NameSpec` builds a file name
character by character, so its invariants are about every name a sender can make.

`unique_path` looks for a free name, `receive_body` creates it later with
`truncate(true)`, and a failed upload removes its path by name; in `Destination`
the three are steps of their own (`Resolve`, `Open` / `OpenFails`, `Remove` /
`RemoveFails`) and uploads interleave.  The code ignores the error of the removal:
after `RemoveFails` the upload is settled as failed with its file still there.  `Variant` gives the path of a name with a suffix number,
which may be another name without one.  A file is the set of uploads whose bytes
it holds.  The loop of `exists` calls in `unique_path` is one step.  Unlinking
follows POSIX.  `MCDestination` sends three uploads that spell one existing
name differently, and one that asks for the first numbered variant of it, through
`sanitize_relative_path`.

Two uploads may hold one path, or find every number taken (`overlapped`,
`exhausted`).  `StoredIntact` is about uploads that did neither, `KeptUntouched` about
uploads that found a number; `NothingLeft` needs neither condition.

### Lifecycle

Every call of `AppState::restart` is a process; a server, its pump and a
discovery carry the name of the call that made them.

| Code | Actions |
|---|---|
| `stop` | `TakeServer`, `ServerStopped`, `TakeDiscovery` |
| `serve` after the token is cancelled | `Closes` |
| `restart` after `stop` | `CloneSettings`, `Bind` or `BindFails`, `ShowsRunning` or `ShowsFailure`, `StoreServer`, `StartDiscovery`, `EmitState` |
| `accept_loop`, the `ListenerFailed` arm of `handle_server_event` | `ListenerFails`, `PumpListenerFailed` |
| `update_settings` | `UpdateAndRestart`, `UpdateOnly` |
| `check_pin` | `RightPin`, `WrongPin` |

A server whose listener failed is `deaf`: the port is free, accepted connections
go on.  `frozen` says that the pump waits for the lock of `server_status` that it
holds itself (below); every step that needs that lock waits from then on.
`overlapped` and `repinned` are history: a restart began its stop while another
was under way; the PIN changed and no restart took the settings since.  Abstractions: of the
settings only the port and the PIN; the IPv4 listener, which is the required one,
stands for both; `check_pin` is one step, for it holds its mutex throughout.

### Peers and PairingBook

`Peers` has the list of discovery (`sighted`), the pairings in memory (`paired`)
and in the file (`disk`), and scans and commands as processes.

| Code | Actions |
|---|---|
| probes and registrations (`confirmed`, `peer_registered`, `store`) | `Probed`, `Registered` |
| `clear_devices`, a restart of the discovery | `ClearDevices`, `DiscoveryRestarts` |
| `scan`, `refresh_paired`, `forget_unseen` | `scan`, `Refreshes`, `Misses`, `RefreshEnds`, `Sweep` |
| `pair_from_qr`, `unpair`, `forget_device` | `Pair`, `Unpair`, `ForgetPairing`, `ForgetSighting`, `ForgetSighted` |
| `save_paired`, `write_peers` | `Clones`, `Truncates`, `Writes`, `WriteFails` |
| the end of the program and the next start (`load_peers`) | `ProgramRestarts` |
| `devices` | the operator `devices` |

Which device answers at which address, and when, is free.  Time is what
`forget_unseen` asks of it: a sighting carries the scans that began before it.  A
file is a list, truncated (`Blank`), or mixed by two writers (`Torn`), and one
that does not parse holds no pairing, as in `load_peers`.  `Pair` begins where the
device of the code has answered.  Names, device types and protocol versions of a peer
are left out.

`PairingBook` is the promise: the paired devices are the ones the user asked for
last, until something stored is damaged.  `Peers` implements it with
`book <- PairedFps`, and `intact` false from the moment two saves overlapped, one
failed, or the program ended with a change it had not saved.

## Runs

Runs check for deadlock as well (the server's callers come back for ever), except
`destination`, whose uploads come to an end, `lifecycle`, whose restarts do and whose
pump may lock itself out, and `peers`, where every user and every peer may stop.

| Run | Instance | Shows |
|---|---|---|
| `upload_server` | 2 requests, 2 uploads, 2 files, 2 attempts, at most 3 calls | types, `Consent`, `SingleSession`, `EndedOnce`, `EndAccounted`, `RetryBudget`, `CompletedAccounts`; `Sessions` |
| `upload_server_liveness` | 1 request, 2 uploads, 1 file | every claimed request returns; every active session gives the slot back |
| `receive_path` | 2 requests, 1 upload, 1 file, at most 2 calls | the prompt, the list and the history agree with the server |
| `send_path` | 1 send of 2 files, 2 upload calls, 2 attempts, 2 at a time | what the sender shows as done is stored; it is never turned away; no send stays running |
| `send_path_liveness` | 1 send of 1 file, 2 upload calls | the sending task ends, or waits for a silent peer; once it is cancelled it ends then too, unless it is inside the body of a reply |
| `destination` | 3 uploads of a name that exists, 1 of its first numbered name, suffixes to 2; every file name of up to 4 characters and separators | files are whole, old files untouched, nothing left of a failed upload that could be removed; names stay inside, are defused as far as the code does it, and are kept when harmless |
| `lifecycle` | 2 restarts, 2 ports, 2 PINs, 1 address, 2 PIN attempts | one listener, the one that is shown; settings come into force; restarts end |
| `peers` | this device and 2 others, 2 addresses, 1 scan, 1 command | a device is offered once; what is stored is what is shown; a scan keeps what answered; `PairingBook` |
| `interleaved_senders`, `claim_left_behind`, `ended_session_revived`, `cancelled_send_keeps_slot` | smallest that show it | a sentence of the code or its comments that the code does not keep, see below |

Twelve more configurations are kept beside the runs.  Each checks one sentence that the
code does not keep, and TLC ends it with a counterexample within seconds
(`tlc -config PeersOverlap.cfg MCPeers`, and `MCDestination` for the two of FileName);
the section on what the code does not keep says what each shows.

The bounds, and why they are enough.

- `MaxCalls` (a state constraint): calls of `prepare-upload` and `upload` that are
  ever made.  The races are between at most two requests (the slot has one
  owner and one challenger) or between two uploads of one session, with any number of
  cancellations and watchdog rounds, which are not bounded.  Three calls give
  request-request-upload and request-upload-upload.  With the application, two
  calls still give request-request and request-upload with every order of their
  events.
- `MaxUploadAttempts` is 3 in the code and 2 here: one retry that is allowed
  and one that is not.
- `BusyReceiver` (`send_path` and its liveness): the watchdog and the receiving user
  take the mutex only when there is a session for them, and (`ReportedAtOnce`) they report its
  end, which no sender sees, before anything else happens.  `upload_server` has
  them without these bounds.
- `SilentInBodies` (`send_path`): the peer falls silent in the body of a reply only.  A
  call it leaves without a reply is to the invariants what one is whose reply is never
  read; the liveness run has both, and the proofs do without the bound.
- `PortsFree` (`LifecycleOverlap.cfg`): a port is refused only because this program
  holds it.  `SavesEnd` and `EndsInSave` (`PeersOverlap.cfg`, `PeersCut.cfg`): no save
  fails and the program goes on; it ends only while the file is written.  These three
  make a counterexample harder to find, not easier: each shuts out the simpler causes.
- One send: two sends from one application share only the list, by index of the
  session, and at the receiver they are two requests, which `upload_server` has.
- `LastSuffix` is 9999 in `fs_util.rs` and 2 here, so that every suffix can be
  used up.
- Names (`destination`): nine characters, one for each thing the code tells apart,
  components of at most 4 bytes, so that a name of four characters is cut, between
  and inside wide characters.  Files and names share no state and are tried apart
  (`Apart`).
- `lifecycle`: two restarts overlap or follow each other, which is every way two
  can meet; PINs are tried while no restart is under way (`TriedAtRest`), for the
  counters belong to one server.
- `peers`: one scan and one command already give two savers; two devices and two
  addresses give a device that moves and an address that is taken over.
- Symmetry is used in runs without liveness, over calls, files, devices and
  addresses, which the modules treat alike (`peers` keeps this device apart).

Operators commented as a *sensitivity variant* are plausible slips of the
definition that follows them (a dropped guard, a missing branch).  They take no part
in the specification; `PROJECT.json` ("mutants") says which property notices which.

### Fairness

- A task that is ready is polled, and timers fire: weak fairness of the handlers'
  own steps, of the decision timer, of the idle time and of the watchdog.
- The tokio mutex is handed over in order of arrival: strong fairness of
  `InstallLock`, `SettleLock` and the watchdog's `CtlLock`, which are disabled
  each time somebody else holds the mutex.
- `send_path_liveness` adds that a request reaches the server or its connection
  fails (`CONNECT_TIMEOUT`), that a reply which has arrived is read, and that the
  sender's tasks run.  It does not assume that a silent connection ever fails, nor
  that `POST /cancel` returns, which has no timeout either.
- `lifecycle`: a restart that can go on goes on, a server that is shut down closes
  (its tasks are aborted), and the pump handles a listener that failed: weak fairness
  of `RestartStep`, `Closes` and `PumpListenerFailed`.
- Nothing is assumed of either user, nor that any upload is ever made, that it
  succeeds, or that a connection holds.

`PrepareReturns` therefore rests on the decision timer, and `ActiveReleased` on the
watchdog.  The sender has no timer of its own: `SendEnds` rests on the receiver's and
says what is left, the wait for a peer that is silent for good, and
`StoppedSendEnds` says that to cancel ends that wait unless a body is being read.
`RestartEnds` has one exception, the lock of `LifecycleFrozen.cfg` below.

## What the code does not keep

Each of these is a configuration that TLC ends with a counterexample.  The first four
are runs.

1. `interleaved_senders` (`server.rs:582`).  A request is cancelled after its
   handler took the user's yes; another request claims the slot; the first
   handler then installs its session over it.  `server.rs:4`: "two senders cannot
   interleave their files".  `SingleSession` shows that this takes a
   cancelled pending request.
2. `claim_left_behind` (`server.rs:832`).  The guard gives up when `try_lock` fails,
   and no timer looks at pending sessions: the server answers 409 until it is
   restarted or the same address cancels.  `server.rs:503`: "Whatever happens next
   … the slot must not stay claimed."
3. `ended_session_revived` (`state.rs:1413`).  `UploadStarted` behind
   `SessionEnded` makes an ended session active again.  `state.rs:252`: "Whether
   the session will not change any more."
4. `cancelled_send_keeps_slot` (`state.rs:1176`).  A send that is cancelled while
   the 200 is on its way drops the reply and tells nobody; the receiver's slot is
   taken until the watchdog comes.  `state.rs:1199`: "The peer must not keep
   waiting for files that never come."
5. `UploadServerEmptied.cfg` (`server.rs:575`).  A request that was cancelled and is then
   accepted with no file sets the slot to `None`, whoever is in it: the next request
   loses its claim while the user looks at it, and a third one is let in instead of
   answered with 409 (`server.rs:4`).
6. `UploadServerRevived.cfg` (`server.rs:582`).  The application cancels a request whose
   handler already took the answer and is told that it is over; the handler then
   stores the active session.  `server.rs:117`: "The session is over."
7. `DestinationRace.cfg` (`server.rs:645`).  Two uploads of one name in flight resolve
   one path; what one of them stored the other empties, mixes or removes.
   `server.rs:107`: "A file was received and stored."
8. `DestinationFull.cfg` (`fs_util.rs:138`).  With every number taken the path that
   exists is returned, and overwritten.  `fs_util.rs:87`: "picking a free name on
   collision".
9. `FileNameDevice.cfg` (`fs_util.rs:52`).  `nul.txt` is stored as it is.
   `fs_util.rs:20`: "with or without an extension".
10. `FileNameCut.cfg` (`fs_util.rs:57`).  A name is cut after its end was trimmed, and may
    end in a dot or a space.  `fs_util.rs:33`: "trailing dots/spaces … are defused".
11. `LifecycleFailed.cfg` (`state.rs:1471`).  A listener that fails is not restarted.
    `server.rs:1082`: "anything else is fatal and restarted by the application".
12. `LifecycleFrozen.cfg` (`state.rs:1473`).  `ListenerFailed` assigns to
    `*self.server_status.lock()` a struct whose `..` part locks it again while the
    first guard lives: the pump waits for itself, and so does every restart after it.
    `state.rs:1378`: "restarts the server when it has to".
13. `LifecycleOverlap.cfg` (`state.rs:1389`).  Two restarts overlap, the older stores
    its server last: the settings are not in force, and the newer server listens
    with nobody left to stop it.
14. `LifecycleLockout.cfg` (`server.rs:969`).  Wrong PINs are never forgotten, and the right
    one is no longer looked at.  `state.rs:1644`: "too many attempts; wait a moment".
15. `PeersOverlap.cfg` (`state.rs:1085`).  Of two overlapping saves the older list may
    be written last, and a forgotten device is back after the next start.
    `state.rs:966`: "A pairing is forgotten for good".
16. `PeersCut.cfg` (`state.rs:2127`).  The file is overwritten in place; a program that
    ends in between starts with no pairing at all.  `state.rs:168`: "only *Forget*
    undoes it".

The models contain more of that kind, which contradicts no sentence of the code; the
properties name the condition under which they hold.

1. A session whose handler is gone when auto-accept lists it stays active in the
   list (`state.rs:1557`): `ReceivingIsShown` is about the other direction.
2. The PIN is not compared by `needs_server_restart` (`settings.rs:112`): the server
   goes by the old PIN until something else restarts it (`repinned`).
3. A cancelled send that is reading the body of a grant or of a refusal hangs there
   for as long as the peer is silent (`client.rs:197`, `client.rs:199`): `StoppedSendEnds`.
4. The suffix ` (n)` comes after the cut, so a stored name may be longer than 255
   bytes.

## Proofs

Proved for all constants that satisfy the named assumptions: `ConstantsAssumption`
(calls, control processes and `None` are distinct; attempts are a positive `u8`),
for sending `SenderAssumption` (the sender does not try more often than the
receiver lets it in; concurrency is positive), for files `DestinationAssumption`
(the constants have their types, `Owner` and `None` are distinct), for names
`CharAssumption` and `WidthAssumption` (a dot and an underscore are different, no
device name comes near the limit of bytes), for restarts `StartupAssumption`,
`NoneAssumption` and `PinAssumption`, for devices `PeersAssumption`.

`UploadServerProofs`, about `Spec`:

- `TypeCorrect`: `TypeOK` is inductive.
- `ConsentHolds`: a session is active, and a file let in, only after the user
  accepted the request and kept the file.  `Consent` speaks of the slot and the
  files; the step that establishes it is `Install`, whose guard is only the
  program counter.  `ConsentInv` adds what the counter remembers: a handler past
  its decision has an accepted answer (`Granted`), and a request that was not raised has no
  answer yet (`Unasked`).
- `SingleSessionHolds`: without a withdrawn claim every request between claim and
  answer owns the slot; the invariant is inductive together with `TypeOK`.
- `EndedOnceHolds`: a session that was not withdrawn is reported over at most once and
  never holds the slot again.  `EndedInv` accounts for every claim on the end of a
  session: in the slot, with a control process that has yet to report it, with an
  upload that completed it, or reported.
- `SessionsKeptHolds`: the refinement of `Sessions`, step by step.  It needs consent (a
  session begins as the user agreed), the accounts of the ends, `SingleSession` (who
  begins replaces nobody, unless a request was withdrawn) and `PromiseInv`: a claim is
  of a request that was not served, a control process that reports has a session to
  report, an upload at work has a job.  `AppSessionsKept` and `SendSessionsKept` carry it
  over to the compositions.
- `EndAccountedHolds`: as long as no request was withdrawn, every session that lost
  the slot was reported or is about to be; together with `EndedOnce`, exactly once.
- `InterleavingNeedsCancel`: as long as no request was withdrawn, the slot never goes
  from one session straight to another.  The counterexample of `interleaved_senders`
  thus has no other cause than the cancelled request.

`ReceivePathProofs`, about `AppSpec`:

- `AppTypeCorrect`, with `AppInv`, which adds that an upload at work has a
  job and a control process with a report to make has a victim.
- `ServerImplemented`: `AppSpec => Spec`; `AppConsentHolds` follows.
- `YesIsForThisHolds`: a session is accepted only if the user said yes to that
  request.  `AgreeInv` ties together three variables of two components: the
  answer, the row and the consent.
- `ProgressLandsHolds`: no event of a file overtakes the listing of its session,
  at any length of the channel (`LandingInv`: the channel is a sequence of
  events that land, and no step takes a listing back to unlisted).

`RowsProofs`, about `AppSpec`:

- `PromptReachableHolds`: with `WaitsInv`, a request that is still open is in the
  prompt or its event is on its way; no event that the pump takes in between
  displaces it.
- `DoneIsCompletedHolds`: with `FinalInv`, the server never reports one session both
  completed and timed out, not even a withdrawn one, and `HistoryInv`, every end on
  the channel was reported and the history says "failed" only of a session that
  timed out or never was one.
- `ReceivingIsShownHolds`: with `ShownInv`, as long as nothing was withdrawn a row
  shows an end only after the session is out of the slot (`OverInv`), and only a
  request the application said yes to has a row (`ListedAgreed`).

`SendPathProofs`, about `SendSpec`:

- `SendTypeCorrect`, with `SendInv`, which adds that an upload past its body has a
  result (`HasResult`), for the result becomes the reply.
- `SendImplementsServer`: `SendSpec => Spec`; `SendConsentHolds` follows.
- `NoSendLeftRunningHolds`: with `EndInv` (a session whose task has started was
  listed), every write to the status after the end of the task is terminal.
- `DoneMeansStoredHolds`, with `StoreInv`: a call is asked for once and keeps what
  it asked (`WantStays`), a positive reply repeats a result of the server
  (`RepliesTell`), and a grant comes from an accepted answer, which no step takes
  back (`GrantTells`, `AcceptStays`).  So what a sender concludes from a reply it
  got stays true after the call, the session and the server's slot are gone.
- `NeverTurnedAwayHolds`, with `TurnInv`: a file is asked for under its grant only
  (`BegunInv`); the calls for one file follow each other, so only one of them can
  still touch it (`TurnsInv`); and the attempts the receiver counted do not get ahead
  of the sender's own, so with `SenderAssumption` a mismatch the sender will answer
  with another call leaves the file pending (`Room`).

`AccountProofs`, about `Spec`:

- `RetryBudgetHolds`: `BudgetInv` counts: the uploads that were let in for a file of
  the active session are as many as its attempts say, until the `u8` is full, so a
  file that is offered again has fewer mismatches than attempts allowed.
- `CompletedAccountsHolds`: `CompleteInv` says of a kept file that it is pending or an
  upload of it was settled; an upload that sees nothing pending therefore
  completes a session all of whose files are accounted for, and what is settled
  stays settled, whatever else races.

`DestinationProofs`, about `NameSpec` and `Spec` of `Destination`:

- `ComponentInside` and `ComponentDefused`: no component of any characters becomes
  the directory, its parent or a hidden name; none keeps a forbidden character, is
  empty, longer than the limit or the bare name of a device, and one ends in a dot or a
  space only when it was cut.  Device names with an extension and the ends of cut names
  are what `FileNameDevice.cfg` and `FileNameCut.cfg` are about.  There is one lemma for
  each step of `sanitize_component`.
- `PathDefused`, `StaysInsideHolds` and `DefusedHolds`: the same of every path and
  every file name, of any length.
- `HarmlessKeptHolds`: a name with nothing to defuse keeps every folder and every
  character.
- What these rest on is proved by induction over the length of a name: the folds over
  characters (`BytesUpTo`, `PushedAfter`, `Without`) are recursive functions.  The
  library states induction for a predicate, which no installed prover can
  instantiate; `SetInduction` states it for a set of numbers, from the well-foundedness
  of `<` on the naturals, and `RecursionExists` and `RecursionStays` give from it the
  equation of a recursive function and the type of its values.
- `DiskTypeCorrect`, and with `TidyInv` (whose bytes a path may hold, given who holds
  the path) `StoredIntactHolds`.
- `KeptUntouchedHolds`, with `KeptAlone`: as long as no upload found every number
  taken, no upload has an old file as its path, whoever else shares that path.
- `NothingLeftHolds`, with `OwnPlace`: the bytes of an upload are on its own path and
  nowhere else, and only while it is at work, stored, lost, or failed with its removal.

`LifecycleProofs`, about `Spec` of `Lifecycle`:

- `TypeCorrect`, which bounds the counted PIN failures.
- `RestartInv` orders the steps of restarts that do not overlap: which server is
  stored, taken or about to be, and with which settings (`Orderly`).  From it
  `OneListenerHolds`, `ShownIsServedHolds` (unless the listener of the stored server
  failed: `Deafened`) and `SettingsInForceHolds` (if the last restart could bind).

`PeersProofs`, about `Spec` of `Peers`:

- `TypeCorrect`.
- `RememberedHolds`, with `SavedInv`: as long as nothing was damaged, somebody owes the
  file a change or it holds the list, and the copy of the one who writes is the list
  unless somebody else owes more.
- `BookKeptHolds`: the refinement, step by step, of `PairingBook`.
- `OneEntryPerDeviceHolds`, with `ListsInv`: no two sightings share an address and
  this device is in neither list.
- `SweepKeepsAnsweredHolds`, with `AnsweredInv`: who answered since a scan began is
  who carries that scan in its sighting, for any number of scans at once.

Every safety invariant and action property of the passing runs is proved.  Only
model-checked are the liveness properties `PrepareReturns`, `ActiveReleased`,
`SendEnds`, `StoppedSendEnds` and `RestartEnds`, for the proof system does not reason
about fairness through ENABLED, and the sixteen sentences that the code does not keep.

## Not modelled

- Announcements, multicast sockets and the notice that the system refuses them
  (`discovery.rs`): bursts of datagrams whose only lasting effect is a probe, and
  `Peers` lets any device answer at any time.
- Durations.  A timer may fire whenever it is armed, so nothing can be said of
  `SESSION_IDLE_TIMEOUT` covering a whole body (`server.rs:668`).
- `emit_state`: a snapshot is taken and pushed in two steps (`state.rs:615`); the
  models let the interface see the state itself, except in the prompt (`Shown`).
- Two sends in one list: the resubmission with a PIN (`pin.ts`), whose dismissal of
  the old row `dismiss_transfer` refuses, and `retry_file`.  Two uploads of two files
  behind the application, for the order of `UploadFailed` and `SessionEnded`
  (`server.rs:750`), are beyond the size of `receive_path`.  The history of sends, to which
  `finish_session` adds an entry each time a session is finished.
- The settings file, `normalized` and the defaults of each platform; the text of
  pairing codes; the selection of files: pure conversions and I/O.
- Protocol types, identity and TLS: what a call may carry, not what it does.  A
  handshake that fails is a connection that fails.
- Tauri and Android glue, the interface beyond the buttons named above, scripts.
  The folder listing of `platform.rs:75`, where a second call replaces the first
  one's sender, is the one place there with state.
