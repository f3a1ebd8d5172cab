------------------------------ MODULE Lifecycle ------------------------------
(***************************************************************************)
(* How the application starts, stops and restarts its transfer server and  *)
(* its discovery (state.rs), and what a server keeps to itself meanwhile:  *)
(* its port, its PIN and the PIN failures of each address (server.rs).     *)
(*                                                                         *)
(* A restart is a task of its own.  The application spawns one when it     *)
(* starts and one for every change of the settings that needs it, and      *)
(* nothing orders them.  Call r of AppState::restart creates at most one   *)
(* server and one discovery, which carry its name here.                    *)
(*                                                                         *)
(* Of the settings the model keeps one that needs_server_restart compares, *)
(* the port, and the PIN, which it does not compare.                       *)
(***************************************************************************)
EXTENDS Naturals

CONSTANTS
    Restart,        \* calls of AppState::restart; bound: as many as there are
    Startup,        \* the one that setup spawns when the program starts
    Port,
    Pin,            \* PINs that a user sets or a sender tries
    NoPin,
    Ip,             \* addresses that requests come from
    MaxPinAttempts, \* MAX_PIN_ATTEMPTS
    None

ASSUME StartupAssumption == Startup \in Restart
ASSUME NoneAssumption == None \notin Restart
ASSUME PinAssumption == NoPin \notin Pin /\ MaxPinAttempts \in Nat \ {0}

VARIABLES
    settings,   \* what the user configured last
    call,       \* where each restart is
    config,     \* the settings that a restart works with, from its clone on
    taken,      \* the server that a restart took out, to shut it down
    listener,   \* the server that each restart started: its IPv4 listener, which
                \* is "deaf" after it failed and "ending" when it is stopped after that
    pump,       \* its task pump_server_events
    unheard,    \* its ListenerFailed, which the pump has not handled
    failures,   \* its pin_attempts
    server,     \* AppState::server
    discovery,  \* AppState::discovery
    status,     \* AppState::server_status
    frozen,     \* the lock of server_status is held by a task that waits for it
    overlapped, \* history: a restart began its stop while another was under way
    repinned    \* history: the PIN was changed, and no restart took the settings since

appVars == <<settings, server, discovery, status, frozen, overlapped, repinned>>
callVars == <<call, config, taken>>
serverVars == <<listener, pump, unheard, failures>>
vars == <<appVars, callVars, serverVars>>

Settings == [port: Port, pin: Pin \cup {NoPin}]
Step == {"unused", "spawned", "closing", "discovery", "clone", "bind", "refused",
         "status", "store", "announce", "emit", "done"}
Status == [running: BOOLEAN, port: Port \cup {None}, error: BOOLEAN]

TypeOK ==
    /\ settings \in Settings
    /\ call \in [Restart -> Step]
    /\ config \in [Restart -> Settings]
    /\ taken \in [Restart -> Restart \cup {None}]
    /\ listener \in [Restart -> {"none", "listening", "deaf", "closing", "ending", "closed"}]
    /\ pump \in [Restart -> {"none", "running", "stuck"}]
    /\ unheard \in [Restart -> BOOLEAN]
    /\ failures \in [Restart -> [Ip -> 0..MaxPinAttempts]]
    /\ server \in Restart \cup {None}
    /\ discovery \in Restart \cup {None}
    /\ status \in Status
    /\ frozen \in BOOLEAN
    /\ overlapped \in BOOLEAN
    /\ repinned \in BOOLEAN

\* AppState::build: nothing runs before the first restart, and the settings are
\* the stored ones.
Init ==
    /\ settings \in Settings
    /\ call = [r \in Restart |-> IF r = Startup THEN "spawned" ELSE "unused"]
    /\ config = [r \in Restart |-> settings]
    /\ taken = [r \in Restart |-> None]
    /\ listener = [r \in Restart |-> "none"]
    /\ pump = [r \in Restart |-> "none"]
    /\ unheard = [r \in Restart |-> FALSE]
    /\ failures = [r \in Restart |-> [ip \in Ip |-> 0]]
    /\ server = None
    /\ discovery = None
    /\ status = [running |-> FALSE, port |-> None, error |-> FALSE]
    /\ frozen = FALSE
    /\ overlapped = FALSE
    /\ repinned = FALSE

-----------------------------------------------------------------------------
(* AppState::stop, the first half of a restart *)

Goes(r, from, to) == call[r] = from /\ call' = [call EXCEPT ![r] = to]

UnderWay(r) == call[r] \notin {"unused", "spawned", "done"}

\* The server is taken out of its lock before it is shut down.
TakeServer(r) ==
    /\ Goes(r, "spawned", IF server = None THEN "discovery" ELSE "closing")
    /\ taken' = [taken EXCEPT ![r] = server]
    /\ server' = None
    /\ listener' = IF server = None THEN listener
                   ELSE [listener EXCEPT ![server] = IF @ = "deaf" THEN "ending" ELSE "closing"]
    /\ overlapped' = (overlapped \/ \E q \in Restart \ {r} : UnderWay(q))
    /\ UNCHANGED <<settings, discovery, status, frozen, repinned, config, pump, unheard, failures>>

\* serve ends: both accept loops are gone, the connections with them, and what
\* the server kept.
Closes(i) ==
    /\ listener[i] \in {"closing", "ending"}
    /\ listener' = [listener EXCEPT ![i] = "closed"]
    /\ failures' = [failures EXCEPT ![i] = [ip \in Ip |-> 0]]
    /\ UNCHANGED <<appVars, callVars, pump, unheard>>

\* Sensitivity variant: shutdown does not wait for the task.
NoWait(r) == TRUE

\* Server::shutdown waits for the task that serves.
Awaited(r) == listener[taken[r]] = "closed"

ServerStopped(r) ==
    /\ Goes(r, "closing", "discovery")
    /\ Awaited(r)
    /\ taken' = [taken EXCEPT ![r] = None]
    /\ UNCHANGED <<appVars, config, serverVars>>

\* Sensitivity variant: stop leaves the discovery alone.
KeepsDiscovery(r) ==
    /\ Goes(r, "discovery", "clone")
    /\ UNCHANGED <<appVars, config, taken, serverVars>>

\* The discovery is taken out and stopped.
TakeDiscovery(r) ==
    /\ Goes(r, "discovery", "clone")
    /\ discovery' = None
    /\ UNCHANGED <<settings, server, status, frozen, overlapped, repinned, config, taken,
                   serverVars>>

-----------------------------------------------------------------------------
(* The second half: a server with the settings of now *)

CloneSettings(r) ==
    /\ Goes(r, "clone", "bind")
    /\ config' = [config EXCEPT ![r] = settings]
    /\ repinned' = FALSE
    /\ UNCHANGED <<settings, server, discovery, status, frozen, overlapped, taken, serverVars>>

\* A listener holds its port until it failed or is closed.
Holds(i) == listener[i] \in {"listening", "closing"}
PortTaken(port) == \E i \in Restart : Holds(i) /\ config[i].port = port

\* Server::start: a new server has counted no PIN failure.
Bind(r) ==
    /\ Goes(r, "bind", "status")
    /\ ~PortTaken(config[r].port)
    /\ listener' = [listener EXCEPT ![r] = "listening"]
    /\ UNCHANGED <<appVars, config, taken, pump, unheard, failures>>

\* Sensitivity variant: the bind is tried again until the port is free.
BindsAgain(r) == call[r] = "bind" /\ UNCHANGED vars

\* The port is this program's own or another one's, or the system refuses it.
BindFails(r) ==
    /\ Goes(r, "bind", "refused")
    /\ UNCHANGED <<appVars, config, taken, serverVars>>

\* server_status can be locked.
Unlocked == ~frozen

ShowsFailure(r) ==
    /\ Goes(r, "refused", "emit")
    /\ Unlocked
    /\ status' = [running |-> FALSE, port |-> config[r].port, error |-> TRUE]
    /\ UNCHANGED <<settings, server, discovery, frozen, overlapped, repinned, config, taken,
                   serverVars>>

ShowsRunning(r) ==
    /\ Goes(r, "status", "store")
    /\ Unlocked
    /\ status' = [running |-> TRUE, port |-> config[r].port, error |-> FALSE]
    /\ UNCHANGED <<settings, server, discovery, frozen, overlapped, repinned, config, taken,
                   serverVars>>

\* The pump is spawned and the server stored: one that is there already is
\* dropped, which does not stop it.
StoreServer(r) ==
    /\ Goes(r, "store", "announce")
    /\ pump' = [pump EXCEPT ![r] = "running"]
    /\ server' = r
    /\ UNCHANGED <<settings, discovery, status, frozen, overlapped, repinned, config, taken,
                   listener, unheard, failures>>

\* start_discovery, which announces the port that was bound; it goes on without
\* the sockets it cannot open.
StartDiscovery(r) ==
    /\ Goes(r, "announce", "emit")
    /\ discovery' = r
    /\ UNCHANGED <<settings, server, status, frozen, overlapped, repinned, config, taken,
                   serverVars>>

\* emit_state locks server_status for its snapshot.
EmitState(r) ==
    /\ Goes(r, "emit", "done")
    /\ Unlocked
    /\ UNCHANGED <<appVars, config, taken, serverVars>>

-----------------------------------------------------------------------------
(* The listener fails *)

\* accept_loop of the required listener ends at an error that is not transient;
\* its port is free again, the connections it accepted go on.
ListenerFails(i) ==
    /\ listener[i] = "listening"
    /\ listener' = [listener EXCEPT ![i] = "deaf"]
    /\ unheard' = [unheard EXCEPT ![i] = TRUE]
    /\ UNCHANGED <<appVars, callVars, pump, failures>>

\* The arm of ListenerFailed: the guard taken for ".. self.server_status.lock()"
\* lives to the end of the assignment, whose left side locks once more.
PumpListenerFailed(i) ==
    /\ pump[i] = "running" /\ unheard[i]
    /\ Unlocked
    /\ unheard' = [unheard EXCEPT ![i] = FALSE]
    /\ frozen' = TRUE
    /\ pump' = [pump EXCEPT ![i] = "stuck"]
    /\ UNCHANGED <<settings, server, discovery, status, overlapped, repinned, callVars, listener,
                   failures>>

-----------------------------------------------------------------------------
(* The settings *)

\* Sensitivity variant: every change is read where it is used.
NeverRestarts(previous, new) == FALSE

needs_server_restart(previous, new) == previous.port # new.port

\* update_settings: a command of the main thread, one at a time.
Update(new) ==
    /\ settings' = new
    /\ repinned' = (repinned \/ new.pin # settings.pin)

UpdateAndRestart(new) ==
    /\ needs_server_restart(settings, new)
    /\ Update(new)
    /\ \E r \in Restart : Goes(r, "unused", "spawned")
    /\ UNCHANGED <<server, discovery, status, frozen, overlapped, config, taken, serverVars>>

UpdateOnly(new) ==
    /\ new # settings
    /\ ~needs_server_restart(settings, new)
    /\ Update(new)
    /\ UNCHANGED <<server, discovery, status, frozen, overlapped, callVars, serverVars>>

-----------------------------------------------------------------------------
(* The PIN of a server, which it keeps for its whole life *)

Answering(i) == listener[i] \in {"listening", "deaf"}

\* Sensitivity variant: the failures of an address are compared one too late.
GivesOneMore(n) == n > MaxPinAttempts

\* "Too many requests", whatever PIN is given.
TooMany(n) == n >= MaxPinAttempts

\* check_pin of a prepare-upload.  The right PIN is let in and starts afresh ...
RightPin(i, ip, given) ==
    /\ Answering(i)
    /\ config[i].pin # NoPin
    /\ ~TooMany(failures[i][ip])
    /\ given = config[i].pin
    /\ failures' = [failures EXCEPT ![i][ip] = 0]
    /\ UNCHANGED <<appVars, callVars, listener, pump, unheard>>

\* ... a wrong one counts, a missing one does not.
WrongPin(i, ip, given) ==
    /\ Answering(i)
    /\ config[i].pin # NoPin
    /\ ~TooMany(failures[i][ip])
    /\ given # config[i].pin
    /\ failures' = [failures EXCEPT ![i][ip] = IF given = NoPin THEN @ ELSE @ + 1]
    /\ UNCHANGED <<appVars, callVars, listener, pump, unheard>>

-----------------------------------------------------------------------------
(* The specification *)

RestartStep(r) ==
    \/ TakeServer(r) \/ ServerStopped(r) \/ TakeDiscovery(r) \/ CloneSettings(r)
    \/ Bind(r) \/ BindFails(r) \/ ShowsFailure(r) \/ ShowsRunning(r)
    \/ StoreServer(r) \/ StartDiscovery(r) \/ EmitState(r)

ServerStep(i) ==
    \/ Closes(i) \/ ListenerFails(i) \/ PumpListenerFailed(i)
    \/ \E ip \in Ip, given \in Pin \cup {NoPin} : RightPin(i, ip, given) \/ WrongPin(i, ip, given)

UserStep == \E new \in Settings : UpdateAndRestart(new) \/ UpdateOnly(new)

Next ==
    \/ \E r \in Restart : RestartStep(r) \/ ServerStep(r)
    \/ UserStep

Spec == Init /\ [][Next]_vars

\* The runtime runs every task that can go on, restarts, servers and their pumps; a
\* task that waits for a lock does not, nothing makes a user or a sender act, and no
\* listener has to fail.
Fairness ==
    \A r \in Restart :
        WF_vars(RestartStep(r)) /\ WF_vars(Closes(r)) /\ WF_vars(PumpListenerFailed(r))
FairSpec == Spec /\ Fairness

-----------------------------------------------------------------------------
(* Properties *)

Settled == \A r \in Restart : call[r] \in {"unused", "done"}

\* stop before start (state.rs:692): unless restarts overlap, this program never
\* holds two listeners, and every listener it holds can still be stopped: it is
\* the stored server's, or its restart is about to store it or to wait for its end.
OneListener ==
    ~overlapped =>
        \A i \in Restart : Holds(i) =>
            /\ \A j \in Restart : Holds(j) => j = i
            /\ \/ server = i
               \/ call[i] \in {"status", "store"}
               \/ \E r \in Restart : call[r] = "closing" /\ taken[r] = i

\* The stored server has lost its listener; the list of what the code does not keep
\* says what becomes of it.
Deafened == server # None /\ listener[server] = "deaf"

\* What the interface shows and peers are told is what serves: with every restart
\* done, none overlapping and no listener failed, a running status names a stored
\* server that listens on its own port, a status that is not running means that
\* there is none, and the discovery announces that very port (ServerStatus,
\* start_discovery).
ShownIsServed ==
    Settled /\ ~overlapped /\ ~Deafened =>
        /\ (status.running <=> server # None)
        /\ discovery = server
        /\ server # None => /\ listener[server] = "listening"
                            /\ status.port = config[server].port

\* "Stores new settings and restarts the server when it has to" (state.rs:1378):
\* unless a restart began its stop while another was under way, and if the last one
\* could bind, the server goes by the port that was set last once they have ended,
\* however the changes fell between the steps of a restart.  The PIN is not one of
\* the settings that restart the server, which goes by the old one until something
\* else does.
SettingsInForce ==
    Settled /\ ~overlapped /\ server # None =>
        /\ config[server].port = settings.port
        /\ ~repinned => config[server].pin = settings.pin

\* Every restart ends, overlapping or not, unless server_status is locked for
\* good (shutdown waits for a task that ends, no step waits for another call).
RestartEnds == \A r \in Restart : call[r] = "spawned" ~> call[r] = "done" \/ frozen

\* What the comments say and the code does not keep.

\* "anything else is fatal and restarted by the application" (server.rs:1082): a
\* stored server whose listener failed does not stay the stored server.
FailedIsRestarted ==
    \A i \in Restart : server = i /\ listener[i] = "deaf" ~> server # i

\* "Stores new settings and restarts the server when it has to" (state.rs:1378):
\* every restart that a change or the start spawns comes to its end.
RestartAlwaysEnds == \A r \in Restart : call[r] = "spawned" ~> call[r] = "done"

\* And with every restart done and no error shown the stored server goes by the port
\* that was set last, also when restarts overlapped.
SettingsAlwaysInForce ==
    Settled /\ ~status.error /\ server # None => config[server].port = settings.port

\* "too many attempts; wait a moment" (state.rs:1644): an address that the server
\* turns away for its wrong PINs is let try again some time.
LockoutEnds ==
    \A i \in Restart, ip \in Ip : TooMany(failures[i][ip]) ~> ~TooMany(failures[i][ip])

=============================================================================
