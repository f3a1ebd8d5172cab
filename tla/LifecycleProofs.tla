-------------------------- MODULE LifecycleProofs --------------------------
(* Proofs about Lifecycle, for any number of restarts. *)
EXTENDS Lifecycle, TLAPS

(* Every value that a step puts somewhere is one of its kind. *)
LEMMA TypeInit == Init => TypeOK
<1> SUFFICES ASSUME Init PROVE TypeOK
    OBVIOUS
<1>1. settings \in Settings /\ settings.port \in Port
    BY DEF Init, Settings
<1>2. 0 \in 0..MaxPinAttempts
    BY PinAssumption
<1>3. failures \in [Restart -> [Ip -> 0..MaxPinAttempts]]
    BY <1>2 DEF Init
<1>4. call \in [Restart -> Step] /\ status \in Status
    BY <1>1 DEF Init, Step, Status
<1> QED
    BY <1>1, <1>3, <1>4 DEF Init, TypeOK

LEMMA TypeStep == TypeOK /\ [Next]_vars => TypeOK'
<1> SUFFICES ASSUME TypeOK, [Next]_vars PROVE TypeOK'
    OBVIOUS
<1> USE NoneAssumption, PinAssumption DEF TypeOK, Step, Status, Goes
<1>1. ASSUME NEW r \in Restart, RestartStep(r) PROVE TypeOK'
    <2> USE DEF appVars, callVars, serverVars
    <2>1. CASE TakeServer(r)
        BY <2>1 DEF TakeServer
    <2>2. CASE ServerStopped(r)
        BY <2>2 DEF ServerStopped
    <2>3. CASE TakeDiscovery(r)
        BY <2>3 DEF TakeDiscovery
    <2>4. CASE CloneSettings(r)
        BY <2>4 DEF CloneSettings
    <2>5. CASE Bind(r)
        BY <2>5 DEF Bind
    <2>6. CASE BindFails(r)
        BY <2>6 DEF BindFails
    <2>7. CASE ShowsFailure(r)
        BY <2>7 DEF ShowsFailure, Settings
    <2>8. CASE ShowsRunning(r)
        BY <2>8 DEF ShowsRunning, Settings
    <2>9. CASE StoreServer(r)
        BY <2>9 DEF StoreServer
    <2>10. CASE StartDiscovery(r)
        BY <2>10 DEF StartDiscovery
    <2>11. CASE EmitState(r)
        BY <2>11 DEF EmitState
    <2> QED
        BY <1>1, <2>1, <2>2, <2>3, <2>4, <2>5, <2>6, <2>7, <2>8, <2>9, <2>10, <2>11
        DEF RestartStep
<1>2. ASSUME NEW i \in Restart, ServerStep(i) PROVE TypeOK'
    <2> USE DEF appVars, callVars
    <2>1. CASE Closes(i)
        BY <2>1 DEF Closes
    <2>2. CASE ListenerFails(i)
        BY <2>2 DEF ListenerFails
    <2>3. CASE PumpListenerFailed(i)
        BY <2>3 DEF PumpListenerFailed
    <2>4. ASSUME NEW ip \in Ip, NEW given \in Pin \cup {NoPin}, RightPin(i, ip, given)
          PROVE TypeOK'
        BY <2>4 DEF RightPin
    <2>5. ASSUME NEW ip \in Ip, NEW given \in Pin \cup {NoPin}, WrongPin(i, ip, given)
          PROVE TypeOK'
        BY <2>5 DEF WrongPin, TooMany
    <2> QED
        BY <1>2, <2>1, <2>2, <2>3, <2>4, <2>5 DEF ServerStep
<1>3. ASSUME NEW new \in Settings, UpdateAndRestart(new) \/ UpdateOnly(new) PROVE TypeOK'
    BY <1>3 DEF UpdateAndRestart, UpdateOnly, Update, callVars, serverVars, Settings
<1>4. CASE UNCHANGED vars
    BY <1>4 DEF vars, appVars, callVars, serverVars
<1> QED
    BY <1>1, <1>2, <1>3, <1>4 DEF Next, UserStep

\* The types of the application's and the servers' state, and with them that no
\* address of a sender is given more than MaxPinAttempts PINs (check_pin).
THEOREM TypeCorrect == Spec => []TypeOK
    BY TypeInit, TypeStep, PTL DEF Spec

-----------------------------------------------------------------------------
(* The invariant of a program whose restarts do not overlap: how far the one  *)
(* restart that may be under way has come says what there is.                 *)

Stopping == {"closing", "discovery"}
Unbound == Stopping \cup {"clone", "bind", "refused"}
Unstored == Unbound \cup {"status", "store"}

\* One restart at a time.
Alone == \A q, r \in Restart : UnderWay(q) /\ UnderWay(r) => q = r

\* A server is there from its bind on, and is stored and serves from StoreServer
\* until the next restart takes it out.
Bound == \A i \in Restart :
    /\ call[i] \in {"unused", "spawned"} \cup Unbound => listener[i] = "none"
    /\ call[i] \in {"status", "store"} => listener[i] \in {"listening", "deaf"}

Stored ==
    /\ server # None => /\ call[server] \in {"announce", "emit", "done"}
                        /\ listener[server] \in {"listening", "deaf"}
    /\ \A r \in Restart : call[r] \in Unstored => server = None
    /\ \A r \in Restart : call[r] = "announce" => server = r

\* Whose a listener is that is not closed yet.
Owned == \A i \in Restart :
    /\ listener[i] \in {"listening", "deaf"} => server = i \/ call[i] \in {"status", "store"}
    /\ listener[i] \in {"closing", "ending"} =>
           \E r \in Restart : call[r] = "closing" /\ taken[r] = i

Announced ==
    /\ \A r \in Restart :
           call[r] \in {"clone", "bind", "refused", "status", "store", "announce"}
               => discovery = None
    /\ discovery # None => discovery = server \/ \E r \in Restart : call[r] \in Stopping
    /\ server # None => discovery = server \/ call[server] = "announce"

Shown ==
    /\ status.running => server # None \/ \E r \in Restart : call[r] \in Unstored
    /\ server # None => status.running /\ status.port = config[server].port
    /\ \A r \in Restart :
           call[r] = "store" => status.running /\ status.port = config[r].port

\* A restart that has yet to take the settings will see every change.
Awaiting == \E q \in Restart : call[q] \in {"spawned", "clone"} \cup Stopping
InForce(i) ==
    \/ Awaiting
    \/ /\ config[i].port = settings.port
       /\ ~repinned => config[i].pin = settings.pin
Configured ==
    /\ server # None => InForce(server)
    /\ \A i \in Restart : call[i] \in {"bind", "status", "store"} => InForce(i)

Orderly == Alone /\ Bound /\ Stored /\ Owned /\ Announced /\ Shown /\ Configured
RestartInv == ~overlapped => Orderly

LEMMA OrderlyInit == Init => Orderly
BY DEF Init, Orderly, Alone, Bound, Stored, Owned, Announced, Shown, Configured, UnderWay, Unstored,
       Unbound, Stopping, InForce

LEMMA OrderlyStep ==
    ASSUME TypeOK, Orderly, ~overlapped', [Next]_vars
    PROVE Orderly'
<1> USE NoneAssumption DEF TypeOK, Step, Goes, Stopping, Unbound, Unstored
<1>1. ASSUME NEW r \in Restart, RestartStep(r) PROVE Orderly'
    <2> USE DEF appVars, callVars, serverVars, UnderWay
    <2>1. CASE TakeServer(r)
        <3>1. Alone'
            <4>1. \A q \in Restart : q # r => ~UnderWay(q)
                BY <2>1 DEF TakeServer
            <4> QED
                BY <2>1, <4>1 DEF TakeServer, Alone
        <3>2. Bound'
            BY <2>1 DEF TakeServer, Orderly, Bound, Stored
        <3>3. Stored'
            BY <2>1 DEF TakeServer, Orderly, Stored
        <3>4. Owned'
            BY <2>1 DEF TakeServer, Orderly, Owned
        <3>5. Announced'
            BY <2>1 DEF TakeServer, Orderly, Announced
        <3>6. Shown'
            BY <2>1 DEF TakeServer, Orderly, Shown
        <3>7. Configured'
            BY <2>1 DEF TakeServer, Orderly, Configured, InForce, Awaiting
        <3> QED
            BY <3>1, <3>2, <3>3, <3>4, <3>5, <3>6, <3>7 DEF Orderly
    <2>2. CASE ServerStopped(r)
        <3>1. Alone'
            BY <2>2 DEF ServerStopped, Orderly, Alone
        <3>2. Bound'
            BY <2>2 DEF ServerStopped, Orderly, Bound
        <3>3. Stored'
            BY <2>2 DEF ServerStopped, Orderly, Stored
        <3>4. Owned'
            <4>1. \A i \in Restart : listener[i] \notin {"closing", "ending"}
                BY <2>2 DEF ServerStopped, Awaited, Orderly, Alone, Owned
            <4> QED
                BY <2>2, <4>1 DEF ServerStopped, Orderly, Owned
        <3>5. Announced'
            BY <2>2 DEF ServerStopped, Orderly, Announced
        <3>6. Shown'
            BY <2>2 DEF ServerStopped, Orderly, Shown
        <3>7. Configured'
            BY <2>2 DEF ServerStopped, Orderly, Configured, InForce, Awaiting
        <3> QED
            BY <3>1, <3>2, <3>3, <3>4, <3>5, <3>6, <3>7 DEF Orderly
    <2>3. CASE TakeDiscovery(r)
        <3>1. Alone'
            BY <2>3 DEF TakeDiscovery, Orderly, Alone
        <3>2. Bound'
            BY <2>3 DEF TakeDiscovery, Orderly, Bound
        <3>3. Stored'
            BY <2>3 DEF TakeDiscovery, Orderly, Stored
        <3>4. Owned'
            BY <2>3 DEF TakeDiscovery, Orderly, Owned
        <3>5. Announced'
            BY <2>3 DEF TakeDiscovery, Orderly, Announced, Stored
        <3>6. Shown'
            BY <2>3 DEF TakeDiscovery, Orderly, Shown
        <3>7. Configured'
            BY <2>3 DEF TakeDiscovery, Orderly, Configured, InForce, Awaiting
        <3> QED
            BY <3>1, <3>2, <3>3, <3>4, <3>5, <3>6, <3>7 DEF Orderly
    <2>4. CASE CloneSettings(r)
        <3>1. Alone'
            BY <2>4 DEF CloneSettings, Orderly, Alone
        <3>2. Bound'
            BY <2>4 DEF CloneSettings, Orderly, Bound
        <3>3. Stored'
            BY <2>4 DEF CloneSettings, Orderly, Stored
        <3>4. Owned'
            BY <2>4 DEF CloneSettings, Orderly, Owned
        <3>5. Announced'
            BY <2>4 DEF CloneSettings, Orderly, Announced
        <3>6. Shown'
            BY <2>4 DEF CloneSettings, Orderly, Shown, Stored
        <3>7. Configured'
            BY <2>4 DEF CloneSettings, Orderly, Configured, Alone, Stored, InForce, Awaiting
        <3> QED
            BY <3>1, <3>2, <3>3, <3>4, <3>5, <3>6, <3>7 DEF Orderly
    <2>5. CASE Bind(r)
        <3>1. Alone'
            BY <2>5 DEF Bind, Orderly, Alone
        <3>2. Bound'
            BY <2>5 DEF Bind, Orderly, Bound
        <3>3. Stored'
            BY <2>5 DEF Bind, Orderly, Stored
        <3>4. Owned'
            BY <2>5 DEF Bind, Orderly, Owned
        <3>5. Announced'
            BY <2>5 DEF Bind, Orderly, Announced
        <3>6. Shown'
            BY <2>5 DEF Bind, Orderly, Shown
        <3>7. Configured'
            BY <2>5 DEF Bind, Orderly, Configured, InForce, Awaiting
        <3> QED
            BY <3>1, <3>2, <3>3, <3>4, <3>5, <3>6, <3>7 DEF Orderly
    <2>6. CASE BindFails(r)
        <3>1. Alone'
            BY <2>6 DEF BindFails, Orderly, Alone
        <3>2. Bound'
            BY <2>6 DEF BindFails, Orderly, Bound
        <3>3. Stored'
            BY <2>6 DEF BindFails, Orderly, Stored
        <3>4. Owned'
            BY <2>6 DEF BindFails, Orderly, Owned
        <3>5. Announced'
            BY <2>6 DEF BindFails, Orderly, Announced
        <3>6. Shown'
            BY <2>6 DEF BindFails, Orderly, Shown
        <3>7. Configured'
            BY <2>6 DEF BindFails, Orderly, Configured, InForce, Awaiting
        <3> QED
            BY <3>1, <3>2, <3>3, <3>4, <3>5, <3>6, <3>7 DEF Orderly
    <2>7. CASE ShowsFailure(r)
        <3>1. Alone'
            BY <2>7 DEF ShowsFailure, Orderly, Alone
        <3>2. Bound'
            BY <2>7 DEF ShowsFailure, Orderly, Bound, Alone, Stored
        <3>3. Stored'
            BY <2>7 DEF ShowsFailure, Orderly, Stored
        <3>4. Owned'
            BY <2>7 DEF ShowsFailure, Orderly, Owned
        <3>5. Announced'
            BY <2>7 DEF ShowsFailure, Orderly, Announced
        <3>6. Shown'
            <4>1. server' = None /\ ~status'.running
                BY <2>7 DEF ShowsFailure, Orderly, Stored
            <4>2. \A q \in Restart : call'[q] # "store"
                BY <2>7 DEF ShowsFailure, Orderly, Alone
            <4> QED
                BY <4>1, <4>2 DEF Shown
        <3>7. Configured'
            BY <2>7 DEF ShowsFailure, Orderly, Configured, InForce, Awaiting
        <3> QED
            BY <3>1, <3>2, <3>3, <3>4, <3>5, <3>6, <3>7 DEF Orderly
    <2>8. CASE ShowsRunning(r)
        <3>1. Alone'
            BY <2>8 DEF ShowsRunning, Orderly, Alone
        <3>2. Bound'
            BY <2>8 DEF ShowsRunning, Orderly, Bound
        <3>3. Stored'
            BY <2>8 DEF ShowsRunning, Orderly, Stored
        <3>4. Owned'
            BY <2>8 DEF ShowsRunning, Orderly, Owned
        <3>5. Announced'
            BY <2>8 DEF ShowsRunning, Orderly, Announced
        <3>6. Shown'
            <4>1. server' = None /\ status'.running /\ status'.port = config'[r].port
                BY <2>8 DEF ShowsRunning, Orderly, Stored
            <4>2. call'[r] = "store" /\ \A q \in Restart : call'[q] = "store" => q = r
                BY <2>8 DEF ShowsRunning, Orderly, Alone
            <4> QED
                BY <4>1, <4>2 DEF Shown
        <3>7. Configured'
            BY <2>8 DEF ShowsRunning, Orderly, Configured, InForce, Awaiting
        <3> QED
            BY <3>1, <3>2, <3>3, <3>4, <3>5, <3>6, <3>7 DEF Orderly
    <2>9. CASE StoreServer(r)
        <3>1. Alone'
            BY <2>9 DEF StoreServer, Orderly, Alone
        <3>2. Bound'
            BY <2>9 DEF StoreServer, Orderly, Bound
        <3>3. Stored'
            <4>1. \A q \in Restart : call'[q] \notin Unstored
                BY <2>9 DEF StoreServer, Orderly, Alone
            <4>2. call'[r] = "announce" /\ listener'[r] \in {"listening", "deaf"}
                BY <2>9 DEF StoreServer, Orderly, Bound
            <4>3. \A q \in Restart : call'[q] = "announce" => q = r
                BY <2>9 DEF StoreServer, Orderly, Alone
            <4> QED
                BY <2>9, <4>1, <4>2, <4>3 DEF StoreServer, Stored
        <3>4. Owned'
            BY <2>9 DEF StoreServer, Orderly, Owned, Stored
        <3>5. Announced'
            BY <2>9 DEF StoreServer, Orderly, Announced, Alone
        <3>6. Shown'
            BY <2>9 DEF StoreServer, Orderly, Shown
        <3>7. Configured'
            BY <2>9 DEF StoreServer, Orderly, Configured, InForce, Awaiting
        <3> QED
            BY <3>1, <3>2, <3>3, <3>4, <3>5, <3>6, <3>7 DEF Orderly
    <2>10. CASE StartDiscovery(r)
        <3>1. Alone'
            BY <2>10 DEF StartDiscovery, Orderly, Alone
        <3>2. Bound'
            BY <2>10 DEF StartDiscovery, Orderly, Bound
        <3>3. Stored'
            BY <2>10 DEF StartDiscovery, Orderly, Stored
        <3>4. Owned'
            BY <2>10 DEF StartDiscovery, Orderly, Owned
        <3>5. Announced'
            <4>1. server = r
                BY <2>10 DEF StartDiscovery, Orderly, Stored
            <4>2. \A q \in Restart : call'[q] \notin {"clone", "bind", "refused", "status",
                                                    "store", "announce"}
                BY <2>10 DEF StartDiscovery, Orderly, Alone
            <4> QED
                BY <2>10, <4>1, <4>2 DEF StartDiscovery, Announced
        <3>6. Shown'
            BY <2>10 DEF StartDiscovery, Orderly, Shown
        <3>7. Configured'
            BY <2>10 DEF StartDiscovery, Orderly, Configured, InForce, Awaiting
        <3> QED
            BY <3>1, <3>2, <3>3, <3>4, <3>5, <3>6, <3>7 DEF Orderly
    <2>11. CASE EmitState(r)
        <3>1. Alone'
            BY <2>11 DEF EmitState, Orderly, Alone
        <3>2. Bound'
            BY <2>11 DEF EmitState, Orderly, Bound
        <3>3. Stored'
            BY <2>11 DEF EmitState, Orderly, Stored
        <3>4. Owned'
            BY <2>11 DEF EmitState, Orderly, Owned
        <3>5. Announced'
            BY <2>11 DEF EmitState, Orderly, Announced
        <3>6. Shown'
            BY <2>11 DEF EmitState, Orderly, Shown
        <3>7. Configured'
            BY <2>11 DEF EmitState, Orderly, Configured, InForce, Awaiting
        <3> QED
            BY <3>1, <3>2, <3>3, <3>4, <3>5, <3>6, <3>7 DEF Orderly
    <2> QED
        BY <1>1, <2>1, <2>2, <2>3, <2>4, <2>5, <2>6, <2>7, <2>8, <2>9, <2>10, <2>11
        DEF RestartStep
<1>2. ASSUME NEW i \in Restart, ServerStep(i) PROVE Orderly'
    <2> USE DEF appVars, callVars, UnderWay
    <2>1. CASE Closes(i)
        <3>1. Alone'
            BY <2>1 DEF Closes, Orderly, Alone
        <3>2. Bound'
            BY <2>1 DEF Closes, Orderly, Bound
        <3>3. Stored'
            BY <2>1 DEF Closes, Orderly, Stored
        <3>4. Owned'
            BY <2>1 DEF Closes, Orderly, Owned
        <3>5. Announced'
            BY <2>1 DEF Closes, Orderly, Announced
        <3>6. Shown'
            BY <2>1 DEF Closes, Orderly, Shown
        <3>7. Configured'
            BY <2>1 DEF Closes, Orderly, Configured, InForce, Awaiting
        <3> QED
            BY <3>1, <3>2, <3>3, <3>4, <3>5, <3>6, <3>7 DEF Orderly
    <2>2. CASE ListenerFails(i)
        <3>1. Alone'
            BY <2>2 DEF ListenerFails, Orderly, Alone
        <3>2. Bound'
            BY <2>2 DEF ListenerFails, Orderly, Bound
        <3>3. Stored'
            BY <2>2 DEF ListenerFails, Orderly, Stored
        <3>4. Owned'
            BY <2>2 DEF ListenerFails, Orderly, Owned
        <3>5. Announced'
            BY <2>2 DEF ListenerFails, Orderly, Announced
        <3>6. Shown'
            BY <2>2 DEF ListenerFails, Orderly, Shown
        <3>7. Configured'
            BY <2>2 DEF ListenerFails, Orderly, Configured, InForce, Awaiting
        <3> QED
            BY <3>1, <3>2, <3>3, <3>4, <3>5, <3>6, <3>7 DEF Orderly
    <2>3. CASE PumpListenerFailed(i)
        <3>1. Alone'
            BY <2>3 DEF PumpListenerFailed, Orderly, Alone
        <3>2. Bound'
            BY <2>3 DEF PumpListenerFailed, Orderly, Bound
        <3>3. Stored'
            BY <2>3 DEF PumpListenerFailed, Orderly, Stored
        <3>4. Owned'
            BY <2>3 DEF PumpListenerFailed, Orderly, Owned
        <3>5. Announced'
            BY <2>3 DEF PumpListenerFailed, Orderly, Announced
        <3>6. Shown'
            BY <2>3 DEF PumpListenerFailed, Orderly, Shown
        <3>7. Configured'
            BY <2>3 DEF PumpListenerFailed, Orderly, Configured, InForce, Awaiting
        <3> QED
            BY <3>1, <3>2, <3>3, <3>4, <3>5, <3>6, <3>7 DEF Orderly
    <2>4. ASSUME NEW ip \in Ip, NEW given \in Pin \cup {NoPin},
                 RightPin(i, ip, given) \/ WrongPin(i, ip, given)
          PROVE Orderly'
        <3>1. UNCHANGED <<appVars, callVars, listener>>
            BY <2>4 DEF RightPin, WrongPin
        <3> QED
            BY <3>1 DEF Orderly, Alone, Bound, Stored, Owned, Announced, Shown, Configured, InForce,
                        Awaiting
    <2> QED
        BY <1>2, <2>1, <2>2, <2>3, <2>4 DEF ServerStep
<1>3. ASSUME NEW new \in Settings, UpdateAndRestart(new) PROVE Orderly'
    <2> USE <1>3 DEF UpdateAndRestart, Update, serverVars, UnderWay
    <2>1. PICK q \in Restart : Goes(q, "unused", "spawned")
        OBVIOUS
    <2>2. Alone' /\ Bound'
        BY <2>1 DEF Orderly, Alone, Bound
    <2>3. Stored' /\ Owned'
        BY <2>1 DEF Orderly, Stored, Owned
    <2>4. Announced' /\ Shown'
        BY <2>1 DEF Orderly, Announced, Shown
    <2>5. Configured'
        BY <2>1 DEF Configured, InForce, Awaiting
    <2> QED
        BY <2>2, <2>3, <2>4, <2>5 DEF Orderly
<1>4. ASSUME NEW new \in Settings, UpdateOnly(new) PROVE Orderly'
    <2> USE <1>4 DEF UpdateOnly, Update, callVars, serverVars, UnderWay
    <2>1. Alone' /\ Bound' /\ Stored' /\ Owned' /\ Announced' /\ Shown'
        BY DEF Orderly, Alone, Bound, Stored, Owned, Announced, Shown
    <2>2. Configured'
        BY DEF Orderly, Configured, InForce, Awaiting, needs_server_restart
    <2> QED
        BY <2>1, <2>2 DEF Orderly
<1>5. CASE UNCHANGED vars
    BY <1>5 DEF vars, appVars, callVars, serverVars, Orderly, Alone, Bound, Stored, Owned,
                Announced,
                Shown, Configured, InForce, Awaiting, UnderWay
<1> QED
    BY <1>1, <1>2, <1>3, <1>4, <1>5 DEF Next, UserStep

\* Only the start of a restart can overlap another one.
LEMMA OverlappedStays == [Next]_vars /\ ~overlapped' => ~overlapped
BY DEF Next, RestartStep, ServerStep, UserStep, vars, appVars, TakeServer, ServerStopped,
       TakeDiscovery, CloneSettings, Bind, BindFails, ShowsFailure, ShowsRunning, StoreServer,
       StartDiscovery, EmitState, Closes, ListenerFails, PumpListenerFailed,
       RightPin, WrongPin, UpdateAndRestart, UpdateOnly

\* While restarts do not overlap, the one that is under way, if any, accounts for
\* every listener, the discovery and what is shown.
THEOREM RestartInvHolds == Spec => [](TypeOK /\ RestartInv)
<1>1. Init => TypeOK /\ RestartInv
    BY TypeInit, OrderlyInit DEF RestartInv
<1>2. TypeOK /\ RestartInv /\ [Next]_vars => (TypeOK /\ RestartInv)'
    <2> SUFFICES ASSUME TypeOK, RestartInv, [Next]_vars PROVE (TypeOK /\ RestartInv)'
        OBVIOUS
    <2>1. ~overlapped' => ~overlapped
        BY OverlappedStays
    <2> QED
        BY <2>1, TypeStep, OrderlyStep DEF RestartInv
<1> QED
    BY <1>1, <1>2, PTL DEF Spec

\* stop before start (state.rs:692), for any number of restarts: while none
\* overlaps another, no two listeners are held and none is out of reach.
THEOREM OneListenerHolds == Spec => []OneListener
<1>1. ASSUME TypeOK, RestartInv, ~overlapped, NEW i \in Restart, Holds(i)
      PROVE /\ \A j \in Restart : Holds(j) => j = i
            /\ \/ server = i
               \/ call[i] \in {"status", "store"}
               \/ \E r \in Restart : call[r] = "closing" /\ taken[r] = i
    <2> USE <1>1 DEF RestartInv, Orderly, Holds, UnderWay
    <2>1. CASE listener[i] = "listening"
        <3>1. server = i \/ call[i] \in {"status", "store"}
            BY <2>1 DEF Owned
        <3>2. \A j \in Restart : listener[j] = "listening" => j = i
            BY <3>1, NoneAssumption DEF Owned, Stored, Alone, Unstored
        <3>3. \A j \in Restart : listener[j] # "closing"
            BY <3>1, NoneAssumption DEF Owned, Stored, Alone, Unstored, Unbound, Stopping
        <3> QED
            BY <3>1, <3>2, <3>3
    <2>2. CASE listener[i] = "closing"
        <3>1. PICK r \in Restart : call[r] = "closing" /\ taken[r] = i
            BY <2>2 DEF Owned
        <3>2. \A j \in Restart : listener[j] = "closing" => j = i
            BY <3>1 DEF Owned, Alone
        <3>3. \A j \in Restart : listener[j] # "listening"
            BY <3>1, NoneAssumption DEF Owned, Stored, Alone, Unstored, Unbound, Stopping
        <3> QED
            BY <3>1, <3>2, <3>3
    <2> QED
        BY <2>1, <2>2
<1>2. TypeOK /\ RestartInv => OneListener
    BY <1>1 DEF OneListener
<1> QED
    BY <1>2, RestartInvHolds, PTL

\* What is shown and announced is what serves, once every restart is done, unless the
\* listener of the stored server has failed.
THEOREM ShownIsServedHolds == Spec => []ShownIsServed
<1>1. TypeOK /\ RestartInv => ShownIsServed
    BY DEF RestartInv, Orderly, Stored, Announced, Shown, ShownIsServed, Deafened, Settled, TypeOK,
           Unstored, Unbound, Stopping
<1> QED
    BY <1>1, RestartInvHolds, PTL

\* update_settings, for any number of changes at any moment of a restart, as long as
\* the restarts they spawn follow each other and the last one binds.
THEOREM SettingsInForceHolds == Spec => []SettingsInForce
<1>1. TypeOK /\ RestartInv => SettingsInForce
    BY DEF RestartInv, Orderly, Configured, InForce, Awaiting, SettingsInForce, Settled, TypeOK,
           Stopping
<1> QED
    BY <1>1, RestartInvHolds, PTL

=============================================================================
