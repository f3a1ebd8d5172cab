-------------------------------- MODULE Peers --------------------------------
(***************************************************************************)
(* The devices a user can send to: the ones that discovery has sighted     *)
(* (discovery.rs) and the ones this device is paired with, which are kept  *)
(* in memory and in a file (state.rs).                                     *)
(*                                                                         *)
(* Scans and commands run at the same time.  A lock is held for each       *)
(* single read or change of a list, never across a request to a peer or a  *)
(* write of the file, and each such section is an action here.  Who is in  *)
(* the network is not modelled: any device may be sighted at any address   *)
(* at any time, and every request a scan makes may be answered or not.     *)
(*                                                                         *)
(* An address is a host and its port.  Which of two pairings with one      *)
(* address is listed depends in the code on which was made first, and here *)
(* on a fixed choice.                                                      *)
(***************************************************************************)
EXTENDS Naturals, FiniteSets

CONSTANTS
    Fp,     \* devices, by the fingerprint that identifies them
    Self,   \* this one
    Addr,
    Scan,   \* scans that may be under way at once
    Cmd,    \* commands that may be under way at once
    Blank,  \* the file after it was truncated
    Torn,   \* the file after two writers mixed what they wrote
    None

VARIABLES
    sighted,    \* Discovery's devices
    paired,     \* AppState::paired
    disk,       \* the file of save_paired
    call,       \* where each scan or command is
    todo,       \* the clone of the pairings that a scan has still to dial
    copy,       \* the clone of the pairings that a save writes
    stale,      \* the scans whose discovery was replaced
    asked,      \* history: what the user paired and did not forget since
    intact,     \* history: no two saves overlapped, none failed or was cut off
    answered    \* history: the sighted devices that answered since a scan began

lists == <<sighted, paired, disk>>
calls == <<call, todo, copy, stale>>
history == <<asked, intact, answered>>
vars == <<lists, calls, history>>

Call == Scan \cup Cmd

\* A sighting, and the scans it came after the start of: all that forget_unseen
\* asks of last_seen.
Sighting == [addr : Addr, since : SUBSET Scan]

\* A pairing; whether it was reached is not stored.
Pairing == [addr : Addr, online : {"unknown", "yes", "no"}]
Image == [Fp -> Addr \cup {None}]
NoPairs == [fp \in Fp |-> None]

\* None, Blank and Torn are no value of what they stand beside.
ASSUME PeersAssumption ==
    /\ Self \in Fp
    /\ Scan \cap Cmd = {}
    /\ None \notin Addr \cup Fp \cup Sighting \cup Pairing
    /\ Blank \notin Image /\ Torn \notin Image

\* Sensitivity variant: whether a pairing was reached is stored too.
WithOnline(list) == list

\* What write_peers stores of a list.
ImageOf(list) == [fp \in Fp |-> IF list[fp] = None THEN None ELSE list[fp].addr]

\* load_peers: a file that cannot be read holds no pairing.
load_peers(file) == IF file \in {Blank, Torn} THEN NoPairs ELSE file

\* A list as the start of the program makes it of a file.
Loaded(file) ==
    [fp \in Fp |-> IF load_peers(file)[fp] = None THEN None
                   ELSE [addr |-> load_peers(file)[fp], online |-> "unknown"]]

Idle == [at |-> "idle", fp |-> None]

TypeOK ==
    /\ sighted \in [Fp -> Sighting \cup {None}]
    /\ paired \in [Fp -> Pairing \cup {None}]
    /\ disk \in Image \cup {Blank, Torn}
    /\ call \in [Call -> [at : {"idle", "refresh", "changed", "remove", "save", "copied",
                                "writing", "sweep"},
                          fp : Fp \cup {None}]]
    /\ todo \in [Scan -> Image]
    /\ copy \in [Call -> Image]
    /\ stale \in SUBSET Scan
    /\ asked \in SUBSET Fp
    /\ intact \in BOOLEAN
    /\ answered \in [Scan -> SUBSET Fp]

\* The first start finds what an earlier run stored, or nothing.
Init ==
    /\ disk \in {file \in Image : file[Self] = None}
    /\ sighted = [fp \in Fp |-> None]
    /\ paired = Loaded(disk)
    /\ call = [c \in Call |-> Idle]
    /\ todo = [s \in Scan |-> NoPairs]
    /\ copy = [c \in Call |-> NoPairs]
    /\ stale = {}
    /\ asked = {fp \in Fp : paired[fp] # None}
    /\ intact = TRUE
    /\ answered = [s \in Scan |-> {}]

At(c, step) == call[c].at = step
Goes(c, step) == call' = [call EXCEPT ![c] = [Idle EXCEPT !.at = step]]

Scanning == {s \in Scan : ~At(s, "idle")}

-----------------------------------------------------------------------------
(* Discovery: what is sighted *)

\* Sensitivity variants: a device that is sighted again keeps the time of its
\* first sighting; an address may be two devices.
KeepsFirst(fp, addr) ==
    [g \in Fp |->
        IF g = fp
        THEN [addr |-> addr,
              since |-> IF sighted[fp] = None THEN Scanning \ stale ELSE sighted[fp].since]
        ELSE IF sighted[g] # None /\ sighted[g].addr = addr THEN None ELSE sighted[g]]

KeepsBoth(fp, addr) ==
    [sighted EXCEPT ![fp] = [addr |-> addr, since |-> Scanning \ stale]]

is_self(fp) == fp = Self

\* State::store: one entry for a fingerprint, and one for an address.
store(fp, addr) ==
    [g \in Fp |->
        IF g = fp THEN [addr |-> addr, since |-> Scanning \ stale]
        ELSE IF sighted[g] # None /\ sighted[g].addr = addr THEN None ELSE sighted[g]]

\* A peer is stored, and the application hears of it; this device never is.
Sighted(fp, addr) ==
    /\ ~is_self(fp)
    /\ sighted' = store(fp, addr)
    /\ answered' = [s \in Scan |->
                       {g \in answered[s] : sighted'[g] # None}
                           \cup IF s \in Scanning \ stale THEN {fp} ELSE {}]
    /\ UNCHANGED <<paired, disk, calls, asked, intact>>

\* A probe, of a scan, of the user or for an announcement, was answered by
\* another device than this one.
confirmed(fp) == ~is_self(fp)
Probed(fp, addr) == confirmed(fp) /\ Sighted(fp, addr)

\* A device registered with the server, which this one also does when it probes
\* its own address.
Registered(fp, addr) == Sighted(fp, addr)

\* clear_devices
ClearDevices ==
    /\ sighted' = [fp \in Fp |-> None]
    /\ answered' = [s \in Scan |-> {}]
    /\ UNCHANGED <<paired, disk, calls, asked, intact>>

\* AppState::restart: another Discovery, with an empty list.  A scan that is under
\* way goes on with the one it took.
DiscoveryRestarts ==
    /\ sighted' = [fp \in Fp |-> None]
    /\ answered' = [s \in Scan |-> {}]
    /\ stale' = Scanning
    /\ UNCHANGED <<paired, disk, call, todo, copy, asked, intact>>

-----------------------------------------------------------------------------
(* A scan: it probes the network, dials every pairing, saves what changed and *)
(* forgets the sightings that did not answer it                               *)

\* scan takes its start time and refresh_paired clones the list.
scan(s) ==
    /\ At(s, "idle")
    /\ Goes(s, "refresh")
    /\ todo' = [todo EXCEPT ![s] = ImageOf(paired)]
    /\ UNCHANGED <<lists, copy, stale, history>>

\* Sensitivity variant: the clone is dialled, and put back, unconditionally.
Always(fp) == TRUE

\* The pairing is looked up again once the peer has answered.
StillPaired(fp) == paired[fp] # None

Dialled(s, fp) ==
    /\ call[s].at \in {"refresh", "changed"}
    /\ todo[s][fp] # None
    /\ todo' = [todo EXCEPT ![s][fp] = None]

\* The peer answered at the address it was dialled at.
Refreshes(s, fp) ==
    /\ Dialled(s, fp)
    /\ IF StillPaired(fp)
       THEN /\ paired' = [paired EXCEPT ![fp] = [addr |-> todo[s][fp], online |-> "yes"]]
            /\ Goes(s, "changed")
       ELSE UNCHANGED <<paired, call>>
    /\ UNCHANGED <<sighted, disk, copy, stale, history>>

\* It did not: the pairing is not offered until it does, which is not saved.
Misses(s, fp) ==
    /\ Dialled(s, fp)
    /\ paired' = IF paired[fp] = None THEN paired
                 ELSE [paired EXCEPT ![fp].online = "no"]
    /\ UNCHANGED <<sighted, disk, call, copy, stale, history>>

\* Sensitivity variant: only a command saves.
SavesNothing(s) ==
    /\ call[s].at \in {"refresh", "changed"} /\ todo[s] = NoPairs
    /\ Goes(s, "sweep")
    /\ UNCHANGED <<lists, todo, copy, stale, history>>

RefreshEnds(s) ==
    /\ call[s].at \in {"refresh", "changed"}
    /\ todo[s] = NoPairs
    /\ Goes(s, IF At(s, "changed") THEN "save" ELSE "sweep")
    /\ UNCHANGED <<lists, todo, copy, stale, history>>

\* forget_unseen, in the list of the discovery that the scan took.
Sweep(s) ==
    /\ At(s, "sweep")
    /\ Goes(s, "idle")
    /\ sighted' = [fp \in Fp |->
                      IF sighted[fp] = None \/ (s \notin stale /\ s \notin sighted[fp].since)
                      THEN None
                      ELSE [sighted[fp] EXCEPT !.since = @ \ {s}]]
    /\ stale' = stale \ {s}
    /\ answered' = [r \in Scan |-> IF r = s THEN {}
                                    ELSE {fp \in answered[r] : sighted'[fp] # None}]
    /\ UNCHANGED <<paired, disk, todo, copy, asked, intact>>

-----------------------------------------------------------------------------
(* The commands *)

\* pair_from_qr, once the device that the code names has answered at one of the
\* addresses of the code.
Pair(c, fp, addr) ==
    /\ At(c, "idle")
    /\ ~is_self(fp)
    /\ paired' = [paired EXCEPT ![fp] = [addr |-> addr, online |-> "yes"]]
    /\ Goes(c, "save")
    /\ asked' = asked \cup {fp}
    /\ UNCHANGED <<sighted, disk, todo, copy, stale, intact, answered>>

drop_pairing(fp) ==
    /\ paired' = [paired EXCEPT ![fp] = None]
    /\ asked' = asked \ {fp}

\* unpair
Unpair(c, fp) ==
    /\ At(c, "idle")
    /\ paired[fp] # None
    /\ drop_pairing(fp)
    /\ Goes(c, "save")
    /\ UNCHANGED <<sighted, disk, todo, copy, stale, intact, answered>>

\* forget_device of a paired device: the pairing goes, then the sighting.
ForgetPairing(c, fp) ==
    /\ At(c, "idle")
    /\ paired[fp] # None
    /\ drop_pairing(fp)
    /\ call' = [call EXCEPT ![c] = [at |-> "remove", fp |-> fp]]
    /\ UNCHANGED <<sighted, disk, todo, copy, stale, intact, answered>>

\* Discovery::remove
remove(fp) ==
    /\ sighted' = [sighted EXCEPT ![fp] = None]
    /\ answered' = [s \in Scan |-> answered[s] \ {fp}]

ForgetSighting(c) ==
    /\ At(c, "remove")
    /\ remove(call[c].fp)
    /\ Goes(c, "save")
    /\ UNCHANGED <<paired, disk, todo, copy, stale, asked, intact>>

\* forget_device of a device that is only sighted: there is nothing to save.
ForgetSighted(c, fp) ==
    /\ At(c, "idle")
    /\ paired[fp] = None /\ sighted[fp] # None
    /\ remove(fp)
    /\ UNCHANGED <<paired, disk, calls, asked, intact>>

-----------------------------------------------------------------------------
(* save_paired, the end of every command and of a scan that changed something *)

Rest(c) == IF c \in Scan THEN "sweep" ELSE "idle"
Saving(c) == call[c].at \in {"copied", "writing"}

Clones(c) ==
    /\ At(c, "save")
    /\ Goes(c, "copied")
    /\ copy' = [copy EXCEPT ![c] = ImageOf(paired)]
    /\ intact' = (intact /\ \A d \in Call : ~Saving(d))
    /\ UNCHANGED <<lists, todo, stale, asked, answered>>

\* write_peers truncates the file it overwrites.
Truncates(c) ==
    /\ At(c, "copied")
    /\ Goes(c, "writing")
    /\ disk' = Blank
    /\ UNCHANGED <<sighted, paired, todo, copy, stale, history>>

\* What another writer put in the file since may reach beyond what is written.
Writes(c) ==
    /\ At(c, "writing")
    /\ disk' \in {copy[c]} \cup (IF disk = Blank THEN {} ELSE {Torn})
    /\ copy' = [copy EXCEPT ![c] = NoPairs]
    /\ Goes(c, Rest(c))
    /\ UNCHANGED <<sighted, paired, todo, stale, history>>

\* The file cannot be opened or written: an error in the log, nothing else.
WriteFails(c) ==
    /\ Saving(c)
    /\ copy' = [copy EXCEPT ![c] = NoPairs]
    /\ Goes(c, Rest(c))
    /\ intact' = FALSE
    /\ UNCHANGED <<lists, todo, stale, asked, answered>>

\* A change of the pairings that is not in the file yet.
Owes(c) == call[c].at \in {"changed", "remove", "save", "copied", "writing"}

\* The program ends, in the middle of anything, and is started again.
ProgramRestarts ==
    /\ sighted' = [fp \in Fp |-> None]
    /\ paired' = Loaded(disk)
    /\ call' = [c \in Call |-> Idle]
    /\ todo' = [s \in Scan |-> NoPairs]
    /\ copy' = [c \in Call |-> NoPairs]
    /\ stale' = {}
    /\ intact' = (intact /\ \A c \in Call : ~Owes(c))
    /\ answered' = [s \in Scan |-> {}]
    /\ UNCHANGED <<disk, asked>>

-----------------------------------------------------------------------------
(* What the interface is given *)

\* A pairing of its own in the list: its device is not sighted, no sighting
\* answers for its address, and the last request to it was not missed.
Eligible(fp) ==
    /\ paired[fp] # None /\ paired[fp].online # "no"
    /\ sighted[fp] = None
    /\ \A g \in Fp : sighted[g] # None => sighted[g].addr # paired[fp].addr

AtAddress(addr) == {fp \in Fp : Eligible(fp) /\ paired[fp].addr = addr}

\* AppState::devices
devices ==
    {[fp |-> fp, addr |-> sighted[fp].addr] : fp \in {g \in Fp : sighted[g] # None}}
        \cup {[fp |-> CHOOSE fp \in AtAddress(addr) : TRUE, addr |-> addr] :
                  addr \in {a \in Addr : AtAddress(a) # {}}}

-----------------------------------------------------------------------------
(* The specification *)

DiscoveryStep ==
    \/ \E fp \in Fp, addr \in Addr : Probed(fp, addr) \/ Registered(fp, addr)
    \/ ClearDevices
    \/ DiscoveryRestarts

ScanStep(s) ==
    \/ scan(s) \/ RefreshEnds(s) \/ Sweep(s)
    \/ \E fp \in Fp : Refreshes(s, fp) \/ Misses(s, fp)

CmdStep(c) ==
    \/ \E fp \in Fp, addr \in Addr : Pair(c, fp, addr)
    \/ \E fp \in Fp : Unpair(c, fp) \/ ForgetPairing(c, fp) \/ ForgetSighted(c, fp)
    \/ ForgetSighting(c)

SaveStep(c) == Clones(c) \/ Truncates(c) \/ Writes(c) \/ WriteFails(c)

Next ==
    \/ DiscoveryStep
    \/ \E s \in Scan : ScanStep(s)
    \/ \E c \in Cmd : CmdStep(c)
    \/ \E c \in Call : SaveStep(c)
    \/ ProgramRestarts

Spec == Init /\ [][Next]_vars

-----------------------------------------------------------------------------
(* Properties *)

PairedFps == {fp \in Fp : paired[fp] # None}

\* "The list offers a device once" (state.rs:592) and "one address is one device"
\* (discovery.rs:377), whatever moved, answered elsewhere or was paired meanwhile;
\* and this device is never in it (discovery.rs:351).
OneEntryPerDevice ==
    /\ \A d, e \in devices : d.fp = e.fp \/ d.addr = e.addr => d = e
    /\ \A d \in devices : d.fp # Self

\* What is stored is what is shown: with no change owed to the file, the next
\* start finds every pairing at the address it was last reached at, and no other,
\* as long as no two saves overlapped, failed or were cut off (save_paired).
Remembered ==
    intact /\ (\A c \in Call : ~Owes(c)) => load_peers(disk) = ImageOf(paired)

\* "Everything a peer answers from here on counts as an answer to this scan; what
\* answers nothing is dropped" (state.rs:818), be it sighted before or not; a scan
\* whose discovery was replaced drops nothing.
SweepKeepsAnswered ==
    [][\A s \in Scan : Sweep(s) =>
        \A fp \in Fp : sighted'[fp] # None
                          <=> IF s \in stale THEN sighted[fp] # None
                              ELSE fp \in answered[s]]_vars

\* What the user is promised of the list of paired devices (state.rs:966): a scan
\* that dials a device while it is forgotten does not bring it back, and neither
\* does a restart of the program.
Book == INSTANCE PairingBook WITH book <- PairedFps
BookKept == Book!Spec

\* What the comments say and the code does not keep.

\* "A pairing is forgotten for good - only pairing again brings the device back"
\* (state.rs:966): with no change owed to the file, a device that was forgotten is
\* not in it.
ForgottenForGood ==
    (\A c \in Call : ~Owes(c)) => \A fp \in Fp : load_peers(disk)[fp] # None => fp \in asked

\* "A pairing outlives a scan that cannot reach the device - only *Forget* undoes it"
\* (state.rs:168): a device that was paired stays paired until it is forgotten.
PairingOutlives == asked \subseteq PairedFps

=============================================================================
