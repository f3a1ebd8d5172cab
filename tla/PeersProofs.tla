----------------------------- MODULE PeersProofs -----------------------------
(* Proofs about Peers, for any number of devices, scans and commands. *)
EXTENDS Peers, TLAPS

LEMMA LoadedType ==
    ASSUME NEW file \in Image \cup {Blank, Torn}
    PROVE  /\ load_peers(file) \in Image
           /\ Loaded(file) \in [Fp -> Pairing \cup {None}]
<1>1. NoPairs \in Image
    BY DEF NoPairs, Image
<1>2. load_peers(file) \in Image
    BY <1>1 DEF load_peers
<1>3. ASSUME NEW fp \in Fp PROVE Loaded(file)[fp] \in Pairing \cup {None}
    BY <1>2 DEF Loaded, Pairing, Image
<1> QED
    BY <1>2, <1>3 DEF Loaded

LEMMA ImageType ==
    ASSUME NEW list \in [Fp -> Pairing \cup {None}]
    PROVE  ImageOf(list) \in Image
BY DEF ImageOf, Image, Pairing

LEMMA StoreType ==
    ASSUME TypeOK, NEW fp \in Fp, NEW addr \in Addr
    PROVE  store(fp, addr) \in [Fp -> Sighting \cup {None}]
BY DEF TypeOK, store, Sighting, Scanning

\* Every value that a step puts somewhere is one of its kind.
LEMMA TypeInit == Init => TypeOK
<1> SUFFICES ASSUME Init PROVE TypeOK
    OBVIOUS
<1>1. disk \in Image \cup {Blank, Torn} /\ paired \in [Fp -> Pairing \cup {None}]
    BY LoadedType DEF Init
<1>2. NoPairs \in Image
    BY DEF NoPairs, Image
<1> QED
    BY <1>1, <1>2 DEF Init, TypeOK, Idle

LEMMA TypeStep == TypeOK /\ [Next]_vars => TypeOK'
<1> SUFFICES ASSUME TypeOK, [Next]_vars PROVE TypeOK'
    OBVIOUS
<1> USE DEF TypeOK, lists, calls, history, Goes, Idle
<1>0. NoPairs \in Image /\ ImageOf(paired) \in Image
    BY ImageType DEF NoPairs, Image
<1>1. CASE DiscoveryStep
    <2>1. ASSUME NEW fp \in Fp, NEW addr \in Addr, Sighted(fp, addr) PROVE TypeOK'
        <3>1. sighted' \in [Fp -> Sighting \cup {None}]
            BY <2>1, StoreType DEF Sighted
        <3>2. answered' \in [Scan -> SUBSET Fp]
            BY <2>1 DEF Sighted
        <3> QED
            BY <2>1, <3>1, <3>2 DEF Sighted
    <2>2. CASE ClearDevices
        BY <2>2 DEF ClearDevices
    <2>3. CASE DiscoveryRestarts
        BY <2>3 DEF DiscoveryRestarts, Scanning
    <2> QED
        BY <1>1, <2>1, <2>2, <2>3 DEF DiscoveryStep, Probed, Registered
<1>2. ASSUME NEW s \in Scan, ScanStep(s) PROVE TypeOK'
    <2> s \in Call
        BY DEF Call
    <2>1. CASE scan(s)
        BY <1>0, <2>1 DEF scan
    <2>2. CASE RefreshEnds(s)
        BY <2>2 DEF RefreshEnds
    <2>3. CASE Sweep(s)
        <3>1. sighted' \in [Fp -> Sighting \cup {None}]
            BY <2>3 DEF Sweep, Sighting
        <3>2. answered' \in [Scan -> SUBSET Fp]
            BY <2>3 DEF Sweep
        <3> QED
            BY <2>3, <3>1, <3>2 DEF Sweep
    <2>4. ASSUME NEW fp \in Fp, Refreshes(s, fp) PROVE TypeOK'
        <3>1. todo' \in [Scan -> Image]
            BY <2>4 DEF Refreshes, Dialled, Image
        <3>2. todo[s][fp] \in Addr
            BY <2>4 DEF Refreshes, Dialled, Image
        <3>3. [addr |-> todo[s][fp], online |-> "yes"] \in Pairing
            BY <3>2 DEF Pairing
        <3>4. paired' \in [Fp -> Pairing \cup {None}]
            BY <2>4, <3>3 DEF Refreshes
        <3> QED
            BY <2>4, <3>1, <3>4 DEF Refreshes
    <2>5. ASSUME NEW fp \in Fp, Misses(s, fp) PROVE TypeOK'
        <3>1. todo' \in [Scan -> Image]
            BY <2>5 DEF Misses, Dialled, Image
        <3>2. paired' \in [Fp -> Pairing \cup {None}]
            BY <2>5 DEF Misses, Pairing
        <3> QED
            BY <2>5, <3>1, <3>2 DEF Misses
    <2> QED
        BY <1>2, <2>1, <2>2, <2>3, <2>4, <2>5 DEF ScanStep
<1>3. ASSUME NEW c \in Cmd, CmdStep(c) PROVE TypeOK'
    <2> c \in Call
        BY DEF Call
    <2>1. ASSUME NEW fp \in Fp, NEW addr \in Addr, Pair(c, fp, addr) PROVE TypeOK'
        <3>1. paired' \in [Fp -> Pairing \cup {None}]
            BY <2>1 DEF Pair, Pairing
        <3> QED
            BY <2>1, <3>1 DEF Pair
    <2>2. ASSUME NEW fp \in Fp, Unpair(c, fp) PROVE TypeOK'
        BY <2>2 DEF Unpair, drop_pairing
    <2>3. ASSUME NEW fp \in Fp, ForgetPairing(c, fp) PROVE TypeOK'
        BY <2>3 DEF ForgetPairing, drop_pairing
    <2>4. ASSUME NEW fp \in Fp, ForgetSighted(c, fp) PROVE TypeOK'
        BY <2>4 DEF ForgetSighted, remove
    <2>5. CASE ForgetSighting(c)
        BY <2>5 DEF ForgetSighting, remove
    <2> QED
        BY <1>3, <2>1, <2>2, <2>3, <2>4, <2>5 DEF CmdStep
<1>4. ASSUME NEW c \in Call, SaveStep(c) PROVE TypeOK'
    <2>1. CASE Clones(c)
        BY <1>0, <2>1 DEF Clones
    <2>2. CASE Truncates(c)
        BY <2>2 DEF Truncates
    <2>3. CASE Writes(c)
        BY <1>0, <2>3 DEF Writes, Rest
    <2>4. CASE WriteFails(c)
        BY <1>0, <2>4 DEF WriteFails, Rest
    <2> QED
        BY <1>4, <2>1, <2>2, <2>3, <2>4 DEF SaveStep
<1>5. CASE ProgramRestarts
    <2>1. paired' \in [Fp -> Pairing \cup {None}]
        BY <1>5, LoadedType DEF ProgramRestarts
    <2> QED
        BY <1>0, <1>5, <2>1 DEF ProgramRestarts
<1>6. CASE UNCHANGED vars
    BY <1>6 DEF vars
<1> QED
    BY <1>1, <1>2, <1>3, <1>4, <1>5, <1>6 DEF Next

\* The types of the lists, the file and the calls.
THEOREM TypeCorrect == Spec => []TypeOK
    BY TypeInit, TypeStep, PTL DEF Spec

-----------------------------------------------------------------------------
(* While nothing is damaged one call at a time is between its clone and the   *)
(* end of its write, the file is whole unless that call has truncated it, and *)
(* what is not in the file is still owed by some call.                        *)

Changing(c) == call[c].at \in {"changed", "remove", "save"}
AllSaved == \A c \in Call : ~Changing(c)

OneSaver == \A c, d \in Call : Saving(c) /\ Saving(d) => c = d
InFile ==
    /\ (\A c \in Call : ~At(c, "writing")) => disk \in Image
    /\ AllSaved /\ (\A c \in Call : ~Saving(c)) => disk = ImageOf(paired)
InCopy == \A c \in Call :
    /\ At(c, "writing") => disk = Blank
    /\ Saving(c) /\ AllSaved => copy[c] = ImageOf(paired)

SavedInv == intact => OneSaver /\ InFile /\ InCopy

LEMMA ImageOfLoaded ==
    ASSUME NEW file \in Image
    PROVE  load_peers(file) = file /\ ImageOf(Loaded(file)) = file
<1>1. load_peers(file) = file
    BY PeersAssumption DEF load_peers
<1>2. \A fp \in Fp : Loaded(file)[fp] # None <=> file[fp] # None
    BY <1>1, PeersAssumption DEF Loaded, Image, Pairing
<1>3. ASSUME NEW fp \in Fp PROVE ImageOf(Loaded(file))[fp] = file[fp]
    BY <1>1, <1>2 DEF ImageOf, Loaded
<1> QED
    BY <1>1, <1>3 DEF ImageOf, Image

\* What is stored of a list tells which devices are in it.
LEMMA ImageKnowsPaired ==
    ASSUME NEW list \in [Fp -> Pairing \cup {None}], NEW fp \in Fp
    PROVE  ImageOf(list)[fp] = None <=> list[fp] = None
BY PeersAssumption DEF ImageOf, Pairing

LEMMA SavedInit == Init => SavedInv
<1> SUFFICES ASSUME Init PROVE SavedInv
    OBVIOUS
<1>1. disk \in Image /\ paired = Loaded(disk)
    BY DEF Init
<1>2. disk = ImageOf(paired)
    BY <1>1, ImageOfLoaded
<1>3. \A c \in Call : call[c].at = "idle"
    BY DEF Init, Idle
<1> QED
    BY <1>1, <1>2, <1>3 DEF SavedInv, OneSaver, InFile, InCopy, Saving, At

\* A step that leaves the pairings as they are stored and no save further.
LEMMA SavedUnmoved ==
    ASSUME SavedInv, UNCHANGED <<disk, copy, intact>>, ImageOf(paired)' = ImageOf(paired),
           \A c \in Call : /\ (Saving(c)' <=> Saving(c))
                           /\ (At(c, "writing")' <=> At(c, "writing"))
                           /\ (Changing(c)' <=> Changing(c))
    PROVE  SavedInv'
<1> SUFFICES ASSUME intact PROVE (OneSaver /\ InFile /\ InCopy)'
    BY DEF SavedInv
<1>1. OneSaver /\ InFile /\ InCopy
    BY DEF SavedInv
<1>2. AllSaved' <=> AllSaved
    BY DEF AllSaved, Changing
<1> QED
    BY <1>1, <1>2 DEF OneSaver, InFile, InCopy, Saving, At

\* A step of a call that is not saving yet and from now on owes its save.
LEMMA SavedOwing ==
    ASSUME SavedInv, UNCHANGED <<disk, copy, intact>>, NEW c \in Call, ~Saving(c), Changing(c)',
           \A d \in Call : d # c => call'[d] = call[d]
    PROVE  SavedInv'
<1>1. \A d \in Call : /\ (Saving(d)' => Saving(d))
                      /\ (At(d, "writing")' <=> At(d, "writing"))
    BY DEF Saving, Changing, At
<1>2. ~AllSaved'
    BY DEF AllSaved
<1> SUFFICES ASSUME intact PROVE (OneSaver /\ InFile /\ InCopy)'
    BY DEF SavedInv
<1>3. OneSaver /\ InFile /\ InCopy
    BY DEF SavedInv
<1> QED
    BY <1>1, <1>2, <1>3 DEF OneSaver, InFile, InCopy

LEMMA SavedStep == TypeOK /\ SavedInv /\ [Next]_vars => SavedInv'
<1> SUFFICES ASSUME TypeOK, SavedInv, [Next]_vars PROVE SavedInv'
    OBVIOUS
<1> USE DEF lists, calls, history, Goes, Idle
<1>1. CASE DiscoveryStep
    <2>1. UNCHANGED <<disk, call, copy, intact, paired>>
        BY <1>1 DEF DiscoveryStep, Probed, Registered, Sighted, ClearDevices, DiscoveryRestarts
    <2> QED
        BY <2>1, SavedUnmoved DEF Saving, At, Changing
<1>2. ASSUME NEW s \in Scan, ScanStep(s) PROVE SavedInv'
    <2> s \in Call
        BY DEF Call
    <2>1. CASE scan(s) \/ Sweep(s)
        <3>1. /\ UNCHANGED <<disk, copy, intact, paired>>
              /\ \A c \in Call : (Saving(c)' <=> Saving(c)) /\ (Changing(c)' <=> Changing(c))
                                 /\ (At(c, "writing")' <=> At(c, "writing"))
            BY <2>1 DEF scan, Sweep, TypeOK, Saving, At, Changing
        <3> QED
            BY <3>1, SavedUnmoved
    <2>2. CASE RefreshEnds(s)
        <3>1. UNCHANGED <<disk, copy, intact, paired>> /\ ~Saving(s)
            BY <2>2 DEF RefreshEnds, Saving
        <3>2. \A d \in Call : d # s => call'[d] = call[d]
            BY <2>2 DEF RefreshEnds, TypeOK
        <3>3. CASE At(s, "changed")
            <4>1. Changing(s)'
                BY <2>2, <3>3 DEF RefreshEnds, TypeOK, Changing
            <4> QED
                BY <3>1, <3>2, <4>1, SavedOwing
        <3>4. CASE ~At(s, "changed")
            <4>1. \A c \in Call : (Saving(c)' <=> Saving(c)) /\ (Changing(c)' <=> Changing(c))
                                  /\ (At(c, "writing")' <=> At(c, "writing"))
                BY <2>2, <3>4 DEF RefreshEnds, TypeOK, Saving, At, Changing
            <4> QED
                BY <3>1, <4>1, SavedUnmoved
        <3> QED
            BY <3>3, <3>4
    <2>3. ASSUME NEW fp \in Fp, Refreshes(s, fp) PROVE SavedInv'
        <3>1. UNCHANGED <<disk, copy, intact>> /\ ~Saving(s)
            BY <2>3 DEF Refreshes, Dialled, Saving
        <3>2. CASE StillPaired(fp)
            <4>1. Changing(s)' /\ \A d \in Call : d # s => call'[d] = call[d]
                BY <2>3, <3>2 DEF Refreshes, TypeOK, Changing
            <4> QED
                BY <3>1, <4>1, SavedOwing
        <3>3. CASE ~StillPaired(fp)
            BY <2>3, <3>1, <3>3, SavedUnmoved DEF Refreshes, Saving, At, Changing
        <3> QED
            BY <3>2, <3>3
    <2>4. ASSUME NEW fp \in Fp, Misses(s, fp) PROVE SavedInv'
        <3>1. ImageOf(paired)' = ImageOf(paired)
            BY <2>4, PeersAssumption DEF Misses, ImageOf, TypeOK, Pairing
        <3> QED
            BY <2>4, <3>1, SavedUnmoved DEF Misses, Saving, At, Changing
    <2> QED
        BY <1>2, <2>1, <2>2, <2>3, <2>4 DEF ScanStep
<1>3. ASSUME NEW c \in Cmd, CmdStep(c) PROVE SavedInv'
    <2> c \in Call
        BY DEF Call
    <2>1. CASE \E fp \in Fp : ForgetSighted(c, fp)
        <3>1. UNCHANGED <<disk, call, copy, intact, paired>>
            BY <2>1 DEF ForgetSighted
        <3> QED
            BY <3>1, SavedUnmoved DEF Saving, At, Changing
    <2>2. CASE \/ \E fp \in Fp, addr \in Addr : Pair(c, fp, addr)
               \/ \E fp \in Fp : Unpair(c, fp) \/ ForgetPairing(c, fp)
               \/ ForgetSighting(c)
        <3>1. UNCHANGED <<disk, copy, intact>> /\ ~Saving(c) /\ Changing(c)'
            BY <2>2 DEF Pair, Unpair, ForgetPairing, ForgetSighting, At, Saving, Changing, TypeOK
        <3>2. \A d \in Call : d # c => call'[d] = call[d]
            BY <2>2 DEF Pair, Unpair, ForgetPairing, ForgetSighting, TypeOK
        <3> QED
            BY <3>1, <3>2, SavedOwing
    <2> QED
        BY <1>3, <2>1, <2>2 DEF CmdStep
<1>4. ASSUME NEW c \in Call, SaveStep(c), intact' PROVE SavedInv'
    <2>0. intact /\ OneSaver /\ InFile /\ InCopy
        BY <1>4 DEF SaveStep, Clones, Truncates, Writes, WriteFails, SavedInv
    <2> SUFFICES OneSaver' /\ InFile' /\ InCopy'
        BY DEF SavedInv
    <2> USE DEF TypeOK, At, Saving, Changing, AllSaved
    <2>1. CASE Clones(c)
        BY <1>4, <2>0, <2>1 DEF Clones, OneSaver, InFile, InCopy
    <2>2. CASE Truncates(c)
        BY <2>0, <2>2 DEF Truncates, OneSaver, InFile, InCopy
    <2>3. CASE Writes(c)
        <3>1. disk' = copy[c] /\ copy[c] \in Image /\ UNCHANGED paired
            BY <2>0, <2>3 DEF Writes, InCopy
        <3>2. \A d \in Call : ~Saving(d)'
            BY <2>0, <2>3 DEF Writes, OneSaver, Rest
        <3>3. AllSaved' => AllSaved
            BY <2>3 DEF Writes
        <3>4. AllSaved' => disk' = ImageOf(paired)'
            BY <2>0, <2>3, <3>1, <3>3 DEF Writes, InCopy
        <3> QED
            BY <3>1, <3>2, <3>4 DEF OneSaver, InFile, InCopy
    <2> QED
        BY <1>4, <2>1, <2>2, <2>3 DEF SaveStep, WriteFails
<1>5. CASE ProgramRestarts
    <2> SUFFICES ASSUME intact' PROVE OneSaver' /\ InFile' /\ InCopy'
        BY DEF SavedInv
    <2>1. disk \in Image /\ disk = ImageOf(paired)
        BY <1>5 DEF ProgramRestarts, SavedInv, InFile, AllSaved, Owes, At, Saving, Changing
    <2>2. disk' = ImageOf(paired)' /\ disk' \in Image
        BY <1>5, <2>1, ImageOfLoaded DEF ProgramRestarts
    <2>3. \A c \in Call : call'[c].at = "idle"
        BY <1>5 DEF ProgramRestarts
    <2> QED
        BY <2>2, <2>3 DEF OneSaver, InFile, InCopy, Saving, At
<1>6. CASE UNCHANGED vars
    BY <1>6, SavedUnmoved DEF vars, Saving, At, Changing
<1>7. ASSUME NEW c \in Call, SaveStep(c) PROVE SavedInv'
    BY <1>4, <1>7 DEF SavedInv
<1> QED
    BY <1>1, <1>2, <1>3, <1>5, <1>6, <1>7 DEF Next

\* Nothing that is not owed to the file is missing from it: the next start finds
\* the pairings as they are, as long as no two saves overlapped, failed or were
\* cut off (save_paired, load_peers).
THEOREM RememberedHolds == Spec => []Remembered
<1>1. TypeOK /\ SavedInv => Remembered
    <2> SUFFICES ASSUME TypeOK, SavedInv, intact, \A c \in Call : ~Owes(c)
                 PROVE load_peers(disk) = ImageOf(paired)
        BY DEF Remembered
    <2>1. disk \in Image /\ disk = ImageOf(paired)
        BY DEF SavedInv, InFile, AllSaved, Owes, At, Saving, Changing
    <2> QED
        BY <2>1, ImageOfLoaded
<1> QED
    BY <1>1, TypeInit, TypeStep, SavedInit, SavedStep, PTL DEF Spec

-----------------------------------------------------------------------------
(* The refinement: commands are the steps of the book, and so is the damage *)
(* that the history variable intact records; every other step stutters.    *)

LEMMA BookInit == Init => Book!Init
BY DEF Init, Book!Init, PairedFps

LEMMA BookStep == TypeOK /\ SavedInv /\ [Next]_vars => [Book!Next]_(Book!vars)
<1> SUFFICES ASSUME TypeOK, SavedInv, [Next]_vars PROVE [Book!Next]_(Book!vars)
    OBVIOUS
<1> USE DEF lists, calls, history, Book!vars
<1>0. ASSUME UNCHANGED <<asked, PairedFps>>, intact' = intact \/ ~intact'
      PROVE  [Book!Next]_(Book!vars)
    BY <1>0 DEF Book!Next, Book!Lose, PairedFps, TypeOK
<1>1. CASE DiscoveryStep
    BY <1>0, <1>1
    DEF DiscoveryStep, Probed, Registered, Sighted, ClearDevices, DiscoveryRestarts, PairedFps
<1>2. ASSUME NEW s \in Scan, ScanStep(s) PROVE [Book!Next]_(Book!vars)
    <2>1. CASE scan(s) \/ RefreshEnds(s) \/ Sweep(s)
        BY <1>0, <2>1 DEF scan, RefreshEnds, Sweep, PairedFps
    <2>2. ASSUME NEW fp \in Fp, Refreshes(s, fp) \/ Misses(s, fp)
          PROVE [Book!Next]_(Book!vars)
        <3>1. UNCHANGED <<asked, intact>>
            BY <2>2 DEF Refreshes, Misses
        <3>2. \A g \in Fp : (paired'[g] = None) <=> (paired[g] = None)
            BY <2>2, PeersAssumption
            DEF Refreshes, Misses, Dialled, StillPaired, TypeOK, Pairing, Image
        <3> QED
            BY <1>0, <3>1, <3>2 DEF PairedFps
    <2> QED
        BY <1>2, <2>1, <2>2 DEF ScanStep
<1>3. ASSUME NEW c \in Cmd, CmdStep(c) PROVE [Book!Next]_(Book!vars)
    <2>1. ASSUME NEW fp \in Fp, NEW addr \in Addr, Pair(c, fp, addr)
          PROVE [Book!Next]_(Book!vars)
        <3>1. PairedFps' = PairedFps \cup {fp}
            BY <2>1, PeersAssumption DEF Pair, PairedFps, TypeOK, Pairing
        <3> QED
            BY <2>1, <3>1 DEF Pair, Book!Next, Book!Pair
    <2>2. ASSUME NEW fp \in Fp, Unpair(c, fp) \/ ForgetPairing(c, fp)
          PROVE [Book!Next]_(Book!vars)
        <3>1. drop_pairing(fp) /\ UNCHANGED intact
            BY <2>2 DEF Unpair, ForgetPairing
        <3>2. PairedFps' = PairedFps \ {fp}
            BY <3>1 DEF drop_pairing, PairedFps, TypeOK
        <3> QED
            BY <3>1, <3>2 DEF drop_pairing, Book!Next, Book!Forget
    <2>3. CASE ForgetSighting(c) \/ \E fp \in Fp : ForgetSighted(c, fp)
        BY <1>0, <2>3 DEF ForgetSighting, ForgetSighted, PairedFps
    <2> QED
        BY <1>3, <2>1, <2>2, <2>3 DEF CmdStep
<1>4. ASSUME NEW c \in Call, SaveStep(c) PROVE [Book!Next]_(Book!vars)
    <2>1. UNCHANGED <<asked, PairedFps>>
        BY <1>4 DEF SaveStep, Clones, Truncates, Writes, WriteFails, PairedFps
    <2>2. CASE Clones(c)
        <3>1. CASE \A d \in Call : ~Saving(d)
            BY <2>2, <3>1 , <1>0, <2>1 DEF Clones, TypeOK
        <3>2. CASE ~\A d \in Call : ~Saving(d)
            BY <2>2, <3>2, <1>0, <2>1 DEF Clones
        <3> QED
            BY <3>1, <3>2
    <2>3. CASE Truncates(c) \/ Writes(c) \/ WriteFails(c)
        BY <2>3, <1>0, <2>1 DEF Truncates, Writes, WriteFails
    <2> QED
        BY <1>4, <2>2, <2>3 DEF SaveStep
<1>5. CASE ProgramRestarts
    <2>1. CASE intact'
        <3>1. disk \in Image /\ disk = ImageOf(paired)
            BY <1>5, <2>1
            DEF ProgramRestarts, SavedInv, InFile, AllSaved, Owes, At, Saving, Changing
        <3>2. ImageOf(paired') = ImageOf(paired)
            BY <1>5, <3>1, ImageOfLoaded DEF ProgramRestarts
        <3>3. paired' \in [Fp -> Pairing \cup {None}]
            BY <1>5, LoadedType DEF ProgramRestarts, TypeOK
        <3>4. \A g \in Fp : (paired'[g] = None) <=> (paired[g] = None)
            BY <3>2, <3>3, ImageKnowsPaired DEF TypeOK
        <3> QED
            BY <1>0, <1>5, <2>1, <3>4 DEF ProgramRestarts, PairedFps
    <2>2. CASE ~intact'
        BY <1>5, <2>2 DEF ProgramRestarts, Book!Next, Book!Lose, PairedFps, TypeOK
    <2> QED
        BY <2>1, <2>2
<1>6. CASE UNCHANGED vars
    BY <1>0, <1>6 DEF vars, PairedFps
<1> QED
    BY <1>1, <1>2, <1>3, <1>4, <1>5, <1>6 DEF Next

\* The paired devices are the ones the user asked for last, whatever scans,
\* late answers and restarts of the program come in between: Peers implements
\* PairingBook (pair_from_qr, unpair, forget_device, refresh_paired, load_peers).
THEOREM BookKeptHolds == Spec => BookKept
BY BookInit, BookStep, TypeInit, TypeStep, SavedInit, SavedStep, PTL
DEF Spec, BookKept, Book!Spec

-----------------------------------------------------------------------------
(* Neither list nor file ever holds this device, and no two sightings share *)
(* an address.                                                              *)

NoSelf ==
    /\ sighted[Self] = None /\ paired[Self] = None
    /\ disk \in Image => disk[Self] = None
    /\ \A c \in Call : copy[c][Self] = None
Apart == \A fp, g \in Fp :
    sighted[fp] # None /\ sighted[g] # None /\ sighted[fp].addr = sighted[g].addr => fp = g

ListsInv == NoSelf /\ Apart

LEMMA LoadedNoSelf ==
    ASSUME NEW file \in Image \cup {Blank, Torn}, file \in Image => file[Self] = None
    PROVE  Loaded(file)[Self] = None
BY PeersAssumption DEF Loaded, load_peers, NoPairs

LEMMA ListsInit == Init => ListsInv
<1> SUFFICES ASSUME Init PROVE ListsInv
    OBVIOUS
<1>1. paired[Self] = None
    BY LoadedNoSelf DEF Init
<1> QED
    BY <1>1, PeersAssumption DEF Init, ListsInv, NoSelf, Apart, NoPairs

\* A step that changes no list, or only takes from them, keeps both apart.
LEMMA SightedFewer ==
    ASSUME ListsInv, UNCHANGED <<paired, disk, copy>>,
           \A fp \in Fp : sighted'[fp] # None =>
               sighted[fp] # None /\ sighted'[fp].addr = sighted[fp].addr
    PROVE  ListsInv'
BY PeersAssumption DEF ListsInv, NoSelf, Apart

LEMMA ListsStep == TypeOK /\ ListsInv /\ [Next]_vars => ListsInv'
<1> SUFFICES ASSUME TypeOK, ListsInv, [Next]_vars PROVE ListsInv'
    OBVIOUS
<1> USE DEF lists, calls, history, Goes, Idle
<1>1. CASE DiscoveryStep
    <2>1. ASSUME NEW fp \in Fp, NEW addr \in Addr, Sighted(fp, addr) PROVE ListsInv'
        <3>1. fp # Self /\ sighted' = store(fp, addr) /\ UNCHANGED <<paired, disk, copy>>
            BY <2>1 DEF Sighted, is_self
        <3>2. /\ sighted'[fp].addr = addr
              /\ \A g \in Fp \ {fp} : sighted'[g] # None => sighted'[g] = sighted[g]
                                                            /\ sighted[g].addr # addr
            BY <3>1 DEF store
        <3>3. sighted'[Self] = None
            BY <3>1, <3>2, PeersAssumption DEF ListsInv, NoSelf
        <3>4. Apart'
            BY <3>2 DEF ListsInv, Apart
        <3> QED
            BY <3>1, <3>3, <3>4 DEF ListsInv, NoSelf
    <2>2. CASE ClearDevices \/ DiscoveryRestarts
        BY <2>2, SightedFewer DEF ClearDevices, DiscoveryRestarts
    <2> QED
        BY <1>1, <2>1, <2>2 DEF DiscoveryStep, Probed, Registered
<1>2. ASSUME NEW s \in Scan, ScanStep(s) PROVE ListsInv'
    <2>1. CASE scan(s) \/ RefreshEnds(s)
        BY <2>1, SightedFewer DEF scan, RefreshEnds
    <2>2. CASE Sweep(s)
        BY <2>2, SightedFewer DEF Sweep, TypeOK, Sighting
    <2>3. ASSUME NEW fp \in Fp, Refreshes(s, fp) \/ Misses(s, fp) PROVE ListsInv'
        BY <2>3, PeersAssumption
        DEF Refreshes, Misses, StillPaired, ListsInv, NoSelf, Apart, TypeOK
    <2> QED
        BY <1>2, <2>1, <2>2, <2>3 DEF ScanStep
<1>3. ASSUME NEW c \in Cmd, CmdStep(c) PROVE ListsInv'
    <2>1. ASSUME NEW fp \in Fp, NEW addr \in Addr, Pair(c, fp, addr) PROVE ListsInv'
        BY <2>1, PeersAssumption DEF Pair, is_self, ListsInv, NoSelf, Apart, TypeOK
    <2>2. ASSUME NEW fp \in Fp, Unpair(c, fp) \/ ForgetPairing(c, fp) PROVE ListsInv'
        BY <2>2, PeersAssumption
        DEF Unpair, ForgetPairing, drop_pairing, ListsInv, NoSelf, Apart, TypeOK
    <2>3. CASE ForgetSighting(c) \/ \E fp \in Fp : ForgetSighted(c, fp)
        BY <2>3, SightedFewer DEF ForgetSighting, ForgetSighted, remove, TypeOK
    <2> QED
        BY <1>3, <2>1, <2>2, <2>3 DEF CmdStep
<1>4. ASSUME NEW c \in Call, SaveStep(c) PROVE ListsInv'
    <2>1. CASE Clones(c)
        <3>1. ImageOf(paired)[Self] = None
            BY PeersAssumption DEF ImageOf, ListsInv, NoSelf
        <3> QED
            BY <2>1, <3>1 DEF Clones, ListsInv, NoSelf, Apart, TypeOK
    <2>2. CASE Truncates(c)
        BY <2>2, PeersAssumption DEF Truncates, ListsInv, NoSelf, Apart
    <2>3. CASE Writes(c)
        BY <2>3, PeersAssumption DEF Writes, ListsInv, NoSelf, Apart, TypeOK, NoPairs
    <2>4. CASE WriteFails(c)
        BY <2>4, PeersAssumption DEF WriteFails, ListsInv, NoSelf, Apart, TypeOK, NoPairs
    <2> QED
        BY <1>4, <2>1, <2>2, <2>3, <2>4 DEF SaveStep
<1>5. CASE ProgramRestarts
    <2>1. paired'[Self] = None
        BY <1>5, LoadedNoSelf DEF ProgramRestarts, ListsInv, NoSelf, TypeOK
    <2> QED
        BY <1>5, <2>1, PeersAssumption DEF ProgramRestarts, ListsInv, NoSelf, Apart, NoPairs
<1>6. CASE UNCHANGED vars
    BY <1>6 DEF vars, ListsInv, NoSelf, Apart
<1> QED
    BY <1>1, <1>2, <1>3, <1>4, <1>5, <1>6 DEF Next

LEMMA ChosenAtAddress ==
    ASSUME NEW addr, AtAddress(addr) # {}
    PROVE  (CHOOSE fp \in AtAddress(addr) : TRUE) \in AtAddress(addr)
OBVIOUS

\* The two kinds of entry in the list.
Seen(d) ==
    /\ d.fp \in Fp /\ sighted[d.fp] # None
    /\ d = [fp |-> d.fp, addr |-> sighted[d.fp].addr]
PairedOnly(d) ==
    /\ d.fp \in Fp /\ Eligible(d.fp) /\ paired[d.fp].addr = d.addr
    /\ d = [fp |-> CHOOSE fp \in AtAddress(d.addr) : TRUE, addr |-> d.addr]

\* The list offers a device once and an address once, and never this device,
\* whatever moved, answered elsewhere, was paired or was forgotten (devices, store).
THEOREM OneEntryPerDeviceHolds == Spec => []OneEntryPerDevice
<1>1. TypeOK /\ ListsInv => OneEntryPerDevice
    <2> SUFFICES ASSUME TypeOK, ListsInv PROVE OneEntryPerDevice
        OBVIOUS
    <2>1. ASSUME NEW d \in devices PROVE Seen(d) \/ PairedOnly(d)
        <3>1. CASE \E fp \in Fp : sighted[fp] # None
                                  /\ d = [fp |-> fp, addr |-> sighted[fp].addr]
            BY <3>1 DEF Seen
        <3>2. ASSUME NEW addr \in Addr, AtAddress(addr) # {},
                     d = [fp |-> CHOOSE fp \in AtAddress(addr) : TRUE, addr |-> addr]
              PROVE  PairedOnly(d)
            <4>1. d.fp \in AtAddress(addr) /\ d.addr = addr
                BY <3>2, ChosenAtAddress
            <4> QED
                BY <3>2, <4>1 DEF AtAddress, PairedOnly
        <3> QED
            BY <3>1, <3>2 DEF devices
    <2>2. ASSUME NEW d \in devices, NEW e \in devices, d.fp = e.fp \/ d.addr = e.addr
          PROVE  d = e
        <3>1. Seen(d) /\ Seen(e) => d = e
            BY <2>2 DEF Seen, ListsInv, Apart
        <3>2. ~(Seen(d) /\ PairedOnly(e))
            BY <2>2 DEF Seen, PairedOnly, Eligible
        <3>3. ~(PairedOnly(d) /\ Seen(e))
            BY <2>2 DEF Seen, PairedOnly, Eligible
        <3>4. PairedOnly(d) /\ PairedOnly(e) => d = e
            BY <2>2 DEF PairedOnly
        <3>5. Seen(d) \/ PairedOnly(d)
            BY <2>1
        <3>6. Seen(e) \/ PairedOnly(e)
            BY <2>1
        <3> QED
            BY ONLY <3>1, <3>2, <3>3, <3>4, <3>5, <3>6
    <2>3. ASSUME NEW d \in devices PROVE d.fp # Self
        BY <2>1, <2>3 DEF Seen, PairedOnly, ListsInv, NoSelf, Eligible
    <2> QED
        BY <2>2, <2>3 DEF OneEntryPerDevice
<1> QED
    BY <1>1, TypeInit, TypeStep, ListsInit, ListsStep, PTL DEF Spec

-----------------------------------------------------------------------------
(* What answered since a scan began is what carries the scan in its sighting. *)

Answers(s, fp) == sighted[fp] # None /\ s \in sighted[fp].since

AnsweredInv ==
    /\ stale \subseteq Scanning
    /\ \A fp \in Fp : sighted[fp] # None => sighted[fp].since \subseteq Scanning
    /\ \A s \in Scan \ stale, fp \in Fp : fp \in answered[s] <=> Answers(s, fp)
    /\ \A s \in stale : answered[s] = {} /\ \A fp \in Fp : ~Answers(s, fp)

LEMMA AnsweredInit == Init => AnsweredInv
BY PeersAssumption DEF Init, AnsweredInv, Answers, Scanning, At, Idle

\* A step of a call that is no scan, or of a scan that is under way and stays so.
LEMMA ScanningSame ==
    ASSUME NEW c, \A d \in Call : d # c => call'[d] = call[d],
           c \in Scan => ~At(c, "idle") /\ ~At(c, "idle")'
    PROVE  Scanning' = Scanning
BY DEF Scanning, At, Call

LEMMA AnsweredStep == TypeOK /\ AnsweredInv /\ [Next]_vars => AnsweredInv'
<1> SUFFICES ASSUME TypeOK, AnsweredInv, [Next]_vars PROVE AnsweredInv'
    OBVIOUS
<1> USE DEF lists, calls, history, Goes, Idle
<1>0. ASSUME UNCHANGED <<sighted, answered, stale>>, Scanning' = Scanning PROVE AnsweredInv'
    BY <1>0 DEF AnsweredInv, Answers
<1>1. CASE DiscoveryStep
    <2>0. Scanning' = Scanning
        BY <1>1 DEF DiscoveryStep, Probed, Registered, Sighted, ClearDevices, DiscoveryRestarts,
                    Scanning, At
    <2>1. ASSUME NEW fp \in Fp, NEW addr \in Addr, Sighted(fp, addr) PROVE AnsweredInv'
        <3>1. /\ sighted' = store(fp, addr) /\ UNCHANGED stale
              /\ answered' = [s \in Scan |->
                     {g \in answered[s] : sighted'[g] # None}
                         \cup IF s \in Scanning \ stale THEN {fp} ELSE {}]
            BY <2>1 DEF Sighted
        <3>2. /\ sighted'[fp] # None /\ sighted'[fp].since = Scanning \ stale
              /\ \A g \in Fp \ {fp} : sighted'[g] # None => sighted[g] # None
                                                            /\ sighted'[g] = sighted[g]
            BY <3>1, PeersAssumption DEF store, Sighting, Scanning
        <3>3. \A g \in Fp : sighted'[g] # None => sighted'[g].since \subseteq Scanning
            BY <3>2 DEF AnsweredInv
        <3>4. ASSUME NEW s \in Scan \ stale, NEW g \in Fp
              PROVE  g \in answered'[s] <=> Answers(s, g)'
            <4>1. g \in answered[s] <=> Answers(s, g)
                BY DEF AnsweredInv
            <4>2. CASE g = fp
                BY <3>1, <3>2, <4>1, <4>2 DEF Answers, AnsweredInv
            <4>3. CASE g # fp
                BY <3>1, <3>2, <4>1, <4>3 DEF Answers
            <4> QED
                BY <4>2, <4>3
        <3>5. ASSUME NEW s \in stale
              PROVE  answered'[s] = {} /\ \A g \in Fp : ~Answers(s, g)'
            BY <3>1, <3>2, <3>5 DEF AnsweredInv, Answers, TypeOK
        <3> QED
            BY <2>0, <3>1, <3>3, <3>4, <3>5 DEF AnsweredInv
    <2>2. CASE ClearDevices
        BY <2>0, <2>2 DEF ClearDevices, AnsweredInv, Answers, TypeOK
    <2>3. CASE DiscoveryRestarts
        BY <2>0, <2>3 DEF DiscoveryRestarts, AnsweredInv, Answers, Scanning
    <2> QED
        BY <1>1, <2>1, <2>2, <2>3 DEF DiscoveryStep, Probed, Registered
<1>2. ASSUME NEW s \in Scan, ScanStep(s) PROVE AnsweredInv'
    <2> s \in Call
        BY DEF Call
    <2>1. CASE scan(s)
        <3>1. Scanning' = Scanning \cup {s} /\ s \notin Scanning
            BY <2>1 DEF scan, Scanning, At, TypeOK
        <3> QED
            BY <2>1, <3>1 DEF scan, AnsweredInv, Answers
    <2>2. CASE RefreshEnds(s) \/ \E fp \in Fp : Refreshes(s, fp) \/ Misses(s, fp)
        <3>0. /\ \A d \in Call : d # s => call'[d] = call[d]
              /\ ~At(s, "idle") /\ ~At(s, "idle")'
            BY <2>2 DEF RefreshEnds, Refreshes, Misses, Dialled, At, TypeOK
        <3>1. Scanning' = Scanning
            BY <3>0, ScanningSame
        <3> QED
            BY <1>0, <2>2, <3>1 DEF RefreshEnds, Refreshes, Misses
    <2>3. CASE Sweep(s)
        <3>1. /\ Scanning' = Scanning \ {s} /\ stale' = stale \ {s}
              /\ answered' = [r \in Scan |-> IF r = s THEN {}
                                  ELSE {fp \in answered[r] : sighted'[fp] # None}]
            BY <2>3 DEF Sweep, Scanning, At, TypeOK
        <3>2. \A fp \in Fp : sighted'[fp] # None =>
                  sighted[fp] # None /\ sighted'[fp].since = sighted[fp].since \ {s}
            BY <2>3 DEF Sweep, TypeOK, Sighting
        <3> QED
            BY <3>1, <3>2 DEF AnsweredInv, Answers, TypeOK
    <2> QED
        BY <1>2, <2>1, <2>2, <2>3 DEF ScanStep
<1>3. ASSUME NEW c \in Cmd, CmdStep(c) PROVE AnsweredInv'
    <2> c \in Call /\ c \notin Scan
        BY PeersAssumption DEF Call
    <2>0. Scanning' = Scanning
        <3>1. \A d \in Call : d # c => call'[d] = call[d]
            BY <1>3 DEF CmdStep, Pair, Unpair, ForgetPairing, ForgetSighting, ForgetSighted,
                        TypeOK
        <3> QED
            BY <3>1, ScanningSame
    <2>1. CASE ForgetSighting(c) \/ \E fp \in Fp : ForgetSighted(c, fp)
        <3>1. PICK fp \in Fp \cup {None} : remove(fp) /\ UNCHANGED stale
            BY <2>1 DEF ForgetSighting, ForgetSighted, TypeOK
        <3> QED
            BY <2>0, <3>1 DEF remove, AnsweredInv, Answers, TypeOK
    <2> QED
        BY <1>0, <1>3, <2>0, <2>1 DEF CmdStep, Pair, Unpair, ForgetPairing
<1>4. ASSUME NEW c \in Call, SaveStep(c) PROVE AnsweredInv'
    <2>1. Scanning' = Scanning
        <3>1. \A d \in Call : d # c => call'[d] = call[d]
            BY <1>4 DEF SaveStep, Clones, Truncates, Writes, WriteFails, TypeOK
        <3>2. c \in Scan => ~At(c, "idle") /\ ~At(c, "idle")'
            BY <1>4 DEF SaveStep, Clones, Truncates, Writes, WriteFails, Rest, Saving, At, TypeOK
        <3> QED
            BY <3>1, <3>2, ScanningSame
    <2> QED
        BY <1>0, <1>4, <2>1 DEF SaveStep, Clones, Truncates, Writes, WriteFails
<1>5. CASE ProgramRestarts
    BY <1>5 DEF ProgramRestarts, AnsweredInv, Answers, Scanning
<1>6. CASE UNCHANGED vars
    BY <1>0, <1>6 DEF vars, Scanning, At
<1> QED
    BY <1>1, <1>2, <1>3, <1>4, <1>5, <1>6 DEF Next

\* The end of a scan leaves in the list what answered since it began and nothing
\* else, and leaves the list of another discovery alone (scan, forget_unseen).
THEOREM SweepKeepsAnsweredHolds == Spec => SweepKeepsAnswered
<1>1. ASSUME TypeOK, AnsweredInv, NEW s \in Scan, Sweep(s), NEW fp \in Fp
      PROVE  sighted'[fp] # None <=> IF s \in stale THEN sighted[fp] # None
                                     ELSE fp \in answered[s]
    <2>1. sighted'[fp] # None <=>
              sighted[fp] # None /\ (s \in stale \/ s \in sighted[fp].since)
        <3>1. sighted[fp] # None => [sighted[fp] EXCEPT !.since = @ \ {s}] \in Sighting
            BY <1>1 DEF TypeOK, Sighting
        <3> QED
            BY <1>1, <3>1, PeersAssumption DEF Sweep
    <2> QED
        BY <1>1, <2>1 DEF AnsweredInv, Answers
<1> DEFINE Kept == \A s \in Scan : Sweep(s) =>
        \A fp \in Fp : sighted'[fp] # None
                          <=> IF s \in stale THEN sighted[fp] # None
                              ELSE fp \in answered[s]
<1>2. TypeOK /\ AnsweredInv => Kept
    BY <1>1
<1> HIDE DEF Kept
<1>3. Spec => [][Kept]_vars
    BY <1>2, TypeInit, TypeStep, AnsweredInit, AnsweredStep, PTL DEF Spec
<1> QED
    BY <1>3 DEF Kept, SweepKeepsAnswered

=============================================================================
