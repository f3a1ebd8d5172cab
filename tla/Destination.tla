---------------------------- MODULE Destination ----------------------------
(***************************************************************************)
(* Where received files go: fs_util.rs picks a path that does not exist    *)
(* yet, and the upload handler of server.rs later creates, writes and, on  *)
(* failure, removes that path.  Uploads run concurrently (a sender keeps   *)
(* two in flight), and nothing reserves a path between the look and the    *)
(* creation.                                                               *)
(*                                                                         *)
(* Variant[name][k] is the path of a name with the suffix " (k)", 0 for    *)
(* none, which may be another name without one.  A file is the set of      *)
(* those whose bytes it holds; the empty set is no file at all.  Unlinking *)
(* follows POSIX: an open handle goes on writing to a file that no path    *)
(* names any more.  A removal may fail like everything else; the code      *)
(* ignores that, and the partial file stays.                               *)
(***************************************************************************)
EXTENDS Naturals, FiniteSets, FiniteSetsExt

CONSTANTS
    Up,         \* upload calls
    Name,       \* sanitized destinations: directory and file name
    NameOf,     \* where the file of each upload asks to go
    LastSuffix, \* the last n that unique_path tries: 9999
    Path,
    Variant,
    Kept,       \* files that were in the download directory before
    Owner,      \* stands for the owner of those files
    None

ASSUME DestinationAssumption ==
    /\ NameOf \in [Up -> Name]
    /\ LastSuffix \in Nat
    /\ Variant \in [Name -> [0 .. LastSuffix -> Path]]
    /\ Kept \subseteq Path
    /\ Owner \notin Up
    /\ None \notin Path

VARIABLES
    disk,       \* what each path holds
    pc,         \* where each upload is
    where,      \* the path each upload resolved
    linked,     \* its open handle is the file that its path names
    overlapped, \* history: two uploads held one resolved path at the same time
    exhausted   \* history: every suffix was taken for some upload

vars == <<disk, pc, where, linked, overlapped, exhausted>>

States == {"new", "resolved", "writing", "removing", "stored", "failed",
           "unremoved", "lost"}

TypeOK ==
    /\ disk \in [Path -> SUBSET (Up \cup {Owner})]
    /\ pc \in [Up -> States]
    /\ where \in [Up -> Path \cup {None}]
    /\ \A u \in Up : where[u] = None <=> pc[u] = "new"
    /\ linked \in [Up -> BOOLEAN]
    /\ overlapped \in BOOLEAN
    /\ exhausted \in BOOLEAN

Init ==
    /\ disk = [x \in Path |-> IF x \in Kept THEN {Owner} ELSE {}]
    /\ pc = [u \in Up |-> "new"]
    /\ where = [u \in Up |-> None]
    /\ linked = [u \in Up |-> FALSE]
    /\ overlapped = FALSE
    /\ exhausted = FALSE

Step(u, from, to) == pc[u] = from /\ pc' = [pc EXCEPT ![u] = to]

Exists(x) == disk[x] # {}
Free(n) == {k \in 0 .. LastSuffix : ~Exists(Variant[n][k])}

\* Sensitivity variant: the numbered names are not looked up.
UnnumberedPath(n) == Variant[n][IF 0 \in Free(n) THEN 0 ELSE LastSuffix]

\* Sensitivity variant: with every number taken there is no path.
GivesUp(n) == IF Free(n) = {} THEN None ELSE Variant[n][Min(Free(n))]

\* path itself, else the first " (n)" variant that does not exist, else path
\* itself again.
UniquePath(n) == Variant[n][IF Free(n) = {} THEN 0 ELSE Min(Free(n))]

\* Uploads that will still create or remove path x, and have no file there.
Holding(x) ==
    {u \in Up : pc[u] \in {"resolved", "removing"} /\ where[u] = x /\ ~linked[u]}

Resolve(u) ==
    /\ Step(u, "new", "resolved")
    /\ where' = [where EXCEPT ![u] = UniquePath(NameOf[u])]
    /\ overlapped' = (overlapped \/ Holding(UniquePath(NameOf[u])) # {})
    /\ exhausted' = (exhausted \/ Free(NameOf[u]) = {})
    /\ UNCHANGED <<disk, linked>>

\* create_dir_all fails: the file is settled and nothing is removed.
NoDirectory(u) ==
    /\ Step(u, "resolved", "failed")
    /\ UNCHANGED <<disk, where, linked, overlapped, exhausted>>

\* OpenOptions: write, create, truncate.  Whatever the path names is emptied.
Open(u) ==
    /\ Step(u, "resolved", "writing")
    /\ disk' = [disk EXCEPT ![where[u]] = {u}]
    /\ linked' = [linked EXCEPT ![u] = TRUE]
    /\ UNCHANGED <<where, overlapped, exhausted>>

\* The file cannot be opened; the error path still removes it by name.
OpenFails(u) ==
    /\ Step(u, "resolved", "removing")
    /\ UNCHANGED <<disk, where, linked, overlapped, exhausted>>

Written(u) == IF linked[u] THEN [disk EXCEPT ![where[u]] = @ \cup {u}] ELSE disk

Write(u) ==
    /\ pc[u] = "writing"
    /\ disk' = Written(u)
    /\ UNCHANGED <<pc, where, linked, overlapped, exhausted>>

\* Size and checksum of the stream are right, the rest of the buffer is flushed.
Store(u) ==
    /\ Step(u, "writing", "stored")
    /\ disk' = Written(u)
    /\ UNCHANGED <<where, linked, overlapped, exhausted>>

\* The body is cut short, too long, times out or does not match its checksum.
BodyFails(u) ==
    /\ Step(u, "writing", "removing")
    /\ UNCHANGED <<disk, where, linked, overlapped, exhausted>>

\* Sensitivity variant: the name the sender gave is removed, not the resolved one.
RemovedName(u) == Variant[NameOf[u]][0]

\* The path that a failed upload removes.
RemovedPath(u) == where[u]

\* remove_file: the name goes, the handles of others stay open on no name.
Remove(u) ==
    /\ Step(u, "removing", "failed")
    /\ disk' = [disk EXCEPT ![RemovedPath(u)] = {}]
    /\ linked' = [v \in Up |-> linked[v] /\ where[v] # RemovedPath(u)]
    /\ UNCHANGED <<where, overlapped, exhausted>>

\* remove_file fails, and nobody looks at its error: the upload is settled as
\* failed all the same.
RemoveFails(u) ==
    /\ Step(u, "removing", "unremoved")
    /\ UNCHANGED <<disk, where, linked, overlapped, exhausted>>

\* The handler's future is dropped: what is on disk stays there.
Lost(u) ==
    /\ \E from \in {"resolved", "writing", "removing"} : Step(u, from, "lost")
    /\ UNCHANGED <<disk, where, linked, overlapped, exhausted>>

Next ==
    \E u \in Up :
        \/ Resolve(u) \/ NoDirectory(u) \/ Open(u) \/ OpenFails(u) \/ Write(u)
        \/ Store(u) \/ BodyFails(u) \/ Remove(u) \/ RemoveFails(u) \/ Lost(u)

Spec == Init /\ [][Next]_vars

-----------------------------------------------------------------------------
(* Properties *)

\* Uploads that never resolved a path together, with a suffix left for each.
Undisturbed == ~overlapped /\ ~exhausted

\* A stored file is whole: its path holds its bytes and nobody else's, for as
\* long as no other upload resolved the same path at the same time.
StoredIntact ==
    Undisturbed => \A u \in Up : pc[u] = "stored" => disk[where[u]] = {u}

\* Receiving never touches a file that was in the directory before, by
\* creating, truncating or removing it, also when uploads race for one name or
\* remove what they could not open (unique_path, "does not exist yet"): only an
\* upload that found every number taken does.
KeptUntouched == ~exhausted => \A x \in Kept : disk[x] = {Owner}

\* "A partially written file is never useful to the user" (server.rs:693): of an
\* upload that failed nothing is left on disk, under any path and whoever else
\* had the same one, unless removing its file failed as well.
NothingLeft == \A u \in Up : pc[u] = "failed" => \A x \in Path : u \notin disk[x]

\* What the comments say and the code does not keep.

\* "A file was received and stored" (server.rs:107): the path of a finished
\* upload holds its bytes.
FinishedIsStored == \A u \in Up : pc[u] = "stored" => disk[where[u]] = {u}

\* "picking a free name on collision" (fs_util.rs:90): the path that an upload
\* gets names nothing yet.
FreeNamePicked == [][\A u \in Up : Resolve(u) => ~Exists(where'[u])]_vars

=============================================================================
