----------------------------- MODULE ServerDisk ------------------------------
(****************************************************************************)
(* What the dedicated server keeps on disk and gets back after a restart    *)
(* (WorldPersistence.cpp, AssetPersistence.cpp, stratumv_server/main.cpp):  *)
(* world.svbin, and a .bin and a .meta.json for every asset, each replaced  *)
(* by way of a temporary file next to it.                                   *)
(*                                                                          *)
(* A step is one call on the file system; the process may die between any   *)
(* two, and each call may fail the way the code looks at it. fclose is not  *)
(* looked at: what fwrite buffered may be lost there unreported. The disk   *)
(* keeps what a dead process did (power loss is out of the model). Of the   *)
(* world only the id counters tell two snapshots apart: the one persisted   *)
(* entity is the cube, and avatars are left out of the file.                *)
(*                                                                          *)
(* One process at a time is started on a data directory. Bounds: MaxIssued  *)
(* ids of each kind, MaxFaults, MaxCrashes.                                 *)
(****************************************************************************)
EXTENDS Naturals

CONSTANTS
    Asset, Name,
    None, Absent, Torn,     \* no job or name; no file; a file cut short
    Cut,                    \* a .meta.json cut in its last line, the name: it parses
    FutureWorlds,           \* whether the directory may hold a newer build's world
    MaxIssued, MaxFaults, MaxCrashes

ASSUME DiskAssumption ==
    /\ FutureWorlds \subseteq BOOLEAN
    /\ MaxIssued \in Nat /\ MaxFaults \in Nat /\ MaxCrashes \in Nat

World   == <<"world", None>>
Bin(a)  == <<"bin", a>>
Meta(a) == <<"meta", a>>
File == {World} \cup {Bin(a) : a \in Asset} \cup {Meta(a) : a \in Asset}

\* next entity, client and transaction id
Counter == {"entity", "client", "tx"}
Fresh == [k \in Counter |-> IF k = "entity" THEN 100 ELSE 1]

\* known: every type in the file is one of this build's.
Snapshot == [next : [Counter -> Nat], known : BOOLEAN]

\* What a replacement is: its file, what it writes, the name of its asset, the
\* call it does next, and whether a call of it failed.
Replacement ==
    [file : File, value : Asset \cup Name \cup Snapshot, name : Name \cup {None},
     at : {"open", "write", "drop", "rename", "remove", "again"}, hit : BOOLEAN]

\* No asset, name or world is the sign of a file that is not there or cut short.
ASSUME SignAssumption ==
    /\ Absent # Torn /\ Cut \notin {Absent, Torn} /\ None \notin Replacement \cup Snapshot
    /\ {None, Absent, Torn, Cut} \cap (Asset \cup Name \cup Snapshot) = {}

VARIABLES
    target, temp,   \* what is at each path and at its temporary path
    phase,          \* of the process: "down", "up", "stopping"
    world,          \* nextEntityId, nextClientId, nextTxId in memory
    records,        \* m_records: asset -> name
    rooted,         \* m_rootDir is set
    job,            \* the replacement the process is at: its file, what it writes,
                    \* the call it does next, whether a call of it failed
    faults, crashes,
    \* history
    saved,          \* the last snapshot a save reported written
    stored,         \* assets a rooted save reported written
    spoiled,        \* files hit by a fault that replacing cannot mask
    issued,         \* the ids given out by any process, as counters
    lapse           \* some of them were never in a saved world

diskVars    == <<target, temp>>
memoryVars  == <<phase, world, records, rooted>>
boundVars   == <<faults, crashes>>
historyVars == <<saved, stored, spoiled, issued, lapse>>
vars == <<diskVars, memoryVars, job, boundVars, historyVars>>

NoRecords == [a \in {} |-> None]

Init ==
    /\ \E w \in {Absent} \cup {[next |-> Fresh, known |-> FALSE] : b \in FutureWorlds \ {FALSE}} :
          target = [f \in File |-> IF f = World THEN w ELSE Absent]
    /\ temp    = [f \in File |-> Absent]
    /\ phase = "down" /\ world = Fresh /\ records = NoRecords /\ rooted = FALSE
    /\ job = None
    /\ faults = 0 /\ crashes = 0
    /\ saved = None /\ stored = {} /\ spoiled = {}
    /\ issued = Fresh /\ lapse = FALSE

-----------------------------------------------------------------------------
(* Replacing a file *)

Idle == phase = "up" /\ job = None

Begin(f, v, n) == [file |-> f, value |-> v, name |-> n, at |-> "open", hit |-> FALSE]

Fault == faults < MaxFaults /\ faults' = faults + 1 /\ UNCHANGED crashes
Works == UNCHANGED boundVars

\* The process ends as a program does, or is killed.
Ends == phase' = "down" /\ world' = Fresh /\ records' = NoRecords /\ rooted' = FALSE

\* A replacement returns: to the loop, or with the last world out of main.
Returns ==
    /\ job' = None
    /\ IF phase = "stopping" THEN Ends ELSE UNCHANGED memoryVars

Remember(rs, a, n) == [x \in DOMAIN rs \cup {a} |-> IF x = a THEN n ELSE rs[x]]

\* Mutant: AssetPersistence::save does not look at what writeToDisk returns.
RemembersAnyway ==
    /\ IF job.file = World
       THEN Returns
       ELSE /\ job' = None
            /\ records' = Remember(records, job.file[2], job.name)
            /\ UNCHANGED <<phase, world, rooted>>
    /\ lapse' = (lapse \/ phase = "stopping")
    /\ UNCHANGED <<saved, stored, issued>>

\* The replacement failed.
Fails ==
    /\ Returns
    /\ lapse' = (lapse \/ phase = "stopping")
    /\ UNCHANGED <<saved, stored, issued>>

\* The replacement is reported done: a .bin is followed by its .meta.json, a
\* .meta.json by the record in memory.
Done ==
    LET f == job.file
        n == job.name
    IN
    \/ /\ f = World
       /\ Returns
       /\ saved' = job.value
       /\ UNCHANGED <<stored, issued, lapse>>
    \/ /\ f \in {Bin(a) : a \in Asset}
       /\ job' = Begin(Meta(f[2]), n, n)
       /\ UNCHANGED <<memoryVars, saved, stored, issued, lapse>>
    \/ /\ f \in {Meta(a) : a \in Asset}
       /\ job' = None
       /\ records' = Remember(records, f[2], n)
       /\ stored' = stored \cup {f[2]}
       /\ UNCHANGED <<phase, world, rooted, saved, issued, lapse>>

Truncates(f) == temp' = [temp EXCEPT ![f] = Torn] /\ UNCHANGED target

\* fopen(temp, "wb"), after create_directories
Open ==
    /\ job # None /\ job.at = "open"
    /\ \/ /\ Works
          /\ Truncates(job.file)
          /\ job' = [job EXCEPT !.at = "write"]
          /\ UNCHANGED <<memoryVars, saved, stored, issued, lapse>>
       \/ Fault /\ Fails /\ UNCHANGED diskVars
    /\ UNCHANGED spoiled

\* Mutant: the target makes way for the rename beforehand.
AfterWriteRemove == "remove"
AfterWrite == "rename"

Written(c, next, hit) ==
    /\ temp' = [temp EXCEPT ![job.file] = c]
    /\ job' = [job EXCEPT !.at = next, !.hit = hit]

CutShort(f) == IF f \in {Meta(a) : a \in Asset} THEN {Torn, Cut} ELSE {Torn}

\* fwrite and fclose: whole, short, or short with only fclose knowing.
Write ==
    /\ job # None /\ job.at = "write"
    /\ \/ Works /\ Written(job.value, AfterWrite, FALSE)
       \/ Fault /\ \E c \in CutShort(job.file) : Written(c, "drop", TRUE)
       \/ Fault /\ \E c \in CutShort(job.file) : Written(c, AfterWrite, TRUE)
    /\ UNCHANGED <<target, memoryVars, historyVars>>

\* remove(temp), after a short fwrite or two refused renames; its own failure
\* leaves the file.
Drop ==
    /\ job # None /\ job.at = "drop"
    /\ \/ Works /\ temp' = [temp EXCEPT ![job.file] = Absent]
       \/ Fault /\ UNCHANGED temp
    /\ Fails
    /\ UNCHANGED <<target, spoiled>>

\* rename(temp, target) takes effect.
Moved ==
    LET f == job.file IN
    /\ Works
    /\ target' = [target EXCEPT ![f] = temp[f]]
    /\ temp' = [temp EXCEPT ![f] = Absent]
    /\ spoiled' = IF temp[f] \in {Torn, Cut} THEN spoiled \cup {f} ELSE spoiled \ {f}
    /\ Done

Refused(next) ==
    /\ Fault
    /\ job' = [job EXCEPT !.at = next, !.hit = TRUE]
    /\ UNCHANGED <<diskVars, memoryVars, historyVars>>

Rename == job # None /\ job.at = "rename" /\ (Moved \/ Refused("remove"))

\* remove(target), whose result is not looked at
RemoveTarget ==
    LET f == job.file IN
    /\ job # None /\ job.at = "remove"
    /\ \/ /\ Works
          /\ target' = [target EXCEPT ![f] = Absent]
          /\ spoiled' = spoiled \cup {f}
       \/ Fault /\ UNCHANGED <<target, spoiled>>
    /\ job' = [job EXCEPT !.at = "again"]
    /\ UNCHANGED <<temp, memoryVars, saved, stored, issued, lapse>>

RenameAgain == job # None /\ job.at = "again" /\ (Moved \/ Refused("drop"))

-----------------------------------------------------------------------------
(* Start *)

\* Mutant: the saved counter is not taken over.
ResumeButTx(n) == [n EXCEPT !["tx"] = Fresh["tx"]]
\* applyPersistedWorld: never below where a fresh world starts.
Resume(n) == [k \in Counter |-> IF n[k] > Fresh[k] THEN n[k] ELSE Fresh[k]]

\* loadWorldFromFile: anything but a whole world of known types is an error.
Loads(c) == c \in [next : [Counter -> Nat], known : {TRUE}]

\* Mutant: a temporary file left over is taken for an unfinished asset.
FoundIfTidy(a) == target[Bin(a)] = a /\ target[Meta(a)] \in Name \cup {Cut} /\ temp[Meta(a)] = Absent
\* scanRootDir keeps an asset whose bytes have the hash of their path and
\* whose meta file parses, with a name cut short too.
Found(a) == target[Bin(a)] = a /\ target[Meta(a)] \in Name \cup {Cut}

\* main up to the loop: the world, then the root directory of the assets and
\* what it holds. A failed open or read counts as one fault, of one file or of
\* several.
Start ==
    /\ phase = "down"
    /\ phase' = "up"
    /\ \E worldRead, rootMade \in BOOLEAN, unread \in SUBSET Asset :
        LET loaded == worldRead /\ Loads(target[World])
            scanned == {a \in Asset \ unread : rootMade /\ Found(a)}
        IN
        /\ IF worldRead /\ rootMade /\ unread = {} THEN Works ELSE Fault
        /\ world' = IF loaded THEN Resume(target[World].next) ELSE Fresh
        /\ rooted' = rootMade
        /\ records' = [a \in scanned |-> target[Meta(a)]]
        /\ spoiled' = spoiled \cup {Bin(a) : a \in unread}
                              \cup (IF worldRead THEN {} ELSE {World})
        /\ lapse' = (lapse \/ (~loaded /\ issued # Fresh))
    /\ UNCHANGED <<diskVars, job, saved, stored, issued>>

-----------------------------------------------------------------------------
(* The loop *)

Capture == [next |-> world, known |-> TRUE]

Issue(ks) ==
    /\ Idle
    /\ \A k \in ks : world[k] < Fresh[k] + MaxIssued
    /\ LET now == [k \in Counter |-> IF k \in ks THEN world[k] + 1 ELSE world[k]] IN
       /\ world' = now
       /\ issued' = [k \in Counter |-> IF now[k] > issued[k] THEN now[k] ELSE issued[k]]
    /\ UNCHANGED <<diskVars, phase, records, rooted, job, boundVars,
                   saved, stored, spoiled, lapse>>

\* A client is accepted: its id and its avatar's.
Accept == Issue({"entity", "client"})

\* A transaction is stamped.
Stamp == Issue({"tx"})

Autosave ==
    /\ Idle
    /\ job' = Begin(World, Capture, None)
    /\ UNCHANGED <<diskVars, memoryVars, boundVars, historyVars>>

\* AssetPersistence::save of what an upload completed, but for a dedup hit;
\* without a root directory the record is all.
Save(a, n) ==
    /\ Idle
    /\ a \notin DOMAIN records
    /\ IF rooted
       THEN job' = Begin(Bin(a), a, n) /\ UNCHANGED records
       ELSE records' = Remember(records, a, n) /\ UNCHANGED job
    /\ UNCHANGED <<diskVars, phase, world, rooted, boundVars, historyVars>>

\* SIGINT: the loop ends at its next pass and main saves on the way out.
Stop ==
    /\ Idle
    /\ phase' = "stopping"
    /\ job' = Begin(World, Capture, None)
    /\ UNCHANGED <<diskVars, world, records, rooted, boundVars, historyVars>>

\* The process is killed, at whatever it was.
Crash ==
    /\ phase # "down"
    /\ crashes < MaxCrashes /\ crashes' = crashes + 1 /\ UNCHANGED faults
    /\ job' = None
    /\ Ends
    /\ lapse' = (lapse \/ target[World] # Capture)
    /\ UNCHANGED <<diskVars, saved, stored, spoiled, issued>>

Replace == Open \/ Write \/ Drop \/ Rename \/ RemoveTarget \/ RenameAgain

Next ==
    \/ Start
    \/ Accept \/ Stamp
    \/ \E a \in Asset, n \in Name : Save(a, n)
    \/ Autosave \/ Stop
    \/ Replace
    \/ Crash

Spec == Init /\ [][Next]_vars

-----------------------------------------------------------------------------
(* Properties *)

\* A restarted server never gives out an id below the counters of the last
\* saved world, whatever was interrupted or failed since, and after exits that
\* saved it gives out none twice: what is in memory is everything ever issued,
\* until a crash or a failed final save forgets some of it (main.cpp 1171-1212,
\* 1509-1526). Excepted are a file it could not read, and the faults the
\* replacement cannot mask: bytes lost in fclose, and a target removed for a
\* rename that then does not happen either.
CountersGoOn ==
    phase # "down" =>
        /\ saved # None =>
              (\A k \in Counter : world[k] >= saved.next[k]) \/ World \in spoiled
        /\ ~lapse => world = issued

AssetSpoiled(a) == {Bin(a), Meta(a)} \cap spoiled # {}

\* An asset the server holds under a root directory is on disk whole, under
\* the same name: what it tells the uploaders it has, the next process has.
HeldIsOnDisk ==
    rooted => \A a \in DOMAIN records :
        \/ target[Bin(a)] = a /\ target[Meta(a)] = records[a]
        \/ AssetSpoiled(a)

\* An asset once stored is found by every later start, whatever later uploads
\* of the same bytes were cut short.
StoredIsFound ==
    [][phase = "down" /\ rooted' =>
          \A a \in stored : a \in DOMAIN records' \/ AssetSpoiled(a)']_vars

\* Both ways an asset is kept: from a process to the disk, and from the disk to
\* the next process (writeToDisk 317-348, scanRootDir 350-429).
AssetsAreKept == []HeldIsOnDisk /\ StoredIsFound

\* Saving implements a store that replaces every file in one step: a crash at
\* any point leaves the old value or the new one.
Whole(c) == IF c \in {Absent, Torn, Cut} THEN None ELSE c
Store == INSTANCE StableStore WITH
    Names <- File, Values <- Asset \cup Name \cup Snapshot, Nothing <- None,
    kept <- [f \in File |-> Whole(target[f])],
    wanted <- IF job = None THEN None ELSE [name |-> job.file, value |-> job.value, hit |-> job.hit]
ReplacesWhole == Store!StSpec
=============================================================================
