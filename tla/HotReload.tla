----------------------------- MODULE HotReload ------------------------------
(****************************************************************************)
(* What the engine reloads while it runs: AssetWatcher polls the time stamp *)
(* of the files, Config parses its file again, DLLLoader replaces the       *)
(* plugins. Everything runs on the main thread; EngineLoop says when. The   *)
(* files are written by somebody else at any time.                          *)
(*                                                                          *)
(* A file is the number of write steps it has seen, which is its time stamp *)
(* too: while it is odd the file is half written. Its version is its half.  *)
(* A system's state is a name: its own, or Fresh before it has one; what it *)
(* serializes is its own. A plugin is the sequence of systems its library   *)
(* creates. Bound: MaxWrites.                                               *)
(****************************************************************************)
EXTENDS Naturals, Sequences, SequencesExt

CONSTANTS
    MaxWrites,  \* of each file
    ThrottleInterval,  \* frames between two checks of the files
    Build       \* the systems of a version: name, priority, current interface

ASSUME BuildAssumption ==
    /\ MaxWrites \in Nat /\ ThrottleInterval \in Nat
    /\ \A v \in 0 .. MaxWrites : Build[v] \in Seq([name : STRING, priority : Nat,
                                                   current : BOOLEAN])

VARIABLES
    disk,      \* the two files
    entries,   \* AssetWatcher::m_entries: the stamp last seen
    counter,   \* AssetWatcher::m_counter
    config,    \* Config: what it holds, the stamp it was read at
    plugin,    \* DLLLoader: m_pendingReload, and the version it has loaded
    systems,   \* the systems that run, in order: name and state
    saved,     \* what unloadSystems returned
    \* history
    outcome,   \* of the last load: "kept" when every reload so far had the
               \* systems of the load before, "mixed" when one had others,
               \* "half" when the file was not whole, "refused"
    missed     \* the configuration changed before it was watched

filesVars == <<disk, entries, counter, config, plugin, systems, saved, outcome, missed>>

File     == {"config", "plugin"}
None     == 99   \* no stamp, no version
Defaults == 98   \* the configuration of loadDefaults
Fresh    == "fresh"

Half(f)    == disk[f] % 2 = 1
Version(f) == disk[f] \div 2

FilesInit ==
    /\ disk \in [File -> 0 .. 1]
    /\ entries = [f \in File |-> None]
    /\ config = [data |-> Defaults, stamp |-> None]
    /\ plugin = [pending |-> FALSE, version |-> None]
    /\ systems = <<>> /\ saved = <<>>
    /\ outcome = "kept" /\ missed = FALSE /\ counter = 0

-----------------------------------------------------------------------------
(* The writer of a file: it starts over, and it is done. *)

Write(f) ==
    /\ disk[f] < 2 * MaxWrites
    /\ disk' = [disk EXCEPT ![f] = @ + 1]
    /\ missed' = (missed \/ (f = "config" /\ config.data # Defaults /\ entries[f] = None))
    /\ UNCHANGED <<entries, counter, config, plugin, systems, saved, outcome>>

-----------------------------------------------------------------------------
(* Config *)

\* loadFromFile parses, and then asks for the time stamp; what does not parse
\* is not watched either.
ParseConfig ==
    /\ config' = [config EXCEPT !.data = IF Half("config") THEN Defaults ELSE Version("config")]
    /\ UNCHANGED <<disk, entries, counter, plugin, systems, saved, outcome, missed>>

StampConfig ==
    /\ config' = [config EXCEPT !.stamp = IF config.data = Defaults THEN None ELSE disk["config"]]
    /\ UNCHANGED <<disk, entries, counter, plugin, systems, saved, outcome, missed>>

\* checkReload, for a stamp that is not the last one: a file that does not
\* parse leaves everything as it was.
Reparse(stamp) ==
    /\ config' = IF Half("config") THEN config
                 ELSE [data |-> Version("config"), stamp |-> stamp]
    /\ UNCHANGED <<disk, entries, counter, plugin, systems, saved, outcome, missed>>

-----------------------------------------------------------------------------
(* AssetWatcher *)

\* watch takes the stamp of now for seen. enableAutoReload only calls it for a
\* configuration that was read; a library found beside the program is watched
\* under a path where there is none, and no change is ever seen.
Watch(f) ==
    /\ \/ f = "config" /\ config.stamp = None /\ UNCHANGED entries
       \/ f = "plugin" /\ UNCHANGED entries
       \/ /\ f = "config" => config.stamp # None
          /\ entries' = [entries EXCEPT ![f] = disk[f]]
    /\ UNCHANGED <<disk, counter, config, plugin, systems, saved, outcome, missed>>

\* checkAll only looks once in ThrottleInterval frames.
Due == counter + 1 >= ThrottleInterval
CheckAll ==
    /\ counter' = IF Due THEN 0 ELSE counter + 1
    /\ UNCHANGED <<disk, entries, config, plugin, systems, saved, outcome, missed>>

ChangedCoarsely(f) == entries[f] # None /\ (disk[f] + 1) \div 2 # (entries[f] + 1) \div 2
Changed(f) == entries[f] # None /\ disk[f] # entries[f]

\* forceCheck, for one entry. The plugin's callback notes the change; the
\* configuration's is Reparse.
Notice(f) ==
    /\ entries' = [entries EXCEPT ![f] = disk[f]]
    /\ plugin' = [plugin EXCEPT !.pending = @ \/ (f = "plugin")]
    /\ missed' = (missed /\ f = "plugin")
    /\ UNCHANGED <<disk, counter, config, systems, saved, outcome>>

-----------------------------------------------------------------------------
(* DLLLoader *)

\* unloadSystems; what is serialized are the states, names are kept for the
\* history only.
Unload ==
    /\ saved' = [i \in DOMAIN systems |->
                    [name |-> systems[i].name,
                     state |-> IF systems[i].state = Fresh THEN systems[i].name
                               ELSE systems[i].state]]
    /\ systems' = <<>>
    /\ plugin' = [pending |-> FALSE, version |-> None]
    /\ UNCHANGED <<disk, entries, counter, config, outcome, missed>>

\* The systems a version creates, without the rejected, in order of priority.
Accepted(v) ==
    SortSeq(SelectSeq(Build[v], LAMBDA s : s.current),
            LAMBDA a, b : a.priority < b.priority)

InOrder(places) == SetToSortSeq(places, LAMBDA i, j : i < j)

\* Each system that inits gets the state at its place among the accepted.
Restored(accepted, inits) ==
    LET place == InOrder(inits) IN
    [k \in DOMAIN place |->
        [name  |-> accepted[place[k]].name,
         state |-> IF place[k] \in DOMAIN saved THEN saved[place[k]].state ELSE Fresh]]
RestoredInTurn(accepted, inits) ==
    LET place == InOrder(inits) IN
    [k \in DOMAIN place |->
        [name  |-> accepted[place[k]].name,
         state |-> IF k \in DOMAIN saved THEN saved[k].state ELSE Fresh]]
Systems(accepted, inits) == Restored(accepted, inits)

Names(s) == [i \in DOMAIN s |-> s[i].name]

\* loadSystems: the shadow copy or LoadLibrary fails, the context is not fully
\* wired (the library stays loaded), or the systems that init run.
LoadFails ==
    /\ systems' = <<>> /\ saved' = <<>>
    /\ outcome' = IF Half("plugin") THEN "half" ELSE "refused"
    /\ \/ UNCHANGED plugin
       \/ ~Half("plugin") /\ plugin' = [plugin EXCEPT !.version = Version("plugin")]
    /\ UNCHANGED <<disk, entries, counter, config, missed>>

Load ==
    /\ ~Half("plugin")
    /\ LET accepted == Accepted(Version("plugin")) IN
       /\ plugin' = [plugin EXCEPT !.version = Version("plugin")]
       /\ \E inits \in SUBSET (DOMAIN accepted) : systems' = Systems(accepted, inits)
       /\ outcome' = IF saved = <<>> \/ (outcome = "kept" /\ Names(saved) = Names(accepted))
                     THEN "kept" ELSE "mixed"
    /\ saved' = <<>>
    /\ UNCHANGED <<disk, entries, counter, config, missed>>

\* shutdown, which does nothing without a library.
Shutdown ==
    /\ plugin' = [plugin EXCEPT !.version = None]
    /\ systems' = IF plugin.version = None THEN systems ELSE <<>>
    /\ UNCHANGED <<disk, entries, counter, config, saved, outcome, missed>>

\* AssetWatcher::clear
Forget ==
    /\ entries' = [f \in File |-> None] /\ counter' = 0
    /\ UNCHANGED <<disk, config, plugin, systems, saved, outcome, missed>>

-----------------------------------------------------------------------------
\* As long as every reload finds the systems that ran before it, no system
\* gets the state of another, although some may fail to init
\* (DLLLoader.cpp 101-109, 175-203: the states are matched by position).
OwnStates ==
    outcome = "kept" => \A i \in DOMAIN systems : systems[i].state \in {Fresh, systems[i].name}
=============================================================================
