----------------------------- MODULE Thumbnails -----------------------------
(****************************************************************************)
(* AssetBrowser and ThumbnailCache: what the browser found on disk, and the *)
(* pictures baked of the textures it lists. A version of a file stands for  *)
(* its content and its modification time; 0 is no file. A picture is a file *)
(* beside its asset and shows the version that was loaded to bake it.       *)
(*                                                                          *)
(* Left out: a mesh, whose picture is of the application's own mesh; the    *)
(* import settings; touch(), which nobody calls; a watcher's rescan, which  *)
(* the application attaches and never polls.                                *)
(****************************************************************************)
EXTENDS Integers, Sequences, FiniteSets, SequencesExt

CONSTANTS
    Texture,     \* textures under the browser's root
    Version,     \* versions of a file, 0 when there is none
    Budget       \* pictures that fit into the cache, 0 for no limit

ASSUME ThumbnailsAssumption == Version \subseteq Nat /\ 0 \in Version /\ Budget \in Nat

VARIABLES
    files,       \* texture -> version on disk
    listed,      \* texture -> version in the browser
    entries,     \* the cache: texture -> modification time it was baked for
    lru,         \* textures of the cache, the most recently used first
    pictures,    \* texture -> version the picture file shows
    baking,      \* the version loaded for the bake under way
    raced        \* textures that changed while they were baked

thumbnailVars == <<files, listed, entries, lru, pictures, baking, raced>>

NoBake == [texture |-> "none", version |-> 0]

ThumbnailsInit ==
    /\ files \in [Texture -> {0, 1}] /\ listed = files
    /\ entries = [t \in {} |-> 0] /\ lru = <<>>
    /\ pictures = [t \in Texture |-> 0] /\ baking = NoBake /\ raced = {}

\* Somebody writes, restores or removes a file.
Edit(t, v) ==
    /\ v # files[t]
    /\ files' = [files EXCEPT ![t] = v]
    /\ UNCHANGED <<listed, entries, lru, pictures, baking, raced>>

\* What remains when the entries of `gone` are evicted with their pictures.
Evict(gone, known, order, shown) ==
    /\ entries' = [t \in DOMAIN known \ gone |-> known[t]]
    /\ lru' = SelectSeq(order, LAMBDA t : t \notin gone)
    /\ pictures' = [t \in Texture |-> IF t \in gone THEN 0 ELSE shown[t]]

StaleAgainst(current) ==
    {t \in DOMAIN entries : current[t] = 0 \/ current[t] # entries[t]}

Rescan ==
    /\ listed' = files
    /\ Evict(StaleAgainst(files), entries, lru, pictures)
    /\ UNCHANGED <<files, baking, raced>>

InvalidateStale ==
    /\ Evict(StaleAgainst(listed), entries, lru, pictures)
    /\ UNCHANGED <<files, listed, baking, raced>>

ClearCache ==
    /\ Evict(DOMAIN entries, entries, lru, pictures)
    /\ UNCHANGED <<files, listed, baking, raced>>

\* The file is loaded; one that is not there ends the bake.
Load(t) ==
    /\ baking' = IF files[t] = 0 THEN NoBake ELSE [texture |-> t, version |-> files[t]]
    /\ UNCHANGED <<files, listed, entries, lru, pictures, raced>>

\* Mutant: the time the browser listed stands in for that of the file.
ListedTime(t) == listed[t]
SourceTime(t) == files[t]

OverBudget(order) == IF Budget = 0 THEN {} ELSE Range(SubSeq(order, Budget + 1, Len(order)))

\* markBaked: the time is read after the picture is written; the least recently
\* baked make room.
Mark ==
    LET t     == baking.texture
        known == [u \in DOMAIN entries \cup {t} |-> IF u = t THEN SourceTime(t) ELSE entries[u]]
        order == <<t>> \o SelectSeq(lru, LAMBDA u : u # t)
    IN  /\ Evict(OverBudget(order), known, order, [pictures EXCEPT ![t] = baking.version])
        /\ raced' = IF files[t] = baking.version THEN raced \ {t} ELSE raced \cup {t}
        /\ baking' = NoBake
        /\ UNCHANGED <<files, listed>>

\* The staging memory or the picture file cannot be had: nothing is marked.
GiveUp == baking' = NoBake /\ UNCHANGED <<files, listed, entries, lru, pictures, raced>>

\* isValid, as the panel asks it.
Valid(t) == t \in DOMAIN entries /\ entries[t] = listed[t] /\ pictures[t] # 0

\* What the panel calls valid shows the version the browser lists, whatever was
\* edited, restored, rescanned or evicted since, unless the file changed while it
\* was baked (markBaked 67-95, isValid 97-108, invalidateStale 183-214).
ThumbnailsAreTrue == \A t \in Texture \ raced : Valid(t) => pictures[t] = listed[t]
=============================================================================
