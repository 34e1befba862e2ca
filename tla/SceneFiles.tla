----------------------------- MODULE SceneFiles -----------------------------
(****************************************************************************)
(* Scene state files: a game registers its migrations, loads the file,      *)
(* brings it up to its version within the declared ranges, plays and saves. *)
(* It may be killed at any time, in the middle of a save too: the file is   *)
(* written in place. Releases come and go, older ones after newer ones.     *)
(*                                                                          *)
(* A document holds sections of keys and values, those of anchor, weather   *)
(* and biome in groups; the format of a document is the version its content *)
(* really has. Migration n, the game's own, is right for content of format  *)
(* n and spoils any other. Anchor, weather and biome are the sections a     *)
(* game registers with serializeAnchor and the like. A number comes back as *)
(* it was written, and the value of a property that is off is of no use.    *)
(*                                                                          *)
(* Bound: edits happen to change one value at a time, to one of Value.      *)
(****************************************************************************)
EXTENDS Integers, Sequences, FiniteSets, SequencesExt

CONSTANTS
    Release,     \* versions a game may have
    Ranged,      \* post-process fields: name -> [min, max, default]
    Anchor,      \* fields of an anchor: <<group, key>> -> default
    Weather,     \* properties a weather may override: <<group, key>>
    Biome,       \* and those a biome may
    TransitionTime,  \* the transition time of an override that says nothing else
    Value,
    Off,         \* the value of a property that is not enabled
    OldFile      \* what may lie there first: documents

ASSUME SceneAssumption ==
    /\ Release \subseteq Nat \ {0} /\ Value \subseteq Int /\ Off \notin Value
    /\ Anchor = [p \in DOMAIN Anchor |-> Anchor[p]]
    /\ \A p \in DOMAIN Anchor \cup Weather \cup Biome : p = <<p[1], p[2]>>
    /\ \A f \in DOMAIN Ranged :
          /\ Ranged[f] \in [min: Int, max: Int, default: Int]
          /\ Ranged[f].default \in Ranged[f].min .. Ranged[f].max
    /\ \A d \in OldFile :
          /\ d = [version |-> d.version, format |-> d.format, root |-> d.root]
          /\ d.version \in Nat \ {0} /\ d.format = d.version
          /\ "postprocess" \in DOMAIN d.root =>
                \A f \in DOMAIN d.root.postprocess : d.root.postprocess[f] \in Int

VARIABLES
    game,        \* its release, where it is, its migrations in the order kept
    scene,       \* what it plays with: sections of values
    file,        \* the document on disk, Missing or Torn
    backups,     \* the .v<N>.bak files: N and the format of what they hold
    written      \* history: the scene that was last saved whole, if any

sceneVars == <<game, scene, file, backups, written>>

Missing == [version |-> 0, format |-> 0, root |-> <<>>]
Torn == [version |-> -1, format |-> -1, root |-> <<>>]
Stopped == [release |-> 0, at |-> "stopped", migrations |-> <<>>]

NoOverride(properties) == [time |-> TransitionTime, value |-> [p \in properties |-> Off]]
DefaultScene ==
    [postprocess |-> [f \in DOMAIN Ranged |-> Ranged[f].default],
     anchor |-> Anchor, weather |-> NoOverride(Weather), biome |-> NoOverride(Biome)]

SceneInit ==
    /\ game = Stopped /\ scene = DefaultScene
    /\ file \in OldFile \cup {Missing} /\ backups = {} /\ written = {}

-----------------------------------------------------------------------------
(* Sections in and out of a document *)

ReadOr(section, default) ==
    [k \in DOMAIN default |-> IF k \in DOMAIN section THEN section[k] ELSE default[k]]

\* Values by <<group, key>> as an object of objects, and back. A group with
\* nothing in it is not written.
Grouped(values) ==
    [g \in {p[1] : p \in DOMAIN values} |->
        [k \in {p[2] : p \in {q \in DOMAIN values : q[1] = g}} |-> values[<<g, k>>]]]
ReadGroups(section, default) ==
    [p \in DOMAIN default |->
        IF p[1] \in DOMAIN section /\ p[2] \in DOMAIN section[p[1]]
          THEN section[p[1]][p[2]] ELSE default[p]]

SerializeAnchor(a) == Grouped(a)
DeserializeAnchor(section) == ReadGroups(section, Anchor)

\* Only what is enabled is written, and the time always.
\* Mutant: what is to be nothing is not written.
PutTrue(w) == [p \in {q \in DOMAIN w : w[q] \notin {Off, 0}} |-> w[p]]
Put(w) == [p \in {q \in DOMAIN w : w[q] # Off} |-> w[p]]
Get(section, properties) == ReadGroups(section, [p \in properties |-> Off])

SerializeOverride(w) == [transitionTime |-> w.time, groups |-> Grouped(Put(w.value))]
DeserializeOverride(section, properties) ==
    [time  |-> IF "transitionTime" \in DOMAIN section THEN section.transitionTime ELSE TransitionTime,
     value |-> Get(section.groups, properties)]

SerializeWeather(w) == SerializeOverride(w)
DeserializeWeather(section) == DeserializeOverride(section, Weather)
SerializeBiome(b) == SerializeOverride(b)
DeserializeBiome(section) == DeserializeOverride(section, Biome)

\* Mutant: the biome is written with the time of the weather.
SerializeMixed(s, version) ==
    [version |-> version, format |-> version,
     root |-> [postprocess |-> s.postprocess, anchor |-> SerializeAnchor(s.anchor),
               weather |-> SerializeWeather(s.weather),
               biome |-> SerializeBiome([s.biome EXCEPT !.time = s.weather.time])]]
SerializeAll(s, version) ==
    [version |-> version, format |-> version,
     root |-> [postprocess |-> s.postprocess, anchor |-> SerializeAnchor(s.anchor),
               weather |-> SerializeWeather(s.weather), biome |-> SerializeBiome(s.biome)]]

\* A section that is not there leaves what the game has.
DeserializeAll(root, s) ==
    [postprocess |-> IF "postprocess" \in DOMAIN root
                       THEN ReadOr(root.postprocess, s.postprocess) ELSE s.postprocess,
     anchor  |-> IF "anchor" \in DOMAIN root THEN DeserializeAnchor(root.anchor) ELSE s.anchor,
     weather |-> IF "weather" \in DOMAIN root THEN DeserializeWeather(root.weather) ELSE s.weather,
     biome   |-> IF "biome" \in DOMAIN root THEN DeserializeBiome(root.biome) ELSE s.biome]

-----------------------------------------------------------------------------
(* Migration and ranges *)

Clamp(f, x) ==
    IF x < Ranged[f].min THEN Ranged[f].min
    ELSE IF x > Ranged[f].max THEN Ranged[f].max ELSE x

\* A missing field gets its default when its section is there.
ValidateRanges(root) ==
    IF "postprocess" \notin DOMAIN root THEN root
    ELSE LET had == root.postprocess IN
         [root EXCEPT !.postprocess = [f \in DOMAIN Ranged |->
             IF f \in DOMAIN had THEN Clamp(f, had[f]) ELSE Ranged[f].default]]

Migrated(doc, n) ==
    [doc EXCEPT !.version = @ + 1, !.format = IF @ = n THEN n + 1 ELSE 0]

\* A backup goes before a migration that applies.
MigrateFrom(pass, n) ==
    IF pass.doc.version # n THEN pass
    ELSE [doc |-> Migrated(pass.doc, n),
          saved |-> pass.saved \cup {[version |-> n, format |-> pass.doc.format]}]

\* One pass over the registered migrations.
PassAfter(doc, migrations) ==
    LET after[n \in 0 .. Len(migrations)] ==
            IF n = 0 THEN [doc |-> doc, saved |-> {}]
            ELSE MigrateFrom(after[n - 1], migrations[n])
    IN  after
Migrate(doc, migrations) == PassAfter(doc, migrations)[Len(migrations)]

-----------------------------------------------------------------------------
(* A game from start to end *)

Launch(r) ==
    /\ game.at = "stopped"
    /\ game' = [release |-> r, at |-> "registering", migrations |-> <<>>]
    /\ UNCHANGED <<scene, file, backups, written>>

\* Mutant: a migration stays where it was registered.
Unsorted(migrations) == {migrations}
Sorted(migrations) ==
    {s \in SetToSeqs(ToSet(migrations)) : \A i \in 1 .. Len(s) - 1 : s[i] <= s[i + 1]}

RegisterMigration(n) ==
    /\ game.at = "registering" /\ n \in 1 .. game.release - 1
    /\ n \notin {game.migrations[i] : i \in DOMAIN game.migrations}
    /\ \E s \in Sorted(Append(game.migrations, n)) : game' = [game EXCEPT !.migrations = s]
    /\ UNCHANGED <<scene, file, backups, written>>

\* A file that is missing or does not parse gives a null document: the game
\* starts from its defaults.
LoadScene ==
    /\ game.at = "registering" /\ Len(game.migrations) = game.release - 1
    /\ game' = [game EXCEPT !.at = "loaded"]
    /\ IF file \in {Missing, Torn} THEN UNCHANGED <<scene, backups>>
       ELSE LET pass == Migrate(file, game.migrations)
            IN  /\ scene' = DeserializeAll(ValidateRanges(pass.doc.root), DefaultScene)
                /\ backups' = {b \in backups : b.version \notin {d.version : d \in pass.saved}}
                                 \cup pass.saved
    /\ UNCHANGED <<file, written>>

Change ==
    /\ game.at \in {"loaded", "playing"}
    /\ \/ \E f \in DOMAIN Ranged, x \in Value : scene' = [scene EXCEPT !.postprocess[f] = x]
       \/ \E f \in DOMAIN Anchor, x \in Value : scene' = [scene EXCEPT !.anchor[f] = x]
       \/ \E p \in Weather, x \in Value \cup {Off} : scene' = [scene EXCEPT !.weather.value[p] = x]
       \/ \E p \in Biome, x \in Value \cup {Off} : scene' = [scene EXCEPT !.biome.value[p] = x]
       \/ \E x \in Value : \/ scene' = [scene EXCEPT !.weather.time = x]
                          \/ scene' = [scene EXCEPT !.biome.time = x]
    /\ game' = [game EXCEPT !.at = "playing"]
    /\ UNCHANGED <<file, backups, written>>

\* The stream truncates the file when it opens it. One that does not open
\* changes nothing.
OpenForSave ==
    /\ game.at \in {"loaded", "playing"}
    /\ game' = [game EXCEPT !.at = "saving"] /\ file' = Torn
    /\ UNCHANGED <<scene, backups, written>>

WriteScene ==
    /\ game.at = "saving"
    /\ game' = [game EXCEPT !.at = "playing"]
    /\ file' = SerializeAll(scene, game.release) /\ written' = {scene}
    /\ UNCHANGED <<scene, backups>>

\* Nobody looks whether the stream took it all: the game goes on.
WriteFails ==
    /\ game.at = "saving"
    /\ game' = [game EXCEPT !.at = "playing"]
    /\ UNCHANGED <<scene, file, backups, written>>

\* Stopped by its user or killed: what it registered goes with it.
Stop ==
    /\ game.at # "stopped"
    /\ game' = Stopped /\ scene' = DefaultScene
    /\ UNCHANGED <<file, backups, written>>

SceneNext ==
    \/ \E r \in Release : Launch(r) \/ RegisterMigration(r)
    \/ LoadScene \/ Change \/ OpenForSave \/ WriteScene \/ WriteFails \/ Stop

-----------------------------------------------------------------------------
(* Properties *)

\* What a game starts with is the scene that was last saved whole, every field in its
\* own group, overrides on where they were on and nowhere else, with its post-process
\* values brought within their ranges, whichever release saved it; only a save that
\* was cut short loses it. Of any file, old ones too, the values are within their
\* ranges, and its content has gone through every migration to the game's version, in
\* order and once each, in whatever order they were registered; every backup holds
\* what its name says (serializeAll, deserializeAll 61-82, saveToFile 86-105,
\* loadFromFile 107-122, migrateAndValidate 124-148).
ScenesReturn ==
    /\ game.at = "loaded" /\ file # Torn =>
         \A s \in written :
            scene = [s EXCEPT !.postprocess = [f \in DOMAIN Ranged |-> Clamp(f, s.postprocess[f])]]
    /\ game.at = "loaded" =>
         \A f \in DOMAIN Ranged : scene.postprocess[f] \in Ranged[f].min .. Ranged[f].max
    /\ game.at = "loaded" /\ file \notin {Missing, Torn} =>
         Migrate(file, game.migrations).doc.format >= game.release
    /\ \A b \in backups : b.format = b.version
=============================================================================
