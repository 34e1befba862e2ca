-------------------------------- MODULE Wire --------------------------------
(****************************************************************************)
(* Two builds of the program talk: one greets the other with the table of   *)
(* its types, and sends snapshots, edits and the other messages, and saves  *)
(* its world. Bytes arrive as they were sent or cut short, which is what a  *)
(* file is that was not written to its end; a payload may be cut inside a   *)
(* frame that is whole.                                                     *)
(*                                                                          *)
(* Bound: MaxSends messages beside the greeting.                            *)
(****************************************************************************)
EXTENDS Codec

CONSTANTS
    Builds,         \* [here, there]: the registries of the sender and the
                    \* receiver, from the hash of a type to its meta
    Sample(_, _),   \* an instance of a meta, one for each of SampleIds
    SampleIds,
    Messages,       \* [layout, values, payload]: the other messages
    Worlds,         \* [counters, entities]
    MaxSends

\* The types of a build by their hashes, words all of them.
IsRegistry(r) == DOMAIN r \subseteq 0 .. Most(Word) /\ r \in [DOMAIN r -> Metas]

-----------------------------------------------------------------------------
(* Frames: a tag, numbers of fixed sizes, and a length before what follows, *)
(* in units. A hash of content is one byte.                                 *)

SnapshotLayout == [tag |-> 1, sizes |-> <<Word, Word, Word>>, length |-> Half, unit |-> 1]
SchemaLayout   == [tag |-> 2, sizes |-> <<Word>>, length |-> Half, unit |-> Word + Half]
EditLayout     == [tag |-> 3, sizes |-> <<1, Long, Word, 1, Word, Word, Long>>,
                   length |-> Half, unit |-> 1]
WelcomeLayout  == [tag |-> 4, sizes |-> <<Word, 1, Word>>, length |-> 0, unit |-> 1]
AnnounceLayout == [tag |-> 5, sizes |-> <<1, Word, 1>>, length |-> Half, unit |-> 1]
ChunkLayout    == [tag |-> 6, sizes |-> <<1, Word, Word>>, length |-> Word, unit |-> 1]
AckLayout      == [tag |-> 7, sizes |-> <<1, 1>>, length |-> 0, unit |-> 1]

\* The bytes before the number after the n-th.
Before(l, n) ==
    LET before[k \in 0 .. n] == IF k = 0 THEN 1 ELSE before[k - 1] + l.sizes[k]
    IN  before[n]
HeaderSize(l) == Before(l, Len(l.sizes)) + l.length

\* A chunk's index is below their number, unless there are none.
Sensible(l, values) == l.tag = ChunkLayout.tag => values[3] = 0 \/ values[2] < values[3]

EncodeFrame(l, values, payload) ==
    IF Len(payload) > l.unit * Most(l.length) \/ ~Sensible(l, values) THEN Refused
    ELSE <<l.tag>> \o FlattenSeq([i \in DOMAIN values |-> LE(values[i], l.sizes[i])])
                   \o LE(Len(payload) \div l.unit, l.length) \o payload

\* What is not a scope is a Spectator's; what is not HaveIt is NeedChunks.
Understood(l, i, v) ==
    CASE l.tag = EditLayout.tag /\ i = 4 /\ v > 3 -> 0
      [] l.tag = AckLayout.tag /\ i = 2 /\ v # 1  -> 2
      [] OTHER -> v

Values(l, b) == [i \in DOMAIN l.sizes |->
                    Understood(l, i, At(b, Before(l, i - 1) + 1, l.sizes[i]))]

PayloadSize(l, b) == l.unit * At(b, Before(l, Len(l.sizes)) + 1, l.length)
Fits(l, b)        == HeaderSize(l) + PayloadSize(l, b) <= Len(b)

ParseFrame(l, b) ==
    IF Len(b) < HeaderSize(l) \/ b[1] # l.tag \/ ~Fits(l, b) \/ ~Sensible(l, Values(l, b))
    THEN Refused
    ELSE [values  |-> Values(l, b),
          payload |-> SubSeq(b, HeaderSize(l) + 1, HeaderSize(l) + PayloadSize(l, b))]

-----------------------------------------------------------------------------
(* The greeting *)

\* In the order of the hashes.
Ranked(hashes, i) == CHOOSE h \in hashes : Cardinality({g \in hashes : g < h}) = i - 1

SchemaTable(registry) ==
    LET entry(h) == LE(h, Word) \o LE(registry[h].version, Half)
    IN  FlattenSeq([i \in 1 .. Cardinality(DOMAIN registry) |-> entry(Ranked(DOMAIN registry, i))])

Hash(table, i)    == At(table, (Word + Half) * (i - 1) + 1, Word)
Version(table, i) == At(table, (Word + Half) * (i - 1) + Word + 1, Half)

Drifted(registry, table) ==
    \E i \in 1 .. Len(table) \div (Word + Half) :
        Hash(table, i) \in DOMAIN registry
        /\ registry[Hash(table, i)].version # Version(table, i)

Unknown(registry, table) ==
    \E i \in 1 .. Len(table) \div (Word + Half) : Hash(table, i) \notin DOMAIN registry

\* Mutant: what is unknown comes first.
UnknownFirst(registry, table) ==
    IF Unknown(registry, table) THEN "ServerHasUnknown"
    ELSE IF Drifted(registry, table) THEN "Mismatch" ELSE "Ok"

\* What drifted comes before what is unknown.
CompareSchemas(registry, table) ==
    IF Drifted(registry, table) THEN "Mismatch"
    ELSE IF Unknown(registry, table) THEN "ServerHasUnknown" ELSE "Ok"

-----------------------------------------------------------------------------
(* The world file. Its magic is a byte, authority one too.                  *)

Magic == 9
WorldVersion == 1

\* Labels and payloads that their lengths can tell.
Entities ==
    {e \in [id : 0 .. Most(Word), authority : Byte, owner : 0 .. Most(Word),
            type : 0 .. Most(Word), label : Seq(Nat), payload : Seq(Nat)] :
        Len(e.label) <= Most(Half) /\ Len(e.payload) <= Most(Word)}

EncodeEntity(e) ==
    LE(e.id, Word) \o <<e.authority>> \o LE(e.owner, Word) \o LE(e.type, Word)
    \o LE(Len(e.label), Half) \o e.label \o LE(Len(e.payload), Word) \o e.payload

IsWorld(w) ==
    /\ w \in [counters : (0 .. Most(Word)) \X (0 .. Most(Word)) \X (0 .. Most(Long)),
              entities : Seq(Entities)]
    /\ Len(w.entities) <= Most(Word)

EncodeWorld(w) ==
    <<Magic>> \o LE(WorldVersion, Word) \o LE(Len(w.entities), Word)
    \o LE(w.counters[1], Word) \o LE(w.counters[2], Word) \o LE(w.counters[3], Long)
    \o FlattenSeq([i \in DOMAIN w.entities |-> EncodeEntity(w.entities[i])])

ReadEntity(b, at) ==
    LET fixed == 3 * Word + 1
        label == ReadFixed(b, at + fixed, Half)
        size  == ReadFixed(b, label.next + label.value, Word)
    IN  IF label = Refused \/ size = Refused \/ size.next + size.value - 1 > Len(b)
        THEN Refused
        ELSE [entity |-> [id        |-> At(b, at, Word),
                          authority |-> b[at + Word],
                          owner     |-> At(b, at + Word + 1, Word),
                          type      |-> At(b, at + 2 * Word + 1, Word),
                          label     |-> SubSeq(b, label.next, label.next + label.value - 1),
                          payload   |-> SubSeq(b, size.next, size.next + size.value - 1)],
              next   |-> size.next + size.value]

WorldHeader == 1 + 4 * Word + Long

\* An entity that is cut short or of an unknown type: nothing is loaded.
Aborts(got)     == [got EXCEPT !.ok = FALSE]
KeepsRest(got)  == got
Malformed(got)  == Aborts(got)

LoadNext(registry, b, got) ==
    LET read == ReadEntity(b, got.next) IN
    IF ~got.ok THEN got
    ELSE IF read = Refused \/ read.entity.type \notin DOMAIN registry THEN Malformed(got)
    ELSE [got EXCEPT !.entities = Append(@, read.entity), !.next = read.next]

LoadEntities(registry, b, count) ==
    LET got[i \in 0 .. count] ==
            IF i = 0 THEN [ok |-> TRUE, entities |-> <<>>, next |-> WorldHeader + 1]
            ELSE LoadNext(registry, b, got[i - 1])
    IN  got[count]

DecodeWorld(registry, b) ==
    LET got == LoadEntities(registry, b, At(b, Word + 2, Word)) IN
    IF Len(b) < WorldHeader \/ b[1] # Magic \/ At(b, 2, Word) # WorldVersion \/ ~got.ok
    THEN Refused
    ELSE [counters |-> <<At(b, 2 * Word + 2, Word), At(b, 3 * Word + 2, Word),
                         At(b, 4 * Word + 2, Long)>>,
          entities |-> got.entities]

-----------------------------------------------------------------------------
(* What the instances of this module have to be. *)

\* Types of one version are one type: the version is a hash of the fields. It
\* leaves the step of a quantized field out, which is assumed not to change.
ASSUME BuildsAssumption ==
    \A bd \in Builds :
        /\ IsRegistry(bd.here) /\ IsRegistry(bd.there)
        /\ \A t \in DOMAIN bd.here \cap DOMAIN bd.there :
              bd.here[t].version = bd.there[t].version => bd.here[t] = bd.there[t]
        /\ \A t \in DOMAIN bd.here, k \in SampleIds : Instance(bd.here[t], Sample(bd.here[t], k))
        /\ \A t \in DOMAIN bd.there : Instance(bd.there[t], Sample(bd.there[t], 1))

ASSUME MessagesAssumption ==
    /\ \A m \in Messages :
        /\ m.layout \in {WelcomeLayout, AnnounceLayout, ChunkLayout, AckLayout}
        /\ m.payload \in Seq(Nat)
        /\ m.values \in Seq(Nat) /\ Len(m.values) = Len(m.layout.sizes)
        /\ \A i \in DOMAIN m.values : /\ m.values[i] <= Most(m.layout.sizes[i])
                                     /\ Understood(m.layout, i, m.values[i]) = m.values[i]
    /\ \A w \in Worlds : IsWorld(w)
    /\ MaxSends \in Nat /\ MaxSends <= Most(Word) + 1   \* they are numbered from 0

VARIABLES
    build,     \* of the sender and the receiver
    link,      \* what the receiver made of the greeting
    receiver,  \* the receiver's components, one of each type it knows
    wire,      \* the message under way: what was said and its bytes
    sends,
    \* history
    meant,     \* what the components would be had fields travelled as such
    heard      \* the last message, and what the receiver read

vars == <<build, link, receiver, wire, sends, meant, heard>>

Nothing == [kind |-> "nothing"]

Init ==
    /\ build \in Builds
    /\ link = "none" /\ wire = Nothing /\ sends = 0 /\ heard = Nothing
    /\ receiver = [t \in DOMAIN build.there |-> Sample(build.there[t], 1)]
    /\ meant = receiver

Says(kind, l, values, payload, more) ==
    LET bytes == EncodeFrame(l, values, payload) IN
    /\ wire = Nothing /\ bytes # Refused
    /\ wire' = [kind |-> kind, layout |-> l, said |-> [values |-> values, payload |-> payload],
                more |-> more, bytes |-> bytes]
    /\ UNCHANGED <<build, link, receiver, meant, heard>>

\* buildSchemaHandshakePreamble
Greet ==
    /\ link = "none" /\ UNCHANGED sends
    /\ Says("schema", SchemaLayout, <<1>>, SchemaTable(build.here), Nothing)

\* Every message has a stream of its own: it may come before the greeting, or
\* be under way when a receiver that drifted hangs up.
Sends == sends < MaxSends /\ sends' = sends + 1

\* A snapshot has all the fields of a component, an edit those of its mask.
\* All of the payload is sent, or the first n bytes.
Send(t, k, mask) ==
    LET m       == build.here[t]
        payload == EncodeSnapshot(m, Sample(m, k), mask)
    IN  /\ Sends
        /\ \E n \in 0 .. Len(payload) :
            LET more == [type |-> t, mask |-> mask, instance |-> Sample(m, k),
                         whole |-> n = Len(payload)]
                sent == SubSeq(payload, 1, n)
            IN  \/ /\ mask = DOMAIN m.fields
                   /\ Says("component", SnapshotLayout, <<sends, 1, t>>, sent, more)
                \/ Says("component", EditLayout, <<0, sends, 1, 2, 1, t, 5>>, sent, more)

Tell(m) == Sends /\ Says("other", m.layout, m.values, m.payload, Nothing)

Save(w) ==
    /\ Sends /\ wire = Nothing
    /\ wire' = [kind |-> "world", said |-> w, bytes |-> EncodeWorld(w)]
    /\ UNCHANGED <<build, link, receiver, meant, heard>>

Hears(bytes, got) ==
    /\ heard' = [of |-> wire, bytes |-> bytes, got |-> got]
    /\ wire' = Nothing

HearGreeting(bytes) ==
    LET got == ParseFrame(SchemaLayout, bytes) IN
    /\ wire.kind = "schema" /\ Hears(bytes, got)
    /\ link' = IF got = Refused THEN "Mismatch" ELSE CompareSchemas(build.there, got.payload)
    /\ UNCHANGED <<build, receiver, meant, sends>>

\* Every receiver decodes into a copy of what it has, and keeps it when all of
\* it could be read.
Copied(old, decoded)  == IF decoded.ok THEN decoded.instance ELSE old
InPlace(old, decoded) == decoded.instance
Kept(old, decoded) == Copied(old, decoded)

HearComponent(bytes) ==
    LET got == ParseFrame(wire.layout, bytes)
        t   == wire.more.type
    IN
    /\ wire.kind = "component" /\ Hears(bytes, got)
    /\ receiver' = IF got = Refused \/ t \notin DOMAIN build.there THEN receiver
                   ELSE [receiver EXCEPT ![t] =
                            Kept(@, DecodeSnapshot(build.there[t], @, got.payload))]
    /\ meant' = IF \/ bytes # wire.bytes \/ ~wire.more.whole \/ t \notin DOMAIN build.there
                   \/ build.there[t] # build.here[t]
                THEN meant ELSE [meant EXCEPT ![t] = [i \in DOMAIN @ |->
                         IF i \in wire.more.mask THEN wire.more.instance[i] ELSE @[i]]]
    /\ UNCHANGED <<build, link, sends>>

HearOther(bytes) ==
    /\ wire.kind = "other" /\ Hears(bytes, ParseFrame(wire.layout, bytes))
    /\ UNCHANGED <<build, link, receiver, meant, sends>>

LoadWorld(bytes) ==
    /\ wire.kind = "world" /\ Hears(bytes, DecodeWorld(build.there, bytes))
    /\ UNCHANGED <<build, link, receiver, meant, sends>>

Hear ==
    /\ wire # Nothing
    /\ \E n \in 0 .. Len(wire.bytes) : LET b == SubSeq(wire.bytes, 1, n) IN
          HearGreeting(b) \/ HearComponent(b) \/ HearOther(b) \/ LoadWorld(b)

Next ==
    \/ Greet \/ Hear
    \/ \E t \in DOMAIN build.here, k \in SampleIds :
          \E mask \in SUBSET DOMAIN build.here[t].fields : Send(t, k, mask)
    \/ \E m \in Messages : Tell(m)
    \/ \E w \in Worlds : Save(w)

Spec == Init /\ [][Next]_vars

-----------------------------------------------------------------------------
\* A component is what its fields were sent to be, whatever their masks and
\* widths, a quantized one to half a step; what arrives cut short, or from a
\* build whose type has drifted, changes nothing of it (ReplicationRegistry.cpp
\* 697-817, main.cpp of the server 640-810: payloads are decoded into a copy).
AllOrNothing ==
    \A t \in DOMAIN receiver : \A i \in DOMAIN receiver[t] :
        LET field == build.there[t].fields[i] IN
        IF field.kind = "quantized"
        THEN 2 * (receiver[t][i] - meant[t][i]) \in -field.step .. field.step
        ELSE receiver[t][i] = meant[t][i]

\* What is read of a whole message or world file is what was written, and a
\* part of one is refused: a world file that was torn is never taken for a
\* smaller world (ReplicationProtocol.cpp, WorldPersistence.cpp 177-248). And
\* what is read of a greeting is whether the builds agree: those that go on
\* agree on every type they share (ReplicationProtocol.cpp 337-372).
ReadAsWritten ==
    /\ heard # Nothing =>
        LET sent  == heard.of
            known == sent.kind = "world" =>
                        \A i \in DOMAIN sent.said.entities :
                            sent.said.entities[i].type \in DOMAIN build.there
        IN  heard.got = (IF heard.bytes = sent.bytes /\ known THEN sent.said ELSE Refused)
    /\ link \in {"Ok", "ServerHasUnknown"} =>
        \A t \in DOMAIN build.here \cap DOMAIN build.there : build.here[t] = build.there[t]

\* Components and messages both come across as they were meant or not at all
\* (ReplicationRegistry.cpp 697-817, ReplicationProtocol.cpp 337-372).
WireIsFaithful == AllOrNothing /\ ReadAsWritten
=============================================================================
