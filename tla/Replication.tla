----------------------------- MODULE Replication -----------------------------
(****************************************************************************)
(* What a client makes of the messages the server of CollabServer sends it  *)
(* (lab/skinned_test/main.cpp, drainNetInbox and drainNetReliableInbox).    *)
(*                                                                          *)
(* Every reliable message travels on a QUIC stream of its own, so it        *)
(* arrives once and in no particular order; a snapshot travels in a         *)
(* datagram, which may be lost or late. A step of the client applies one    *)
(* message: its two inboxes keep the order of arrival, which is arbitrary   *)
(* already. The replica is followed for the clients in Observer, for as     *)
(* long as their connection is up.                                          *)
(****************************************************************************)
EXTENDS CollabServer

CONSTANT Observer    \* the clients whose replica is followed

ASSUME ObserverAssumption == Observer \subseteq ClientId

VARIABLES
    wire,      \* reliable messages on their way, per observer
    dgrams,    \* snapshot datagrams on their way, per observer
    welcome,   \* observers that were told who they are
    replica    \* m_netEntities, per observer

clientSideVars == <<wire, dgrams, welcome, replica>>
allVars == <<vars, clientSideVars>>

\* struct ClientEntity, as operator[] of the map makes it of an unknown id.
\* prevState and lastDecodeWallSec only drive smoothing.
NewEntity ==
    [owner |-> 0, pose |-> Fresh, side |-> [s \in Sidecars |-> Fresh],
     lastTick |-> 0, haveData |-> FALSE]

RInit ==
    /\ Init
    /\ wire    = [c \in Observer |-> {}]
    /\ dgrams  = [c \in Observer |-> {}]
    /\ welcome = {}
    /\ replica = [c \in Observer |-> [e \in {} |-> NewEntity]]

-----------------------------------------------------------------------------
(* The network *)

Reliable(msgs) == {m \in msgs : m.kind # "Snapshot"}
Datagrams(msgs) == {m \in msgs : m.kind = "Snapshot"}

\* A step of the server: what it sends is on its way, and a connection that
\* shuts down delivers nothing more.
ServerStep ==
    /\ Next
    /\ wire' = [c \in Observer |->
          IF conn'[c] = "connected" THEN wire[c] \cup Reliable(out'[c]) ELSE {}]
    /\ dgrams' = [c \in Observer |->
          IF conn'[c] = "connected" THEN dgrams[c] \cup Datagrams(out'[c]) ELSE {}]
    /\ UNCHANGED <<welcome, replica>>

Lose(c) ==
    /\ \E m \in dgrams[c] : dgrams' = [dgrams EXCEPT ![c] = @ \ {m}]
    /\ UNCHANGED <<vars, wire, welcome, replica>>

-----------------------------------------------------------------------------
(* The replica *)

Entry(c, e) == IF e \in DOMAIN replica[c] THEN replica[c][e] ELSE NewEntity

Put(c, e, ent) ==
    replica' = [replica EXCEPT ![c] =
        [x \in DOMAIN @ \cup {e} |-> IF x = e THEN ent ELSE @[x]]]

Drop(c, e) ==
    replica' = [replica EXCEPT ![c] = [x \in DOMAIN @ \ {e} |-> @[x]]]

\* Mutant: an entry made by an early snapshot is not refreshed.
SpawnedIfNew(c, m) ==
    IF m.entity \in DOMAIN replica[c]
      THEN UNCHANGED replica
      ELSE Put(c, m.entity,
               [NewEntity EXCEPT !.owner = m.owner, !.pose = m.pose, !.haveData = TRUE])

\* Create or refresh; sidecars and lastTick stay what they were.
Spawned(c, m) ==
    Put(c, m.entity,
        [Entry(c, m.entity) EXCEPT !.owner = m.owner, !.pose = m.pose, !.haveData = TRUE])

\* Mutant: NetTransform edits are merged into the pose as well.
EditedPose(c, m) ==
    IF m.entity \notin DOMAIN replica[c] THEN UNCHANGED replica
    ELSE IF m.type = "NetTransform"
      THEN replica' = [replica EXCEPT ![c][m.entity].pose = Merge(@, m.patch)]
      ELSE replica' = [replica EXCEPT ![c][m.entity].side[m.type] = Merge(@, m.patch)]

\* A sidecar edit merges into a known entity; a NetTransform edit is left to
\* the snapshots.
Edited(c, m) ==
    IF m.type \in Sidecars /\ m.entity \in DOMAIN replica[c]
      THEN replica' = [replica EXCEPT ![c][m.entity].side[m.type] = Merge(@, m.patch)]
      ELSE UNCHANGED replica

Deliver(c) ==
    \E m \in wire[c] :
        /\ wire' = [wire EXCEPT ![c] = @ \ {m}]
        /\ CASE m.kind = "Spawn"    -> Spawned(c, m)
             [] m.kind = "Despawn"  -> Drop(c, m.entity)
             [] m.kind = "SetField" -> Edited(c, m)
             [] OTHER               -> UNCHANGED replica
        /\ welcome' = IF m.kind = "Welcome" THEN welcome \cup {c} ELSE welcome
        /\ UNCHANGED <<vars, dgrams>>

\* The monotonic tick filter, per entity.
Stale(c, m) ==
    LET ent == Entry(c, m.entity) IN ent.haveData /\ m.tick <= ent.lastTick

DeliverDatagram(c) ==
    \E m \in dgrams[c] :
        /\ dgrams' = [dgrams EXCEPT ![c] = @ \ {m}]
        /\ IF Stale(c, m)
             THEN UNCHANGED replica
             ELSE Put(c, m.entity, [Entry(c, m.entity) EXCEPT
                        !.pose = m.pose, !.lastTick = m.tick, !.haveData = TRUE])
        /\ UNCHANGED <<vars, wire, welcome>>

ClientStep == \E c \in Observer : Deliver(c) \/ DeliverDatagram(c) \/ Lose(c)

RNext == ServerStep \/ ClientStep
RSpec == RInit /\ [][RNext]_allVars
-----------------------------------------------------------------------------
(* Properties *)

\* Once everything sent to a synced client has arrived, in whatever order, it
\* knows the cube and the avatar of every synced client, and who owns them.
ReplicaComplete ==
    \A c \in Observer : Listening(c) /\ wire[c] = {} =>
        \A e \in {CubeId} \cup {avatar[d] : d \in {x \in clients : stage[x] = "synced"}} :
            /\ e \in DOMAIN replica[c]
            /\ replica[c][e].owner = ents[e].owner

\* A client never shows an avatar where its owner never put it: a pose is
\* taken whole from the server, never merged from edits that arrive out of
\* order.
PoseWasReal ==
    \A c \in Observer : \A e \in DOMAIN replica[c] \ {CubeId} :
        \/ replica[c][e].pose = Fresh
        \/ \E i \in DOMAIN undoLog :
              undoLog[i].entity = e /\ undoLog[i].after = replica[c][e].pose
=============================================================================
