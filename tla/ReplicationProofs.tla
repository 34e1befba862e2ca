------------------------- MODULE ReplicationProofs --------------------------
(****************************************************************************)
(* Theorems about CollabServer, for every number of clients, every set of   *)
(* fields, values and requests, and every bound: its types, who owns what   *)
(* (AvatarPerClient, HistoryIsOwn), what the clients have been told of the  *)
(* world (JoinComplete, DepartureTold), where an avatar may stand           *)
(* (PoseComesFromOwner, PoseIsLatestApplied), and that the server           *)
(* implements SharedWorld. Of all the steps of the server only five kinds   *)
(* matter to the poses of the avatars and the history; WorldStep sorts      *)
(* every step into one of them, and the poses are then a matter of the      *)
(* kinds.                                                                   *)
(*                                                                          *)
(* Then about Replication, for every number of observers and messages on    *)
(* their way in whatever order: a replica is complete once the reliable     *)
(* messages have arrived (ReplicaComplete), and shows avatars only where    *)
(* they really stood (PoseWasReal).                                         *)
(****************************************************************************)
EXTENDS Replication, FiniteSetTheorems, SequenceTheorems, TLAPS

-----------------------------------------------------------------------------
(* Operators *)

\* A partial write gives a component again, and touches only dirty fields.
LEMMA MergeType ==
    ASSUME NEW state \in Component, NEW patch \in Patch
    PROVE  Merge(state, patch) \in Component
<1>1. PICK F \in SUBSET Fields : patch \in [F -> Values]
  BY DEF Patch
<1>2. \A f \in Fields : (IF f \in DOMAIN patch THEN patch[f] ELSE state[f]) \in Values
  BY <1>1 DEF Component
<1> QED
  BY <1>2 DEF Merge, Component

\* A fresh component is one.
LEMMA FreshType == Fresh \in Component
  BY ValuesAssumption DEF Fresh, Component

\* Marking keeps the length of the log, and every entry but for its flag.
LEMMA SetUndoneKeeps ==
    ASSUME NEW S, NEW log \in Seq(UndoEntry(S)), NEW t, NEW flag \in BOOLEAN
    PROVE  /\ SetUndone(log, t, flag) \in Seq(UndoEntry(S))
           /\ DOMAIN SetUndone(log, t, flag) = DOMAIN log
           /\ \A i \in DOMAIN log :
                 LET new == SetUndone(log, t, flag)[i]
                 IN  /\ new.txId = log[i].txId
                     /\ new.client = log[i].client
                     /\ new.entity = log[i].entity
                     /\ new.before = log[i].before
                     /\ new.after = log[i].after
<1> DEFINE new == SetUndone(log, t, flag)
<1>1. \A i \in DOMAIN log : log[i] \in UndoEntry(S)
  <2> log \in Seq(UndoEntry(S))
    OBVIOUS
  <2> QED
    BY ElementOfSeq, SMT
<1>2. DOMAIN new = DOMAIN log
  BY DEF SetUndone
<1>3. \A i \in DOMAIN log : new[i] = log[i] \/ new[i] = [log[i] EXCEPT !.undone = flag]
  BY DEF SetUndone
<1>4. \A i \in DOMAIN log : new[i] \in UndoEntry(S)
  BY <1>1, <1>3 DEF UndoEntry
<1>5. new \in Seq(UndoEntry(S))
  <2>1. Len(log) \in Nat /\ DOMAIN log = 1..Len(log)
    BY LenProperties
  <2>2. new = [i \in 1..Len(log) |-> new[i]]
    BY <1>2, <2>1 DEF SetUndone
  <2> HIDE DEF new
  <2> QED
    BY <1>2, <1>4, <2>1, <2>2, IsASeq
<1>6. \A i \in DOMAIN log :
         /\ new[i].txId = log[i].txId /\ new[i].client = log[i].client
         /\ new[i].entity = log[i].entity /\ new[i].before = log[i].before
         /\ new[i].after = log[i].after
  BY <1>1, <1>3 DEF UndoEntry
<1> QED
  BY <1>2, <1>5, <1>6

\* What a step sends and what it makes known keep their types.
LEMMA SendType ==
    ASSUME TypeOK, NEW msgs \in [ClientId -> SUBSET Message], Send(msgs)
    PROVE  out' \in [ClientId -> SUBSET Message] /\ told' \in [ClientId -> SUBSET Nat]
<1>1. \A m \in Message : Introduces(m) \/ m.kind = "Despawn" => m.entity \in Nat
  BY DEF Message, Introduces
<1>2. ASSUME NEW c \in ClientId
      PROVE  (told[c] \cup {m.entity : m \in {n \in msgs[c] : Introduces(n)}})
                \ {m.entity : m \in {n \in msgs[c] : n.kind = "Despawn"}} \in SUBSET Nat
  BY <1>1 DEF TypeOK
<1> QED
  BY <1>2 DEF Send

LEMMA SilentType ==
    ASSUME TypeOK, Silent
    PROVE  out' \in [ClientId -> SUBSET Message] /\ told' \in [ClientId -> SUBSET Nat]
  BY DEF TypeOK, Silent, NoMessages

LEMMA SendToType ==
    ASSUME TypeOK, NEW c \in ClientId, NEW S \in SUBSET Message, SendTo(c, S)
    PROVE  out' \in [ClientId -> SUBSET Message] /\ told' \in [ClientId -> SUBSET Nat]
<1>1. [NoMessages EXCEPT ![c] = S] \in [ClientId -> SUBSET Message]
  BY DEF NoMessages
<1> QED
  BY <1>1, SendType DEF SendTo

LEMMA BroadcastType ==
    ASSUME TypeOK, NEW m \in Message, Broadcast(m)
    PROVE  out' \in [ClientId -> SUBSET Message] /\ told' \in [ClientId -> SUBSET Nat]
<1>1. [c \in ClientId |-> IF c \in Audience THEN {m} ELSE {}] \in [ClientId -> SUBSET Message]
  OBVIOUS
<1> QED
  BY <1>1, SendType DEF Broadcast

\* A Spawn of an entity in the map is a message.
LEMMA SpawnType ==
    ASSUME TypeOK, NEW e \in DOMAIN ents, NEW tx \in Nat
    PROVE  SpawnTx(e, tx) \in Message
  BY DEF TypeOK, SpawnTx, Message, Entity

\* A set with an avatar more or less stays finite, and its size is a number.
LEMMA RankType ==
    ASSUME TypeOK
    PROVE  /\ Cardinality(DOMAIN ents) \in Nat
           /\ \A e \in DOMAIN ents : Rank(e) \in Nat
<1>1. IsFiniteSet(DOMAIN ents)
  BY DEF TypeOK
<1>2. \A e \in DOMAIN ents : {x \in DOMAIN ents : x < e} \subseteq DOMAIN ents
  OBVIOUS
<1> QED
  BY <1>1, <1>2, FS_CardinalityType, FS_Subset DEF Rank

-----------------------------------------------------------------------------
(* Types *)

LEMMA TypeInit == Init => TypeOK
<1> SUFFICES ASSUME Init PROVE TypeOK
  OBVIOUS
<1>1. DOMAIN ents = {CubeId} /\ IsFiniteSet(DOMAIN ents)
  BY FS_Singleton DEF Init
<1>2. [s \in Sidecars |-> Fresh] \in [Sidecars -> Component]
  BY FreshType
<1>3. \A e \in DOMAIN ents : ents[e] \in Entity
  BY <1>2, FreshType DEF Init, Entity, Server
<1>4. out \in [ClientId -> SUBSET Message] /\ told \in [ClientId -> SUBSET Nat]
  BY DEF Init, NoMessages
<1>5. DOMAIN ents \subseteq Nat
  BY <1>1 DEF CubeId
<1>6. undoLog \in Seq(UndoEntry(Component)) /\ batch \in Seq(Requests)
  BY DEF Init
<1>7. inbox \in [ClientId -> Seq(Requests)]
  BY DEF Init
<1> QED
  BY <1>1, <1>3, <1>4, <1>5, <1>6, <1>7 DEF Init, TypeOK, Stages, Phases, FirstAvatarId

\* The entity map with one pose or one sidecar overwritten is still one.
LEMMA PoseWriteType ==
    ASSUME TypeOK, NEW e \in DOMAIN ents, NEW pose \in Component,
           ents' = [ents EXCEPT ![e].pose = pose]
    PROVE  /\ DOMAIN ents' = DOMAIN ents
           /\ \A x \in DOMAIN ents' : ents'[x] \in Entity
  BY DEF TypeOK, Entity

LEMMA SideWriteType ==
    ASSUME TypeOK, NEW e \in DOMAIN ents, NEW s \in Sidecars, NEW patch \in Patch,
           ents' = [ents EXCEPT ![e].side[s] = Merge(@, patch)]
    PROVE  /\ DOMAIN ents' = DOMAIN ents
           /\ \A x \in DOMAIN ents' : ents'[x] \in Entity
<1>1. ents[e] \in Entity /\ ents[e].side \in [Sidecars -> Component]
  BY DEF TypeOK, Entity
<1>2. Merge(ents[e].side[s], patch) \in Component
  BY <1>1, MergeType
<1>3. [ents[e].side EXCEPT ![s] = Merge(ents[e].side[s], patch)] \in [Sidecars -> Component]
  BY <1>1, <1>2
<1>4. DOMAIN ents' = DOMAIN ents
  OBVIOUS
<1>5. ents'[e] = [ents[e] EXCEPT !.side = [ents[e].side EXCEPT ![s] = Merge(ents[e].side[s], patch)]]
  OBVIOUS
<1>6. ents'[e] \in Entity
  BY <1>1, <1>3, <1>5 DEF Entity
<1>7. \A x \in DOMAIN ents : x # e => ents'[x] = ents[x]
  OBVIOUS
<1> QED
  BY <1>4, <1>6, <1>7 DEF TypeOK

\* The request being applied, and who it is from.
LEMMA HeadType ==
    ASSUME TypeOK, batch # <<>>
    PROVE  /\ Head(batch) \in Request /\ Tail(batch) \in Seq(Requests)
           /\ serving \in clients /\ serving \in ClientId /\ phase = "drain"
<1>1. batch \in Seq(Requests) /\ serving \in clients /\ clients \subseteq ClientId /\ phase = "drain"
  BY DEF TypeOK
<1>2. Head(batch) \in Requests /\ Tail(batch) \in Seq(Requests)
  BY <1>1
<1> QED
  BY <1>1, <1>2, RequestsAssumption

\* What applying one request does to the world, as far as types go.
LEMMA ApplyType ==
    ASSUME TypeOK, batch # <<>>, NEW r, r = Head(batch),
           Decorate(r) \/ Reparent(r) \/ Move(r) \/ Undo(r) \/ Redo(r) \/ Reject(r)
    PROVE  /\ DOMAIN ents' = DOMAIN ents
           /\ \A x \in DOMAIN ents' : ents'[x] \in Entity
           /\ nextTxId' \in Nat
           /\ undoLog' \in Seq(UndoEntry(Component))
           /\ out' \in [ClientId -> SUBSET Message] /\ told' \in [ClientId -> SUBSET Nat]
           /\ redid' \subseteq ClientId
<1>1. r \in Request /\ serving \in ClientId /\ nextTxId \in Nat /\ redid \subseteq ClientId
      /\ undoLog \in Seq(UndoEntry(Component))
  BY HeadType DEF TypeOK
<1>2. r.patch \in Patch /\ r.entity \in Nat /\ r.type \in STRING
  BY <1>1 DEF Request
<1>3. r.kind = "SetField" => SetFieldTx(r) \in Message
  BY <1>1, <1>2 DEF SetFieldTx, Message
<1>4. \A i \in DOMAIN undoLog : undoLog[i] \in UndoEntry(Component)
  BY <1>1, ElementOfSeq, SMT
<1>5. \A i \in DOMAIN undoLog, k \in {"Undo", "Redo"} :
         [kind |-> k, txId |-> nextTxId + 1, origin |-> serving,
          entity |-> undoLog[i].entity, target |-> undoLog[i].txId] \in Message
  BY <1>1, <1>4 DEF Message, UndoEntry
<1>6. CASE Decorate(r) \/ Reparent(r)
  <2>1. SetSidecar(r) /\ r.kind = "SetField" /\ r.entity \in DOMAIN ents /\ r.type \in Sidecars
    BY <1>6 DEF Decorate, Reparent, CanDecorate, CanReparent, SetsField, Sidecars
  <2>2. DOMAIN ents' = DOMAIN ents /\ \A x \in DOMAIN ents' : ents'[x] \in Entity
    BY <1>2, <2>1, SideWriteType DEF SetSidecar
  <2>3. out' \in [ClientId -> SUBSET Message] /\ told' \in [ClientId -> SUBSET Nat]
    BY <1>3, <2>1, BroadcastType DEF SetSidecar
  <2> QED
    BY <1>1, <2>1, <2>2, <2>3 DEF SetSidecar
<1>7. CASE Move(r)
  <2> DEFINE before == ents[r.entity].pose
             after == Merge(before, r.patch)
             entry == [txId |-> nextTxId, client |-> serving, entity |-> r.entity,
                       before |-> before, after |-> after, undone |-> FALSE]
  <2>1. r.kind = "SetField" /\ r.entity \in DOMAIN ents
    BY <1>7 DEF Move, CanMove, SetsField
  <2>2. before \in Component /\ after \in Component
    BY <1>2, <2>1, MergeType DEF TypeOK, Entity
  <2>3. entry \in UndoEntry(Component)
    BY <1>1, <1>2, <2>2 DEF UndoEntry, ClientId
  <2>4. undoLog' = Append(undoLog, entry) /\ ents' = [ents EXCEPT ![r.entity].pose = after]
    BY <1>7 DEF Move, RecordApplied
  <2>5. undoLog' \in Seq(UndoEntry(Component))
    BY <1>1, <2>3, <2>4, AppendProperties
  <2>6. DOMAIN ents' = DOMAIN ents /\ \A x \in DOMAIN ents' : ents'[x] \in Entity
    BY <2>1, <2>2, <2>4, PoseWriteType
  <2>7. out' \in [ClientId -> SUBSET Message] /\ told' \in [ClientId -> SUBSET Nat]
    BY <1>3, <1>7, <2>1, BroadcastType DEF Move
  <2> QED
    BY <1>1, <1>7, <2>5, <2>6, <2>7 DEF Move
<1>8. ASSUME NEW i \in DOMAIN undoLog, NEW pose \in Component, NEW flag \in BOOLEAN,
             NEW k \in {"Undo", "Redo"},
             Restore(undoLog[i].entity, pose),
             undoLog' = SetUndone(undoLog, undoLog[i].txId, flag),
             Echo(k, undoLog[i])
      PROVE  /\ DOMAIN ents' = DOMAIN ents
             /\ \A x \in DOMAIN ents' : ents'[x] \in Entity
             /\ nextTxId' \in Nat
             /\ undoLog' \in Seq(UndoEntry(Component))
             /\ out' \in [ClientId -> SUBSET Message] /\ told' \in [ClientId -> SUBSET Nat]
  <2>1. DOMAIN ents' = DOMAIN ents /\ \A x \in DOMAIN ents' : ents'[x] \in Entity
    <3>1. CASE undoLog[i].entity \in DOMAIN ents
      BY <1>8, <3>1, PoseWriteType DEF Restore
    <3>2. CASE undoLog[i].entity \notin DOMAIN ents
      BY <1>8, <3>2 DEF Restore, TypeOK
    <3> QED
      BY <3>1, <3>2
  <2>2. undoLog' \in Seq(UndoEntry(Component))
    BY <1>1, <1>8, SetUndoneKeeps
  <2>3. out' \in [ClientId -> SUBSET Message] /\ told' \in [ClientId -> SUBSET Nat]
    BY <1>5, <1>8, BroadcastType DEF Echo
  <2> QED
    BY <1>1, <1>8, <2>1, <2>2, <2>3 DEF Echo
<1>9. CASE Undo(r)
  <2>1. PICK i \in DOMAIN undoLog :
           /\ Restore(undoLog[i].entity, undoLog[i].before)
           /\ undoLog' = SetUndone(undoLog, undoLog[i].txId, TRUE)
           /\ Echo("Undo", undoLog[i])
    BY <1>9 DEF Undo, MarkUndone
  <2>2. undoLog[i].before \in Component
    BY <1>4 DEF UndoEntry
  <2> QED
    BY <1>1, <1>8, <1>9, <2>1, <2>2 DEF Undo
<1>10. CASE Redo(r)
  <2>1. PICK i \in DOMAIN undoLog :
           /\ Restore(undoLog[i].entity, undoLog[i].after)
           /\ undoLog' = SetUndone(undoLog, undoLog[i].txId, FALSE)
           /\ Echo("Redo", undoLog[i])
    BY <1>10 DEF Redo, MarkRedone
  <2>2. undoLog[i].after \in Component
    BY <1>4 DEF UndoEntry
  <2> QED
    BY <1>1, <1>8, <1>10, <2>1, <2>2 DEF Redo
<1>11. CASE Reject(r)
  BY <1>1, <1>11, SilentType DEF Reject, TypeOK
<1> QED
  BY <1>6, <1>7, <1>9, <1>10, <1>11

LEMMA AcceptType == TypeOK /\ AcceptOne => TypeOK'
<1> SUFFICES ASSUME TypeOK, AcceptOne PROVE TypeOK'
  OBVIOUS
<1> USE DEF AcceptOne
<1>1. DOMAIN ents' = DOMAIN ents \cup {nextEntityId} /\ nextEntityId \in Nat
  BY DEF TypeOK
<1>2. IsFiniteSet(DOMAIN ents') /\ DOMAIN ents' \subseteq Nat
  BY <1>1, FS_AddElement DEF TypeOK
<1>3. MakeAvatar(nextClientId) \in Entity
  <2>1. [s \in Sidecars |-> Fresh] \in [Sidecars -> Component]
    BY FreshType
  <2> QED
    BY <2>1, FreshType DEF MakeAvatar, Entity, ClientId
<1>4. \A e \in DOMAIN ents' : ents'[e] \in Entity
  BY <1>1, <1>3 DEF TypeOK
<1>5. out' \in [ClientId -> SUBSET Message] /\ told' \in [ClientId -> SUBSET Nat]
  BY SilentType
<1>6. nextEntityId' \in Nat /\ nextClientId' \in Nat
  BY DEF TypeOK
<1>7. clients' \subseteq ClientId /\ todo' \subseteq clients' /\ phase' = "handshake"
  BY DEF TypeOK, Enter
<1>8. stage' \in [ClientId -> Stages]
  BY DEF TypeOK, Stages
<1>9. avatar' \in [ClientId -> Nat]
  BY DEF TypeOK
<1>10. conn' \in [ClientId -> {"none", "connecting", "connected", "shutdown"}]
  BY DEF TypeOK
<1>11. batch = <<>>
  BY DEF TypeOK
<1> QED
  BY <1>2, <1>4, <1>5, <1>6, <1>7, <1>8, <1>9, <1>10, <1>11 DEF TypeOK, Phases

LEMMA CatchUpType ==
    ASSUME TypeOK, NEW c \in ClientId, CatchUp(c)
    PROVE  TypeOK'
<1> DEFINE n == Cardinality(DOMAIN ents)
           announced == avatar[c] \in DOMAIN ents
           msgs == [d \in ClientId |->
                 IF d = c
                   THEN {SpawnTx(e, nextTxId + Rank(e)) : e \in DOMAIN ents}
                   ELSE IF d \in ShownTo(c) /\ announced
                          THEN {SpawnTx(avatar[c], nextTxId + n)} ELSE {}]
<1>1. nextTxId \in Nat /\ n \in Nat /\ \A e \in DOMAIN ents : nextTxId + Rank(e) \in Nat
  BY RankType DEF TypeOK
<1>2. \A e \in DOMAIN ents : SpawnTx(e, nextTxId + Rank(e)) \in Message
  BY <1>1, SpawnType
<1>3. announced => SpawnTx(avatar[c], nextTxId + n) \in Message
  BY <1>1, SpawnType
<1>4. msgs \in [ClientId -> SUBSET Message]
  BY <1>2, <1>3
<1>5. Send(msgs) /\ nextTxId' = nextTxId + n + (IF announced THEN 1 ELSE 0)
  BY DEF CatchUp
<1>6. out' \in [ClientId -> SUBSET Message] /\ told' \in [ClientId -> SUBSET Nat]
  BY <1>4, <1>5, SendType
<1>7. nextTxId' \in Nat
  BY <1>1, <1>5
<1>8. stage' \in [ClientId -> Stages]
  BY DEF TypeOK, CatchUp, Stages
<1>9. phase = "handshake" /\ todo' = todo \ {c}
      /\ UNCHANGED <<ents, nextEntityId, undoLog, redid, conn, inbox, received,
                     clients, dead, avatar, nextClientId, phase, serving, batch, tick>>
  BY DEF CatchUp, Greets, Visited, wireVars
<1> QED
  BY <1>6, <1>7, <1>8, <1>9 DEF TypeOK

LEMMA ReapType ==
    ASSUME TypeOK, NEW c \in ClientId, Reap(c)
    PROVE  TypeOK'
<1> USE DEF Reap, EraseAvatar, WasAnnounced
<1>1. DOMAIN ents' = DOMAIN ents \ {avatar[c]}
  OBVIOUS
<1>2. IsFiniteSet(DOMAIN ents') /\ DOMAIN ents' \subseteq Nat
  BY <1>1, FS_RemoveElement DEF TypeOK
<1>3. \A e \in DOMAIN ents' : ents'[e] \in Entity
  BY <1>1 DEF TypeOK
<1>4. /\ nextTxId' \in Nat
      /\ out' \in [ClientId -> SUBSET Message] /\ told' \in [ClientId -> SUBSET Nat]
  <2>1. CASE Welcomed(c)
    <3>1. [kind |-> "Despawn", txId |-> nextTxId, entity |-> avatar[c]] \in Message
      BY DEF TypeOK, Message
    <3> QED
      BY <2>1, <3>1, BroadcastType DEF TypeOK
  <2>2. CASE ~Welcomed(c)
    BY <2>2, SilentType DEF TypeOK
  <2> QED
    BY <2>1, <2>2
<1>5. clients' \subseteq ClientId /\ todo' \subseteq clients' /\ phase' = phase /\ phase = "reap"
  BY DEF TypeOK, Visited
<1>6. dead' \in [ClientId -> BOOLEAN]
  BY DEF TypeOK
<1>7. inbox' \in [ClientId -> Seq(Requests)]
  BY DEF TypeOK
<1>8. batch' = <<>> /\ batch' = batch
  BY DEF TypeOK, Visited
<1>9. UNCHANGED <<nextEntityId, undoLog, redid, stage, avatar, nextClientId, conn, received,
                  serving, tick>>
  BY DEF Visited
<1> QED
  BY <1>2, <1>3, <1>4, <1>5, <1>6, <1>7, <1>8, <1>9 DEF TypeOK

LEMMA TickType == TypeOK /\ TickDue => TypeOK'
<1> SUFFICES ASSUME TypeOK, TickDue PROVE TypeOK'
  OBVIOUS
<1>1. PICK pose \in Component :
         ents' = [e \in DOMAIN ents |->
                     IF e = CubeId THEN [ents[e] EXCEPT !.pose = pose] ELSE ents[e]]
  BY DEF TickDue
<1>2. DOMAIN ents' = DOMAIN ents
  BY <1>1
<1>3. \A e \in DOMAIN ents' : ents'[e] \in Entity
  BY <1>1, <1>2 DEF TypeOK, Entity
<1>4. tick' \in Nat
  BY DEF TypeOK, TickDue
<1>5. \A e \in DOMAIN ents :
         [kind |-> "Snapshot", tick |-> tick', entity |-> e, pose |-> ents'[e].pose] \in Message
  BY <1>2, <1>3, <1>4 DEF TypeOK, Message, Entity
<1> DEFINE msgs == [c \in ClientId |->
          IF c \in clients /\ ~dead[c] /\ conn[c] = "connected" /\ stage[c] = "synced"
            THEN {[kind |-> "Snapshot", tick |-> tick', entity |-> e, pose |-> ents'[e].pose]
                     : e \in DOMAIN ents}
            ELSE {}]
<1>6. msgs \in [ClientId -> SUBSET Message]
  BY <1>5
<1>7. out' \in [ClientId -> SUBSET Message] /\ told' \in [ClientId -> SUBSET Nat]
  BY <1>6, SendType DEF TickDue
<1>8. dead' \in [ClientId -> BOOLEAN]
  BY DEF TypeOK, TickDue
<1>9. phase = "tick" /\ phase' = "reap" /\ todo' = clients
      /\ UNCHANGED <<nextEntityId, nextTxId, undoLog, redid, clients, stage, avatar,
                     nextClientId, conn, inbox, received, serving, batch>>
  BY DEF TickDue, Enter, wireVars
<1> QED
  BY <1>2, <1>3, <1>4, <1>7, <1>8, <1>9 DEF TypeOK, Phases

\* The steps that send one message or none and leave the entity map alone.
LEMMA HandshakeType ==
    ASSUME TypeOK, NEW c \in ClientId, Handshake(c)
    PROVE  TypeOK'
<1> USE DEF Visited, worldVars, wireVars, clientVars
<1>1. CASE SendPreamble(c)
  <2>1. out' \in [ClientId -> SUBSET Message] /\ told' \in [ClientId -> SUBSET Nat]
    <3>1. {[kind |-> "Preamble"]} \in SUBSET Message
      BY DEF Message
    <3> QED
      BY <1>1, <3>1, SendToType DEF SendPreamble
  <2> QED
    BY <1>1, <2>1 DEF TypeOK, SendPreamble, Greets, Stages
<1>2. CASE SendWelcome(c)
  <2>1. out' \in [ClientId -> SUBSET Message] /\ told' \in [ClientId -> SUBSET Nat]
    <3>1. {[kind |-> "Welcome", client |-> c, avatar |-> avatar[c]]} \in SUBSET Message
      BY DEF Message, TypeOK
    <3> QED
      BY <1>2, <3>1, SendToType DEF SendWelcome
  <2> QED
    BY <1>2, <2>1 DEF TypeOK, SendWelcome, Greets, Stages
<1>3. CASE CatchUp(c)
  BY <1>3, CatchUpType
<1>4. CASE NoticeShutdown(c)
  BY <1>4, SilentType DEF TypeOK, NoticeShutdown
<1>5. CASE NothingToGreet(c)
  BY <1>5, SilentType DEF TypeOK, NothingToGreet
<1>6. CASE SendFails(c)
  BY <1>6, SilentType DEF TypeOK, SendFails
<1> QED
  BY <1>1, <1>2, <1>3, <1>4, <1>5, <1>6 DEF Handshake

LEMMA ApplyHeadType == TypeOK /\ ApplyHead => TypeOK'
<1> SUFFICES ASSUME TypeOK, ApplyHead PROVE TypeOK'
  OBVIOUS
<1>1. batch # <<>> /\ batch' = Tail(batch)
      /\ UNCHANGED <<nextEntityId, clients, stage, dead, avatar, nextClientId,
                     conn, inbox, received, phase, todo, serving, tick>>
  BY DEF ApplyHead, clientVars, wireVars
<1>2. \E r : /\ r = Head(batch)
             /\ Decorate(r) \/ Reparent(r) \/ Move(r) \/ Undo(r) \/ Redo(r) \/ Reject(r)
  BY DEF ApplyHead
<1>3. /\ DOMAIN ents' = DOMAIN ents
      /\ \A x \in DOMAIN ents' : ents'[x] \in Entity
      /\ nextTxId' \in Nat
      /\ undoLog' \in Seq(UndoEntry(Component))
      /\ out' \in [ClientId -> SUBSET Message] /\ told' \in [ClientId -> SUBSET Nat]
      /\ redid' \subseteq ClientId
  BY <1>1, <1>2, ApplyType
<1>4. batch' \in Seq(Requests) /\ phase' = "drain" /\ serving' \in clients'
  BY <1>1, HeadType
<1> QED
  BY <1>1, <1>3, <1>4 DEF TypeOK

LEMMA WorkersType == TypeOK /\ Workers => TypeOK'
<1> SUFFICES ASSUME TypeOK, Workers PROVE TypeOK'
  OBVIOUS
<1> USE DEF worldVars, clientVars, loopVars
<1>1. ASSUME NEW c \in ClientId, ConnectionReady(c) \/ ConnectionShutdown(c) PROVE TypeOK'
  BY <1>1, SilentType DEF TypeOK, ConnectionReady, ConnectionShutdown
<1>2. ASSUME NEW c \in ClientId, NEW r \in Requests, Receive(c, r) PROVE TypeOK'
  <2>1. inbox[c] \in Seq(Requests)
    BY DEF TypeOK
  <2>2. Append(inbox[c], r) \in Seq(Requests)
    BY <2>1
  <2>3. inbox' \in [ClientId -> Seq(Requests)]
    BY <1>2, <2>2 DEF Receive, TypeOK
  <2>4. out' \in [ClientId -> SUBSET Message] /\ told' \in [ClientId -> SUBSET Nat]
    BY <1>2, SilentType DEF Receive
  <2> QED
    BY <1>2, <2>3, <2>4 DEF Receive, TypeOK
<1> QED
  BY <1>1, <1>2 DEF Workers

\* The steps that only move the loop on.
LEMMA LoopType ==
    ASSUME TypeOK,
           \/ AcceptTimeout \/ EndHandshake \/ EndDrain \/ TickNotDue \/ EndReap
           \/ \E c \in ClientId : SwapInbox(c) \/ Keep(c)
    PROVE  TypeOK'
<1> USE DEF worldVars, clientVars, wireVars, Enter
<1>1. CASE AcceptTimeout
  BY <1>1, SilentType DEF TypeOK, AcceptTimeout, Phases
<1>2. CASE EndHandshake
  BY <1>2, SilentType DEF TypeOK, EndHandshake, Phases
<1>3. CASE EndDrain
  BY <1>3, SilentType DEF TypeOK, EndDrain, Phases
<1>4. CASE TickNotDue
  BY <1>4, SilentType DEF TypeOK, TickNotDue, Phases
<1>5. CASE EndReap
  BY <1>5, SilentType DEF TypeOK, EndReap, Phases
<1>6. ASSUME NEW c \in ClientId, SwapInbox(c) PROVE TypeOK'
  <2>1. c \in clients /\ phase = "drain" /\ phase' = phase
    BY <1>6 DEF SwapInbox, IsNext, TypeOK
  <2>2. inbox' \in [ClientId -> Seq(Requests)] /\ batch' \in Seq(Requests)
    BY <1>6 DEF SwapInbox, TypeOK
  <2>3. out' \in [ClientId -> SUBSET Message] /\ told' \in [ClientId -> SUBSET Nat]
    BY <1>6, SilentType DEF SwapInbox
  <2> QED
    BY <1>6, <2>1, <2>2, <2>3 DEF SwapInbox, TypeOK
<1>7. ASSUME NEW c \in ClientId, Keep(c) PROVE TypeOK'
  BY <1>7, SilentType DEF TypeOK, Keep, Visited
<1> QED
  BY <1>1, <1>2, <1>3, <1>4, <1>5, <1>6, <1>7

LEMMA TypeNext == TypeOK /\ [Next]_vars => TypeOK'
<1> SUFFICES ASSUME TypeOK, [Next]_vars PROVE TypeOK'
  OBVIOUS
<1>1. CASE Workers
  BY <1>1, WorkersType
<1>2. CASE AcceptOne
  BY <1>2, AcceptType
<1>3. ASSUME NEW c \in ClientId, Handshake(c) PROVE TypeOK'
  BY <1>3, HandshakeType
<1>4. CASE ApplyHead
  BY <1>4, ApplyHeadType
<1>5. CASE TickDue
  BY <1>5, TickType
<1>6. ASSUME NEW c \in ClientId, Reap(c) PROVE TypeOK'
  BY <1>6, ReapType
<1>7. CASE \/ AcceptTimeout \/ EndHandshake \/ EndDrain \/ TickNotDue \/ EndReap
           \/ \E c \in ClientId : SwapInbox(c) \/ Keep(c)
  BY <1>7, LoopType
<1>8. CASE UNCHANGED vars
  BY <1>8 DEF TypeOK, vars, worldVars, clientVars, wireVars, loopVars, sendVars
<1> QED
  BY <1>1, <1>2, <1>3, <1>4, <1>5, <1>6, <1>7, <1>8 DEF Next, MainLoop

\* Type correctness, for any number of clients and any set of requests: the
\* server's world, its client records and everything it sends keep their types
\* through every interleaving of the loop and the workers.
THEOREM TypeCorrect == Spec => []TypeOK
<1> QED
  BY TypeInit, TypeNext, PTL DEF Spec

-----------------------------------------------------------------------------
(* Who owns what *)

Issued == {c \in ClientId : c < nextClientId}

\* Ids are given out in order and never twice: this is what keeps a new avatar
\* apart from every avatar there ever was, and so from every history entry.
IdsIssued ==
    /\ nextClientId \in Nat \ {0} /\ CubeId < nextEntityId
    /\ clients \subseteq Issued
    /\ \A c \in Issued : CubeId < avatar[c] /\ avatar[c] < nextEntityId
    /\ \A c, d \in Issued : c # d => avatar[c] # avatar[d]
    /\ \A i \in DOMAIN undoLog : undoLog[i].client \in Issued

Ownership == TypeOK /\ IdsIssued /\ AvatarPerClient /\ HistoryIsOwn

\* What an entry of the history holds.
LEMMA EntryType ==
    ASSUME TypeOK
    PROVE  \A i \in DOMAIN undoLog :
              /\ undoLog[i].txId \in Nat /\ undoLog[i].client \in Nat
              /\ undoLog[i].entity \in Nat
              /\ undoLog[i].before \in Component /\ undoLog[i].after \in Component
<1>1. undoLog \in Seq(UndoEntry(Component))
  BY DEF TypeOK
<1>2. \A i \in DOMAIN undoLog : undoLog[i] \in UndoEntry(Component)
  BY <1>1, ElementOfSeq, SMT
<1> QED
  BY <1>2 DEF UndoEntry

\* An owner-gated request names its sender's own avatar.
LEMMA OwnTarget ==
    ASSUME Ownership, batch # <<>>, NEW r \in Request, SetsField(r), OwnsTarget(r)
    PROVE  r.entity = avatar[serving]
<1>1. serving \in ClientId
  BY HeadType DEF Ownership
<1>2. r.entity \in {CubeId} \cup {avatar[c] : c \in clients}
  BY DEF SetsField, Ownership, AvatarPerClient
<1>3. r.entity # CubeId
  BY <1>1 DEF OwnsTarget, Ownership, AvatarPerClient, Server, ClientId
<1> QED
  BY <1>1, <1>2, <1>3 DEF OwnsTarget, Ownership, AvatarPerClient

\* Steps that neither touch the history, nor who is there, nor who owns what.
LEMMA OwnershipKept ==
    ASSUME Ownership, TypeOK',
           UNCHANGED <<nextEntityId, nextClientId, clients, avatar, undoLog>>,
           nextTxId' >= nextTxId,
           DOMAIN ents' = DOMAIN ents,
           \A e \in DOMAIN ents : ents'[e].owner = ents[e].owner
    PROVE  Ownership'
<1>1. IdsIssued'
  BY DEF Ownership, IdsIssued, Issued
<1>2. AvatarPerClient'
  <2>1. CubeId \in DOMAIN ents /\ \A c \in clients : avatar[c] \in DOMAIN ents
    BY DEF Ownership, AvatarPerClient
  <2> QED
    BY <2>1 DEF Ownership, AvatarPerClient
<1>3. HistoryIsOwn'
  <2>1. \A i \in DOMAIN undoLog : undoLog[i].txId \in Nat
    BY EntryType DEF Ownership
  <2>2. nextTxId \in Nat /\ nextTxId' \in Nat
    BY DEF Ownership, TypeOK
  <2> QED
    BY <2>1, <2>2 DEF Ownership, HistoryIsOwn
<1> QED
  BY <1>1, <1>2, <1>3 DEF Ownership

LEMMA OwnershipInit == Init => Ownership
<1> SUFFICES ASSUME Init PROVE Ownership
  OBVIOUS
<1>1. TypeOK
  BY TypeInit
<1>2. DOMAIN undoLog = {} /\ clients = {} /\ nextClientId = 1 /\ nextEntityId = 100
  BY DEF Init, FirstAvatarId
<1>3. IdsIssued
  BY <1>2 DEF IdsIssued, Issued, CubeId, ClientId
<1>4. AvatarPerClient
  BY <1>2 DEF Init, AvatarPerClient, Server
<1>5. HistoryIsOwn
  BY <1>2 DEF HistoryIsOwn
<1> QED
  BY <1>1, <1>3, <1>4, <1>5 DEF Ownership

\* A new client gets ids that nothing in the world or the history has.
LEMMA OwnershipAccept == Ownership /\ TypeOK' /\ AcceptOne => Ownership'
<1> SUFFICES ASSUME Ownership, TypeOK', AcceptOne PROVE Ownership'
  OBVIOUS
<1> DEFINE new == nextClientId
<1>1. /\ new \in ClientId /\ new \notin Issued /\ new \notin clients
      /\ nextEntityId \in Nat /\ nextEntityId' = nextEntityId + 1
      /\ new \in Nat /\ nextClientId' = new + 1
      /\ avatar' = [avatar EXCEPT ![new] = nextEntityId] /\ avatar \in [ClientId -> Nat]
      /\ clients \subseteq ClientId /\ clients' = clients \cup {new}
      /\ undoLog' = undoLog /\ nextTxId' = nextTxId
      /\ ents' = [e \in DOMAIN ents \cup {nextEntityId} |->
                     IF e = nextEntityId THEN MakeAvatar(new) ELSE ents[e]]
  BY DEF AcceptOne, Ownership, IdsIssued, Issued, TypeOK
<1>2. Issued' = Issued \cup {new} /\ Issued \subseteq ClientId
  BY <1>1 DEF Issued, ClientId, Ownership, TypeOK
<1>3. avatar'[new] = nextEntityId /\ \A c \in ClientId : c # new => avatar'[c] = avatar[c]
  BY <1>1
<1>4. \A i \in DOMAIN undoLog : undoLog[i].client \in ClientId /\ undoLog[i].client # new
  BY <1>1 DEF Ownership, IdsIssued, Issued
<1>5. IdsIssued'
  <2>1. nextClientId' \in Nat \ {0} /\ CubeId < nextEntityId' /\ nextEntityId' = nextEntityId + 1
    BY <1>1 DEF Ownership, IdsIssued, CubeId, TypeOK
  <2>2. clients' \subseteq Issued'
    BY <1>1, <1>2 DEF Ownership, IdsIssued
  <2>3. \A c \in Issued' : CubeId < avatar'[c] /\ avatar'[c] < nextEntityId'
    BY <1>1, <1>2, <1>3, <2>1 DEF Ownership, IdsIssued, CubeId
  <2>4. \A c, d \in Issued' : c # d => avatar'[c] # avatar'[d]
    BY <1>1, <1>2, <1>3 DEF Ownership, IdsIssued
  <2>5. \A i \in DOMAIN undoLog' : undoLog'[i].client \in Issued'
    BY <1>1, <1>2, <1>4 DEF Ownership, IdsIssued
  <2> QED
    BY <2>1, <2>2, <2>3, <2>4, <2>5 DEF IdsIssued
<1>6. AvatarPerClient'
  <2>1. nextEntityId \notin DOMAIN ents /\ CubeId # nextEntityId
    BY <1>1 DEF Ownership, AvatarPerClient, IdsIssued, CubeId
  <2>2. \A c \in clients : avatar'[c] = avatar[c]
    BY <1>1, <1>3
  <2>3. DOMAIN ents' = {CubeId} \cup {avatar'[c] : c \in clients'}
    BY <1>1, <1>3, <2>2 DEF Ownership, AvatarPerClient
  <2>4. \A c \in clients' : ents'[avatar'[c]].owner = c
    BY <1>1, <1>3, <2>1, <2>2 DEF Ownership, AvatarPerClient, MakeAvatar
  <2>5. ents'[CubeId].owner = Server
    BY <1>1, <2>1 DEF Ownership, AvatarPerClient
  <2> QED
    BY <2>3, <2>4, <2>5 DEF AvatarPerClient
<1>7. HistoryIsOwn'
  BY <1>1, <1>3, <1>4 DEF Ownership, HistoryIsOwn
<1> QED
  BY <1>5, <1>6, <1>7 DEF Ownership

\* A reap takes away the avatar of the client it removes and no other.
LEMMA OwnershipReap ==
    ASSUME Ownership, TypeOK', NEW c \in ClientId, Reap(c)
    PROVE  Ownership'
<1> USE DEF Reap, EraseAvatar, WasAnnounced
<1>1. c \in clients /\ clients' = clients \ {c} /\ clients \subseteq ClientId
      /\ UNCHANGED <<nextEntityId, undoLog, avatar, nextClientId>>
  BY DEF IsNext, Ownership, TypeOK
<1>2. IdsIssued'
  BY <1>1 DEF Ownership, IdsIssued, Issued
<1>3. AvatarPerClient'
  <2>1. \A d \in clients' : avatar[d] # avatar[c] /\ avatar[d] \in DOMAIN ents /\ avatar[c] # CubeId
    BY <1>1 DEF Ownership, AvatarPerClient, IdsIssued, CubeId
  <2>2. avatar[c] # CubeId /\ CubeId \in DOMAIN ents
    BY <1>1 DEF Ownership, AvatarPerClient, IdsIssued, CubeId
  <2>3. DOMAIN ents' = {CubeId} \cup {avatar[d] : d \in clients'}
    BY <1>1, <2>1, <2>2 DEF Ownership, AvatarPerClient
  <2> QED
    BY <1>1, <2>1, <2>2, <2>3 DEF Ownership, AvatarPerClient
<1>4. nextTxId' \in Nat /\ nextTxId \in Nat /\ nextTxId' >= nextTxId
  BY DEF Ownership, TypeOK
<1>5. \A i \in DOMAIN undoLog : undoLog[i].txId \in Nat
  BY EntryType DEF Ownership
<1>6. HistoryIsOwn'
  BY <1>1, <1>4, <1>5 DEF Ownership, HistoryIsOwn
<1> QED
  BY <1>2, <1>3, <1>6 DEF Ownership

\* The writes of a request leave every entity in place and in the same hands.
LEMMA PoseWriteKeeps ==
    ASSUME TypeOK, NEW e, NEW pose,
           e \in DOMAIN ents, ents' = [ents EXCEPT ![e].pose = pose]
    PROVE  /\ DOMAIN ents' = DOMAIN ents
           /\ \A x \in DOMAIN ents : ents'[x].owner = ents[x].owner
           /\ ents'[e].pose = pose
           /\ \A x \in DOMAIN ents : x # e => ents'[x] = ents[x]
  BY DEF TypeOK, Entity

LEMMA SideWriteKeeps ==
    ASSUME TypeOK, NEW r, SetSidecar(r), r.entity \in DOMAIN ents
    PROVE  /\ DOMAIN ents' = DOMAIN ents
           /\ \A x \in DOMAIN ents : /\ ents'[x].owner = ents[x].owner
                                     /\ ents'[x].pose = ents[x].pose
<1>1. \A x \in DOMAIN ents : ents[x] \in Entity
  BY DEF TypeOK
<1>2. ents' = [ents EXCEPT ![r.entity] = [ents[r.entity] EXCEPT !.side =
                  [ents[r.entity].side EXCEPT ![r.type] = Merge(@, r.patch)]]]
  BY DEF SetSidecar
<1> QED
  BY <1>1, <1>2 DEF Entity

LEMMA RestoreKeeps ==
    ASSUME TypeOK, NEW e, NEW pose, Restore(e, pose)
    PROVE  /\ DOMAIN ents' = DOMAIN ents
           /\ \A x \in DOMAIN ents : ents'[x].owner = ents[x].owner
           /\ e \in DOMAIN ents => ents'[e].pose = pose
           /\ \A x \in DOMAIN ents : x # e => ents'[x] = ents[x]
<1>1. CASE e \in DOMAIN ents
  BY <1>1, PoseWriteKeeps DEF Restore
<1>2. CASE e \notin DOMAIN ents
  BY <1>2 DEF Restore
<1> QED
  BY <1>1, <1>2

\* Setting a flag of the history changes neither its authors, entities, txIds
\* nor its poses.
LEMMA SetUndoneHistory ==
    ASSUME TypeOK, NEW t, NEW flag \in BOOLEAN, undoLog' = SetUndone(undoLog, t, flag)
    PROVE  /\ DOMAIN undoLog' = DOMAIN undoLog
           /\ \A i \in DOMAIN undoLog :
                 /\ undoLog'[i].txId = undoLog[i].txId
                 /\ undoLog'[i].client = undoLog[i].client
                 /\ undoLog'[i].entity = undoLog[i].entity
                 /\ undoLog'[i].before = undoLog[i].before
                 /\ undoLog'[i].after = undoLog[i].after
<1>1. undoLog \in Seq(UndoEntry(Component))
  BY DEF TypeOK
<1> QED
  BY <1>1, SetUndoneKeeps

LEMMA OwnershipApply ==
    ASSUME Ownership, TypeOK', batch # <<>>, NEW r, r = Head(batch),
           UNCHANGED <<nextEntityId, nextClientId, clients, avatar>>,
           Decorate(r) \/ Reparent(r) \/ Move(r) \/ Undo(r) \/ Redo(r) \/ Reject(r)
    PROVE  Ownership'
<1>1. TypeOK /\ nextTxId \in Nat /\ r \in Request /\ serving \in clients /\ serving \in ClientId
  BY HeadType DEF Ownership, TypeOK
<1>2. CASE Decorate(r) \/ Reparent(r)
  <2>1. SetSidecar(r) /\ r.entity \in DOMAIN ents
    BY <1>2 DEF Decorate, Reparent, CanDecorate, CanReparent, SetsField
  <2>2. undoLog' = undoLog /\ nextTxId' = nextTxId + 1
    BY <2>1 DEF SetSidecar
  <2> QED
    BY <1>1, <2>1, <2>2, SideWriteKeeps, OwnershipKept
<1>3. CASE Reject(r)
  BY <1>1, <1>3, OwnershipKept DEF Reject
<1>4. CASE Move(r)
  <2> DEFINE after == Merge(ents[r.entity].pose, r.patch)
             entry == [txId |-> nextTxId, client |-> serving, entity |-> r.entity,
                       before |-> ents[r.entity].pose, after |-> after, undone |-> FALSE]
  <2>1. SetsField(r) /\ OwnsTarget(r) /\ r.entity \in DOMAIN ents
    BY <1>4 DEF Move, CanMove, SetsField
  <2>2. undoLog' = Append(undoLog, entry) /\ ents' = [ents EXCEPT ![r.entity].pose = after]
        /\ nextTxId' = nextTxId + 1
    BY <1>4 DEF Move, RecordApplied
  <2>3. r.entity = avatar[serving]
    BY <1>1, <2>1, OwnTarget
  <2>4. DOMAIN ents' = DOMAIN ents /\ \A x \in DOMAIN ents : ents'[x].owner = ents[x].owner
    BY <1>1, <2>1, <2>2, PoseWriteKeeps
  <2> HIDE DEF after
  <2>5. /\ DOMAIN undoLog = 1..Len(undoLog) /\ Len(undoLog) \in Nat
        /\ DOMAIN undoLog' = 1..(Len(undoLog) + 1)
        /\ \A i \in DOMAIN undoLog : undoLog'[i] = undoLog[i]
        /\ undoLog'[Len(undoLog) + 1] = entry
    <3>1. undoLog \in Seq(UndoEntry(Component))
      BY <1>1 DEF TypeOK
    <3> QED
      BY <2>2, <3>1
  <2>6. \A i \in DOMAIN undoLog' : i \in DOMAIN undoLog \/ i = Len(undoLog) + 1
    BY <2>5
  <2>7. IdsIssued'
    <3>1. \A i \in DOMAIN undoLog' : undoLog'[i].client \in Issued
      BY <1>1, <2>5, <2>6 DEF Ownership, IdsIssued
    <3>2. Issued' = Issued
      BY DEF Issued
    <3> QED
      BY <3>1, <3>2 DEF Ownership, IdsIssued
  <2>8. AvatarPerClient'
    <3>1. CubeId \in DOMAIN ents /\ \A c \in clients : avatar[c] \in DOMAIN ents
      BY DEF Ownership, AvatarPerClient
    <3> QED
      BY <2>4, <3>1 DEF Ownership, AvatarPerClient
  <2>9. HistoryIsOwn'
    <3>1. \A i \in DOMAIN undoLog : undoLog[i].txId < nextTxId /\ undoLog[i].txId \in Nat
      BY <1>1, EntryType DEF Ownership, HistoryIsOwn
    <3>2. \A i \in DOMAIN undoLog' : /\ undoLog'[i].entity = avatar'[undoLog'[i].client]
                                     /\ undoLog'[i].txId < nextTxId'
      BY <1>1, <2>2, <2>3, <2>5, <2>6, <3>1 DEF Ownership, HistoryIsOwn
    <3>3. \A i, j \in DOMAIN undoLog' : i < j => undoLog'[i].txId < undoLog'[j].txId
      BY <1>1, <2>5, <2>6, <3>1 DEF Ownership, HistoryIsOwn
    <3> QED
      BY <3>2, <3>3 DEF HistoryIsOwn
  <2> QED
    BY <2>7, <2>8, <2>9 DEF Ownership
<1>5. ASSUME NEW i \in DOMAIN undoLog, NEW pose, NEW flag \in BOOLEAN,
             Restore(undoLog[i].entity, pose),
             undoLog' = SetUndone(undoLog, undoLog[i].txId, flag),
             nextTxId' = nextTxId + 2
      PROVE  Ownership'
  <2>2. DOMAIN ents' = DOMAIN ents /\ \A x \in DOMAIN ents : ents'[x].owner = ents[x].owner
    BY <1>1, <1>5, RestoreKeeps
  <2>3. /\ DOMAIN undoLog' = DOMAIN undoLog
        /\ \A k \in DOMAIN undoLog : /\ undoLog'[k].txId = undoLog[k].txId
                                     /\ undoLog'[k].client = undoLog[k].client
                                     /\ undoLog'[k].entity = undoLog[k].entity
    BY <1>1, <1>5, SetUndoneHistory
  <2>4. IdsIssued'
    <3>1. Issued' = Issued
      BY DEF Issued
    <3> QED
      BY <2>3, <3>1 DEF Ownership, IdsIssued
  <2>5. AvatarPerClient'
    <3>1. CubeId \in DOMAIN ents /\ \A c \in clients : avatar[c] \in DOMAIN ents
      BY DEF Ownership, AvatarPerClient
    <3> QED
      BY <2>2, <3>1 DEF Ownership, AvatarPerClient
  <2>6. HistoryIsOwn'
    <3>1. \A k \in DOMAIN undoLog : undoLog[k].txId < nextTxId /\ undoLog[k].txId \in Nat
      BY <1>1, EntryType DEF Ownership, HistoryIsOwn
    <3> QED
      BY <1>1, <1>5, <2>3, <3>1 DEF Ownership, HistoryIsOwn
  <2> QED
    BY <2>4, <2>5, <2>6 DEF Ownership
<1>6. CASE Undo(r)
  <2>1. PICK i \in DOMAIN undoLog :
           /\ Restore(undoLog[i].entity, undoLog[i].before)
           /\ undoLog' = SetUndone(undoLog, undoLog[i].txId, TRUE)
           /\ nextTxId' = nextTxId + 2
    BY <1>6 DEF Undo, MarkUndone, Echo
  <2> QED
    BY <1>5, <2>1
<1>7. CASE Redo(r)
  <2>1. PICK i \in DOMAIN undoLog :
           /\ Restore(undoLog[i].entity, undoLog[i].after)
           /\ undoLog' = SetUndone(undoLog, undoLog[i].txId, FALSE)
           /\ nextTxId' = nextTxId + 2
    BY <1>7 DEF Redo, MarkRedone, Echo
  <2> QED
    BY <1>5, <2>1
<1> QED
  BY <1>2, <1>3, <1>4, <1>6, <1>7

LEMMA OwnershipNext == Ownership /\ [Next]_vars => Ownership'
<1> SUFFICES ASSUME Ownership, [Next]_vars PROVE Ownership'
  OBVIOUS
<1>1. TypeOK' /\ TypeOK /\ nextTxId \in Nat
  BY TypeNext DEF Ownership, TypeOK
<1> USE <1>1
<1>2. CASE AcceptOne
  BY <1>2, OwnershipAccept
<1>3. ASSUME NEW c \in ClientId, Reap(c) PROVE Ownership'
  BY <1>3, OwnershipReap
<1>4. CASE ApplyHead
  <2>1. batch # <<>> /\ UNCHANGED <<nextEntityId, nextClientId, clients, avatar>>
    BY <1>4 DEF ApplyHead, clientVars
  <2>2. \E r : /\ r = Head(batch)
               /\ Decorate(r) \/ Reparent(r) \/ Move(r) \/ Undo(r) \/ Redo(r) \/ Reject(r)
    BY <1>4 DEF ApplyHead
  <2> QED
    BY <2>1, <2>2, OwnershipApply
<1>5. ASSUME NEW c \in ClientId, CatchUp(c) PROVE Ownership'
  <2>1. nextTxId' \in Nat /\ nextTxId' >= nextTxId
    BY <1>5, RankType DEF CatchUp
  <2>2. UNCHANGED <<ents, nextEntityId, nextClientId, clients, avatar, undoLog>>
    BY <1>5 DEF CatchUp
  <2> QED
    BY <2>1, <2>2, OwnershipKept
<1>6. CASE TickDue
  <2>1. PICK pose :
           ents' = [e \in DOMAIN ents |->
                       IF e = CubeId THEN [ents[e] EXCEPT !.pose = pose] ELSE ents[e]]
    BY <1>6 DEF TickDue
  <2>2. DOMAIN ents' = DOMAIN ents /\ \A e \in DOMAIN ents : ents'[e].owner = ents[e].owner
    BY <2>1 DEF TypeOK, Entity
  <2>3. UNCHANGED <<nextTxId, nextEntityId, nextClientId, clients, avatar, undoLog>>
    BY <1>6 DEF TickDue
  <2> QED
    BY <2>2, <2>3, OwnershipKept
<1>7. ASSUME UNCHANGED <<worldVars, clients, avatar, nextClientId>> PROVE Ownership'
  BY <1>7, OwnershipKept DEF worldVars
<1>8. CASE Workers \/ UNCHANGED vars
  BY <1>7, <1>8 DEF Workers, ConnectionReady, ConnectionShutdown, Receive, clientVars, vars
<1>9. ASSUME NEW c \in ClientId,
             SendPreamble(c) \/ SendWelcome(c) \/ SendFails(c) \/ NoticeShutdown(c)
                 \/ NothingToGreet(c)
      PROVE  Ownership'
  BY <1>7, <1>9 DEF SendPreamble, SendWelcome, SendFails, NoticeShutdown, NothingToGreet, clientVars
<1>10. CASE \/ AcceptTimeout \/ EndHandshake \/ EndDrain \/ TickNotDue \/ EndReap
            \/ \E c \in ClientId : SwapInbox(c) \/ Keep(c)
  BY <1>7, <1>10
     DEF AcceptTimeout, EndHandshake, EndDrain, TickNotDue, EndReap, SwapInbox, Keep, clientVars
<1> QED
  BY <1>2, <1>3, <1>4, <1>5, <1>6, <1>8, <1>9, <1>10 DEF Next, MainLoop, Handshake

\* The map holds the cube and one avatar per connected client, owned by it,
\* whoever joins and leaves and in whatever order.
THEOREM OneAvatarEach == Spec => []AvatarPerClient
<1>1. Ownership => AvatarPerClient
  BY DEF Ownership
<1> QED
  BY <1>1, OwnershipInit, OwnershipNext, PTL DEF Spec

\* Undo and redo never reach an entity of another client, and the entry they
\* mark is the entry they restored.
THEOREM OwnHistoryOnly == Spec => []HistoryIsOwn
<1>1. Ownership => HistoryIsOwn
  BY DEF Ownership
<1> QED
  BY <1>1, OwnershipInit, OwnershipNext, PTL DEF Spec

-----------------------------------------------------------------------------
(* What the clients have been told *)

\* A dead client's connection is shut down, a client nobody accepted has none,
\* and the handshake begins when the connection is up.
Connections ==
    /\ \A c \in ClientId : dead[c] => conn[c] = "shutdown"
    /\ \A c \in ClientId \ Issued : conn[c] = "none" /\ stage[c] = "none"
    /\ \A c \in ClientId : conn[c] \in {"none", "connecting"} => stage[c] \in {"none", "accepted"}

\* Clients that left before anyone could be told of them.
Unseen == {d \in Issued \ clients : ~Welcomed(d)}

\* Nobody hears of the world before the welcome; from then on a client hears of
\* every departure but those of clients that were never announced.
Heard ==
    /\ \A c \in ClientId : ~Welcomed(c) => told[c] = {}
    /\ \A c \in clients : conn[c] = "connected" =>
          told[c] \ DOMAIN ents \subseteq {avatar[d] : d \in Unseen}

Telling == Ownership /\ Connections /\ Heard /\ JoinComplete

-----------------------------------------------------------------------------

\* What Send does to what clients know, in terms of what is in the messages.
LEMMA SendTells ==
    ASSUME NEW msgs, Send(msgs), NEW c \in ClientId
    PROVE  \A e : e \in told'[c] <=>
              /\ e \in told[c] \/ \E m \in msgs[c] : Introduces(m) /\ m.entity = e
              /\ ~ \E m \in msgs[c] : m.kind = "Despawn" /\ m.entity = e
BY DEF Send

LEMMA EchoTellsNothing ==
    ASSUME TypeOK, NEW m, Broadcast(m), ~Introduces(m), m.kind # "Despawn"
    PROVE  told' = told
<1>1. told = [c \in ClientId |-> told[c]]
  BY DEF TypeOK
<1>2. \A c \in ClientId : told'[c] = told[c]
  BY DEF Broadcast, Send
<1>3. told' = [c \in ClientId |-> told'[c]]
  BY DEF Broadcast, Send
<1> QED BY <1>1, <1>2, <1>3

\* Steps that tell nobody anything, and leave who is there and how far it is.
LEMMA NothingTold ==
    ASSUME Telling, Ownership',
           UNCHANGED <<told, clients, stage, avatar, nextClientId>>,
           DOMAIN ents' = DOMAIN ents,
           \A c \in ClientId :
              \/ conn'[c] = conn[c]
              \/ conn[c] = "connecting" /\ conn'[c] = "connected" /\ ~Welcomed(c)
              \/ conn[c] # "none" /\ conn'[c] = "shutdown",
           \A c \in ClientId : dead'[c] => dead[c] \/ conn'[c] = "shutdown"
    PROVE  Telling'
<1>1. Connections'
  BY DEF Telling, Connections, Issued
<1>2. Heard'
  <2>1. Unseen' = Unseen /\ \A c \in ClientId : Welcomed(c)' = Welcomed(c)
    BY DEF Unseen, Issued, Welcomed
  <2>2. clients \subseteq ClientId
    BY DEF Telling, Ownership, TypeOK
  <2> QED BY <2>1, <2>2 DEF Telling, Heard
<1>3. JoinComplete'
  BY DEF Telling, JoinComplete, Listening, Welcomed
<1> QED BY <1>1, <1>2, <1>3 DEF Telling

LEMMA TellingInit == Init => Telling
<1> SUFFICES ASSUME Init PROVE Telling
  OBVIOUS
<1>1. Connections
  BY DEF Init, Connections
<1>2. Heard /\ JoinComplete
  BY DEF Init, Heard, JoinComplete, Listening
<1> QED BY <1>1, <1>2, OwnershipInit DEF Telling

LEMMA TellingAccept == Telling /\ Ownership' /\ AcceptOne => Telling'
<1> SUFFICES ASSUME Telling, Ownership', AcceptOne PROVE Telling'
  OBVIOUS
<1> DEFINE new == nextClientId
<1>1. /\ new \in ClientId /\ new \in Nat /\ new \notin Issued /\ nextClientId' = new + 1
      /\ clients \subseteq Issued /\ Issued \subseteq ClientId /\ new \notin clients
  BY DEF AcceptOne, Telling, Ownership, IdsIssued, Issued
<1>2. Issued' = Issued \cup {new}
  BY <1>1 DEF Issued, ClientId
<1>3. /\ avatar' = [avatar EXCEPT ![new] = nextEntityId] /\ avatar \in [ClientId -> Nat]
      /\ stage' = [stage EXCEPT ![new] = "accepted"] /\ stage \in [ClientId -> Stages]
      /\ conn' = [conn EXCEPT ![new] = "connecting"] /\ DOMAIN conn = ClientId
      /\ clients' = clients \cup {new}
      /\ UNCHANGED <<told, dead>>
      /\ DOMAIN ents \subseteq DOMAIN ents'
  BY DEF AcceptOne, Telling, Ownership, TypeOK, Silent
<1>4. stage'[new] = "accepted" /\ conn'[new] = "connecting" /\ stage[new] = "none" /\ ~dead[new]
  BY <1>1, <1>3 DEF Telling, Connections
<1>5. \A c \in ClientId \ {new} :
         avatar'[c] = avatar[c] /\ stage'[c] = stage[c] /\ conn'[c] = conn[c]
  BY <1>1, <1>3
<1> HIDE DEF new
<1>6. Connections'
  BY <1>1, <1>2, <1>3, <1>4, <1>5 DEF Telling, Connections
<1>7. Heard'
  <2>1. Unseen' = Unseen /\ \A d \in Unseen : avatar'[d] = avatar[d]
    BY <1>1, <1>2, <1>3, <1>4, <1>5 DEF Unseen, Welcomed
  <2>2. \A c \in ClientId : Welcomed(c)' = Welcomed(c)
    BY <1>4, <1>5 DEF Welcomed
  <2>3. {avatar'[d] : d \in Unseen'} = {avatar[d] : d \in Unseen}
    BY <2>1
  <2> QED BY <1>1, <1>3, <1>4, <1>5, <2>2, <2>3 DEF Telling, Heard
<1>8. JoinComplete'
  <2>1. \A c \in ClientId : Listening(c)' => Listening(c)
    BY <1>3, <1>4, <1>5 DEF Listening
  <2>2. \A c \in clients' : stage'[c] = "synced" =>
           c \in clients /\ stage[c] = "synced" /\ avatar'[c] = avatar[c]
    BY <1>1, <1>3, <1>4, <1>5
  <2> QED BY <1>3, <2>1, <2>2 DEF Telling, JoinComplete
<1> QED BY <1>6, <1>7, <1>8 DEF Telling

\* The preamble and the welcome speak of no entity.
LEMMA TellingGreet ==
    ASSUME Telling, Ownership', NEW c \in ClientId, SendPreamble(c) \/ SendWelcome(c)
    PROVE  Telling'
<1>1. PICK msgs : SendTo(c, msgs) /\ \A m \in msgs : m.kind \in {"Preamble", "Welcome"}
  BY DEF SendPreamble, SendWelcome
<1>2. told' = told
  <2>1. \A d \in ClientId : told'[d] = told[d]
    BY <1>1 DEF SendTo, Send, NoMessages, Introduces
  <2>2. told' = [d \in ClientId |-> told'[d]] /\ told = [d \in ClientId |-> told[d]]
    BY <1>1 DEF SendTo, Send, Telling, Ownership, TypeOK
  <2> QED BY <2>1, <2>2
<1>3. /\ c \in clients /\ conn[c] = "connected" /\ stage[c] \in {"accepted", "preamble"}
      /\ clients \subseteq ClientId /\ stage \in [ClientId -> Stages]
      /\ stage' = [stage EXCEPT ![c] = stage'[c]] /\ stage'[c] \in {"preamble", "welcomed"}
      /\ UNCHANGED <<conn, dead, clients, avatar, nextClientId, ents>>
  BY DEF SendPreamble, SendWelcome, Greets, IsNext, wireVars, worldVars, Telling, Ownership, TypeOK
<1>4. \A d \in ClientId : d # c => stage'[d] = stage[d]
  BY <1>3
<1>5. Connections'
  BY <1>3, <1>4 DEF Telling, Connections, Issued, Ownership, IdsIssued
<1>6. Heard'
  <2>1. Unseen' = Unseen
    BY <1>3, <1>4 DEF Unseen, Issued, Welcomed
  <2>2. \A d \in ClientId : Welcomed(d) => Welcomed(d)'
    BY <1>3, <1>4 DEF Welcomed
  <2> QED BY <1>2, <1>3, <2>1, <2>2 DEF Telling, Heard
<1>7. JoinComplete'
  <2>1. \A d \in ClientId : stage'[d] = "synced" <=> stage[d] = "synced"
    BY <1>3, <1>4
  <2> QED BY <1>2, <1>3, <2>1 DEF Telling, JoinComplete, Listening
<1> QED BY <1>5, <1>6, <1>7 DEF Telling

\* Catching up: the client hears of every entity there is, the others of its avatar.
LEMMA TellingCatchUp ==
    ASSUME Telling, Ownership', NEW c \in ClientId, CatchUp(c)
    PROVE  Telling'
<1>1. /\ c \in clients /\ ~dead[c] /\ conn[c] = "connected" /\ stage[c] = "welcomed"
      /\ clients \subseteq ClientId /\ stage' = [stage EXCEPT ![c] = "synced"]
      /\ stage \in [ClientId -> Stages]
      /\ UNCHANGED <<conn, dead, clients, avatar, nextClientId, ents>>
  BY DEF CatchUp, Greets, IsNext, wireVars, Telling, Ownership, TypeOK
<1>2. stage'[c] = "synced" /\ \A d \in ClientId : d # c => stage'[d] = stage[d]
  BY <1>1
<1>3. CubeId \in DOMAIN ents /\ \A d \in clients : avatar[d] \in DOMAIN ents
  BY DEF Telling, Ownership, AvatarPerClient
<1> DEFINE n == Cardinality(DOMAIN ents)
           msgs == [d \in ClientId |->
                 IF d = c
                   THEN {SpawnTx(e, nextTxId + Rank(e)) : e \in DOMAIN ents}
                   ELSE IF d \in ShownTo(c) /\ avatar[c] \in DOMAIN ents
                          THEN {SpawnTx(avatar[c], nextTxId + n)} ELSE {}]
<1>4. Send(msgs)
  BY DEF CatchUp
<1>5. \A e, tx : SpawnTx(e, tx).kind = "Spawn" /\ SpawnTx(e, tx).entity = e
  BY DEF SpawnTx
<1>6. \A d \in ClientId : \A m \in msgs[d] : Introduces(m) /\ m.kind # "Despawn"
  BY <1>5 DEF Introduces
<1>7. \A e \in DOMAIN ents : \E m \in msgs[c] : m.entity = e
  BY <1>5
<1>8. \A d \in ClientId : \A m \in msgs[d] : m.entity \in DOMAIN ents
  BY <1>5
<1>9. \A d \in ShownTo(c) : d \in ClientId => \E m \in msgs[d] : m.entity = avatar[c]
  BY <1>1, <1>3, <1>5 DEF ShownTo
<1>10. \A d \in ClientId : Listening(d) /\ d # c => d \in ShownTo(c)
  BY DEF Telling, Connections, Listening, ShownTo, Audience, Welcomed
<1>11. \A d \in ClientId : msgs[d] # {} => d = c \/ d \in Audience
  BY DEF ShownTo
<1> HIDE DEF msgs
<1>12. \A d \in ClientId : told[d] \subseteq told'[d] /\ told'[d] \subseteq told[d] \cup DOMAIN ents
  BY <1>4, <1>6, <1>8, SendTells
<1>13. DOMAIN ents \subseteq told'[c]
  BY <1>4, <1>6, <1>7, SendTells
<1>14. \A d \in ClientId : Listening(d) /\ d # c => avatar[c] \in told'[d]
  BY <1>4, <1>6, <1>9, <1>10, SendTells
<1>15. \A d \in ClientId : msgs[d] = {} => told'[d] = told[d]
  BY <1>4, SendTells
<1>16. Connections'
  BY <1>1, <1>2 DEF Telling, Connections, Issued, Ownership, IdsIssued
<1>17. Heard'
  <2>1. Unseen' = Unseen
    BY <1>1, <1>2 DEF Unseen, Issued, Welcomed
  <2>2. \A d \in ClientId : ~Welcomed(d)' => ~Welcomed(d) /\ told'[d] = told[d]
    BY <1>1, <1>2, <1>11, <1>15 DEF Welcomed, Audience
  <2> QED BY <1>1, <1>12, <2>1, <2>2 DEF Telling, Heard
<1>18. JoinComplete'
  <2>1. \A d \in ClientId : d # c => (Listening(d)' <=> Listening(d))
    BY <1>1, <1>2 DEF Listening
  <2>2. \A x \in clients : stage'[x] = "synced" => x = c \/ stage[x] = "synced"
    BY <1>1, <1>2
  <2>3. ASSUME NEW d \in ClientId, Listening(d)', d # c,
               NEW x \in clients, stage'[x] = "synced"
        PROVE  avatar[x] \in told'[d]
    BY <1>12, <1>14, <2>1, <2>2, <2>3 DEF Telling, JoinComplete
  <2>4. ASSUME NEW d \in ClientId, Listening(d)' PROVE CubeId \in told'[d]
    BY <1>3, <1>12, <1>13, <2>1, <2>4 DEF Telling, JoinComplete
  <2> QED BY <1>1, <1>3, <1>13, <2>3, <2>4 DEF JoinComplete
<1> QED BY <1>16, <1>17, <1>18 DEF Telling

\* A snapshot speaks of entities that are there.
LEMMA TellingTick == Telling /\ Ownership' /\ TickDue => Telling'
<1> SUFFICES ASSUME Telling, Ownership', TickDue PROVE Telling'
  OBVIOUS
<1>1. /\ UNCHANGED <<conn, clients, stage, avatar, nextClientId>> /\ DOMAIN ents' = DOMAIN ents
      /\ \A c \in ClientId : dead'[c] => dead[c] \/ conn[c] = "shutdown"
  BY DEF TickDue, wireVars
<1> DEFINE msgs == [c \in ClientId |->
          IF c \in clients /\ ~dead[c] /\ conn[c] = "connected" /\ stage[c] = "synced"
            THEN {[kind |-> "Snapshot", tick |-> tick', entity |-> e, pose |-> ents'[e].pose]
                     : e \in DOMAIN ents}
            ELSE {}]
<1>2. Send(msgs)
  BY DEF TickDue
<1>3. \A c \in ClientId : \A m \in msgs[c] :
         /\ Introduces(m) /\ m.kind # "Despawn" /\ m.entity \in DOMAIN ents
         /\ Welcomed(c)
  BY DEF Introduces, Welcomed
<1> HIDE DEF msgs
<1>4. \A c \in ClientId :
         /\ told[c] \subseteq told'[c] /\ told'[c] \subseteq told[c] \cup DOMAIN ents
         /\ ~Welcomed(c) => told'[c] \subseteq told[c]
  BY <1>2, <1>3, SendTells
<1>5. Connections'
  BY <1>1 DEF Telling, Connections, Issued
<1>6. Heard'
  <2>1. clients \subseteq ClientId
    BY DEF Telling, Ownership, TypeOK
  <2>2. Unseen' = Unseen /\ \A c \in ClientId : Welcomed(c)' = Welcomed(c)
    BY <1>1 DEF Unseen, Issued, Welcomed
  <2> QED BY <1>1, <1>4, <2>1, <2>2 DEF Telling, Heard
<1>7. JoinComplete'
  BY <1>1, <1>4 DEF Telling, JoinComplete, Listening
<1> QED BY <1>5, <1>6, <1>7 DEF Telling

\* A client that leaves is told away to every client that may have heard of it.
LEMMA TellingReap ==
    ASSUME Telling, Ownership', NEW c \in ClientId, Reap(c)
    PROVE  Telling'
<1>1. /\ c \in clients /\ clients' = clients \ {c} /\ clients \subseteq ClientId /\ Gone(c)
      /\ dead' = [dead EXCEPT ![c] = TRUE] /\ DOMAIN ents' = DOMAIN ents \ {avatar[c]}
      /\ UNCHANGED <<conn, stage, avatar, nextClientId>>
  BY DEF Reap, EraseAvatar, IsNext, Telling, Ownership, TypeOK
<1>2. conn[c] = "shutdown" /\ c \in Issued
  BY <1>1 DEF Gone, Telling, Connections, Ownership, IdsIssued
<1>3. /\ avatar[c] # CubeId
      /\ \A d \in clients' : avatar[d] # avatar[c]
  BY <1>1, <1>2 DEF Telling, Ownership, IdsIssued, CubeId, ClientId
<1>4. \A d \in ClientId : told'[d] \subseteq told[d] /\ told[d] \ {avatar[c]} \subseteq told'[d]
  <2>1. CASE Welcomed(c)
    <3>1. Broadcast([kind |-> "Despawn", txId |-> nextTxId, entity |-> avatar[c]])
      BY <2>1 DEF Reap, WasAnnounced
    <3> QED BY <3>1 DEF Broadcast, Send, Introduces
  <2>2. CASE ~Welcomed(c)
    BY <2>2 DEF Reap, WasAnnounced, Silent
  <2> QED BY <2>1, <2>2
<1>5. \A d \in clients' : conn[d] = "connected" /\ Welcomed(c) => avatar[c] \notin told'[d]
  <2> SUFFICES ASSUME NEW d \in clients', conn[d] = "connected", Welcomed(c)
               PROVE  avatar[c] \notin told'[d]
    OBVIOUS
  <2>1. Broadcast([kind |-> "Despawn", txId |-> nextTxId, entity |-> avatar[c]])
    BY DEF Reap, WasAnnounced
  <2>2. ~Welcomed(d) => told'[d] = {}
    BY <1>1, <1>4 DEF Telling, Heard
  <2>3. Welcomed(d) => d \in Audience
    BY <1>1 DEF Audience, Telling, Connections
  <2>4. d \in Audience => avatar[c] \notin told'[d]
    BY <1>1, <2>1 DEF Broadcast, Send, Introduces
  <2> QED BY <2>2, <2>3, <2>4
<1>6. Connections'
  BY <1>1, <1>2 DEF Telling, Connections, Issued
<1>7. Heard'
  <2>1. Unseen' = Unseen \cup (IF Welcomed(c) THEN {} ELSE {c})
    BY <1>1, <1>2 DEF Unseen, Issued, Welcomed
  <2>2. \A d \in ClientId : Welcomed(d)' = Welcomed(d)
    BY <1>1 DEF Welcomed
  <2>3. \A d \in ClientId : ~Welcomed(d) => told'[d] = {}
    BY <1>4 DEF Telling, Heard
  <2>4. ASSUME NEW d \in clients', conn[d] = "connected", NEW e \in told'[d] \ DOMAIN ents'
        PROVE  \E x \in Unseen' : e = avatar[x]
    <3>1. e \in told[d] /\ (e \in told[d] \ DOMAIN ents \/ e = avatar[c])
      BY <1>1, <1>4, <2>4
    <3>2. CASE e = avatar[c]
      BY <1>5, <2>1, <2>4, <3>2
    <3>3. CASE e \in told[d] \ DOMAIN ents
      BY <1>1, <2>1, <2>4, <3>3 DEF Telling, Heard
    <3> QED BY <3>1, <3>2, <3>3
  <2> QED BY <1>1, <2>2, <2>3, <2>4 DEF Heard
<1>8. JoinComplete'
  BY <1>1, <1>3, <1>4 DEF Telling, JoinComplete, Listening
<1> QED BY <1>6, <1>7, <1>8 DEF Telling

-----------------------------------------------------------------------------

LEMMA TellingNext == Telling /\ [Next]_vars => Telling'
<1> SUFFICES ASSUME Telling, [Next]_vars PROVE Telling'
  OBVIOUS
<1>1. Ownership' /\ TypeOK
  BY OwnershipNext DEF Telling, Ownership
<1>2. CASE UNCHANGED vars
  BY <1>1, <1>2, NothingTold DEF vars, worldVars, clientVars, wireVars, sendVars
<1>3. CASE AcceptOne
  BY <1>1, <1>3, TellingAccept
<1>4. ASSUME NEW c \in ClientId, Handshake(c) PROVE Telling'
  <2>1. CASE SendPreamble(c) \/ SendWelcome(c)
    BY <1>1, <2>1, TellingGreet
  <2>2. CASE CatchUp(c)
    BY <1>1, <2>2, TellingCatchUp
  <2>3. CASE NoticeShutdown(c) \/ NothingToGreet(c)
    BY <1>1, <2>3, NothingTold
       DEF NoticeShutdown, NothingToGreet, Silent, worldVars, clientVars, wireVars, TypeOK
  <2>4. CASE SendFails(c)
    BY <1>1, <2>4, NothingTold DEF SendFails, Greets, Silent, worldVars, clientVars, TypeOK
  <2> QED BY <1>4, <2>1, <2>2, <2>3, <2>4 DEF Handshake
<1>5. CASE TickDue
  BY <1>1, <1>5, TellingTick
<1>6. ASSUME NEW c \in ClientId, Reap(c) PROVE Telling'
  BY <1>1, <1>6, TellingReap
<1>7. CASE ApplyHead
  <2>1. PICK r : /\ r = Head(batch)
                 /\ Decorate(r) \/ Reparent(r) \/ Move(r) \/ Undo(r) \/ Redo(r) \/ Reject(r)
    BY <1>7 DEF ApplyHead
  <2>2. batch # <<>> /\ UNCHANGED <<clients, stage, dead, avatar, nextClientId, conn>>
    BY <1>7 DEF ApplyHead, clientVars, wireVars
  <2>3. DOMAIN ents' = DOMAIN ents
    BY <1>1, <2>1, <2>2, ApplyType
  <2>4. told' = told
    <3>1. CASE Reject(r)
      BY <3>1 DEF Reject, Silent
    <3>2. CASE Decorate(r) \/ Reparent(r) \/ Move(r)
      BY <1>1, <3>2, EchoTellsNothing DEF Decorate, Reparent, SetSidecar, Move, SetFieldTx, Introduces
    <3>3. CASE Undo(r) \/ Redo(r)
      <4>1. \E i \in DOMAIN undoLog : Echo("Undo", undoLog[i]) \/ Echo("Redo", undoLog[i])
        BY <3>3 DEF Undo, Redo
      <4> QED BY <1>1, <4>1, EchoTellsNothing DEF Echo, Introduces
    <3> QED BY <2>1, <3>1, <3>2, <3>3
  <2> QED BY <1>1, <2>2, <2>3, <2>4, NothingTold
<1>8. CASE Workers
  <2>1. ASSUME NEW c \in ClientId, ConnectionReady(c) PROVE Telling'
    <3>1. conn[c] = "connecting" /\ conn' = [conn EXCEPT ![c] = "connected"]
      BY <2>1 DEF ConnectionReady
    <3>2. ~Welcomed(c)
      BY <3>1 DEF Telling, Connections, Welcomed
    <3> QED BY <1>1, <2>1, <3>1, <3>2, NothingTold DEF ConnectionReady, Silent, worldVars, clientVars
  <2>2. ASSUME NEW c \in ClientId, ConnectionShutdown(c) PROVE Telling'
    BY <1>1, <2>2, NothingTold DEF ConnectionShutdown, Silent, worldVars, clientVars, TypeOK
  <2>3. ASSUME NEW c \in ClientId, NEW r \in Requests, Receive(c, r) PROVE Telling'
    BY <1>1, <2>3, NothingTold DEF Receive, Silent, worldVars, clientVars
  <2> QED BY <1>8, <2>1, <2>2, <2>3 DEF Workers
<1>9. CASE \/ AcceptTimeout \/ EndHandshake \/ EndDrain \/ TickNotDue \/ EndReap
           \/ \E c \in ClientId : SwapInbox(c) \/ Keep(c)
  BY <1>1, <1>9, NothingTold
     DEF AcceptTimeout, EndHandshake, EndDrain, TickNotDue, EndReap, SwapInbox, Keep, Silent,
         worldVars, clientVars, wireVars
<1> QED
  BY <1>2, <1>3, <1>4, <1>5, <1>6, <1>7, <1>8, <1>9 DEF Next, MainLoop

\* Whoever finished its handshake has been told of everybody who finished theirs,
\* in whatever order clients join and leave (tickClientHandshake 563-593).
THEOREM JoinersAreTold == Spec => []JoinComplete
<1>1. Telling => JoinComplete
  BY DEF Telling
<1> QED BY <1>1, TellingInit, TellingNext, PTL DEF Spec

\* Nobody goes on believing in a client that left, but for those that were gone
\* before they were welcomed (reap 1676-1687).
THEOREM DeparturesAreTold == Spec => []DepartureTold
<1>1. Telling => DepartureTold
  BY DEF Telling, Heard, Unseen, DepartureTold, Listening, Issued
<1> QED BY <1>1, TellingInit, TellingNext, PTL DEF Spec

-----------------------------------------------------------------------------
(* The five kinds of step *)

Others(c) ==
    \A d \in clients : d # c => ents'[avatar'[d]].pose = ents[avatar[d]].pose

\* Nobody's avatar moves and the history stays; clients may have left.
Quiet ==
    /\ clients' \subseteq clients /\ redid' = redid /\ undoLog' = undoLog
    /\ \A d \in clients' : ents'[avatar'[d]].pose = ents[avatar[d]].pose

Joins(c) ==
    /\ clients' = clients \cup {c} /\ redid' = redid /\ undoLog' = undoLog
    /\ ents'[avatar'[c]].pose = Fresh
    /\ \A i \in DOMAIN undoLog : undoLog[i].client # c
    /\ c \notin clients /\ Others(c)

Edits(c) ==
    /\ clients' = clients /\ redid' = redid
    /\ \E after \in Component, tx \in Nat, e \in Nat :
          /\ undoLog' = Append(undoLog,
                [txId |-> tx, client |-> c, entity |-> e,
                 before |-> ents[avatar[c]].pose, after |-> after, undone |-> FALSE])
          /\ ents'[avatar'[c]].pose = after
    /\ c \in clients /\ Others(c)

\* Entry i, and no other, gets the flag.
Marks(i, flag) ==
    /\ DOMAIN undoLog' = DOMAIN undoLog
    /\ \A k \in DOMAIN undoLog :
          /\ undoLog'[k].client = undoLog[k].client
          /\ undoLog'[k].before = undoLog[k].before
          /\ undoLog'[k].after = undoLog[k].after
          /\ undoLog'[k].undone = IF k = i THEN flag ELSE undoLog[k].undone

Undoes(c, i) ==
    /\ clients' = clients /\ redid' = redid
    /\ IsLatestUndoable(undoLog, c, i) /\ Marks(i, TRUE)
    /\ ents'[avatar'[c]].pose = undoLog[i].before
    /\ c \in clients /\ Others(c)

Redoes(c, i) ==
    /\ clients' = clients /\ redid' = redid \cup {c}
    /\ IsLatestRedoable(undoLog, c, i) /\ Marks(i, FALSE)
    /\ ents'[avatar'[c]].pose = undoLog[i].after
    /\ c \in clients /\ Others(c)

-----------------------------------------------------------------------------

\* txIds are increasing, so the entry a txId names is the only one.
LEMMA MarksOne ==
    ASSUME Ownership, NEW i \in DOMAIN undoLog, NEW flag \in BOOLEAN,
           undoLog' = SetUndone(undoLog, undoLog[i].txId, flag)
    PROVE  Marks(i, flag)
<1>1. undoLog \in Seq(UndoEntry(Component)) /\ TypeOK
  BY DEF Ownership, TypeOK
<1>2. DOMAIN undoLog = 1..Len(undoLog) /\ Len(undoLog) \in Nat
  BY <1>1
<1>3. \A k \in DOMAIN undoLog : undoLog[k].txId = undoLog[i].txId => k = i
  <2>1. \A k \in DOMAIN undoLog : undoLog[k].txId \in Nat
    BY <1>1, EntryType
  <2> QED
    BY <1>2, <2>1 DEF Ownership, HistoryIsOwn
<1>4. /\ DOMAIN undoLog' = DOMAIN undoLog
      /\ \A k \in DOMAIN undoLog : /\ undoLog'[k].client = undoLog[k].client
                                   /\ undoLog'[k].before = undoLog[k].before
                                   /\ undoLog'[k].after = undoLog[k].after
  BY <1>1, SetUndoneHistory
<1>5. \A k \in DOMAIN undoLog : undoLog[k] \in UndoEntry(Component)
  BY <1>1, ElementOfSeq, SMT
<1>6. \A k \in DOMAIN undoLog : k # i => undoLog'[k] = undoLog[k]
  BY <1>3 DEF SetUndone
<1>7. undoLog'[i] = [undoLog[i] EXCEPT !.undone = flag]
  <2>1. \A j \in DOMAIN undoLog : j < i => undoLog[j].txId # undoLog[i].txId
    BY <1>2, <1>3
  <2> QED
    BY <2>1 DEF SetUndone
<1>8. undoLog'[i].undone = flag
  BY <1>5, <1>7 DEF UndoEntry
<1> QED
  BY <1>4, <1>6, <1>8 DEF Marks

LEMMA AvatarsApart ==
    ASSUME Ownership
    PROVE  /\ \A c \in clients : avatar[c] \in DOMAIN ents /\ avatar[c] # CubeId
           /\ \A c, d \in clients : c # d => avatar[c] # avatar[d]
<1>1. clients \subseteq Issued /\ \A c \in Issued : CubeId < avatar[c]
  BY DEF Ownership, IdsIssued
<1>2. \A c \in clients : avatar[c] # CubeId
  BY <1>1 DEF CubeId
<1> QED
  BY <1>1, <1>2 DEF Ownership, IdsIssued, AvatarPerClient

LEMMA ApplyStep ==
    ASSUME Ownership, batch # <<>>, NEW r, r = Head(batch),
           UNCHANGED <<clients, avatar>>,
           Decorate(r) \/ Reparent(r) \/ Move(r) \/ Undo(r) \/ Redo(r) \/ Reject(r)
    PROVE  \/ Quiet \/ Edits(serving)
           \/ \E i \in DOMAIN undoLog : Undoes(serving, i) \/ Redoes(serving, i)
<1>1. TypeOK /\ nextTxId \in Nat /\ r \in Request /\ serving \in clients /\ serving \in ClientId
  BY HeadType DEF Ownership, TypeOK
<1>2. \A c \in clients : avatar[c] \in DOMAIN ents /\ \A d \in clients : c # d => avatar[c] # avatar[d]
  BY AvatarsApart
<1>3. CASE Decorate(r) \/ Reparent(r)
  <2>1. SetSidecar(r) /\ r.entity \in DOMAIN ents
    BY <1>3 DEF Decorate, Reparent, CanDecorate, CanReparent, SetsField
  <2>2. undoLog' = undoLog /\ redid' = redid
    BY <2>1 DEF SetSidecar
  <2>3. \A d \in clients : ents'[avatar[d]].pose = ents[avatar[d]].pose
    BY <1>1, <1>2, <2>1, SideWriteKeeps
  <2> QED
    BY <2>2, <2>3 DEF Quiet
<1>4. CASE Reject(r)
  BY <1>4 DEF Reject, Quiet
<1>5. CASE Move(r)
  <2> DEFINE after == Merge(ents[r.entity].pose, r.patch)
  <2>1. SetsField(r) /\ OwnsTarget(r) /\ r.entity \in DOMAIN ents
    BY <1>5 DEF Move, CanMove, SetsField
  <2>2. r.entity = avatar[serving]
    BY <1>1, <2>1, OwnTarget
  <2>3. /\ undoLog' = Append(undoLog, [txId |-> nextTxId, client |-> serving,
                 entity |-> r.entity, before |-> ents[avatar[serving]].pose,
                 after |-> after, undone |-> FALSE])
        /\ ents' = [ents EXCEPT ![r.entity].pose = after] /\ redid' = redid
    BY <1>5, <2>2 DEF Move, RecordApplied
  <2>4. after \in Component
    <3>1. r.patch \in Patch /\ ents[r.entity].pose \in Component
      BY <1>1, <2>1 DEF Request, TypeOK, Entity
    <3> QED
      BY <3>1, MergeType
  <2>5. r.entity \in Nat
    BY <1>1 DEF Request
  <2> HIDE DEF after
  <2>6. ents'[r.entity].pose = after /\ \A x \in DOMAIN ents : x # r.entity => ents'[x] = ents[x]
    BY <1>1, <2>1, <2>3, PoseWriteKeeps
  <2>7. Others(serving)
    BY <1>1, <1>2, <2>2, <2>6 DEF Others
  <2> QED
    BY <1>1, <2>2, <2>3, <2>4, <2>5, <2>6, <2>7 DEF Edits
<1>6. ASSUME NEW i \in DOMAIN undoLog, NEW pose, undoLog[i].client = serving,
             Restore(undoLog[i].entity, pose)
      PROVE  ents'[avatar'[serving]].pose = pose /\ Others(serving)
  <2>1. undoLog[i].entity = avatar[serving]
    BY <1>6 DEF Ownership, HistoryIsOwn
  <2> QED
    BY <1>1, <1>2, <1>6, <2>1, RestoreKeeps DEF Others
<1>7. CASE Undo(r)
  <2>1. PICK i \in DOMAIN undoLog :
           /\ IsLatestUndoable(undoLog, serving, i)
           /\ Restore(undoLog[i].entity, undoLog[i].before)
           /\ undoLog' = SetUndone(undoLog, undoLog[i].txId, TRUE)
    BY <1>7 DEF Undo, MarkUndone
  <2>2. undoLog[i].client = serving
    BY <2>1 DEF IsLatestUndoable, IsLatest
  <2>3. ents'[avatar'[serving]].pose = undoLog[i].before /\ Others(serving)
    BY <1>6, <2>1, <2>2
  <2>4. Marks(i, TRUE)
    BY <2>1, MarksOne
  <2>5. redid' = redid
    BY <1>7 DEF Undo
  <2>6. Undoes(serving, i)
    BY <1>1, <2>1, <2>3, <2>4, <2>5 DEF Undoes
  <2> QED
    BY <2>6
<1>8. CASE Redo(r)
  <2>1. PICK i \in DOMAIN undoLog :
           /\ IsLatestRedoable(undoLog, serving, i)
           /\ Restore(undoLog[i].entity, undoLog[i].after)
           /\ undoLog' = SetUndone(undoLog, undoLog[i].txId, FALSE)
    BY <1>8 DEF Redo, MarkRedone
  <2>2. undoLog[i].client = serving
    BY <2>1 DEF IsLatestRedoable, IsLatest
  <2>3. ents'[avatar'[serving]].pose = undoLog[i].after /\ Others(serving)
    BY <1>6, <2>1, <2>2
  <2>4. Marks(i, FALSE)
    BY <2>1, MarksOne
  <2>5. redid' = redid \cup {serving}
    BY <1>8 DEF Redo
  <2>6. Redoes(serving, i)
    BY <1>1, <2>1, <2>3, <2>4, <2>5 DEF Redoes
  <2> QED
    BY <2>6
<1> QED
  BY <1>3, <1>4, <1>5, <1>7, <1>8

LEMMA WorldStep ==
    ASSUME Ownership, [Next]_vars
    PROVE  \/ Quiet
           \/ \E c \in ClientId : Joins(c) \/ Edits(c)
           \/ \E c \in ClientId, i \in DOMAIN undoLog : Undoes(c, i) \/ Redoes(c, i)
<1>1. TypeOK /\ clients \subseteq ClientId
  BY DEF Ownership, TypeOK
<1>2. \A c \in clients : avatar[c] \in DOMAIN ents /\ avatar[c] # CubeId
  BY AvatarsApart
<1>3. CASE AcceptOne
  <2> DEFINE new == nextClientId
  <2>1. /\ new \in ClientId /\ new \notin Issued
        /\ clients' = clients \cup {new} /\ undoLog' = undoLog /\ redid' = redid
        /\ avatar' = [avatar EXCEPT ![new] = nextEntityId] /\ avatar \in [ClientId -> Nat]
        /\ nextEntityId \in Nat
        /\ ents' = [e \in DOMAIN ents \cup {nextEntityId} |->
                       IF e = nextEntityId THEN MakeAvatar(new) ELSE ents[e]]
    BY <1>1, <1>3 DEF AcceptOne, Issued, TypeOK
  <2>2. new \notin clients /\ \A i \in DOMAIN undoLog : undoLog[i].client # new
    BY <2>1 DEF Ownership, IdsIssued
  <2>3. ents'[avatar'[new]].pose = Fresh
    BY <2>1 DEF MakeAvatar
  <2>4. \A c \in clients : avatar'[c] = avatar[c] /\ avatar[c] # nextEntityId
    <3>1. \A c \in clients : avatar[c] < nextEntityId /\ avatar[c] \in Nat
      BY <1>1, <2>1 DEF Ownership, IdsIssued
    <3> QED
      BY <1>1, <2>1, <2>2, <3>1
  <2>5. Others(new)
    BY <1>2, <2>1, <2>4 DEF Others
  <2>6. Joins(new)
    BY <2>1, <2>2, <2>3, <2>5 DEF Joins
  <2> QED
    BY <2>1, <2>6
<1>4. ASSUME NEW c \in ClientId, Reap(c) PROVE Quiet
  <2>1. /\ ents' = [e \in DOMAIN ents \ {avatar[c]} |-> ents[e]] /\ clients' = clients \ {c}
        /\ UNCHANGED <<avatar, undoLog, redid>> /\ c \in clients
    BY <1>1, <1>4 DEF Reap, EraseAvatar, IsNext, TypeOK
  <2>2. \A d \in clients' : avatar[d] \in DOMAIN ents \ {avatar[c]}
    BY <1>2, <2>1, AvatarsApart
  <2> QED
    BY <2>1, <2>2 DEF Quiet
<1>5. CASE TickDue
  <2>1. PICK pose :
           ents' = [e \in DOMAIN ents |->
                       IF e = CubeId THEN [ents[e] EXCEPT !.pose = pose] ELSE ents[e]]
    BY <1>5 DEF TickDue
  <2>2. UNCHANGED <<clients, avatar, undoLog, redid>>
    BY <1>5 DEF TickDue
  <2> QED
    BY <1>2, <2>1, <2>2 DEF Quiet
<1>6. CASE ApplyHead
  <2>1. batch # <<>> /\ UNCHANGED <<clients, avatar>>
    BY <1>6 DEF ApplyHead, clientVars
  <2>2. \E r : /\ r = Head(batch)
               /\ Decorate(r) \/ Reparent(r) \/ Move(r) \/ Undo(r) \/ Redo(r) \/ Reject(r)
    BY <1>6 DEF ApplyHead
  <2>3. serving \in ClientId
    BY <1>1, <2>1, HeadType
  <2> QED
    BY <2>1, <2>2, <2>3, ApplyStep
<1>7. ASSUME NEW c \in ClientId, CatchUp(c) PROVE Quiet
  BY <1>7 DEF CatchUp, Quiet
<1>8. ASSUME UNCHANGED <<worldVars, clients, avatar>> PROVE Quiet
  BY <1>8 DEF worldVars, Quiet
<1>9. CASE Workers \/ UNCHANGED vars
  BY <1>8, <1>9 DEF Workers, ConnectionReady, ConnectionShutdown, Receive, clientVars, vars
<1>10. ASSUME NEW c \in ClientId,
              SendPreamble(c) \/ SendWelcome(c) \/ SendFails(c) \/ NoticeShutdown(c)
                 \/ NothingToGreet(c)
       PROVE  Quiet
  BY <1>8, <1>10 DEF SendPreamble, SendWelcome, SendFails, NoticeShutdown, NothingToGreet, clientVars
<1>11. CASE \/ AcceptTimeout \/ EndHandshake \/ EndDrain \/ TickNotDue \/ EndReap
            \/ \E c \in ClientId : SwapInbox(c) \/ Keep(c)
  BY <1>8, <1>11
     DEF AcceptTimeout, EndHandshake, EndDrain, TickNotDue, EndReap, SwapInbox, Keep, clientVars
<1> QED
  BY <1>3, <1>4, <1>5, <1>6, <1>7, <1>9, <1>10, <1>11 DEF Next, MainLoop, Handshake

-----------------------------------------------------------------------------
(* PoseComesFromOwner *)

\* Pose p is where client c spawned or where an edit of c put it.
FromOwner(log, c, p) ==
    p = Fresh \/ \E i \in DOMAIN log : log[i].client = c /\ log[i].after = p

\* What an undo goes back to came from the owner too.
Poses ==
    /\ Ownership
    /\ \A i \in DOMAIN undoLog : FromOwner(undoLog, undoLog[i].client, undoLog[i].before)
    /\ \A c \in clients : FromOwner(undoLog, c, ents[avatar[c]].pose)

LEMMA LogAppend ==
    ASSUME TypeOK, NEW entry, undoLog' = Append(undoLog, entry)
    PROVE  /\ Len(undoLog) \in Nat /\ DOMAIN undoLog = 1..Len(undoLog)
           /\ DOMAIN undoLog' = DOMAIN undoLog \cup {Len(undoLog) + 1}
           /\ \A i \in DOMAIN undoLog : undoLog'[i] = undoLog[i]
           /\ undoLog'[Len(undoLog) + 1] = entry
<1>1. undoLog \in Seq(UndoEntry(Component))
  BY DEF TypeOK
<1> QED
  BY <1>1

LEMMA PosesStep ==
    ASSUME Poses, Ownership', [Next]_vars
    PROVE  Poses'
<1>1. Ownership /\ TypeOK
  BY DEF Poses, Ownership
<1> USE DEF FromOwner
<1>2. CASE Quiet
  BY <1>2 DEF Quiet, Poses
<1>3. ASSUME NEW c \in ClientId, Joins(c) PROVE Poses'
  BY <1>3 DEF Joins, Others, Poses
<1>4. ASSUME NEW c \in ClientId, Edits(c) PROVE Poses'
  <2>1. PICK after \in Component, tx \in Nat, e \in Nat :
          /\ undoLog' = Append(undoLog,
                [txId |-> tx, client |-> c, entity |-> e,
                 before |-> ents[avatar[c]].pose, after |-> after, undone |-> FALSE])
          /\ ents'[avatar'[c]].pose = after
    BY <1>4 DEF Edits
  <2> DEFINE n == Len(undoLog) + 1
  <2>2. /\ DOMAIN undoLog' = DOMAIN undoLog \cup {n}
        /\ \A i \in DOMAIN undoLog : undoLog'[i] = undoLog[i]
        /\ undoLog'[n].client = c /\ undoLog'[n].after = after
        /\ undoLog'[n].before = ents[avatar[c]].pose
    BY <1>1, <2>1, LogAppend
  <2> HIDE DEF n
  <2>3. \A d, p : FromOwner(undoLog, d, p) => FromOwner(undoLog', d, p)
    BY <2>2
  <2>4. c \in clients /\ clients' = clients /\ Others(c)
    BY <1>4 DEF Edits
  <2>5. \A d \in clients' : FromOwner(undoLog', d, ents'[avatar'[d]].pose)
    <3>1. FromOwner(undoLog', c, ents'[avatar'[c]].pose)
      BY <2>1, <2>2
    <3> HIDE DEF FromOwner
    <3>2. ASSUME NEW d \in clients, d # c
          PROVE  FromOwner(undoLog', d, ents'[avatar'[d]].pose)
      <4>1. FromOwner(undoLog, d, ents[avatar[d]].pose)
        BY DEF Poses
      <4>2. ents'[avatar'[d]].pose = ents[avatar[d]].pose
        BY <2>4, <3>2 DEF Others
      <4> QED
        BY <2>3, <4>1, <4>2
    <3> QED
      BY <2>4, <3>1, <3>2
  <2>6. \A i \in DOMAIN undoLog' :
           FromOwner(undoLog', undoLog'[i].client, undoLog'[i].before)
    <3>1. FromOwner(undoLog', undoLog'[n].client, undoLog'[n].before)
      BY <2>2, <2>3, <2>4 DEF Poses
    <3> HIDE DEF FromOwner
    <3>2. \A i \in DOMAIN undoLog :
             FromOwner(undoLog', undoLog'[i].client, undoLog'[i].before)
      BY <2>2, <2>3 DEF Poses
    <3> QED
      BY <2>2, <3>1, <3>2
  <2> QED
    BY <2>5, <2>6 DEF Poses
<1>5. ASSUME NEW c \in ClientId, NEW i \in DOMAIN undoLog, NEW flag, Marks(i, flag),
             clients' = clients, c \in clients, Others(c),
             FromOwner(undoLog, c, ents'[avatar'[c]].pose)
      PROVE  Poses'
  <2>1. \A d, p : FromOwner(undoLog, d, p) => FromOwner(undoLog', d, p)
    BY <1>5 DEF Marks
  <2> HIDE DEF FromOwner
  <2>2. \A d \in clients' : FromOwner(undoLog', d, ents'[avatar'[d]].pose)
    BY <1>5, <2>1 DEF Others, Poses
  <2>3. \A k \in DOMAIN undoLog' :
           FromOwner(undoLog', undoLog'[k].client, undoLog'[k].before)
    BY <1>5, <2>1 DEF Marks, Poses
  <2> QED
    BY <2>2, <2>3 DEF Poses
<1>6. ASSUME NEW c \in ClientId, NEW i \in DOMAIN undoLog, Undoes(c, i) PROVE Poses'
  <2>1. undoLog[i].client = c
    BY <1>6 DEF Undoes, IsLatestUndoable, IsLatest
  <2>2. FromOwner(undoLog, c, ents'[avatar'[c]].pose)
    BY <1>6, <2>1 DEF Undoes, Poses
  <2> QED
    BY <1>5, <1>6, <2>2 DEF Undoes
<1>7. ASSUME NEW c \in ClientId, NEW i \in DOMAIN undoLog, Redoes(c, i) PROVE Poses'
  <2>1. undoLog[i].client = c
    BY <1>7 DEF Redoes, IsLatestRedoable, IsLatest
  <2>2. FromOwner(undoLog, c, ents'[avatar'[c]].pose)
    BY <1>7, <2>1 DEF Redoes
  <2> QED
    BY <1>5, <1>7, <2>2 DEF Redoes
<1> QED
  BY <1>1, <1>2, <1>3, <1>4, <1>6, <1>7, WorldStep

\* An avatar stands where its own client put it, whatever mix of edits, undos
\* and redos of whatever clients was applied.
THEOREM PosesFromOwners == Spec => []PoseComesFromOwner
<1>1. Init => Poses
  <2> SUFFICES ASSUME Init PROVE Poses
    OBVIOUS
  <2>1. DOMAIN undoLog = {} /\ clients = {}
    BY DEF Init
  <2> QED
    BY <2>1, OwnershipInit DEF Poses
<1>2. Poses /\ [Next]_vars => Poses'
  BY OwnershipNext, PosesStep DEF Poses
<1>3. Poses => PoseComesFromOwner
  BY DEF Poses, FromOwner, PoseComesFromOwner
<1> QED
  BY <1>1, <1>2, <1>3, PTL DEF Spec

-----------------------------------------------------------------------------
(* PoseIsLatestApplied *)

Applied(log, c, i) == log[i].client = c /\ log[i].undone = FALSE

\* An applied entry starts where the applied entry of the same client before
\* it ended, or at the spawn pose.
Chained(log, c, i) ==
    \/ \E j \in DOMAIN log :
          /\ j < i /\ Applied(log, c, j) /\ log[i].before = log[j].after
          /\ \A k \in DOMAIN log : j < k /\ k < i => ~Applied(log, c, k)
    \/ /\ \A j \in DOMAIN log : j < i => ~Applied(log, c, j)
       /\ log[i].before = Fresh

Stands(log, c, p) ==
    \/ \E i \in DOMAIN log : IsLatestUndoable(log, c, i) /\ p = log[i].after
    \/ (\A i \in DOMAIN log : ~Applied(log, c, i)) /\ p = Fresh

\* A redo may apply an entry out of order and break the chain of its client;
\* nothing else does.
Chain ==
    /\ Ownership
    /\ \A i \in DOMAIN undoLog, c \in ClientId \ redid :
          Applied(undoLog, c, i) => Chained(undoLog, c, i)
    /\ \A c \in clients \ redid : Stands(undoLog, c, ents[avatar[c]].pose)

LEMMA ChainStep ==
    ASSUME Chain, Ownership', [Next]_vars
    PROVE  Chain'
<1>1. /\ Ownership /\ TypeOK /\ clients \subseteq ClientId
      /\ DOMAIN undoLog = 1..Len(undoLog) /\ Len(undoLog) \in Nat
  <2>1. undoLog \in Seq(UndoEntry(Component))
    BY DEF Chain, Ownership, TypeOK
  <2>2. DOMAIN undoLog = 1..Len(undoLog) /\ Len(undoLog) \in Nat
    BY <2>1
  <2> QED
    BY <2>2 DEF Chain, Ownership, TypeOK
<1>2. CASE Quiet
  BY <1>2 DEF Quiet, Chain
<1>3. ASSUME NEW c \in ClientId, Joins(c) PROVE Chain'
  <2>1. Stands(undoLog, c, ents'[avatar'[c]].pose)
    BY <1>3 DEF Joins, Stands, Applied
  <2> QED
    BY <1>3, <2>1 DEF Joins, Others, Chain
<1>4. ASSUME NEW c \in ClientId, Edits(c) PROVE Chain'
  <2>1. PICK after \in Component, tx \in Nat, e \in Nat :
          /\ undoLog' = Append(undoLog,
                [txId |-> tx, client |-> c, entity |-> e,
                 before |-> ents[avatar[c]].pose, after |-> after, undone |-> FALSE])
          /\ ents'[avatar'[c]].pose = after
    BY <1>4 DEF Edits
  <2> DEFINE n == Len(undoLog) + 1
  <2>2. /\ DOMAIN undoLog' = DOMAIN undoLog \cup {n}
        /\ \A i \in DOMAIN undoLog : undoLog'[i] = undoLog[i]
        /\ undoLog'[n].client = c /\ undoLog'[n].after = after
        /\ undoLog'[n].before = ents[avatar[c]].pose /\ undoLog'[n].undone = FALSE
    BY <1>1, <2>1, LogAppend
  <2>3. /\ n \in Int /\ n \notin DOMAIN undoLog
        /\ \A i \in DOMAIN undoLog : i \in Int /\ i < n /\ ~(n < i)
    BY <1>1
  <2> HIDE DEF n
  <2>4. c \in clients /\ clients' = clients /\ redid' = redid /\ Others(c)
    BY <1>4 DEF Edits
  <2>5. \A d \in ClientId, i \in DOMAIN undoLog :
           /\ Applied(undoLog', d, i) <=> Applied(undoLog, d, i)
           /\ Chained(undoLog, d, i) => Chained(undoLog', d, i)
    BY <2>2, <2>3 DEF Applied, Chained
  <2>6. c \notin redid => Chained(undoLog', c, n)
    <3>1. c \notin redid => Stands(undoLog, c, ents[avatar[c]].pose)
      BY <2>4 DEF Chain
    <3>2. ASSUME NEW i \in DOMAIN undoLog, IsLatestUndoable(undoLog, c, i),
                 ents[avatar[c]].pose = undoLog[i].after
          PROVE  Chained(undoLog', c, n)
      <4>1. i \in DOMAIN undoLog' /\ i < n /\ Applied(undoLog', c, i)
            /\ undoLog'[n].before = undoLog'[i].after
        BY <2>2, <2>3, <3>2 DEF Applied, IsLatestUndoable, IsLatest
      <4>2. \A k \in DOMAIN undoLog' : i < k /\ k < n => ~Applied(undoLog', c, k)
        BY <2>2, <2>3, <3>2 DEF Applied, IsLatestUndoable, IsLatest
      <4> QED
        BY <4>1, <4>2 DEF Chained
    <3>3. ASSUME \A i \in DOMAIN undoLog : ~Applied(undoLog, c, i),
                 ents[avatar[c]].pose = Fresh
          PROVE  Chained(undoLog', c, n)
      BY <2>2, <2>3, <3>3 DEF Applied, Chained
    <3> QED
      BY <3>1, <3>2, <3>3 DEF Stands
  <2>7. \A d \in ClientId : Applied(undoLog', d, n) => d = c
    BY <2>2 DEF Applied
  <2>8. Stands(undoLog', c, ents'[avatar'[c]].pose)
    <3>1. IsLatestUndoable(undoLog', c, n)
      BY <2>2, <2>3 DEF IsLatestUndoable, IsLatest
    <3> QED
      BY <2>1, <2>2, <3>1 DEF Stands
  <2>9. ASSUME NEW d \in clients \ redid, d # c
        PROVE  Stands(undoLog', d, ents'[avatar'[d]].pose)
    <3>1. ents'[avatar'[d]].pose = ents[avatar[d]].pose
      BY <2>4, <2>9 DEF Others
    <3>2. Stands(undoLog, d, ents[avatar[d]].pose)
      BY DEF Chain
    <3>3. \A i \in DOMAIN undoLog :
             IsLatestUndoable(undoLog, d, i) => IsLatestUndoable(undoLog', d, i)
      BY <2>2, <2>9 DEF IsLatestUndoable, IsLatest
    <3>4. (\A i \in DOMAIN undoLog : ~Applied(undoLog, d, i)) =>
             (\A i \in DOMAIN undoLog' : ~Applied(undoLog', d, i))
      BY <2>2, <2>9 DEF Applied
    <3> QED
      BY <2>2, <3>1, <3>2, <3>3, <3>4 DEF Stands
  <2>10. \A i \in DOMAIN undoLog', d \in ClientId \ redid' :
            Applied(undoLog', d, i) => Chained(undoLog', d, i)
    BY <2>2, <2>4, <2>5, <2>6, <2>7 DEF Chain
  <2> QED
    BY <2>4, <2>8, <2>9, <2>10 DEF Chain
<1>5. ASSUME NEW c \in ClientId, NEW i \in DOMAIN undoLog, NEW flag, Marks(i, flag),
             undoLog[i].client = c, NEW d \in ClientId, d # c
      PROVE  /\ \A k \in DOMAIN undoLog :
                   /\ Applied(undoLog', d, k) <=> Applied(undoLog, d, k)
                   /\ Chained(undoLog, d, k) => Chained(undoLog', d, k)
             /\ \A p : Stands(undoLog, d, p) => Stands(undoLog', d, p)
  <2>1. \A k \in DOMAIN undoLog : Applied(undoLog', d, k) <=> Applied(undoLog, d, k)
    BY <1>5 DEF Marks, Applied
  <2>2. \A k \in DOMAIN undoLog : Chained(undoLog, d, k) => Chained(undoLog', d, k)
    BY <1>5, <2>1 DEF Marks, Chained
  <2>3. \A k \in DOMAIN undoLog :
           IsLatestUndoable(undoLog, d, k) => IsLatestUndoable(undoLog', d, k)
    BY <1>5 DEF Marks, IsLatestUndoable, IsLatest
  <2> QED
    BY <1>5, <2>1, <2>2, <2>3 DEF Marks, Stands
<1>6. ASSUME NEW c \in ClientId, NEW i \in DOMAIN undoLog, Undoes(c, i) PROVE Chain'
  <2>1. /\ undoLog[i].client = c /\ Applied(undoLog, c, i) /\ Marks(i, TRUE)
        /\ \A k \in DOMAIN undoLog : k > i => ~Applied(undoLog, c, k)
    BY <1>6 DEF Undoes, IsLatestUndoable, IsLatest, Applied
  <2>2. c \in clients /\ clients' = clients /\ redid' = redid /\ Others(c)
        /\ ents'[avatar'[c]].pose = undoLog[i].before
    BY <1>6 DEF Undoes
  <2>3. \A k \in DOMAIN undoLog : Applied(undoLog', c, k) <=> Applied(undoLog, c, k) /\ k # i
    BY <2>1 DEF Marks, Applied
  <2>4. \A k \in DOMAIN undoLog :
           Applied(undoLog', c, k) /\ Chained(undoLog, c, k) => Chained(undoLog', c, k)
    <3>1. \A k \in DOMAIN undoLog : Applied(undoLog', c, k) => k < i
      BY <1>1, <2>1, <2>3
    <3> QED
      BY <1>1, <2>1, <2>3, <3>1 DEF Marks, Chained
  <2>5. c \notin redid => Stands(undoLog', c, undoLog[i].before)
    <3>1. c \notin redid => Chained(undoLog, c, i)
      BY <2>1 DEF Chain
    <3>2. ASSUME NEW j \in DOMAIN undoLog,
                 j < i, Applied(undoLog, c, j), undoLog[i].before = undoLog[j].after,
                 \A k \in DOMAIN undoLog : j < k /\ k < i => ~Applied(undoLog, c, k)
          PROVE  Stands(undoLog', c, undoLog[i].before)
      <4>1. \A k \in DOMAIN undoLog' : k > j => ~Applied(undoLog', c, k)
        BY <1>1, <2>1, <2>3, <3>2 DEF Marks
      <4>2. j \in DOMAIN undoLog' /\ Applied(undoLog', c, j)
            /\ undoLog'[j].after = undoLog[i].before
        BY <1>1, <2>1, <2>3, <3>2 DEF Marks
      <4>3. IsLatestUndoable(undoLog', c, j)
        BY <4>1, <4>2 DEF IsLatestUndoable, IsLatest, Applied
      <4> QED
        BY <4>2, <4>3 DEF Stands
    <3>3. ASSUME \A j \in DOMAIN undoLog : j < i => ~Applied(undoLog, c, j),
                 undoLog[i].before = Fresh
          PROVE  Stands(undoLog', c, undoLog[i].before)
      <4>1. \A k \in DOMAIN undoLog' : ~Applied(undoLog', c, k)
        BY <1>1, <2>1, <2>3, <3>3 DEF Marks
      <4> QED
        BY <3>3, <4>1 DEF Stands
    <3> QED
      BY <3>1, <3>2, <3>3 DEF Chained
  <2>6. \A k \in DOMAIN undoLog', d \in ClientId \ redid' :
           Applied(undoLog', d, k) => Chained(undoLog', d, k)
    <3>1. DOMAIN undoLog' = DOMAIN undoLog
      BY <2>1 DEF Marks
    <3> QED
      BY <1>5, <2>1, <2>2, <2>3, <2>4, <3>1 DEF Chain
  <2>7. \A d \in clients' \ redid' : Stands(undoLog', d, ents'[avatar'[d]].pose)
    <3>1. ASSUME NEW d \in clients \ redid, d # c
          PROVE  Stands(undoLog', d, ents'[avatar'[d]].pose)
      <4>1. Stands(undoLog, d, ents[avatar[d]].pose) /\ d \in ClientId
        BY <1>1 DEF Chain
      <4>2. ents'[avatar'[d]].pose = ents[avatar[d]].pose
        BY <2>2, <3>1 DEF Others
      <4> QED
        BY <1>5, <2>1, <3>1, <4>1, <4>2
    <3> QED
      BY <2>2, <2>5, <3>1
  <2> QED
    BY <2>6, <2>7 DEF Chain
<1>7. ASSUME NEW c \in ClientId, NEW i \in DOMAIN undoLog, Redoes(c, i) PROVE Chain'
  <2>1. undoLog[i].client = c /\ Marks(i, FALSE) /\ redid' = redid \cup {c}
        /\ clients' = clients /\ Others(c)
    BY <1>7 DEF Redoes, IsLatestRedoable, IsLatest
  <2>2. \A k \in DOMAIN undoLog', d \in ClientId \ redid' :
           Applied(undoLog', d, k) => Chained(undoLog', d, k)
    <3>1. DOMAIN undoLog' = DOMAIN undoLog
      BY <2>1 DEF Marks
    <3> QED
      BY <1>5, <2>1, <3>1 DEF Chain
  <2>3. ASSUME NEW d \in clients' \ redid'
        PROVE  Stands(undoLog', d, ents'[avatar'[d]].pose)
    <3>1. d \in clients \ redid /\ d # c /\ d \in ClientId
      BY <1>1, <2>1
    <3>2. Stands(undoLog, d, ents[avatar[d]].pose)
      BY <3>1 DEF Chain
    <3>3. ents'[avatar'[d]].pose = ents[avatar[d]].pose
      BY <2>1, <3>1 DEF Others
    <3> QED
      BY <1>5, <2>1, <3>1, <3>2, <3>3
  <2> QED
    BY <2>2, <2>3 DEF Chain
<1> QED
  BY <1>1, <1>2, <1>3, <1>4, <1>6, <1>7, WorldStep

\* Undo is exact: the avatar of a client that never redid stands at its latest
\* edit not undone, or where it spawned, for any history of any length.
THEOREM UndoIsExact == Spec => []PoseIsLatestApplied
<1>1. Init => Chain
  <2> SUFFICES ASSUME Init PROVE Chain
    OBVIOUS
  <2>1. DOMAIN undoLog = {} /\ clients = {}
    BY DEF Init
  <2> QED
    BY <2>1, OwnershipInit DEF Chain
<1>2. Chain /\ [Next]_vars => Chain'
  BY OwnershipNext, ChainStep DEF Chain
<1>3. Chain => PoseIsLatestApplied
  <2> SUFFICES ASSUME Chain, NEW c \in clients \ redid
               PROVE  \/ \E i \in DOMAIN undoLog :
                            /\ IsLatestUndoable(undoLog, c, i)
                            /\ ents[avatar[c]].pose = undoLog[i].after
                      \/ /\ \A i \in DOMAIN undoLog : undoLog[i].client = c => undoLog[i].undone
                         /\ ents[avatar[c]].pose = Fresh
    BY DEF PoseIsLatestApplied
  <2>1. Stands(undoLog, c, ents[avatar[c]].pose)
    BY DEF Chain
  <2>2. \A i \in DOMAIN undoLog : undoLog[i].undone \in BOOLEAN
    <3>1. undoLog \in Seq(UndoEntry(Component))
      BY DEF Chain, Ownership, TypeOK
    <3>2. \A i \in DOMAIN undoLog : undoLog[i] \in UndoEntry(Component)
      BY <3>1, ElementOfSeq, SMT
    <3> QED
      BY <3>2 DEF UndoEntry
  <2> QED
    BY <2>1, <2>2 DEF Stands, Applied
<1> QED
  BY <1>1, <1>2, <1>3, PTL DEF Spec

-----------------------------------------------------------------------------
(* The refinement: CollabServer implements SharedWorld *)

\* The variables of SharedWorld, as the server implements them.
View == [e \in DOMAIN ents |-> [owner |-> ents[e].owner, pose |-> ents[e].pose]]
Held == [e \in DOMAIN ents |->
            {Fresh} \cup {undoLog[i].after : i \in {k \in DOMAIN undoLog : undoLog[k].entity = e}}]

\* Entity and client ids go up together.
Numbered == nextEntityId = FirstAvatarId + (nextClientId - 1)

Implementing == Poses /\ Numbered

\* A step the abstract specification allows, or none.
Allowed == World!Next \/ UNCHANGED World!vars

-----------------------------------------------------------------------------

LEMMA SameWorld ==
    ASSUME UNCHANGED <<nextEntityId, undoLog>>, DOMAIN ents' = DOMAIN ents,
           \A e \in DOMAIN ents :
              ents'[e].owner = ents[e].owner /\ ents'[e].pose = ents[e].pose
    PROVE  Allowed
<1>1. View' = View
  BY DEF View
<1>2. Held' = Held
  BY DEF Held
<1> QED BY <1>1, <1>2 DEF Allowed, World!vars, View, Held

LEMMA Joining == Implementing /\ AcceptOne => Allowed
<1> SUFFICES ASSUME Implementing, AcceptOne PROVE Allowed
  OBVIOUS
<1>0. PICK e, c : e = nextEntityId /\ c = nextClientId
  OBVIOUS
<1>1. /\ c \in ClientId /\ c \in Nat /\ c \notin clients /\ e \in Nat
      /\ nextEntityId' = e + 1 /\ undoLog' = undoLog
      /\ ents' = [x \in DOMAIN ents \cup {e} |-> IF x = e THEN MakeAvatar(c) ELSE ents[x]]
  BY <1>0 DEF AcceptOne, Implementing, Poses, Ownership, IdsIssued, Issued, TypeOK
<1>2. e \in 1 .. (FirstAvatarId + MaxClients) /\ e \notin 1 .. (e - 1) /\ 1 .. e = 1 .. (e - 1) \cup {e}
  BY <1>0, <1>1, BoundsAssumption DEF Implementing, Numbered, FirstAvatarId, ClientId
<1>3. \A x \in DOMAIN ents : ents[x].owner # c /\ x # e
  <2>1. \A d \in clients : avatar[d] < e /\ avatar[d] \in Nat
    BY <1>0 DEF Implementing, Poses, Ownership, IdsIssued, TypeOK
  <2>2. CubeId < e
    BY <1>0 DEF Implementing, Poses, Ownership, IdsIssued
  <2> QED BY <1>1, <2>1, <2>2
          DEF Implementing, Poses, Ownership, AvatarPerClient, CubeId, Server, ClientId
<1>4. \A i \in DOMAIN undoLog : undoLog[i].entity # e
  BY <1>0, <1>1, EntryType DEF Implementing, Poses, Ownership, IdsIssued, HistoryIsOwn
<1>5. View' = [x \in DOMAIN View \cup {e} |->
                  IF x = e THEN [owner |-> c, pose |-> Fresh] ELSE View[x]]
  BY <1>1, <1>3 DEF View, MakeAvatar
<1>6. Held' = [x \in DOMAIN Held \cup {e} |-> IF x = e THEN {Fresh} ELSE Held[x]]
  BY <1>1, <1>3, <1>4 DEF Held
<1>7. World!Join(e, c)
  <2>1. e \notin 1 .. (nextEntityId - 1) /\ \A x \in DOMAIN View : View[x].owner # c
    BY <1>0, <1>2, <1>3 DEF View
  <2>2. 1 .. (nextEntityId' - 1) = 1 .. (nextEntityId - 1) \cup {e}
    <3>1. nextEntityId' - 1 = e
      BY <1>1
    <3> QED BY <1>0, <1>2, <3>1
  <2> QED BY <1>5, <1>6, <2>1, <2>2 DEF World!Join, View, Held
<1> QED BY <1>1, <1>2, <1>7 DEF Allowed, World!Next

LEMMA Leaving == ASSUME Implementing, NEW c \in ClientId, Reap(c) PROVE Allowed
<1>1. PICK e : e = avatar[c]
  OBVIOUS
<1>2. /\ c \in clients /\ UNCHANGED <<nextEntityId, undoLog>>
      /\ ents' = [x \in DOMAIN ents \ {e} |-> ents[x]]
  BY <1>1 DEF Reap, EraseAvatar, IsNext, Implementing, Poses, Ownership, TypeOK
<1>3. e \in DOMAIN ents \ {CubeId}
  BY <1>1, <1>2, AvatarsApart DEF Implementing, Poses
<1>4. View' = [x \in DOMAIN View \ {e} |-> View[x]]
  BY <1>2 DEF View
<1>5. Held' = [x \in DOMAIN Held \ {e} |-> Held[x]]
  BY <1>2 DEF Held
<1>6. World!Leave(e)
  BY <1>2, <1>3, <1>4, <1>5 DEF World!Leave, View, Held
<1> QED BY <1>3, <1>6 DEF Allowed, World!Next

LEMMA Ticking == Implementing /\ TickDue => Allowed
<1> SUFFICES ASSUME Implementing, TickDue PROVE Allowed
  OBVIOUS
<1>1. PICK pose \in Component :
         ents' = [e \in DOMAIN ents |->
                     IF e = CubeId THEN [ents[e] EXCEPT !.pose = pose] ELSE ents[e]]
  BY DEF TickDue
<1>2. UNCHANGED <<nextEntityId, undoLog>>
  BY DEF TickDue
<1>3. CubeId \in DOMAIN ents /\ \A e \in DOMAIN ents : ents[e] \in Entity
  BY DEF Implementing, Poses, Ownership, TypeOK, AvatarPerClient
<1>4. View' = [View EXCEPT ![CubeId].pose = pose]
  BY <1>1, <1>3 DEF View, Entity
<1>5. Held' = Held
  BY <1>1, <1>2 DEF Held
<1>6. World!Animate(pose)
  BY <1>2, <1>4, <1>5 DEF World!Animate, View, Held
<1> QED BY <1>6 DEF Allowed, World!Next

\* An edit, an undo or a redo moves the sender's own avatar.
LEMMA Moving ==
    ASSUME Implementing, batch # <<>>, NEW r, r = Head(batch), Move(r), UNCHANGED nextEntityId
    PROVE  Allowed
<1>0. PICK e, after : e = r.entity /\ after = Merge(ents[e].pose, r.patch)
  OBVIOUS
<1> DEFINE entry == [txId |-> nextTxId, client |-> serving, entity |-> e,
                    before |-> ents[e].pose, after |-> after, undone |-> FALSE]
<1>1. Ownership /\ TypeOK /\ r \in Request /\ serving \in clients
  BY HeadType DEF Implementing, Poses, Ownership
<1>2. e \in DOMAIN ents /\ e = avatar[serving] /\ e # CubeId
  <2>1. SetsField(r) /\ OwnsTarget(r)
    BY DEF Move, CanMove
  <2> QED BY <1>0, <1>1, <2>1, OwnTarget, AvatarsApart DEF SetsField
<1>3. after \in Component
  <2>1. ents[e].pose \in Component
    BY <1>1, <1>2 DEF TypeOK, Entity
  <2>2. r.patch \in Patch
    BY <1>1 DEF Request
  <2> QED BY <1>0, <2>1, <2>2, MergeType
<1>4. undoLog' = Append(undoLog, entry) /\ ents' = [ents EXCEPT ![e].pose = after]
  BY <1>0 DEF Move, RecordApplied
<1>5. entry.entity = e /\ entry.after = after
  OBVIOUS
<1> HIDE DEF entry
<1>6. /\ DOMAIN undoLog' = DOMAIN undoLog \cup {Len(undoLog) + 1}
      /\ \A i \in DOMAIN undoLog : undoLog'[i] = undoLog[i]
      /\ undoLog'[Len(undoLog) + 1] = entry
  BY <1>1, <1>4, LogAppend
<1>7. View' = [View EXCEPT ![e].pose = after]
  BY <1>1, <1>2, <1>4 DEF View, TypeOK, Entity
<1>8. Held' = [Held EXCEPT ![e] = @ \cup {after}]
  <2>1. DOMAIN ents' = DOMAIN ents
    BY <1>4
  <2>2. ASSUME NEW x \in DOMAIN ents
        PROVE  Held'[x] = IF x = e THEN Held[x] \cup {after} ELSE Held[x]
    BY <1>5, <1>6, <2>1 DEF Held
  <2> QED BY <1>2, <2>1, <2>2 DEF Held
<1>9. World!Edit(e, after)
  BY <1>2, <1>7, <1>8 DEF World!Edit, View, Held
<1> QED BY <1>2, <1>3, <1>9 DEF Allowed, World!Next

LEMMA Returning ==
    ASSUME Implementing, batch # <<>>, UNCHANGED nextEntityId,
           NEW i \in DOMAIN undoLog, undoLog[i].client = serving,
           NEW pose \in {undoLog[i].before, undoLog[i].after}, NEW flag \in BOOLEAN,
           Restore(undoLog[i].entity, pose), undoLog' = SetUndone(undoLog, undoLog[i].txId, flag)
    PROVE  Allowed
<1>0. PICK e : e = undoLog[i].entity
  OBVIOUS
<1>1. Ownership /\ TypeOK /\ serving \in clients
  BY HeadType DEF Implementing, Poses, Ownership
<1>2. e = avatar[serving] /\ e \in DOMAIN ents /\ e # CubeId
  BY <1>0, <1>1, AvatarsApart DEF Ownership, HistoryIsOwn
<1>3. pose \in Component
  BY <1>1, EntryType
<1>4. pose \in Held[e]
  <2>1. FromOwner(undoLog, serving, pose)
    BY DEF Implementing, Poses, FromOwner
  <2>2. \A k \in DOMAIN undoLog : undoLog[k].client = serving => undoLog[k].entity = e
    BY <1>1, <1>2 DEF Ownership, HistoryIsOwn
  <2> QED BY <1>2, <2>1, <2>2 DEF FromOwner, Held
<1>5. ents' = [ents EXCEPT ![e].pose = pose]
  BY <1>0, <1>2 DEF Restore
<1>6. /\ DOMAIN undoLog' = DOMAIN undoLog
      /\ \A k \in DOMAIN undoLog :
            undoLog'[k].entity = undoLog[k].entity /\ undoLog'[k].after = undoLog[k].after
  BY <1>1, SetUndoneHistory
<1>7. View' = [View EXCEPT ![e].pose = pose]
  BY <1>1, <1>2, <1>5 DEF View, TypeOK, Entity
<1>8. Held' = Held
  BY <1>5, <1>6 DEF Held
<1>9. World!Restore(e, pose)
  BY <1>2, <1>4, <1>7, <1>8 DEF World!Restore, View, Held
<1> QED BY <1>2, <1>3, <1>9 DEF Allowed, World!Next

LEMMA Applying == Implementing /\ ApplyHead => Allowed
<1> SUFFICES ASSUME Implementing, ApplyHead PROVE Allowed
  OBVIOUS
<1>1. PICK r : /\ r = Head(batch)
               /\ Decorate(r) \/ Reparent(r) \/ Move(r) \/ Undo(r) \/ Redo(r) \/ Reject(r)
  BY DEF ApplyHead
<1>2. batch # <<>> /\ UNCHANGED nextEntityId /\ TypeOK
  BY DEF ApplyHead, Implementing, Poses, Ownership
<1>3. CASE Decorate(r) \/ Reparent(r)
  <2>1. SetSidecar(r) /\ r.entity \in DOMAIN ents /\ undoLog' = undoLog
    BY <1>3 DEF Decorate, Reparent, CanDecorate, CanReparent, SetsField, SetSidecar
  <2> QED BY <1>2, <2>1, SideWriteKeeps, SameWorld
<1>4. CASE Move(r)
  BY <1>1, <1>2, <1>4, Moving
<1>5. CASE Undo(r)
  <2>1. PICK i \in DOMAIN undoLog :
           /\ IsLatestUndoable(undoLog, serving, i)
           /\ Restore(undoLog[i].entity, undoLog[i].before)
           /\ undoLog' = SetUndone(undoLog, undoLog[i].txId, TRUE)
    BY <1>5 DEF Undo, MarkUndone
  <2>2. undoLog[i].client = serving
    BY <2>1 DEF IsLatestUndoable, IsLatest
  <2> QED BY <1>2, <2>1, <2>2, Returning
<1>6. CASE Redo(r)
  <2>1. PICK i \in DOMAIN undoLog :
           /\ IsLatestRedoable(undoLog, serving, i)
           /\ Restore(undoLog[i].entity, undoLog[i].after)
           /\ undoLog' = SetUndone(undoLog, undoLog[i].txId, FALSE)
    BY <1>6 DEF Redo, MarkRedone
  <2>2. undoLog[i].client = serving
    BY <2>1 DEF IsLatestRedoable, IsLatest
  <2> QED BY <1>2, <2>1, <2>2, Returning
<1>7. CASE Reject(r)
  BY <1>2, <1>7, SameWorld DEF Reject
<1> QED BY <1>1, <1>3, <1>4, <1>5, <1>6, <1>7

-----------------------------------------------------------------------------

LEMMA EveryStepAllowed == Implementing /\ [Next]_vars => Allowed
<1> SUFFICES ASSUME Implementing, [Next]_vars PROVE Allowed
  OBVIOUS
<1>1. CASE AcceptOne
  BY <1>1, Joining
<1>2. ASSUME NEW c \in ClientId, Reap(c) PROVE Allowed
  BY <1>2, Leaving
<1>3. CASE TickDue
  BY <1>3, Ticking
<1>4. CASE ApplyHead
  BY <1>4, Applying
<1>5. ASSUME UNCHANGED <<ents, nextEntityId, undoLog>> PROVE Allowed
  BY <1>5, SameWorld
<1>6. CASE Workers \/ UNCHANGED vars
  BY <1>5, <1>6 DEF Workers, ConnectionReady, ConnectionShutdown, Receive, worldVars, vars
<1>7. ASSUME NEW c \in ClientId, Handshake(c) PROVE Allowed
  BY <1>5, <1>7 DEF Handshake, SendPreamble, SendWelcome, SendFails, CatchUp, NoticeShutdown,
                    NothingToGreet, worldVars
<1>8. CASE \/ AcceptTimeout \/ EndHandshake \/ EndDrain \/ TickNotDue \/ EndReap
           \/ \E c \in ClientId : SwapInbox(c) \/ Keep(c)
  BY <1>5, <1>8
     DEF AcceptTimeout, EndHandshake, EndDrain, TickNotDue, EndReap, SwapInbox, Keep, worldVars
<1> QED
  BY <1>1, <1>2, <1>3, <1>4, <1>6, <1>7, <1>8 DEF Next, MainLoop

LEMMA NumberedNext == Implementing /\ [Next]_vars => Numbered'
<1> SUFFICES ASSUME Implementing, [Next]_vars PROVE Numbered'
  OBVIOUS
<1>1. CASE AcceptOne
  BY <1>1 DEF AcceptOne, Implementing, Numbered, FirstAvatarId, Poses, Ownership, IdsIssued
<1>2. ASSUME UNCHANGED <<nextEntityId, nextClientId>> PROVE Numbered'
  BY <1>2 DEF Implementing, Numbered
<1>3. CASE Workers \/ UNCHANGED vars
  BY <1>2, <1>3 DEF Workers, ConnectionReady, ConnectionShutdown, Receive, worldVars, clientVars, vars
<1>4. ASSUME NEW c \in ClientId, Handshake(c) PROVE Numbered'
  BY <1>2, <1>4 DEF Handshake, SendPreamble, SendWelcome, SendFails, CatchUp, NoticeShutdown,
                    NothingToGreet, worldVars, clientVars
<1>5. CASE \/ AcceptTimeout \/ EndHandshake \/ ApplyHead \/ EndDrain \/ TickDue \/ TickNotDue
           \/ EndReap \/ \E c \in ClientId : SwapInbox(c) \/ Reap(c) \/ Keep(c)
  BY <1>2, <1>5
     DEF AcceptTimeout, EndHandshake, ApplyHead, EndDrain, TickDue, TickNotDue, EndReap, SwapInbox,
         Reap, Keep, worldVars, clientVars
<1> QED
  BY <1>1, <1>3, <1>4, <1>5 DEF Next, MainLoop

\* Whatever the clients, the network and the loop do, the world changes as promised:
\* each step moves one entity, an avatar only by its owner and only to where it asked or
\* back to where it has been, and no identity is given out twice.
THEOREM ServerImplementsWorld == Spec => ImplementsSharedWorld
<1>1. Init => Implementing /\ World!Init
  <2> SUFFICES ASSUME Init PROVE Implementing /\ World!Init
    OBVIOUS
  <2>1. DOMAIN undoLog = {} /\ clients = {} /\ nextEntityId = FirstAvatarId /\ nextClientId = 1
    BY DEF Init
  <2>2. Implementing
    BY <2>1, OwnershipInit DEF Implementing, Poses, Numbered, FirstAvatarId
  <2>3. View = [e \in {CubeId} |-> [owner |-> 0, pose |-> Fresh]]
    BY DEF Init, View, Server
  <2>4. Held = [e \in {CubeId} |-> {Fresh}]
    BY <2>1 DEF Init, Held
  <2>5. 1 .. (nextEntityId - 1) \subseteq 1 .. (FirstAvatarId + MaxClients)
        /\ CubeId \in 1 .. (nextEntityId - 1)
    BY <2>1, BoundsAssumption DEF FirstAvatarId, CubeId
  <2> QED BY <2>2, <2>3, <2>4, <2>5 DEF World!Init, View, Held
<1>2. Implementing /\ [Next]_vars => Implementing'
  BY OwnershipNext, PosesStep, NumberedNext DEF Implementing, Poses
<1>3. Implementing /\ [Next]_vars => [World!Next]_(World!vars)
  BY EveryStepAllowed DEF Allowed
<1> QED BY <1>1, <1>2, <1>3, PTL DEF Spec, ImplementsSharedWorld, World!Spec

-----------------------------------------------------------------------------
(* The replicas of the clients *)

ClientEntity ==
    [owner : Nat, pose : Component, side : [Sidecars -> Component],
     lastTick : Nat, haveData : BOOLEAN]

Replicas == UNION {[D -> ClientEntity] : D \in SUBSET Nat}

RTypeOK ==
    /\ wire \in [Observer -> SUBSET Message] /\ dgrams \in [Observer -> SUBSET Message]
    /\ replica \in [Observer -> Replicas]
    /\ \A c \in Observer : \A m \in dgrams[c] : m.kind = "Snapshot"

\* Messages on their way are true of what is still there: a Spawn says who owns
\* the entity, and a Despawn is about one that is gone for good.
WireIsTrue ==
    \A c \in Observer : \A m \in wire[c] :
        /\ m.kind \in {"Spawn", "Despawn"} => m.entity < nextEntityId
        /\ m.kind = "Spawn" /\ m.entity \in DOMAIN ents => m.owner = ents[m.entity].owner
        /\ m.kind = "Despawn" => m.entity \notin DOMAIN ents

Synced == {CubeId} \cup {avatar[d] : d \in {x \in clients : stage[x] = "synced"}}

\* What a listening client should know it knows, or is about to be told.
KnownOrTold ==
    \A c \in Observer : Listening(c) => \A e \in Synced :
        \/ e \in DOMAIN replica[c] /\ replica[c][e].owner = ents[e].owner
        \/ \E m \in wire[c] : m.kind = "Spawn" /\ m.entity = e

\* Pose p of entity e was once set by its owner.
Real(e, p) ==
    \/ e = CubeId \/ p = Fresh
    \/ \E i \in DOMAIN undoLog : undoLog[i].entity = e /\ undoLog[i].after = p

PosesAreReal ==
    \A c \in Observer :
        /\ \A m \in wire[c] : m.kind = "Spawn" => Real(m.entity, m.pose)
        /\ \A m \in dgrams[c] : Real(m.entity, m.pose)
        /\ \A e \in DOMAIN replica[c] : Real(e, replica[c][e].pose)

RInv == Telling /\ Poses /\ RTypeOK /\ WireIsTrue /\ KnownOrTold /\ PosesAreReal
-----------------------------------------------------------------------------
(* What a step of the server sends and changes *)

\* Fields of a message, by its kind.
LEMMA MessageFields ==
    ASSUME NEW m \in Message
    PROVE  /\ m.kind = "Spawn" => m.entity \in Nat /\ m.owner \in Nat /\ m.pose \in Component
           /\ m.kind = "Despawn" => m.entity \in Nat
           /\ m.kind = "SetField" => m.entity \in Nat /\ m.patch \in Patch
           /\ m.kind = "Snapshot" => m.entity \in Nat /\ m.tick \in Nat /\ m.pose \in Component
BY DEF Message

\* Entities keep their owner, new ones get a new id, and the history only grows.
WorldGrows ==
    /\ nextEntityId \in Nat /\ nextEntityId' \in Nat /\ nextEntityId' >= nextEntityId
    /\ \A e \in DOMAIN ents : e \in Nat /\ e < nextEntityId
    /\ \A e \in DOMAIN ents' :
          \/ e \in DOMAIN ents /\ ents'[e].owner = ents[e].owner
          \/ e = nextEntityId
    /\ \A i \in DOMAIN undoLog :
          /\ i \in DOMAIN undoLog' /\ undoLog'[i].entity = undoLog[i].entity
          /\ undoLog'[i].after = undoLog[i].after

LEMMA Growing ==
    ASSUME Ownership, Ownership', [Next]_vars
    PROVE  WorldGrows
<1>1. TypeOK /\ nextEntityId \in Nat /\ clients \subseteq ClientId /\ avatar \in [ClientId -> Nat]
  BY DEF Ownership, TypeOK
<1>2. \A e \in DOMAIN ents : e \in Nat /\ e < nextEntityId
  <2>1. \A c \in clients : avatar[c] < nextEntityId
    BY DEF Ownership, IdsIssued
  <2> QED BY <2>1 DEF Ownership, IdsIssued, AvatarPerClient, TypeOK
<1>3. ASSUME UNCHANGED <<nextEntityId, undoLog>>, DOMAIN ents' \subseteq DOMAIN ents,
             \A e \in DOMAIN ents' : ents'[e].owner = ents[e].owner
      PROVE  WorldGrows
  BY <1>1, <1>2, <1>3 DEF WorldGrows
<1>4. CASE AcceptOne
  BY <1>1, <1>2, <1>4 DEF AcceptOne, WorldGrows
<1>5. ASSUME NEW c \in ClientId, Reap(c) PROVE WorldGrows
  BY <1>3, <1>5 DEF Reap, EraseAvatar
<1>6. CASE TickDue
  <2>1. \A e \in DOMAIN ents : ents[e] \in Entity
    BY <1>1 DEF TypeOK
  <2> QED BY <1>3, <1>6, <2>1 DEF TickDue, Entity
<1>7. CASE ApplyHead
  <2>1. PICK r : /\ r = Head(batch)
                 /\ Decorate(r) \/ Reparent(r) \/ Move(r) \/ Undo(r) \/ Redo(r) \/ Reject(r)
    BY <1>7 DEF ApplyHead
  <2>2. batch # <<>> /\ UNCHANGED <<nextEntityId, clients, avatar>>
    BY <1>7 DEF ApplyHead, clientVars
  <2>3. DOMAIN ents' = DOMAIN ents
    BY <1>1, <2>1, <2>2, ApplyType
  <2>4. \A e \in DOMAIN ents' : ents'[e].owner = ents[e].owner
    BY <2>2, <2>3 DEF Ownership, AvatarPerClient
  <2>5. CASE undoLog' = undoLog
    BY <1>3, <2>2, <2>3, <2>4, <2>5
  <2>6. CASE \E entry : undoLog' = Append(undoLog, entry)
    <3>1. \A i \in DOMAIN undoLog : i \in DOMAIN undoLog' /\ undoLog'[i] = undoLog[i]
      <4>1. PICK entry : undoLog' = Append(undoLog, entry)
        BY <2>6
      <4>2. undoLog \in Seq(UndoEntry(Component))
        BY <1>1 DEF TypeOK
      <4>3. /\ DOMAIN undoLog = 1 .. Len(undoLog) /\ DOMAIN undoLog' = 1 .. (Len(undoLog) + 1)
            /\ Len(undoLog) \in Nat
            /\ \A i \in 1 .. Len(undoLog) : undoLog'[i] = undoLog[i]
        BY <4>1, <4>2
      <4> QED BY <4>3
    <3> QED BY <1>1, <1>2, <2>2, <2>3, <2>4, <3>1 DEF WorldGrows
  <2>7. CASE \E t : \E flag \in BOOLEAN : undoLog' = SetUndone(undoLog, t, flag)
    BY <1>1, <1>2, <2>2, <2>3, <2>4, <2>7, SetUndoneHistory DEF WorldGrows
  <2>8. CASE Decorate(r) \/ Reparent(r) \/ Reject(r)
    BY <2>5, <2>8 DEF Decorate, Reparent, SetSidecar, Reject
  <2>9. CASE Move(r)
    BY <2>6, <2>9 DEF Move, RecordApplied
  <2>10. CASE Undo(r) \/ Redo(r)
    <3>1. \E t : \E flag \in BOOLEAN : undoLog' = SetUndone(undoLog, t, flag)
      BY <2>10 DEF Undo, MarkUndone, Redo, MarkRedone
    <3> QED BY <2>7, <3>1
  <2> QED BY <2>1, <2>8, <2>9, <2>10
<1>8. CASE Workers \/ UNCHANGED vars
  BY <1>3, <1>8 DEF Workers, ConnectionReady, ConnectionShutdown, Receive, worldVars, vars
<1>9. ASSUME NEW c \in ClientId, Handshake(c) PROVE WorldGrows
  BY <1>3, <1>9 DEF Handshake, SendPreamble, SendWelcome, SendFails, CatchUp, NoticeShutdown,
                    NothingToGreet, worldVars
<1>10. CASE \/ AcceptTimeout \/ EndHandshake \/ EndDrain \/ TickNotDue \/ EndReap
            \/ \E c \in ClientId : SwapInbox(c) \/ Keep(c)
  BY <1>3, <1>10 DEF AcceptTimeout, EndHandshake, EndDrain, TickNotDue, EndReap, SwapInbox, Keep,
                     worldVars
<1> QED BY <1>4, <1>5, <1>6, <1>7, <1>8, <1>9, <1>10 DEF Next, MainLoop

\* What is sent is so at the moment it is sent.
SentIsTrue ==
    \A c \in ClientId : \A m \in out'[c] :
        /\ m.kind \in {"Spawn", "Snapshot"} =>
              m.entity \in DOMAIN ents' /\ m.pose = ents'[m.entity].pose
        /\ m.kind = "Spawn" => m.owner = ents'[m.entity].owner
        /\ m.kind = "Despawn" => m.entity \notin DOMAIN ents' /\ m.entity < nextEntityId'

LEMMA Sending ==
    ASSUME Ownership, Ownership', Next
    PROVE  SentIsTrue
<1>1. TypeOK /\ clients \subseteq ClientId
  BY DEF Ownership, TypeOK
<1>2. CASE Silent
  BY <1>2 DEF Silent, NoMessages, SentIsTrue
<1>3. ASSUME NEW m, Broadcast(m), m.kind \notin {"Spawn", "Snapshot", "Despawn"}
      PROVE  SentIsTrue
  BY <1>3 DEF Broadcast, Send, SentIsTrue
<1>4. ASSUME NEW c \in ClientId, SendPreamble(c) \/ SendWelcome(c) PROVE SentIsTrue
  <2>1. PICK msgs : SendTo(c, msgs) /\ \A m \in msgs : m.kind \in {"Preamble", "Welcome"}
    BY <1>4 DEF SendPreamble, SendWelcome
  <2> QED BY <2>1 DEF SendTo, Send, NoMessages, SentIsTrue
<1>5. ASSUME NEW c \in ClientId, CatchUp(c) PROVE SentIsTrue
  <2>1. ents' = ents
    BY <1>5 DEF CatchUp
  <2>2. \A d \in ClientId : \A m \in out'[d] : \E e \in DOMAIN ents : \E tx : m = SpawnTx(e, tx)
    BY <1>5 DEF CatchUp, Send
  <2>3. \A e, tx : /\ SpawnTx(e, tx).kind = "Spawn" /\ SpawnTx(e, tx).entity = e
                   /\ SpawnTx(e, tx).owner = ents[e].owner /\ SpawnTx(e, tx).pose = ents[e].pose
    BY DEF SpawnTx
  <2> QED BY <2>1, <2>2, <2>3 DEF SentIsTrue
<1>6. CASE TickDue
  <2>1. DOMAIN ents' = DOMAIN ents
    BY <1>6 DEF TickDue
  <2>2. \A d \in ClientId : \A m \in out'[d] : \E e \in DOMAIN ents :
           m = [kind |-> "Snapshot", tick |-> tick', entity |-> e, pose |-> ents'[e].pose]
    BY <1>6 DEF TickDue, Send
  <2> QED BY <2>1, <2>2 DEF SentIsTrue
<1>7. ASSUME NEW c \in ClientId, Reap(c) PROVE SentIsTrue
  <2>1. c \in clients /\ DOMAIN ents' = DOMAIN ents \ {avatar[c]} /\ nextEntityId' = nextEntityId
    BY <1>1, <1>7 DEF Reap, EraseAvatar, IsNext, TypeOK
  <2>2. avatar[c] < nextEntityId
    BY <2>1 DEF Ownership, IdsIssued
  <2>3. CASE Silent
    BY <1>2, <2>3
  <2>4. CASE Broadcast([kind |-> "Despawn", txId |-> nextTxId, entity |-> avatar[c]])
    BY <2>1, <2>2, <2>4 DEF Broadcast, Send, SentIsTrue
  <2> QED BY <1>7, <2>3, <2>4 DEF Reap
<1>8. CASE ApplyHead
  <2>1. PICK r : Decorate(r) \/ Reparent(r) \/ Move(r) \/ Undo(r) \/ Redo(r) \/ Reject(r)
    BY <1>8 DEF ApplyHead
  <2>2. CASE Reject(r)
    BY <1>2, <2>2 DEF Reject
  <2>3. CASE Decorate(r) \/ Reparent(r) \/ Move(r)
    <3>1. Broadcast(SetFieldTx(r)) /\ SetFieldTx(r).kind = "SetField"
      BY <2>3 DEF Decorate, Reparent, SetSidecar, Move, SetFieldTx
    <3> QED BY <1>3, <3>1
  <2>4. CASE Undo(r) \/ Redo(r)
    <3>1. \E i \in DOMAIN undoLog : Echo("Undo", undoLog[i]) \/ Echo("Redo", undoLog[i])
      BY <2>4 DEF Undo, Redo
    <3>2. \E m : Broadcast(m) /\ m.kind \in {"Undo", "Redo"}
      BY <3>1 DEF Echo
    <3> QED BY <1>3, <3>2
  <2> QED BY <2>1, <2>2, <2>3, <2>4
<1> QED BY <1>2, <1>4, <1>5, <1>6, <1>7, <1>8
        DEF Next, Workers, ConnectionReady, ConnectionShutdown, Receive, MainLoop, AcceptOne,
            AcceptTimeout, Handshake, SendFails, NoticeShutdown, NothingToGreet, EndHandshake, SwapInbox,
            EndDrain, TickNotDue, Keep, EndReap
\* A client that listens after a step either listened before, and those it did not
\* have to know yet are shown to it, or is shown everybody.
NewcomersShown ==
    \A c \in ClientId : Listening(c)' =>
        \/ /\ Listening(c)
           /\ \A e \in Synced' : e \in Synced \/ \E m \in out'[c] : m.kind = "Spawn" /\ m.entity = e
        \/ \A e \in DOMAIN ents' : \E m \in out'[c] : m.kind = "Spawn" /\ m.entity = e

LEMMA Showing ==
    ASSUME Telling, Ownership', Next
    PROVE  NewcomersShown
<1>1. /\ TypeOK /\ Ownership /\ clients \subseteq ClientId
      /\ stage \in [ClientId -> Stages] /\ conn \in [ClientId -> {"none", "connecting", "connected", "shutdown"}]
      /\ clients \subseteq Issued /\ nextClientId \notin Issued
  <2>1. TypeOK /\ Ownership /\ clients \subseteq Issued /\ nextClientId \in Nat
    BY DEF Telling, Ownership, IdsIssued, TypeOK
  <2> QED BY <2>1 DEF Issued, TypeOK
<1>2. ASSUME clients' \subseteq clients, avatar' = avatar,
             \A c \in ClientId : stage'[c] = "synced" <=> stage[c] = "synced",
             \A c \in ClientId : stage[c] = "synced" /\ conn'[c] = "connected" => conn[c] = "connected"
      PROVE  NewcomersShown
  <2>1. Synced' \subseteq Synced
    BY <1>1, <1>2 DEF Synced
  <2>2. \A c \in ClientId : Listening(c)' => Listening(c)
    BY <1>1, <1>2 DEF Listening
  <2> QED BY <2>1, <2>2 DEF NewcomersShown
<1>3. CASE AcceptOne
  <2>1. PICK new \in ClientId : new = nextClientId
    BY <1>3 DEF AcceptOne
  <2>2. /\ clients' = clients \cup {new} /\ stage' = [stage EXCEPT ![new] = "accepted"]
        /\ conn' = [conn EXCEPT ![new] = "connecting"]
        /\ avatar' = [avatar EXCEPT ![new] = nextEntityId] /\ DOMAIN avatar = ClientId
        /\ new \notin clients
    BY <1>1, <1>3, <2>1 DEF AcceptOne, TypeOK
  <2>3. \A d \in clients' : stage'[d] = "synced" =>
           d \in clients /\ stage[d] = "synced" /\ avatar'[d] = avatar[d]
    BY <1>1, <2>1, <2>2
  <2>4. Synced' \subseteq Synced
    BY <2>3 DEF Synced
  <2>5. \A c \in ClientId : Listening(c)' => Listening(c)
    BY <1>1, <2>1, <2>2, <2>3 DEF Listening
  <2> QED BY <2>4, <2>5 DEF NewcomersShown
<1>4. ASSUME NEW c \in ClientId, CatchUp(c) PROVE NewcomersShown
  <2>1. /\ c \in clients /\ ~dead[c] /\ conn[c] = "connected" /\ stage[c] = "welcomed"
        /\ stage' = [stage EXCEPT ![c] = "synced"]
        /\ UNCHANGED <<conn, clients, avatar, ents>>
    BY <1>1, <1>4 DEF CatchUp, Greets, IsNext, wireVars, TypeOK
  <2>2. avatar[c] \in DOMAIN ents
    BY <1>1, <2>1 DEF Ownership, AvatarPerClient
  <2>3. \A d \in ClientId \ {c} : stage'[d] = stage[d]
    BY <1>1, <2>1
  <2>4. Synced' \subseteq Synced \cup {avatar[c]}
    BY <1>1, <2>1, <2>3 DEF Synced
  <2>5. \A d \in ClientId \ {c} : Listening(d)' => Listening(d) /\ d \in ShownTo(c)
    BY <2>1, <2>3 DEF Telling, Connections, Listening, ShownTo, Audience, Welcomed
  <2>6. ASSUME NEW e \in DOMAIN ents
        PROVE  \E m \in out'[c] : m.kind = "Spawn" /\ m.entity = e
    <3>1. \E tx : SpawnTx(e, tx) \in out'[c]
      BY <1>4 DEF CatchUp, Send
    <3> QED BY <3>1 DEF SpawnTx
  <2>7. ASSUME NEW d \in ClientId \ {c}, d \in ShownTo(c)
        PROVE  \E m \in out'[d] : m.kind = "Spawn" /\ m.entity = avatar[c]
    <3>1. \E tx : out'[d] = {SpawnTx(avatar[c], tx)}
      BY <1>4, <2>2, <2>7 DEF CatchUp, Send
    <3> QED BY <3>1 DEF SpawnTx
  <2> QED BY <2>1, <2>4, <2>5, <2>6, <2>7 DEF NewcomersShown
<1>5. ASSUME NEW c \in ClientId, SendPreamble(c) \/ SendWelcome(c) PROVE NewcomersShown
  <2>1. /\ stage[c] \in {"accepted", "preamble"} /\ stage' = [stage EXCEPT ![c] = stage'[c]]
        /\ stage'[c] \in {"preamble", "welcomed"} /\ UNCHANGED <<conn, clients, avatar>>
    BY <1>1, <1>5 DEF SendPreamble, SendWelcome, Greets, wireVars
  <2>2. \A d \in ClientId : stage'[d] = "synced" <=> stage[d] = "synced"
    BY <1>1, <2>1
  <2> QED BY <1>2, <2>1, <2>2
<1>6. ASSUME NEW c \in ClientId, ConnectionReady(c) \/ ConnectionShutdown(c) \/ SendFails(c)
      PROVE  NewcomersShown
  <2>1. /\ UNCHANGED <<clients, avatar, stage>>
        /\ conn' = [conn EXCEPT ![c] = conn'[c]]
        /\ conn'[c] = "connected" => conn[c] = "connecting"
    BY <1>1, <1>6 DEF ConnectionReady, ConnectionShutdown, SendFails, clientVars
  <2>2. \A d \in ClientId : stage[d] = "synced" /\ conn'[d] = "connected" => conn[d] = "connected"
    BY <1>1, <2>1 DEF Telling, Connections
  <2> QED BY <1>2, <2>1, <2>2
<1>7. ASSUME NEW c \in ClientId, NoticeShutdown(c) \/ NothingToGreet(c) \/ SwapInbox(c)
                                 \/ Keep(c) \/ Reap(c)
      PROVE  NewcomersShown
  BY <1>2, <1>7 DEF NoticeShutdown, NothingToGreet, SwapInbox, Keep, Reap, clientVars, wireVars
<1>8. CASE \/ AcceptTimeout \/ EndHandshake \/ ApplyHead \/ EndDrain \/ TickDue \/ TickNotDue
           \/ EndReap \/ \E c \in ClientId, r \in Requests : Receive(c, r)
  BY <1>2, <1>8 DEF AcceptTimeout, EndHandshake, ApplyHead, EndDrain, TickDue, TickNotDue,
                    EndReap, Receive, clientVars, wireVars
<1> QED BY <1>3, <1>4, <1>5, <1>6, <1>7, <1>8 DEF Next, Workers, MainLoop, Handshake

-----------------------------------------------------------------------------
(* What a step of the client does to a replica *)

LEMMA ReplicaType ==
    ASSUME RTypeOK, NEW c \in Observer
    PROVE  /\ DOMAIN replica[c] \subseteq Nat
           /\ replica[c] = [x \in DOMAIN replica[c] |-> replica[c][x]]
           /\ \A e \in DOMAIN replica[c] : replica[c][e] \in ClientEntity
<1>1. PICK D \in SUBSET Nat : replica[c] \in [D -> ClientEntity]
  BY DEF RTypeOK, Replicas
<1> QED BY <1>1

\* Entity e of observer c is now ent; all else is as it was.
Becomes(c, e, ent) ==
    /\ replica' \in [Observer -> Replicas]
    /\ \A d \in Observer \ {c} : replica'[d] = replica[d]
    /\ DOMAIN replica'[c] = DOMAIN replica[c] \cup {e}
    /\ \A x \in DOMAIN replica[c] \ {e} : replica'[c][x] = replica[c][x]
    /\ replica'[c][e] = ent

LEMMA PutReplaces ==
    ASSUME RTypeOK, NEW c \in Observer, NEW e \in Nat, NEW ent \in ClientEntity, Put(c, e, ent)
    PROVE  Becomes(c, e, ent)
<1> DEFINE new == [x \in DOMAIN replica[c] \cup {e} |-> IF x = e THEN ent ELSE replica[c][x]]
<1>1. replica' = [replica EXCEPT ![c] = new] /\ replica \in [Observer -> Replicas]
  BY DEF Put, RTypeOK
<1>2. new \in [DOMAIN replica[c] \cup {e} -> ClientEntity] /\ DOMAIN replica[c] \cup {e} \in SUBSET Nat
  BY ReplicaType
<1>3. new \in Replicas
  BY <1>2 DEF Replicas
<1>4. /\ DOMAIN new = DOMAIN replica[c] \cup {e} /\ new[e] = ent
      /\ \A x \in DOMAIN replica[c] \ {e} : new[x] = replica[c][x]
  OBVIOUS
<1> HIDE DEF new
<1> QED BY <1>1, <1>3, <1>4 DEF Becomes

LEMMA DropForgets ==
    ASSUME RTypeOK, NEW c \in Observer, NEW e, Drop(c, e)
    PROVE  /\ replica' \in [Observer -> Replicas]
           /\ \A d \in Observer \ {c} : replica'[d] = replica[d]
           /\ DOMAIN replica'[c] = DOMAIN replica[c] \ {e}
           /\ \A x \in DOMAIN replica'[c] : replica'[c][x] = replica[c][x]
<1> DEFINE new == [x \in DOMAIN replica[c] \ {e} |-> replica[c][x]]
<1>1. replica' = [replica EXCEPT ![c] = new] /\ replica \in [Observer -> Replicas]
  BY DEF Drop, RTypeOK
<1>2. new \in [DOMAIN replica[c] \ {e} -> ClientEntity] /\ DOMAIN replica[c] \ {e} \in SUBSET Nat
  BY ReplicaType
<1>3. new \in Replicas
  BY <1>2 DEF Replicas
<1>4. /\ DOMAIN new = DOMAIN replica[c] \ {e}
      /\ \A x \in DOMAIN replica[c] \ {e} : new[x] = replica[c][x]
  OBVIOUS
<1> HIDE DEF new
<1> QED BY <1>1, <1>3, <1>4

\* An entity the replica has, or the one it makes up for an unknown id.
LEMMA EntryIs ==
    ASSUME RTypeOK, NEW c \in Observer, NEW e
    PROVE  /\ Entry(c, e) \in ClientEntity
           /\ e \in DOMAIN replica[c] => Entry(c, e) = replica[c][e]
<1>1. NewEntity \in ClientEntity
  <2>1. [s \in Sidecars |-> Fresh] \in [Sidecars -> Component]
    BY FreshType
  <2> QED BY <2>1, FreshType DEF NewEntity, ClientEntity
<1> QED BY <1>1, ReplicaType DEF Entry
-----------------------------------------------------------------------------
(* Every step keeps the invariant *)

LEMMA LogKeepsReal ==
    ASSUME WorldGrows, NEW e, NEW p, Real(e, p)
    PROVE  Real(e, p)'
BY DEF WorldGrows, Real

\* An avatar's pose in the world is its owner's.
RealWorld == \A e \in DOMAIN ents : Real(e, ents[e].pose)

LEMMA AvatarsAreReal == Poses => RealWorld
<1> SUFFICES ASSUME Poses, NEW e \in DOMAIN ents
             PROVE  Real(e, ents[e].pose)
  BY DEF RealWorld
<1>1. Ownership
  BY DEF Poses
<1>2. CASE e = CubeId
  BY <1>2 DEF Real
<1>3. ASSUME NEW c \in clients, e = avatar[c] PROVE Real(e, ents[e].pose)
  <2>1. FromOwner(undoLog, c, ents[e].pose)
    BY <1>3 DEF Poses
  <2>2. \A i \in DOMAIN undoLog : undoLog[i].client = c => undoLog[i].entity = e
    BY <1>1, <1>3 DEF Ownership, HistoryIsOwn
  <2> QED BY <2>1, <2>2 DEF FromOwner, Real
<1> QED BY <1>1, <1>2, <1>3 DEF Ownership, AvatarPerClient

LEMMA ServerStepSafe ==
    ASSUME RInv, Telling', Poses', ServerStep
    PROVE  RInv'
<1>1. /\ Telling /\ Ownership /\ Ownership' /\ TypeOK' /\ Next /\ Observer \subseteq ClientId
      /\ RTypeOK /\ WireIsTrue /\ KnownOrTold /\ PosesAreReal
  BY ObserverAssumption DEF RInv, Poses, Telling, Ownership, ServerStep
<1>2. WorldGrows
  BY <1>1, Growing
<1>3. SentIsTrue /\ NewcomersShown
  BY <1>1, Sending, Showing
<1>4. /\ UNCHANGED replica
      /\ \A c \in Observer :
            /\ wire'[c] = IF conn'[c] = "connected" THEN wire[c] \cup Reliable(out'[c]) ELSE {}
            /\ dgrams'[c] = IF conn'[c] = "connected" THEN dgrams[c] \cup Datagrams(out'[c]) ELSE {}
  BY DEF ServerStep
<1>5. RTypeOK'
  <2>1. \A c \in Observer : out'[c] \subseteq Message
    BY <1>1 DEF TypeOK
  <2>2. \A c \in Observer : wire[c] \subseteq Message /\ dgrams[c] \subseteq Message
    BY <1>1 DEF RTypeOK
  <2>3. wire' = [c \in Observer |-> wire'[c]] /\ dgrams' = [c \in Observer |-> dgrams'[c]]
    BY DEF ServerStep
  <2> QED BY <1>1, <1>4, <2>1, <2>2, <2>3 DEF RTypeOK, Reliable, Datagrams
<1>6. WireIsTrue'
  <2> SUFFICES ASSUME NEW c \in Observer, NEW m \in wire'[c]
               PROVE  /\ m.kind \in {"Spawn", "Despawn"} => m.entity < nextEntityId'
                      /\ m.kind = "Spawn" /\ m.entity \in DOMAIN ents' => m.owner = ents'[m.entity].owner
                      /\ m.kind = "Despawn" => m.entity \notin DOMAIN ents'
    BY DEF WireIsTrue
  <2>1. CASE m \in wire[c]
    <3>1. m.kind \in {"Spawn", "Despawn"} => m.entity \in Nat
      BY <1>1, <2>1, MessageFields DEF RTypeOK
    <3> QED BY <1>1, <1>2, <2>1, <3>1 DEF WireIsTrue, WorldGrows
  <2>2. CASE m \in out'[c]
    <3>1. \A e \in DOMAIN ents' : e < nextEntityId'
      <4>1. CubeId < nextEntityId' /\ \A d \in clients' : avatar'[d] < nextEntityId'
        BY <1>1 DEF Ownership, IdsIssued
      <4> QED BY <1>1, <4>1 DEF Ownership, AvatarPerClient
    <3> QED BY <1>1, <1>3, <2>2, <3>1 DEF SentIsTrue
  <2> QED BY <1>4, <2>1, <2>2 DEF Reliable
<1>7. KnownOrTold'
  <2> SUFFICES ASSUME NEW c \in Observer, Listening(c)', NEW e \in Synced'
               PROVE  \/ e \in DOMAIN replica'[c] /\ replica'[c][e].owner = ents'[e].owner
                      \/ \E m \in wire'[c] : m.kind = "Spawn" /\ m.entity = e
    BY DEF KnownOrTold
  <2>1. conn'[c] = "connected" /\ c \in ClientId
    BY <1>1 DEF Listening
  <2>2. wire[c] \subseteq wire'[c] /\ \A m \in out'[c] : m.kind = "Spawn" => m \in wire'[c]
    BY <1>4, <2>1 DEF Reliable
  <2>3. e \in DOMAIN ents'
    BY <1>1 DEF Synced, Ownership, AvatarPerClient
  <2>4. CASE \E m \in out'[c] : m.kind = "Spawn" /\ m.entity = e
    BY <2>2, <2>4
  <2>5. CASE Listening(c) /\ e \in Synced
    <3>1. e \in DOMAIN ents
      BY <1>1, <2>5 DEF Synced, Ownership, AvatarPerClient
    <3>2. ents'[e].owner = ents[e].owner
      BY <1>2, <2>3, <3>1 DEF WorldGrows
    <3> QED BY <1>1, <1>4, <2>2, <2>5, <3>2 DEF KnownOrTold
  <2> QED BY <1>3, <2>1, <2>3, <2>4, <2>5 DEF NewcomersShown
<1>8. PosesAreReal'
  <2>1. ASSUME NEW c \in Observer, NEW m \in out'[c], m.kind \in {"Spawn", "Snapshot"}
        PROVE  Real(m.entity, m.pose)'
    <3>1. PICK e \in DOMAIN ents' : e = m.entity /\ m.pose = ents'[e].pose
      BY <1>1, <1>3, <2>1 DEF SentIsTrue
    <3>2. Poses' => RealWorld'
      BY AvatarsAreReal, PTL
    <3> QED BY <3>1, <3>2 DEF Real, RealWorld
  <2> QED BY <1>1, <1>2, <1>4, <2>1, LogKeepsReal DEF PosesAreReal, Reliable, Datagrams
<1> QED BY <1>5, <1>6, <1>7, <1>8 DEF RInv

\* A step of the client leaves the server as it is.
LEMMA ServerStands ==
    ASSUME RInv, UNCHANGED vars
    PROVE  Telling' /\ Poses'
<1>1. Ownership /\ Telling /\ Poses
  BY DEF RInv, Poses
<1> QED BY <1>1, TellingNext, OwnershipNext, PosesStep

\* The unchanged part of the server a replica's invariant speaks of.
LEMMA SynchedStands ==
    ASSUME UNCHANGED vars
    PROVE  /\ UNCHANGED <<ents, nextEntityId, undoLog>> /\ Synced' = Synced
           /\ \A c \in Observer : Listening(c)' = Listening(c)
           /\ \A e, p : Real(e, p)' = Real(e, p)
BY DEF vars, worldVars, clientVars, wireVars, Synced, Listening, Real

\* What observer c knows of entity e, or is about to be told.
Knows(c, e) ==
    \/ e \in DOMAIN replica[c] /\ replica[c][e].owner = ents[e].owner
    \/ \E m \in wire[c] : m.kind = "Spawn" /\ m.entity = e

\* Observer c takes in a message: nothing else changes, and what it learns is
\* real and no less than it knew of the entities it should know.
TakesIn(c) ==
    /\ UNCHANGED vars
    /\ wire' \in [Observer -> SUBSET Message] /\ dgrams' \in [Observer -> SUBSET Message]
    /\ \A d \in Observer : wire'[d] \subseteq wire[d] /\ dgrams'[d] \subseteq dgrams[d]
    /\ \A d \in Observer \ {c} : wire'[d] = wire[d] /\ replica'[d] = replica[d]
    /\ replica' \in [Observer -> Replicas]
    /\ \A e \in DOMAIN replica'[c] : Real(e, replica'[c][e].pose)
    /\ \A e \in Synced : Knows(c, e) => Knows(c, e)'

LEMMA TakingIn ==
    ASSUME RInv, NEW c \in Observer, TakesIn(c)
    PROVE  RInv'
<1>1. UNCHANGED vars
  BY DEF TakesIn
<1>2. Telling' /\ Poses'
  BY <1>1, ServerStands
<1>3. RTypeOK /\ WireIsTrue /\ KnownOrTold /\ PosesAreReal
  BY DEF RInv
<1>4. /\ UNCHANGED <<ents, nextEntityId, undoLog>> /\ Synced' = Synced
      /\ \A d \in Observer : Listening(d)' = Listening(d)
      /\ \A e, p : Real(e, p)' = Real(e, p)
  BY <1>1, SynchedStands
<1>5. RTypeOK'
  BY <1>3 DEF TakesIn, RTypeOK
<1>6. WireIsTrue'
  BY <1>3, <1>4 DEF TakesIn, WireIsTrue
<1>7. KnownOrTold'
  <2> SUFFICES ASSUME NEW d \in Observer, Listening(d)', NEW e \in Synced'
               PROVE  Knows(d, e)'
    BY DEF KnownOrTold, Knows
  <2>1. e \in Synced /\ Knows(d, e)
    BY <1>3, <1>4 DEF KnownOrTold, Knows
  <2>2. CASE d = c
    BY <2>1, <2>2 DEF TakesIn
  <2>3. CASE d # c
    BY <1>4, <2>1, <2>3 DEF TakesIn, Knows
  <2> QED BY <2>2, <2>3
<1>8. PosesAreReal'
  <2>1. \A d \in Observer : \A e \in DOMAIN replica'[d] : Real(e, replica'[d][e].pose)
    BY <1>3 DEF TakesIn, PosesAreReal
  <2> QED BY <1>3, <1>4, <2>1 DEF TakesIn, PosesAreReal, Real
<1> QED BY <1>2, <1>5, <1>6, <1>7, <1>8 DEF RInv

\* An entity that is overwritten with its owner known stays known; the message
\* that leaves the wire told of no other.
LEMMA Overwriting ==
    ASSUME RInv, NEW c \in Observer, NEW e \in Nat, NEW ent \in ClientEntity,
           UNCHANGED vars, Becomes(c, e, ent), Real(e, ent.pose),
           NEW m \in wire[c], wire' = [wire EXCEPT ![c] = @ \ {m}], UNCHANGED dgrams,
           m.kind = "Spawn" => m.entity = e,
           e \in Synced /\ (m.kind = "Spawn" \/ e \in DOMAIN replica[c]) =>
              \/ ent.owner = ents[e].owner
              \/ /\ m.kind # "Spawn"
                 /\ ent.owner = replica[c][e].owner
    PROVE  TakesIn(c)
<1>1. RTypeOK /\ PosesAreReal
  BY DEF RInv
<1>2. /\ wire' \in [Observer -> SUBSET Message] /\ dgrams' \in [Observer -> SUBSET Message]
      /\ \A d \in Observer : wire'[d] \subseteq wire[d] /\ dgrams'[d] \subseteq dgrams[d]
      /\ \A d \in Observer \ {c} : wire'[d] = wire[d] /\ replica'[d] = replica[d]
      /\ wire'[c] = wire[c] \ {m} /\ replica' \in [Observer -> Replicas]
  BY <1>1 DEF RTypeOK, Becomes
<1>3. \A x \in DOMAIN replica'[c] : Real(x, replica'[c][x].pose)
  BY <1>1 DEF PosesAreReal, Becomes
<1>4. ASSUME NEW x \in Synced, Knows(c, x) PROVE Knows(c, x)'
  <2>1. ents' = ents
    BY DEF vars, worldVars
  <2>2. CASE x # e
    BY <1>2, <1>4, <2>1, <2>2 DEF Knows, Becomes
  <2>3. CASE x = e
    BY <1>2, <1>4, <2>1, <2>3 DEF Knows, Becomes
  <2> QED BY <2>2, <2>3
<1> QED BY <1>2, <1>3, <1>4 DEF TakesIn

LEMMA Delivering ==
    ASSUME RInv, NEW c \in Observer, Deliver(c)
    PROVE  TakesIn(c)
<1>1. RTypeOK /\ WireIsTrue /\ PosesAreReal /\ Ownership /\ TypeOK
  BY DEF RInv, Poses, Ownership
<1>2. PICK m \in wire[c] :
        /\ wire' = [wire EXCEPT ![c] = @ \ {m}]
        /\ CASE m.kind = "Spawn"    -> Spawned(c, m)
             [] m.kind = "Despawn"  -> Drop(c, m.entity)
             [] m.kind = "SetField" -> Edited(c, m)
             [] OTHER               -> UNCHANGED replica
        /\ UNCHANGED <<vars, dgrams>>
  BY DEF Deliver
<1>3. m \in Message
  BY <1>1, <1>2 DEF RTypeOK
<1>4. Synced \subseteq DOMAIN ents
  BY <1>1 DEF Synced, Ownership, AvatarPerClient
<1>5. CASE m.kind = "Spawn"
  <2>1. PICK e, ent : /\ e = m.entity
                      /\ ent = [Entry(c, e) EXCEPT !.owner = m.owner, !.pose = m.pose,
                                                   !.haveData = TRUE]
    OBVIOUS
  <2>2. Put(c, e, ent)
    BY <1>2, <1>5, <2>1 DEF Spawned
  <2>3. e \in Nat /\ m.owner \in Nat /\ m.pose \in Component
    BY <1>3, <1>5, <2>1, MessageFields
  <2>4. ent \in ClientEntity /\ ent.owner = m.owner /\ ent.pose = m.pose
    BY <1>1, <2>1, <2>3, EntryIs DEF ClientEntity
  <2>5. Becomes(c, e, ent)
    BY <1>1, <2>2, <2>3, <2>4, PutReplaces
  <2>6. Real(e, ent.pose)
    BY <1>1, <1>2, <1>5, <2>1, <2>4 DEF PosesAreReal
  <2>7. e \in Synced => ent.owner = ents[e].owner
    BY <1>1, <1>2, <1>4, <1>5, <2>1, <2>4 DEF WireIsTrue
  <2> QED BY <1>2, <2>1, <2>3, <2>4, <2>5, <2>6, <2>7, Overwriting
<1>6. CASE m.kind = "SetField" /\ m.type \in Sidecars /\ m.entity \in DOMAIN replica[c]
  <2>1. PICK e, t, ent : /\ e = m.entity /\ t = m.type
                         /\ ent = [replica[c][e] EXCEPT !.side[t] = Merge(@, m.patch)]
    OBVIOUS
  <2>2. /\ e \in Nat /\ m.patch \in Patch /\ replica[c][e] \in ClientEntity
        /\ replica \in [Observer -> Replicas]
        /\ replica[c] = [x \in DOMAIN replica[c] |-> replica[c][x]]
    BY <1>1, <1>3, <1>6, <2>1, MessageFields, ReplicaType DEF RTypeOK
  <2>3. Merge(replica[c][e].side[t], m.patch) \in Component
    BY <1>6, <2>1, <2>2, MergeType DEF ClientEntity
  <2>4. /\ ent \in ClientEntity /\ ent.owner = replica[c][e].owner
        /\ ent.pose = replica[c][e].pose
    BY <2>1, <2>2, <2>3 DEF ClientEntity
  <2>5. replica' = [replica EXCEPT ![c] = [replica[c] EXCEPT ![e] = ent]]
    BY <1>2, <1>6, <2>1 DEF Edited
  <2>6. [replica[c] EXCEPT ![e] = ent] = [x \in DOMAIN replica[c] \cup {e} |->
                                            IF x = e THEN ent ELSE replica[c][x]]
    BY <1>6, <2>1, <2>2
  <2>7. Becomes(c, e, ent)
    BY <1>1, <2>2, <2>4, <2>5, <2>6, PutReplaces DEF Put
  <2>8. Real(e, ent.pose)
    BY <1>1, <1>6, <2>1, <2>4 DEF PosesAreReal
  <2>9. /\ UNCHANGED vars /\ UNCHANGED dgrams /\ m.kind # "Spawn"
        /\ wire' = [wire EXCEPT ![c] = @ \ {m}] /\ m \in wire[c]
    BY <1>2, <1>6
  <2> QED BY <2>2, <2>4, <2>7, <2>8, <2>9, Overwriting
<1>7. CASE m.kind = "Despawn"
  <2>1. PICK e : e = m.entity
    OBVIOUS
  <2>2. /\ replica' \in [Observer -> Replicas]
        /\ \A d \in Observer \ {c} : replica'[d] = replica[d]
        /\ DOMAIN replica'[c] = DOMAIN replica[c] \ {e}
        /\ \A x \in DOMAIN replica'[c] : replica'[c][x] = replica[c][x]
    BY <1>1, <1>2, <1>7, <2>1, DropForgets
  <2>3. e \notin Synced
    BY <1>1, <1>2, <1>4, <1>7, <2>1 DEF WireIsTrue
  <2>4. ents' = ents /\ wire'[c] = wire[c] \ {m} /\ m.kind # "Spawn"
    BY <1>1, <1>2, <1>7 DEF vars, worldVars, RTypeOK
  <2>5. \A x \in Synced : Knows(c, x) => Knows(c, x)'
    BY <2>2, <2>3, <2>4 DEF Knows
  <2>6. \A x \in DOMAIN replica'[c] : Real(x, replica'[c][x].pose)
    BY <1>1, <2>2 DEF PosesAreReal
  <2> QED BY <1>1, <1>2, <2>2, <2>5, <2>6 DEF TakesIn, RTypeOK
<1>8. CASE \/ m.kind \notin {"Spawn", "Despawn", "SetField"}
           \/ m.kind = "SetField" /\ ~(m.type \in Sidecars /\ m.entity \in DOMAIN replica[c])
  <2>1. UNCHANGED replica
    BY <1>2, <1>8 DEF Edited
  <2>2. ents' = ents /\ wire'[c] = wire[c] \ {m} /\ m.kind # "Spawn"
    BY <1>1, <1>2, <1>8 DEF vars, worldVars, RTypeOK
  <2>3. \A x \in Synced : Knows(c, x) => Knows(c, x)'
    BY <2>1, <2>2 DEF Knows
  <2> QED BY <1>1, <1>2, <2>1, <2>3 DEF TakesIn, RTypeOK, PosesAreReal
<1> QED BY <1>5, <1>6, <1>7, <1>8

\* A snapshot brings a pose, and makes up an entry, without an owner, for an entity
\* that was not known: one its Spawn is still on the way for.
LEMMA DeliveringDatagrams ==
    ASSUME RInv, NEW c \in Observer, DeliverDatagram(c) \/ Lose(c)
    PROVE  TakesIn(c)
<1>1. RTypeOK /\ PosesAreReal
  BY DEF RInv
<1>2. PICK m \in dgrams[c] :
        /\ dgrams' = [dgrams EXCEPT ![c] = @ \ {m}] /\ UNCHANGED <<vars, wire>>
        /\ \/ UNCHANGED replica
           \/ Put(c, m.entity, [Entry(c, m.entity) EXCEPT
                        !.pose = m.pose, !.lastTick = m.tick, !.haveData = TRUE])
  BY DEF DeliverDatagram, Lose
<1>3. /\ m \in Message /\ m.kind = "Snapshot"
      /\ dgrams' \in [Observer -> SUBSET Message]
      /\ \A d \in Observer : dgrams'[d] \subseteq dgrams[d]
  BY <1>1, <1>2 DEF RTypeOK
<1>4. ents' = ents /\ wire' = wire
  BY <1>2 DEF vars, worldVars
<1>5. CASE UNCHANGED replica
  BY <1>1, <1>2, <1>3, <1>4, <1>5 DEF TakesIn, RTypeOK, PosesAreReal, Knows
<1>6. CASE Put(c, m.entity, [Entry(c, m.entity) EXCEPT
                        !.pose = m.pose, !.lastTick = m.tick, !.haveData = TRUE])
  <2>1. PICK e, ent : /\ e = m.entity
                      /\ ent = [Entry(c, e) EXCEPT !.pose = m.pose, !.lastTick = m.tick,
                                                   !.haveData = TRUE]
    OBVIOUS
  <2>2. e \in Nat /\ m.tick \in Nat /\ m.pose \in Component
    BY <1>3, <2>1, MessageFields
  <2>3. /\ ent \in ClientEntity /\ ent.pose = m.pose
        /\ e \in DOMAIN replica[c] => ent.owner = replica[c][e].owner
    BY <1>1, <2>1, <2>2, EntryIs DEF ClientEntity
  <2>4. Becomes(c, e, ent)
    BY <1>1, <1>6, <2>1, <2>2, <2>3, PutReplaces
  <2>5. \A x \in DOMAIN replica'[c] : Real(x, replica'[c][x].pose)
    BY <1>1, <1>2, <2>1, <2>3, <2>4 DEF PosesAreReal, Becomes
  <2>6. \A x \in Synced : Knows(c, x) => Knows(c, x)'
    BY <1>4, <2>3, <2>4 DEF Knows, Becomes
  <2> QED BY <1>1, <1>2, <1>3, <2>4, <2>5, <2>6 DEF TakesIn, RTypeOK, Becomes
<1> QED BY <1>2, <1>5, <1>6

LEMMA ReplicasNext == RInv /\ [RNext]_allVars => RInv'
<1> SUFFICES ASSUME RInv, [RNext]_allVars PROVE RInv'
  OBVIOUS
<1>1. CASE ServerStep
  <2>1. Telling /\ Ownership /\ Poses /\ [Next]_vars
    BY <1>1 DEF RInv, Poses, ServerStep
  <2>2. Telling' /\ Poses'
    BY <2>1, TellingNext, OwnershipNext, PosesStep
  <2> QED BY <1>1, <2>2, ServerStepSafe
<1>2. CASE ClientStep
  BY <1>2, Delivering, DeliveringDatagrams, TakingIn DEF ClientStep
<1>3. CASE UNCHANGED allVars
  <2>1. UNCHANGED vars /\ UNCHANGED <<wire, dgrams, replica>>
    BY <1>3 DEF allVars, clientSideVars
  <2>2. Telling' /\ Poses'
    BY <2>1, ServerStands
  <2> QED BY <2>1, <2>2, SynchedStands
          DEF RInv, RTypeOK, WireIsTrue, KnownOrTold, PosesAreReal
<1> QED BY <1>1, <1>2, <1>3 DEF RNext

LEMMA ReplicasInit == RInit => RInv
<1> SUFFICES ASSUME RInit PROVE RInv
  OBVIOUS
<1>1. Init /\ DOMAIN undoLog = {} /\ clients = {}
  BY DEF RInit, Init
<1>2. Telling /\ Poses
  BY <1>1, TellingInit, OwnershipInit DEF Poses
<1>3. RTypeOK
  <2>1. [e \in {} |-> NewEntity] \in Replicas
    BY DEF Replicas
  <2> QED BY <2>1 DEF RInit, RTypeOK
<1>4. WireIsTrue /\ KnownOrTold /\ PosesAreReal
  BY <1>1 DEF RInit, WireIsTrue, KnownOrTold, PosesAreReal, Listening
<1> QED BY <1>2, <1>3, <1>4 DEF RInv

\* Once what the server sent a synced client reliably has arrived, in whatever order
\* and between whatever snapshots, the client knows the cube and every synced avatar,
\* and their owners (drainNetReliableInbox, onNetReliable).
THEOREM ReplicasComplete == RSpec => []ReplicaComplete
<1>1. RInv => ReplicaComplete
  BY DEF RInv, KnownOrTold, ReplicaComplete, Synced
<1> QED BY <1>1, ReplicasInit, ReplicasNext, PTL DEF RSpec

\* A client shows an avatar only where it spawned or where an edit of it once put it,
\* never at a mix of places (applySpawn, drainNetInbox).
THEOREM ShownPosesWereReal == RSpec => []PoseWasReal
<1>1. RInv => PoseWasReal
  BY DEF RInv, PosesAreReal, PoseWasReal, Real
<1> QED BY <1>1, ReplicasInit, ReplicasNext, PTL DEF RSpec
=============================================================================
