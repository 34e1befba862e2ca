----------------------------- MODULE AssetSync -------------------------------
(****************************************************************************)
(* Content-addressed assets between clients and server                      *)
(* (stratumv_server/main.cpp, lab/skinned_test/main.cpp,                    *)
(* AssetUploadClient.cpp): an upload is an Announce followed by its chunks, *)
(* shipped without waiting for the answer; the server stores what it has    *)
(* assembled and pushes it to the other welcomed clients in the same form.  *)
(*                                                                          *)
(* Every message travels on a QUIC stream of its own and arrives once, in   *)
(* no particular order. A step of the server or of a client handles one     *)
(* message; the inboxes in between keep an order that is arbitrary already. *)
(* Every sender hashes the bytes it sends, so what is assembled from all    *)
(* the chunks of an asset has its hash; a receiver is the set of the chunks *)
(* it was given. The answer NeedChunks is ignored by its receiver and left  *)
(* out. Bound: MaxUploads.                                                  *)
(****************************************************************************)
EXTENDS Naturals, FiniteSets

CONSTANTS
    Client,
    Asset,          \* content hashes
    ChunkCount,     \* chunks of an asset
    SaveOutcomes,   \* whether writing to a store may fail
    MaxUploads

ASSUME ChunkAssumption == ChunkCount \in Nat \ {0} /\ MaxUploads \in Nat
ASSUME SaveAssumption  == SaveOutcomes \subseteq BOOLEAN /\ TRUE \in SaveOutcomes

Index == 0 .. ChunkCount - 1

VARIABLES
    link,      \* the connection of a client
    store,     \* the server's AssetPersistence
    uploads,   \* ClientState::pendingUploads: per client, asset -> chunks received
    cache,     \* m_assetStore of each client
    pending,   \* m_assetReceivers of each client
    up, down,  \* messages on their way, to the server and to each client
    sent,      \* transfers started so far; tells their messages apart
    started,   \* uploads started so far
    \* history
    offered,   \* assets each client uploaded
    pushed,    \* assets pushed to each client
    lostUp,    \* assets of which the server threw a chunk away, per uploader
    lostDown   \* the same at each client, receivers given up half-way included

serverVars  == <<store, uploads>>
clientVars  == <<cache, pending>>
wireVars    == <<up, down, sent>>
historyVars == <<offered, pushed, lostUp, lostDown>>
vars == <<link, serverVars, clientVars, wireVars, started, historyVars>>

Message ==
         [kind : {"Announce", "HaveIt"}, transfer : Nat, asset : Asset]
    \cup [kind : {"Chunk"}, transfer : Nat, asset : Asset, index : Index]

NoReceivers == [a \in {} |-> {}]

Init ==
    /\ link    = [c \in Client |-> "joining"]
    /\ store   = {}
    /\ uploads = [c \in Client |-> NoReceivers]
    /\ cache   = [c \in Client |-> {}]
    /\ pending = [c \in Client |-> NoReceivers]
    /\ up      = [c \in Client |-> {}]
    /\ down    = [c \in Client |-> {}]
    /\ sent = 0 /\ started = 0
    /\ offered  = [c \in Client |-> {}]
    /\ pushed   = [c \in Client |-> {}]
    /\ lostUp   = [c \in Client |-> {}]
    /\ lostDown = [c \in Client |-> {}]

-----------------------------------------------------------------------------
(* AssetReceiver *)

Begin(rs, a)  == [x \in DOMAIN rs \cup {a} |-> IF x = a THEN {} ELSE rs[x]]
Forget(rs, a) == [x \in DOMAIN rs \ {a} |-> rs[x]]

\* depositChunk: a chunk is taken once.
Takes(rs, m) == m.asset \in DOMAIN rs /\ m.index \notin rs[m.asset]
Deposit(rs, m) == [rs EXCEPT ![m.asset] = @ \cup {m.index}]

\* Mutant: off by one.
CompletesLate(rs, m) == Cardinality(rs[m.asset]) = ChunkCount
Completes(rs, m) == rs[m.asset] \cup {m.index} = Index

\* A chunk without a receiver is dropped; one that was had already is refused
\* and takes its receiver with it.
Thrown(rs, m) ==
    IF m.asset \in DOMAIN rs THEN Forget(rs, m.asset) ELSE rs

-----------------------------------------------------------------------------
(* Transfers *)

Announce(n, a) == [kind |-> "Announce", transfer |-> n, asset |-> a]
Chunk(n, a, i) == [kind |-> "Chunk", transfer |-> n, asset |-> a, index |-> i]

Transfer(n, a) == {Announce(n, a)} \cup {Chunk(n, a, i) : i \in Index}

\* Mutant: the last chunk is not pushed.
CopyShort(n, a) == Transfer(n, a) \ {Chunk(n, a, ChunkCount - 1)}
Copy(n, a) == Transfer(n, a)

\* broadcastAsset: to every welcomed client whose connection is up, but for
\* the uploader. `answer` is what the uploader gets.
Push(origin, a, answer) ==
    LET audience == {c \in Client \ {origin} : link[c] = "welcomed"} IN
    /\ down' = [c \in Client |->
          down[c] \cup (IF c \in audience THEN Copy(sent, a)
                        ELSE IF c = origin /\ link[c] = "welcomed" THEN answer ELSE {})]
    /\ pushed' = [c \in Client |-> IF c \in audience THEN pushed[c] \cup {a} ELSE pushed[c]]
    /\ sent' = sent + 1

\* Client c gives up the receiver of a: what it was given so far is lost,
\* unless it has the asset.
GivesUp(c, a) ==
    lostDown' = IF /\ a \in DOMAIN pending[c] /\ pending[c][a] # {}
                   /\ a \notin cache'[c]
                  THEN [lostDown EXCEPT ![c] = @ \cup {a}]
                  ELSE lostDown

-----------------------------------------------------------------------------
(* Connections *)

Welcome(c) ==
    /\ link[c] = "joining"
    /\ link' = [link EXCEPT ![c] = "welcomed"]
    /\ UNCHANGED <<serverVars, clientVars, wireVars, started, historyVars>>

\* What was received before may still be handled, until the reap.
Shutdown(c) ==
    /\ link[c] \in {"joining", "welcomed"}
    /\ link' = [link EXCEPT ![c] = "shut"]
    /\ down' = [down EXCEPT ![c] = {}]
    /\ UNCHANGED <<serverVars, clientVars, up, sent, started, historyVars>>

\* The ClientState goes, and its pending uploads with it.
Reap(c) ==
    /\ link[c] = "shut"
    /\ link' = [link EXCEPT ![c] = "reaped"]
    /\ uploads' = [uploads EXCEPT ![c] = NoReceivers]
    /\ up' = [up EXCEPT ![c] = {}]
    /\ UNCHANGED <<store, clientVars, down, sent, started, historyVars>>

-----------------------------------------------------------------------------
(* Uploading *)

Upload(c, a) ==
    /\ started < MaxUploads /\ link[c] = "welcomed"
    /\ up' = [up EXCEPT ![c] = @ \cup Transfer(sent, a)]
    /\ pending' = [pending EXCEPT ![c] = Begin(@, a)]
    /\ \E saved \in SaveOutcomes :
          cache' = IF saved THEN [cache EXCEPT ![c] = @ \cup {a}] ELSE cache
    /\ GivesUp(c, a)
    /\ offered' = [offered EXCEPT ![c] = @ \cup {a}]
    /\ sent' = sent + 1 /\ started' = started + 1
    /\ UNCHANGED <<link, serverVars, down, pushed, lostUp>>

\* The connection shuts down under the upload: some chunks are not sent.
UploadBreaks(c, a) ==
    /\ started < MaxUploads /\ link[c] = "welcomed"
    /\ \E n \in Index :
          up' = [up EXCEPT ![c] =
                    @ \cup {Announce(sent, a)} \cup {Chunk(sent, a, i) : i \in 0 .. n - 1}]
    /\ pending' = [pending EXCEPT ![c] = Forget(@, a)]
    /\ link' = [link EXCEPT ![c] = "shut"]
    /\ down' = [down EXCEPT ![c] = {}]
    /\ sent' = sent + 1 /\ started' = started + 1
    /\ UNCHANGED <<serverVars, cache, historyVars>>

-----------------------------------------------------------------------------
(* The server handles a message of client c *)

Received(c, m) ==
    /\ m \in up[c]
    /\ up' = [up EXCEPT ![c] = @ \ {m}]

\* Mutant: an upload on its way counts as cached.
Expected(a) == a \in store \/ \E c \in Client : a \in DOMAIN uploads[c]
Cached(a) == a \in store

AnnounceKnown(c, m) ==
    /\ Received(c, m) /\ m.kind = "Announce" /\ Cached(m.asset)
    /\ Push(c, m.asset, {[kind |-> "HaveIt", transfer |-> m.transfer, asset |-> m.asset]})
    /\ UNCHANGED <<link, serverVars, clientVars, started, offered, lostUp, lostDown>>

\* A second Announce starts the receiver afresh.
AnnounceNew(c, m) ==
    /\ Received(c, m) /\ m.kind = "Announce" /\ ~Cached(m.asset)
    /\ uploads' = [uploads EXCEPT ![c] = Begin(@, m.asset)]
    /\ UNCHANGED <<link, store, clientVars, down, sent, started, historyVars>>

ChunkTaken(c, m) ==
    /\ Received(c, m) /\ m.kind = "Chunk"
    /\ Takes(uploads[c], m) /\ ~Completes(uploads[c], m)
    /\ uploads' = [uploads EXCEPT ![c] = Deposit(@, m)]
    /\ UNCHANGED <<link, store, clientVars, down, sent, started, historyVars>>

ChunkCompletes(c, m) ==
    /\ Received(c, m) /\ m.kind = "Chunk"
    /\ Takes(uploads[c], m) /\ Completes(uploads[c], m)
    /\ store' = store \cup {m.asset}
    /\ uploads' = [uploads EXCEPT ![c] = Forget(@, m.asset)]
    /\ Push(c, m.asset, {})
    /\ UNCHANGED <<link, clientVars, started, offered, lostUp, lostDown>>

\* AssetPersistence::save does not write what it has already.
SaveFails(c, m) ==
    /\ FALSE \in SaveOutcomes
    /\ Received(c, m) /\ m.kind = "Chunk" /\ ~Cached(m.asset)
    /\ Takes(uploads[c], m) /\ Completes(uploads[c], m)
    /\ uploads' = [uploads EXCEPT ![c] = Forget(@, m.asset)]
    /\ lostUp' = [lostUp EXCEPT ![c] = @ \cup {m.asset}]
    /\ UNCHANGED <<link, store, clientVars, down, sent, started, offered, pushed, lostDown>>

ChunkThrown(c, m) ==
    /\ Received(c, m) /\ m.kind = "Chunk" /\ ~Takes(uploads[c], m)
    /\ uploads' = [uploads EXCEPT ![c] = Thrown(@, m)]
    /\ lostUp' = IF Cached(m.asset) THEN lostUp
                 ELSE [lostUp EXCEPT ![c] = @ \cup {m.asset}]
    /\ UNCHANGED <<link, store, clientVars, down, sent, started, offered, pushed, lostDown>>

ServerHandles(c, m) ==
    \/ AnnounceKnown(c, m) \/ AnnounceNew(c, m)
    \/ ChunkTaken(c, m) \/ ChunkCompletes(c, m) \/ SaveFails(c, m) \/ ChunkThrown(c, m)

-----------------------------------------------------------------------------
(* Client c handles a message of the server. Its own uploads have a receiver *)
(* in the same map, which takes chunks like any other.                       *)

Arrives(c, m) ==
    /\ m \in down[c]
    /\ down' = [down EXCEPT ![c] = @ \ {m}]

ClientKeeps(c, rs) ==
    /\ pending' = [pending EXCEPT ![c] = rs]
    /\ UNCHANGED <<link, serverVars, up, sent, started, offered, pushed, lostUp>>

Announced(c, m) ==
    /\ Arrives(c, m) /\ m.kind = "Announce"
    /\ ClientKeeps(c, IF m.asset \in cache[c] THEN pending[c] ELSE Begin(pending[c], m.asset))
    /\ UNCHANGED cache
    /\ GivesUp(c, m.asset)

Answered(c, m) ==
    /\ Arrives(c, m) /\ m.kind = "HaveIt"
    /\ ClientKeeps(c, Forget(pending[c], m.asset))
    /\ UNCHANGED cache
    /\ GivesUp(c, m.asset)

Assembling(c, m) ==
    /\ Arrives(c, m) /\ m.kind = "Chunk"
    /\ Takes(pending[c], m) /\ ~Completes(pending[c], m)
    /\ ClientKeeps(c, Deposit(pending[c], m))
    /\ UNCHANGED <<cache, lostDown>>

Assembled(c, m) ==
    /\ Arrives(c, m) /\ m.kind = "Chunk"
    /\ Takes(pending[c], m) /\ Completes(pending[c], m)
    /\ ClientKeeps(c, Forget(pending[c], m.asset))
    /\ \/ cache' = [cache EXCEPT ![c] = @ \cup {m.asset}] /\ UNCHANGED lostDown
       \/ /\ FALSE \in SaveOutcomes /\ m.asset \notin cache[c]
          /\ lostDown' = [lostDown EXCEPT ![c] = @ \cup {m.asset}]
          /\ UNCHANGED cache

Discarded(c, m) ==
    /\ Arrives(c, m) /\ m.kind = "Chunk" /\ ~Takes(pending[c], m)
    /\ ClientKeeps(c, Thrown(pending[c], m))
    /\ lostDown' = IF m.asset \in cache[c] THEN lostDown
                   ELSE [lostDown EXCEPT ![c] = @ \cup {m.asset}]
    /\ UNCHANGED cache

ClientHandles(c, m) ==
    \/ Announced(c, m) \/ Answered(c, m)
    \/ Assembling(c, m) \/ Assembled(c, m) \/ Discarded(c, m)

-----------------------------------------------------------------------------

Next ==
    \E c \in Client :
        \/ Welcome(c) \/ Shutdown(c) \/ Reap(c)
        \/ \E a \in Asset : Upload(c, a) \/ UploadBreaks(c, a)
        \/ \E m \in up[c] : ServerHandles(c, m)
        \/ \E m \in down[c] : ClientHandles(c, m)

Spec == Init /\ [][Next]_vars
-----------------------------------------------------------------------------
(* Properties *)

\* The only ways an upload is not stored, on a connection that stays up, are a
\* chunk the server threw away for want of a receiver or because it had it,
\* and a failed save: overlapping uploads of the same asset, by one client or
\* several, dedup answers and repeated Announces lose nothing else
\* (handleAssetAnnounce, handleAssetChunk 380-496).
StoredUnlessThrown ==
    \A c \in Client : link[c] = "welcomed" /\ up[c] = {} =>
        offered[c] \ lostUp[c] \subseteq store

\* The same of what is pushed to a client (broadcastAsset 354-362), whatever it
\* uploads meanwhile and although uploads and pushes share one map of receivers
\* (drainAssetInbox 2091-2200); there, a receiver that is reset or removed with
\* chunks in it counts as thrown away as well.
ReceivedUnlessThrown ==
    \A c \in Client : link[c] = "welcomed" /\ down[c] = {} =>
        pushed[c] \ lostDown[c] \subseteq cache[c]

\* Nothing is missed in either direction but for what is thrown away (380-496,
\* 2091-2200).
TransfersArrive == StoredUnlessThrown /\ ReceivedUnlessThrown

\* Stores only grow; the server stores only what a client offered in full, and
\* a client only what it offered or the server holds: no mixture of transfers,
\* cut off or doubled, is taken for a complete asset.
Abstract == INSTANCE AssetStore WITH server <- store
ImplementsAssetStore == Abstract!Spec
=============================================================================
