--------------------------- MODULE AssetSyncProofs ---------------------------
(****************************************************************************)
(* AssetSync implements AssetStore, and loses nothing but what it throws    *)
(* away, for any number of clients, assets, chunks and uploads, whether or  *)
(* not saves fail.                                                          *)
(****************************************************************************)
EXTENDS AssetSync, FiniteSetTheorems, TLAPS

Last == ChunkCount - 1

\* An upload that breaks off never ships the last chunk: where that chunk is, on
\* its way or received, the asset was offered. The server pushes what it stores.
Provenance ==
    /\ up = [c \in Client |-> up[c]] /\ down = [c \in Client |-> down[c]]
    /\ uploads = [c \in Client |-> uploads[c]]
    /\ offered = [c \in Client |-> offered[c]] /\ cache = [c \in Client |-> cache[c]]
    /\ \A c \in Client : \A m \in up[c] :
          /\ m.asset \in Asset
          /\ m.kind = "Chunk" /\ m.index = Last => m.asset \in offered[c]
    /\ \A c \in Client : \A a \in DOMAIN uploads[c] : Last \in uploads[c][a] => a \in offered[c]
    /\ \A c \in Client : \A m \in down[c] :
          m.asset \in Asset /\ (m.kind = "Chunk" => m.asset \in store)

\* A step of the network, the server or a client: the invariant goes on, and the
\* stores take a step the abstract ones may take, or none.
Simulates == Provenance' /\ [Abstract!Next]_(Abstract!vars)

LEMMA LastIsLast == Last \in Index /\ \A n \in Index : Last \notin 0 .. n - 1
BY ChunkAssumption DEF Last, Index

LEMMA StoresStand ==
    ASSUME UNCHANGED <<store, cache, offered>>
    PROVE  [Abstract!Next]_(Abstract!vars)
BY DEF Abstract!vars

\* What goes out to a client after an Announce of an asset the server has.
LEMMA PushIsStored ==
    ASSUME NEW c \in Client, NEW a \in Asset, NEW answer, Push(c, a, answer),
           down = [d \in Client |-> down[d]], a \in store', store \subseteq store',
           \A m \in answer : m.kind # "Chunk" /\ m.asset \in Asset,
           \A d \in Client : \A m \in down[d] : m.asset \in Asset /\ (m.kind = "Chunk" => m.asset \in store)
    PROVE  /\ down' = [d \in Client |-> down'[d]]
           /\ \A d \in Client : \A m \in down'[d] :
                 m.asset \in Asset /\ (m.kind = "Chunk" => m.asset \in store')
<1>1. \A m \in Copy(sent, a) : m.asset = a
  BY DEF Copy, Transfer, Announce, Chunk
<1>2. \A d \in Client : \A m \in down'[d] : m \in down[d] \/ m \in Copy(sent, a) \/ m \in answer
  BY DEF Push
<1>3. down' = [d \in Client |-> down'[d]]
  BY DEF Push
<1> QED BY <1>1, <1>2, <1>3

-----------------------------------------------------------------------------
(* Connections and uploads *)

LEMMA ConnectionStep ==
    ASSUME Provenance, NEW c \in Client, Welcome(c) \/ Shutdown(c) \/ Reap(c)
    PROVE  Simulates
<1>1. UNCHANGED <<store, cache, offered>>
  BY DEF Welcome, Shutdown, Reap, serverVars, clientVars, wireVars, historyVars
<1>2. CASE Welcome(c)
  BY <1>1, <1>2, StoresStand
     DEF Simulates, Provenance, Welcome, serverVars, clientVars, wireVars, historyVars
<1>3. CASE Shutdown(c)
  <2>1. Provenance'
    BY <1>3 DEF Provenance, Shutdown, serverVars, clientVars, historyVars
  <2> QED BY <1>1, <2>1, StoresStand DEF Simulates
<1>4. CASE Reap(c)
  <2>1. DOMAIN NoReceivers = {}
    BY DEF NoReceivers
  <2>2. Provenance'
    BY <1>4, <2>1 DEF Provenance, Reap, clientVars, historyVars
  <2> QED BY <1>1, <2>2, StoresStand DEF Simulates
<1> QED BY <1>2, <1>3, <1>4

LEMMA UploadStep ==
    ASSUME Provenance, NEW c \in Client, NEW a \in Asset, Upload(c, a)
    PROVE  Simulates
<1>1. \A m \in Transfer(sent, a) : m.asset = a
  BY DEF Transfer, Announce, Chunk
<1>2. /\ up' = [up EXCEPT ![c] = @ \cup Transfer(sent, a)]
      /\ offered' = [offered EXCEPT ![c] = @ \cup {a}]
      /\ cache' = [cache EXCEPT ![c] = @ \cup {a}] \/ cache' = cache
      /\ UNCHANGED <<store, uploads, down>>
  BY DEF Upload, serverVars
<1>3. Provenance'
  BY <1>1, <1>2 DEF Provenance
<1>4. Abstract!Offer(c, a)
  BY <1>2 DEF Abstract!Offer, Abstract!Hold
<1> QED BY <1>3, <1>4 DEF Simulates, Abstract!Next

LEMMA BreakStep ==
    ASSUME Provenance, NEW c \in Client, NEW a \in Asset, UploadBreaks(c, a)
    PROVE  Simulates
<1>1. PICK n \in Index :
         up' = [up EXCEPT ![c] =
                  @ \cup {Announce(sent, a)} \cup {Chunk(sent, a, i) : i \in 0 .. n - 1}]
  BY DEF UploadBreaks
<1>2. UNCHANGED <<store, uploads, cache, offered>> /\ down' = [down EXCEPT ![c] = {}]
  BY DEF UploadBreaks, serverVars, historyVars
<1>3. \A m \in {Announce(sent, a)} \cup {Chunk(sent, a, i) : i \in 0 .. n - 1} :
         m.asset = a /\ ~(m.kind = "Chunk" /\ m.index = Last)
  BY LastIsLast DEF Announce, Chunk
<1> DEFINE cut == {Announce(sent, a)} \cup {Chunk(sent, a, i) : i \in 0 .. n - 1}
<1>4. up' = [up EXCEPT ![c] = @ \cup cut]
  BY <1>1
<1>5. \A m \in cut : m.asset = a /\ ~(m.kind = "Chunk" /\ m.index = Last)
  BY <1>3
<1>6. Provenance'
  <2> HIDE DEF cut
  <2> QED BY <1>2, <1>4, <1>5 DEF Provenance
<1> QED BY <1>2, <1>6, StoresStand DEF Simulates

-----------------------------------------------------------------------------
(* The server *)

LEMMA ServerStep ==
    ASSUME Provenance, NEW c \in Client, NEW m \in up[c], ServerHandles(c, m)
    PROVE  Simulates
<1> DEFINE a == m.asset
<1>1. /\ up' = [up EXCEPT ![c] = @ \ {m}] /\ a \in Asset
      /\ UNCHANGED <<cache, offered>>
  BY DEF ServerHandles, AnnounceKnown, AnnounceNew, ChunkTaken, ChunkCompletes, SaveFails,
         ChunkThrown, Received, clientVars, historyVars, Provenance
<1>2. /\ up' = [d \in Client |-> up'[d]]
      /\ \A d \in Client : \A x \in up'[d] : x \in up[d]
  BY <1>1 DEF Provenance
<1>3. CASE AnnounceKnown(c, m)
  <2> DEFINE answer == {[kind |-> "HaveIt", transfer |-> m.transfer, asset |-> m.asset]}
  <2>1. a \in store /\ Push(c, a, answer) /\ UNCHANGED <<store, uploads, cache, offered>>
    BY <1>3 DEF AnnounceKnown, Cached, serverVars, clientVars
  <2>2. \A x \in answer : x.kind # "Chunk" /\ x.asset \in Asset
    BY <1>1
  <2>3. /\ down' = [d \in Client |-> down'[d]]
        /\ \A d \in Client : \A x \in down'[d] :
              x.asset \in Asset /\ (x.kind = "Chunk" => x.asset \in store')
    <3> HIDE DEF answer, a
    <3> QED BY <1>1, <2>1, <2>2, PushIsStored DEF Provenance
  <2>4. Provenance'
    BY <1>2, <2>1, <2>3 DEF Provenance
  <2> QED BY <2>1, <2>4, StoresStand DEF Simulates
<1>4. CASE ChunkCompletes(c, m)
  <2>1. /\ store' = store \cup {a} /\ Push(c, a, {}) /\ m.kind = "Chunk"
        /\ uploads' = [uploads EXCEPT ![c] = Forget(@, a)]
        /\ a \in DOMAIN uploads[c] /\ uploads[c][a] \cup {m.index} = Index
    BY <1>4 DEF ChunkCompletes, Takes, Completes
  <2>2. a \in offered[c]
    BY <2>1, LastIsLast DEF Provenance
  <2>3. /\ down' = [d \in Client |-> down'[d]]
        /\ \A d \in Client : \A x \in down'[d] :
              x.asset \in Asset /\ (x.kind = "Chunk" => x.asset \in store')
    <3> HIDE DEF a
    <3> QED BY <1>1, <2>1, PushIsStored DEF Provenance
  <2>4. Provenance'
    BY <1>1, <1>2, <2>1, <2>3 DEF Provenance, Forget
  <2>5. Abstract!Publish(a)
    BY <1>1, <2>1, <2>2 DEF Abstract!Publish
  <2> QED BY <1>1, <2>4, <2>5 DEF Simulates, Abstract!Next
<1>5. CASE AnnounceNew(c, m) \/ ChunkTaken(c, m) \/ SaveFails(c, m) \/ ChunkThrown(c, m)
  <2>1. UNCHANGED <<store, down>>
    BY <1>5 DEF AnnounceNew, ChunkTaken, SaveFails, ChunkThrown
  <2>2. /\ uploads' = [uploads EXCEPT ![c] = uploads'[c]]
        /\ \A x \in DOMAIN uploads'[c] : Last \in uploads'[c][x] => x \in offered[c]
    <3>1. CASE AnnounceNew(c, m)
      BY <3>1 DEF AnnounceNew, Begin, Provenance
    <3>2. CASE ChunkTaken(c, m)
      BY <3>2 DEF ChunkTaken, Takes, Deposit, Provenance
    <3>3. CASE SaveFails(c, m)
      BY <3>3 DEF SaveFails, Forget, Provenance
    <3>4. CASE ChunkThrown(c, m)
      BY <3>4 DEF ChunkThrown, Thrown, Forget, Provenance
    <3> QED BY <1>5, <3>1, <3>2, <3>3, <3>4
  <2>3. Provenance'
    BY <1>1, <1>2, <2>1, <2>2 DEF Provenance
  <2> QED BY <1>1, <2>1, <2>3, StoresStand DEF Simulates
<1> QED BY <1>3, <1>4, <1>5 DEF ServerHandles

-----------------------------------------------------------------------------
(* A client *)

LEMMA ClientStep ==
    ASSUME Provenance, NEW c \in Client, NEW m \in down[c], ClientHandles(c, m)
    PROVE  Simulates
<1>1. /\ down' = [down EXCEPT ![c] = @ \ {m}]
      /\ UNCHANGED <<store, uploads, up, offered>>
      /\ \/ UNCHANGED cache
         \/ cache' = [cache EXCEPT ![c] = @ \cup {m.asset}] /\ m.kind = "Chunk"
  BY DEF ClientHandles, Announced, Answered, Assembling, Assembled, Discarded, Arrives,
         ClientKeeps, serverVars
<1>2. Provenance'
  BY <1>1 DEF Provenance
<1>3. UNCHANGED cache \/ Abstract!Fetch(c, m.asset)
  BY <1>1 DEF Provenance, Abstract!Fetch, Abstract!Hold
<1>4. m.asset \in Asset
  BY DEF Provenance
<1> QED BY <1>1, <1>2, <1>3, <1>4, StoresStand DEF Simulates, Abstract!Next

-----------------------------------------------------------------------------
\* Uploads that overlap, are repeated, answered as known, cut off or handled in any
\* order never make the server hold what nobody offered, nor a client what it did
\* not offer and the server does not hold (handleAssetAnnounce, handleAssetChunk
\* 380-496, drainAssetInbox 2091-2200).
THEOREM SyncImplementsStore == Spec => ImplementsAssetStore
<1>1. Init => Provenance /\ Abstract!Init
  BY DEF Init, Provenance, Abstract!Init, NoReceivers
<1>2. Provenance /\ [Next]_vars => Provenance' /\ [Abstract!Next]_(Abstract!vars)
  <2> SUFFICES ASSUME Provenance, [Next]_vars PROVE Simulates
    BY DEF Simulates
  <2>1. CASE UNCHANGED vars
    <3>1. UNCHANGED <<store, cache, offered, up, down, uploads>>
      BY <2>1 DEF vars, serverVars, clientVars, wireVars, historyVars
    <3>2. Provenance'
      BY <3>1 DEF Provenance
    <3> QED BY <3>1, <3>2, StoresStand DEF Simulates
  <2>2. CASE Next
    BY <2>2, ConnectionStep, UploadStep, BreakStep, ServerStep, ClientStep DEF Next
  <2> QED BY <2>1, <2>2
<1> QED BY <1>1, <1>2, PTL DEF Spec, ImplementsAssetStore, Abstract!Spec

-----------------------------------------------------------------------------
(* What is still to come *)

\* What is on its way about an asset, announced or in chunks.
Announces(c, a) == {m \in up[c] : m.kind = "Announce" /\ m.asset = a}
Chunks(c, a, i) == {m \in up[c] : m.kind = "Chunk" /\ m.asset = a /\ m.index = i}
Pushes(c, a, i) == {m \in down[c] : m.kind = "Chunk" /\ m.asset = a /\ m.index = i}

\* A receiver that holds some of the chunks, not all.
Partial(chunks) == chunks \subseteq Index /\ chunks # Index

\* Each Announce still to come will start the receiver afresh, and the one there is
\* lacks what it lacks: for each, a copy of every chunk is still to come.
Lacks(c, a, i) == IF a \in DOMAIN uploads[c] /\ i \notin uploads[c][a] THEN 1 ELSE 0
Enough(c, a) ==
    /\ a \in DOMAIN uploads[c] \/ Announces(c, a) # {}
    /\ \A i \in Index :
          Cardinality(Chunks(c, a, i)) >= Cardinality(Announces(c, a)) + Lacks(c, a, i)

Uploading(c) ==
    /\ up[c] \subseteq Message /\ offered[c] \subseteq Asset
    /\ \A m \in up[c] : m.transfer < sent /\ m.asset \in offered[c]
    /\ \A a \in DOMAIN uploads[c] : a \in offered[c] /\ Partial(uploads[c][a])
    /\ \A a \in Asset : /\ IsFiniteSet(Announces(c, a))
                        /\ \A i \in Index : IsFiniteSet(Chunks(c, a, i))
    /\ \A a \in offered[c] \ (lostUp[c] \cup store) : Enough(c, a)

\* No chunk pushed is lost without a note: it is to come, or in the receiver.
Downloading(c) ==
    /\ down[c] \subseteq Message
    /\ \A a \in DOMAIN pending[c] : Partial(pending[c][a])
    /\ \A a \in pushed[c] \ (lostDown[c] \cup cache[c]) : \A i \in Index :
          Pushes(c, a, i) # {} \/ (a \in DOMAIN pending[c] /\ i \in pending[c][a])

UpSide(c) ==
    /\ link[c] = "joining" => up[c] = {} /\ offered[c] = {} /\ DOMAIN uploads[c] = {}
    /\ link[c] = "welcomed" => Uploading(c)
DownSide(c) ==
    /\ link[c] = "joining" => down[c] = {} /\ pushed[c] = {} /\ DOMAIN pending[c] = {}
    /\ link[c] = "welcomed" => Downloading(c)

\* The variables are functions, and transfers are counted.
Shaped ==
    /\ link = [c \in Client |-> link[c]] /\ sent \in Nat
    /\ up = [c \in Client |-> up[c]] /\ down = [c \in Client |-> down[c]]
    /\ uploads = [c \in Client |-> uploads[c]] /\ pending = [c \in Client |-> pending[c]]
    /\ offered = [c \in Client |-> offered[c]] /\ pushed = [c \in Client |-> pushed[c]]
    /\ lostUp = [c \in Client |-> lostUp[c]] /\ lostDown = [c \in Client |-> lostDown[c]]
    /\ cache = [c \in Client |-> cache[c]]

Ledger == Provenance /\ Shaped /\ \A c \in Client : UpSide(c) /\ DownSide(c)

LEMMA TransferIs ==
    ASSUME NEW n \in Nat, NEW a \in Asset
    PROVE  /\ Transfer(n, a) \subseteq Message
           /\ \A m \in Transfer(n, a) : m.transfer = n /\ m.asset = a
           /\ \A m \in Transfer(n, a) : m.kind = "Announce" => m = Announce(n, a)
           /\ \A m \in Transfer(n, a) : m.kind = "Chunk" => m.index \in Index /\ m = Chunk(n, a, m.index)
           /\ Announce(n, a) \in Transfer(n, a) /\ Announce(n, a).kind = "Announce"
           /\ \A i \in Index : /\ Chunk(n, a, i) \in Transfer(n, a) /\ Chunk(n, a, i).kind = "Chunk"
                               /\ Chunk(n, a, i).index = i
<1>1. Announce(n, a) \in Message /\ \A i \in Index : Chunk(n, a, i) \in Message
  BY DEF Announce, Chunk, Message
<1>2. Announce(n, a).kind = "Announce" /\ \A i \in Index : Chunk(n, a, i).kind = "Chunk"
  BY DEF Announce, Chunk
<1>3. Announce(n, a).transfer = n /\ Announce(n, a).asset = a
  BY DEF Announce
<1>4. \A i \in Index : /\ Chunk(n, a, i).transfer = n /\ Chunk(n, a, i).asset = a
                       /\ Chunk(n, a, i).index = i
  BY DEF Chunk
<1> QED BY <1>1, <1>2, <1>3, <1>4 DEF Transfer

LEMMA MessageIs ==
    ASSUME NEW m \in Message
    PROVE  m.transfer \in Nat /\ m.asset \in Asset /\ (m.kind = "Chunk" => m.index \in Index)
BY DEF Message

LEMMA Updated ==
    ASSUME NEW f, NEW g, NEW c \in Client, NEW v, f = [d \in Client |-> f[d]], g = [f EXCEPT ![c] = v]
    PROVE  g = [d \in Client |-> g[d]]
OBVIOUS

\* Who does nothing and is done nothing.
LEMMA UpAside ==
    ASSUME NEW d \in Client, UpSide(d), link'[d] = link[d], up'[d] = up[d], uploads'[d] = uploads[d],
           offered'[d] = offered[d], lostUp'[d] = lostUp[d], store \subseteq store',
           sent \in Nat, sent' \in Nat, sent <= sent'
    PROVE  UpSide(d)'
<1>1. ASSUME Uploading(d) PROVE Uploading(d)'
  <2>1. \A m \in up[d] : m.transfer < sent'
    BY <1>1, MessageIs DEF Uploading
  <2>2. \A a : /\ Announces(d, a)' = Announces(d, a)
               /\ \A i : Chunks(d, a, i)' = Chunks(d, a, i) /\ Lacks(d, a, i)' = Lacks(d, a, i)
    BY DEF Announces, Chunks, Lacks
  <2>3. \A a : Enough(d, a) => Enough(d, a)'
    BY <2>2 DEF Enough
  <2> QED BY <1>1, <2>1, <2>2, <2>3 DEF Uploading
<1> QED BY <1>1 DEF UpSide

LEMMA DownAside ==
    ASSUME NEW d \in Client, DownSide(d), link'[d] = link[d], down'[d] = down[d],
           pending'[d] = pending[d], pushed'[d] = pushed[d], lostDown'[d] = lostDown[d],
           cache[d] \subseteq cache'[d]
    PROVE  DownSide(d)'
BY DEF DownSide, Downloading, Pushes

\* Nothing is due to or from a client whose connection is shut.
LEMMA Closed ==
    ASSUME NEW d \in Client, link'[d] \notin {"joining", "welcomed"}
    PROVE  UpSide(d)' /\ DownSide(d)'
BY DEF UpSide, DownSide

-----------------------------------------------------------------------------
(* The server *)

LEMMA PushDown ==
    ASSUME Shaped, NEW c, NEW a \in Asset, NEW answer, Push(c, a, answer),
           link[c] = "welcomed" => answer \subseteq Message,
           NEW d \in Client, DownSide(d), UNCHANGED <<link, pending, cache, lostDown>>
    PROVE  DownSide(d)'
<1>1. CASE d # c /\ link[d] = "welcomed"
  <2>1. down'[d] = down[d] \cup Transfer(sent, a) /\ pushed'[d] = pushed[d] \cup {a}
    BY <1>1 DEF Push, Copy
  <2>2. Downloading(d)
    BY <1>1 DEF DownSide
  <2>3. down'[d] \subseteq Message /\ \A i \in Index : Chunk(sent, a, i) \in Pushes(d, a, i)'
    BY <2>1, <2>2, TransferIs DEF Downloading, Shaped, Pushes
  <2>4. \A b : \A i \in Index : Pushes(d, b, i) \subseteq Pushes(d, b, i)'
    BY <2>1 DEF Pushes
  <2>5. Downloading(d)'
    BY <2>1, <2>2, <2>3, <2>4 DEF Downloading
  <2> QED BY <1>1, <2>5 DEF DownSide
<1>2. CASE ~(d # c /\ link[d] = "welcomed")
  <2>1. pushed'[d] = pushed[d]
    BY <1>2 DEF Push
  <2>2. PICK new \in SUBSET Message : /\ down'[d] = down[d] \cup new
                                      /\ link[d] # "welcomed" => new = {}
    BY <1>2 DEF Push
  <2>3. \A b : \A i \in Index : Pushes(d, b, i) \subseteq Pushes(d, b, i)'
    BY <2>2 DEF Pushes
  <2> QED BY <2>1, <2>2, <2>3 DEF DownSide, Downloading
<1> QED BY <1>1, <1>2

\* After a message was handled only its asset's account changes.
LEMMA Handled ==
    ASSUME NEW c \in Client, Uploading(c), NEW m \in up[c], up'[c] = up[c] \ {m},
           \A b \in DOMAIN uploads'[c] : b # m.asset =>
               b \in DOMAIN uploads[c] /\ uploads'[c][b] = uploads[c][b],
           \A b \in DOMAIN uploads[c] : b # m.asset => b \in DOMAIN uploads'[c],
           m.asset \in DOMAIN uploads'[c] => Partial(uploads'[c][m.asset]),
           m.asset \in lostUp'[c] \cup store' \/ Enough(c, m.asset)',
           offered'[c] = offered[c], lostUp[c] \subseteq lostUp'[c], store \subseteq store',
           sent \in Nat, sent' \in Nat, sent <= sent'
    PROVE  Uploading(c)'
<1>1. \A x \in up[c] : x.transfer < sent' /\ x.asset \in offered[c]
  BY MessageIs DEF Uploading
<1>2. \A b \in Asset : /\ IsFiniteSet(Announces(c, b)')
                       /\ \A i \in Index : IsFiniteSet(Chunks(c, b, i)')
  <2>1. \A b \in Asset : /\ Announces(c, b)' \subseteq Announces(c, b)
                         /\ \A i \in Index : Chunks(c, b, i)' \subseteq Chunks(c, b, i)
    BY DEF Announces, Chunks
  <2> QED BY <2>1, FS_Subset DEF Uploading
<1>3. \A b : b # m.asset =>
         /\ Announces(c, b)' = Announces(c, b)
         /\ \A i \in Index : Chunks(c, b, i)' = Chunks(c, b, i) /\ Lacks(c, b, i)' = Lacks(c, b, i)
  BY DEF Announces, Chunks, Lacks
<1>4. \A b : b # m.asset /\ Enough(c, b) => Enough(c, b)'
  BY <1>3 DEF Enough
<1>5. \A b \in offered'[c] \ (lostUp'[c] \cup store') : Enough(c, b)'
  BY <1>4 DEF Uploading
<1>6. \A b \in DOMAIN uploads'[c] : b \in offered[c] /\ Partial(uploads'[c][b])
  BY <1>1 DEF Uploading
<1> QED BY <1>1, <1>2, <1>5, <1>6 DEF Uploading

LEMMA EmptyIsPartial == Partial({})
BY LastIsLast DEF Partial

\* The chunks of an asset are counted in naturals.
LEMMA Counted ==
    ASSUME NEW c \in Client, Uploading(c), NEW a \in Asset
    PROVE  /\ Cardinality(Announces(c, a)) \in Nat
           /\ \A i \in Index : Cardinality(Chunks(c, a, i)) \in Nat
BY FS_CardinalityType DEF Uploading

LEMMA OneLess ==
    ASSUME NEW S, IsFiniteSet(S), NEW x \in S
    PROVE  Cardinality(S \ {x}) = Cardinality(S) - 1
BY FS_RemoveElement

LEMMA ServerUp ==
    ASSUME Shaped, NEW c \in Client, UpSide(c), NEW m \in up[c], ServerHandles(c, m)
    PROVE  UpSide(c)'
<1> DEFINE a == m.asset
<1>1. /\ link' = link /\ offered' = offered /\ up'[c] = up[c] \ {m}
      /\ store \subseteq store' /\ sent' \in Nat /\ sent <= sent' /\ sent \in Nat
      /\ \A d \in Client : lostUp[d] \subseteq lostUp'[d]
  <2>1. link' = link /\ offered' = offered
    BY DEF ServerHandles, AnnounceKnown, AnnounceNew, ChunkTaken, ChunkCompletes, SaveFails,
           ChunkThrown, historyVars
  <2>2. up'[c] = up[c] \ {m}
    BY DEF ServerHandles, AnnounceKnown, AnnounceNew, ChunkTaken, ChunkCompletes, SaveFails,
           ChunkThrown, Received, Shaped
  <2>3. store \subseteq store' /\ (sent' = sent \/ sent' = sent + 1)
    BY DEF ServerHandles, AnnounceKnown, AnnounceNew, ChunkTaken, ChunkCompletes, SaveFails,
           ChunkThrown, Push, serverVars
  <2>4. \A d \in Client : lostUp[d] \subseteq lostUp'[d]
    <3>1. lostUp' = lostUp \/ lostUp' = [lostUp EXCEPT ![c] = @ \cup {m.asset}]
      BY DEF ServerHandles, AnnounceKnown, AnnounceNew, ChunkTaken, ChunkCompletes, SaveFails,
             ChunkThrown, historyVars
    <3> QED BY <3>1 DEF Shaped
  <2> QED BY <2>1, <2>2, <2>3, <2>4 DEF Shaped
<1>2. CASE link[c] # "welcomed"
  BY <1>1, <1>2 DEF UpSide
<1>3. CASE link[c] = "welcomed"
  <2>1. Uploading(c) /\ a \in Asset
    BY <1>3, MessageIs DEF UpSide, Uploading
  <2>2. a \in offered[c] /\ m \in Message
    BY <2>1 DEF Uploading
  <2> SUFFICES Uploading(c)'
    BY <1>1, <1>3 DEF UpSide
  <2>3. CASE AnnounceKnown(c, m)
    <3>1. a \in store /\ uploads' = uploads
      BY <2>3 DEF AnnounceKnown, Cached, serverVars
    <3>2. \A b \in DOMAIN uploads[c] : Partial(uploads[c][b])
      BY <2>1 DEF Uploading
    <3> HIDE DEF a
    <3> QED BY <1>1, <2>1, <3>1, <3>2, Handled DEF a
  <2>4. CASE AnnounceNew(c, m)
    <3>1. uploads'[c] = Begin(uploads[c], a) /\ m.kind = "Announce" /\ lostUp' = lostUp /\ store' = store
      BY <2>4 DEF AnnounceNew, historyVars, Shaped
    <3>2. /\ a \in DOMAIN uploads'[c] /\ uploads'[c][a] = {}
          /\ \A b \in DOMAIN uploads'[c] : b # a => b \in DOMAIN uploads[c] /\ uploads'[c][b] = uploads[c][b]
          /\ \A b \in DOMAIN uploads[c] : b \in DOMAIN uploads'[c]
      BY <3>1 DEF Begin
    <3>3. ASSUME a \notin lostUp[c] \cup store PROVE Enough(c, a)'
      <4>1. Enough(c, a)
        BY <2>1, <2>2, <3>3 DEF Uploading
      <4>2. Announces(c, a)' = Announces(c, a) \ {m} /\ m \in Announces(c, a)
        BY <1>1, <3>1 DEF Announces
      <4>3. Cardinality(Announces(c, a)') = Cardinality(Announces(c, a)) - 1
        <5>1. IsFiniteSet(Announces(c, a))
          BY <2>1 DEF Uploading
        <5> HIDE DEF a
        <5> QED BY <5>1, <4>2, OneLess
      <4>4. \A i \in Index : Chunks(c, a, i)' = Chunks(c, a, i) /\ Lacks(c, a, i)' = 1
        BY <1>1, <3>1, <3>2 DEF Chunks, Lacks
      <4>5. \A i \in Index : Cardinality(Chunks(c, a, i)) >= Cardinality(Announces(c, a))
        <5>1. \A i \in Index : Lacks(c, a, i) \in Nat
          BY DEF Lacks
        <5> QED BY <2>1, <4>1, <5>1, Counted DEF Enough
      <4>6. \A i \in Index : Cardinality(Chunks(c, a, i)') >= Cardinality(Announces(c, a)') + Lacks(c, a, i)'
        <5> HIDE DEF a
        <5> QED BY <2>1, <4>3, <4>4, <4>5, Counted
      <4> QED BY <3>2, <4>6 DEF Enough
    <3> HIDE DEF a
    <3> QED BY <1>1, <2>1, <3>1, <3>2, <3>3, Handled, EmptyIsPartial DEF a
  <2>5. CASE ChunkTaken(c, m)
    <3> DEFINE j == m.index
    <3>1. /\ a \in DOMAIN uploads[c] /\ j \notin uploads[c][a] /\ uploads[c][a] \cup {j} # Index
          /\ m.kind = "Chunk" /\ uploads'[c] = [uploads[c] EXCEPT ![a] = @ \cup {j}]
          /\ lostUp' = lostUp /\ store' = store
      BY <2>5 DEF ChunkTaken, Takes, Completes, Deposit, historyVars, Shaped
    <3>2. j \in Index
      BY <2>2, <3>1, MessageIs
    <3>3. /\ DOMAIN uploads'[c] = DOMAIN uploads[c] /\ uploads'[c][a] = uploads[c][a] \cup {j}
          /\ \A b \in DOMAIN uploads[c] : b # a => uploads'[c][b] = uploads[c][b]
      BY <3>1
    <3>4. Partial(uploads'[c][a])
      BY <2>1, <3>1, <3>2, <3>3 DEF Partial, Uploading
    <3>5. ASSUME a \notin lostUp[c] \cup store PROVE Enough(c, a)'
      <4>1. Enough(c, a)
        BY <2>1, <2>2, <3>5 DEF Uploading
      <4>2. Announces(c, a)' = Announces(c, a)
        BY <1>1, <3>1 DEF Announces
      <4>3. ASSUME NEW i \in Index
            PROVE  Cardinality(Chunks(c, a, i)') >= Cardinality(Announces(c, a)') + Lacks(c, a, i)'
        <5>1. CASE i = j
          <6>1. Chunks(c, a, i)' = Chunks(c, a, i) \ {m} /\ m \in Chunks(c, a, i)
            BY <1>1, <3>1, <5>1 DEF Chunks
          <6>2. Cardinality(Chunks(c, a, i)') = Cardinality(Chunks(c, a, i)) - 1
            <7>1. IsFiniteSet(Chunks(c, a, i))
              BY <2>1 DEF Uploading
            <7> HIDE DEF a
            <7> QED BY <7>1, <6>1, OneLess
          <6>3. Lacks(c, a, i) = 1 /\ Lacks(c, a, i)' = 0
            BY <3>1, <3>3, <5>1 DEF Lacks
          <6> HIDE DEF a, j
          <6> QED BY <2>1, <4>1, <4>2, <6>2, <6>3, Counted DEF Enough
        <5>2. CASE i # j
          <6>1. Chunks(c, a, i)' = Chunks(c, a, i)
            BY <1>1, <5>2 DEF Chunks
          <6>2. Lacks(c, a, i)' = Lacks(c, a, i)
            BY <3>1, <3>3, <5>2 DEF Lacks
          <6> HIDE DEF a, j
          <6> QED BY <4>1, <4>2, <6>1, <6>2 DEF Enough
        <5> QED BY <5>1, <5>2
      <4> QED BY <3>1, <3>3, <4>3 DEF Enough
    <3> HIDE DEF a, j
    <3> QED BY <1>1, <2>1, <3>1, <3>3, <3>4, <3>5, Handled DEF a
  <2>6. CASE ChunkCompletes(c, m) \/ SaveFails(c, m)
    <3>1. uploads'[c] = Forget(uploads[c], a) /\ a \in lostUp'[c] \cup store'
      BY <2>6 DEF ChunkCompletes, SaveFails, Shaped
    <3>2. DOMAIN uploads'[c] = DOMAIN uploads[c] \ {a} /\ \A b \in DOMAIN uploads'[c] : uploads'[c][b] = uploads[c][b]
      BY <3>1 DEF Forget
    <3> HIDE DEF a
    <3> QED BY <1>1, <2>1, <3>1, <3>2, Handled DEF a
  <2>7. CASE ChunkThrown(c, m)
    <3>1. uploads'[c] = Thrown(uploads[c], m) /\ a \in lostUp'[c] \cup store'
      BY <2>7 DEF ChunkThrown, Cached, Shaped
    <3>2. DOMAIN uploads'[c] = DOMAIN uploads[c] \ {a} /\ \A b \in DOMAIN uploads'[c] : uploads'[c][b] = uploads[c][b]
      BY <3>1 DEF Thrown, Forget
    <3> HIDE DEF a
    <3> QED BY <1>1, <2>1, <3>1, <3>2, Handled DEF a
  <2> QED BY <2>3, <2>4, <2>5, <2>6, <2>7 DEF ServerHandles
<1> QED BY <1>2, <1>3

LEMMA ServerKeeps ==
    ASSUME Ledger, Provenance', NEW c \in Client, NEW m \in up[c], ServerHandles(c, m)
    PROVE  Ledger'
<1> DEFINE answer == {[kind |-> "HaveIt", transfer |-> m.transfer, asset |-> m.asset]}
<1>1. /\ UNCHANGED <<link, cache, pending, offered, lostDown>>
      /\ store \subseteq store' /\ (sent' = sent \/ sent' = sent + 1)
  BY DEF ServerHandles, AnnounceKnown, AnnounceNew, ChunkTaken, ChunkCompletes, SaveFails,
         ChunkThrown, Push, serverVars, clientVars, historyVars
<1>2. up' = [up EXCEPT ![c] = @ \ {m}]
  BY DEF ServerHandles, AnnounceKnown, AnnounceNew, ChunkTaken, ChunkCompletes, SaveFails,
         ChunkThrown, Received
<1>3. uploads' = uploads \/ \E r : uploads' = [uploads EXCEPT ![c] = r]
  <2>1. CASE AnnounceKnown(c, m)
    BY <2>1 DEF AnnounceKnown, serverVars
  <2>2. CASE AnnounceNew(c, m)
    BY <2>2 DEF AnnounceNew
  <2>3. CASE ChunkTaken(c, m)
    BY <2>3 DEF ChunkTaken
  <2>4. CASE ChunkCompletes(c, m) \/ SaveFails(c, m)
    BY <2>4 DEF ChunkCompletes, SaveFails
  <2>5. CASE ChunkThrown(c, m)
    BY <2>5 DEF ChunkThrown
  <2> QED BY <2>1, <2>2, <2>3, <2>4, <2>5 DEF ServerHandles
<1>4. lostUp' = lostUp \/ lostUp' = [lostUp EXCEPT ![c] = @ \cup {m.asset}]
  BY DEF ServerHandles, AnnounceKnown, AnnounceNew, ChunkTaken, ChunkCompletes, SaveFails,
         ChunkThrown, historyVars
<1>5. \/ UNCHANGED <<down, pushed>>
      \/ Push(c, m.asset, {}) \/ Push(c, m.asset, answer)
  BY DEF ServerHandles, AnnounceKnown, AnnounceNew, ChunkTaken, ChunkCompletes, SaveFails,
         ChunkThrown, historyVars
<1>6. m.asset \in Asset
  BY DEF Ledger, Provenance
<1>7. link[c] = "welcomed" => answer \subseteq Message
  <2> SUFFICES ASSUME link[c] = "welcomed" PROVE answer \subseteq Message
    OBVIOUS
  <2>1. m \in Message
    BY DEF Ledger, UpSide, Uploading
  <2> QED BY <2>1, MessageIs DEF Message
<1>8. Shaped'
  <2>1. up' = [d \in Client |-> up'[d]]
    BY <1>2, Updated DEF Ledger, Shaped
  <2>2. sent' \in Nat
    BY <1>1 DEF Ledger, Shaped
  <2>3. uploads' = [d \in Client |-> uploads'[d]]
    BY <1>3, Updated DEF Ledger, Shaped
  <2>4. lostUp' = [d \in Client |-> lostUp'[d]]
    BY <1>4, Updated DEF Ledger, Shaped
  <2>5. down' = [d \in Client |-> down'[d]] /\ pushed' = [d \in Client |-> pushed'[d]]
    BY <1>5 DEF Ledger, Shaped, Push
  <2> QED BY <1>1, <2>1, <2>2, <2>3, <2>4, <2>5 DEF Ledger, Shaped
<1>9. ASSUME NEW d \in Client PROVE UpSide(d)'
  <2>1. CASE d = c
    BY <2>1, ServerUp DEF Ledger
  <2>2. CASE d # c
    <3>1. /\ link'[d] = link[d] /\ up'[d] = up[d] /\ uploads'[d] = uploads[d]
          /\ offered'[d] = offered[d] /\ lostUp'[d] = lostUp[d]
      BY <1>1, <1>2, <1>3, <1>4, <2>2 DEF Ledger, Shaped
    <3> QED BY <1>1, <3>1, UpAside DEF Ledger, Shaped
  <2> QED BY <2>1, <2>2
<1>10. ASSUME NEW d \in Client PROVE DownSide(d)'
  <2>1. CASE UNCHANGED <<down, pushed>>
    BY <1>1, <2>1, DownAside DEF Ledger
  <2>2. CASE Push(c, m.asset, {})
    BY <1>1, <1>6, <2>2, PushDown DEF Ledger
  <2>3. CASE Push(c, m.asset, answer)
    <3> HIDE DEF answer
    <3>1. Shaped /\ DownSide(d)
      BY DEF Ledger
    <3> QED BY <1>1, <1>6, <1>7, <2>3, <3>1, PushDown
  <2> QED BY <1>5, <2>1, <2>2, <2>3
<1> QED BY <1>8, <1>9, <1>10 DEF Ledger

-----------------------------------------------------------------------------
(* A client *)

\* What one client does on a connection that stays up, and to messages to it.
LEMMA ClientKeepsLedger ==
    ASSUME Ledger, Provenance', NEW c \in Client, NEW m \in down[c], ClientHandles(c, m)
    PROVE  Ledger'
<1> DEFINE a == m.asset
<1>1. /\ UNCHANGED <<link, store, uploads, up, sent, offered, pushed, lostUp>>
      /\ down' = [down EXCEPT ![c] = @ \ {m}]
  BY DEF ClientHandles, Announced, Answered, Assembling, Assembled, Discarded, Arrives,
         ClientKeeps, serverVars
<1>2. /\ \E r : pending' = [pending EXCEPT ![c] = r]
      /\ cache' = cache \/ cache' = [cache EXCEPT ![c] = @ \cup {a}]
  BY DEF ClientHandles, Announced, Answered, Assembling, Assembled, Discarded, ClientKeeps
<1>3. lostDown' = lostDown \/ lostDown' = [lostDown EXCEPT ![c] = @ \cup {a}]
  BY DEF ClientHandles, Announced, Answered, Assembling, Assembled, Discarded, GivesUp
<1>4. Shaped'
  BY <1>1, <1>2, <1>3 DEF Ledger, Shaped
<1>5. ASSUME NEW d \in Client PROVE UpSide(d)'
  BY <1>1, UpAside DEF Ledger, Shaped
<1>6. ASSUME NEW d \in Client, d # c PROVE DownSide(d)'
  <2>1. /\ link'[d] = link[d] /\ down'[d] = down[d] /\ pending'[d] = pending[d]
        /\ pushed'[d] = pushed[d] /\ lostDown'[d] = lostDown[d] /\ cache'[d] = cache[d]
    BY <1>1, <1>2, <1>3, <1>6 DEF Ledger, Shaped
  <2> QED BY <2>1, DownAside DEF Ledger
<1>7. DownSide(c)'
  <2>1. CASE link[c] # "welcomed"
    BY <1>1, <2>1 DEF Ledger, DownSide
  <2>2. CASE link[c] = "welcomed"
    <3>1. Downloading(c) /\ m \in Message
      BY <2>2 DEF Ledger, DownSide, Downloading
    <3>2. /\ down'[c] = down[c] \ {m} /\ pushed' = pushed
          /\ lostDown[c] \subseteq lostDown'[c] /\ cache[c] \subseteq cache'[c]
      BY <1>1, <1>2, <1>3 DEF Ledger, Shaped
    <3>3. \A b : \A i \in Index : b # a \/ m.kind # "Chunk" \/ i # m.index => Pushes(c, b, i)' = Pushes(c, b, i)
      BY <3>2 DEF Pushes
    <3> DEFINE Rest(rs) == /\ \A b \in DOMAIN rs : b # a => b \in DOMAIN pending[c] /\ rs[b] = pending[c][b]
                           /\ \A b \in DOMAIN pending[c] : b # a => b \in DOMAIN rs
    <3>4. Rest(pending[c]) /\ Rest(Begin(pending[c], a)) /\ Rest(Forget(pending[c], a))
      BY DEF Begin, Forget
    <3>5. Rest(pending'[c])
      <4>1. CASE Announced(c, m)
        BY <4>1, <3>4 DEF Announced, ClientKeeps, Ledger, Shaped
      <4>2. CASE Answered(c, m)
        BY <4>2, <3>4 DEF Answered, ClientKeeps, Ledger, Shaped
      <4>3. CASE Assembling(c, m)
        BY <4>3 DEF Assembling, ClientKeeps, Deposit, Ledger, Shaped
      <4>4. CASE Assembled(c, m)
        BY <4>4, <3>4 DEF Assembled, ClientKeeps, Ledger, Shaped
      <4>5. CASE Discarded(c, m)
        BY <4>5, <3>4 DEF Discarded, ClientKeeps, Thrown, Ledger, Shaped
      <4> QED BY <4>1, <4>2, <4>3, <4>4, <4>5 DEF ClientHandles
    <3>6. a \in DOMAIN pending'[c] => Partial(pending'[c][a])
      <4>1. \A b \in DOMAIN pending[c] : Partial(pending[c][b])
        BY <3>1 DEF Downloading
      <4>2. CASE Announced(c, m)
        BY <4>1, <4>2, EmptyIsPartial DEF Announced, ClientKeeps, Begin, Ledger, Shaped
      <4>3. CASE Answered(c, m)
        BY <4>3 DEF Answered, ClientKeeps, Forget, Ledger, Shaped
      <4>4. CASE Assembling(c, m)
        <5>1. m.index \in Index
          BY <3>1, <4>4, MessageIs DEF Assembling
        <5>2. a \in DOMAIN pending[c] /\ pending'[c][a] = pending[c][a] \cup {m.index} /\ pending'[c][a] # Index
          BY <4>4 DEF Assembling, ClientKeeps, Takes, Completes, Deposit, Ledger, Shaped
        <5> QED BY <4>1, <5>1, <5>2 DEF Partial
      <4>5. CASE Assembled(c, m)
        BY <4>5 DEF Assembled, ClientKeeps, Forget, Ledger, Shaped
      <4>6. CASE Discarded(c, m)
        BY <4>6 DEF Discarded, ClientKeeps, Thrown, Forget, Ledger, Shaped
      <4> QED BY <4>2, <4>3, <4>4, <4>5, <4>6 DEF ClientHandles
    <3>7. ASSUME a \in pushed[c], a \notin lostDown'[c] \cup cache'[c], NEW i \in Index
          PROVE  Pushes(c, a, i)' # {} \/ (a \in DOMAIN pending'[c] /\ i \in pending'[c][a])
      <4>1. a \notin lostDown[c] \cup cache[c]
        BY <3>2, <3>7
      <4>2. Pushes(c, a, i) # {} \/ (a \in DOMAIN pending[c] /\ i \in pending[c][a])
        BY <3>1, <3>7, <4>1 DEF Downloading
      <4>3. CASE Announced(c, m) \/ Answered(c, m)
        <5>1. Pushes(c, a, i)' = Pushes(c, a, i)
          BY <3>3, <4>3 DEF Announced, Answered
        <5>2. cache' = cache /\ GivesUp(c, a)
          BY <4>3 DEF Announced, Answered
        <5>3. ~(a \in DOMAIN pending[c] /\ pending[c][a] # {})
          BY <3>7, <4>1, <5>2 DEF GivesUp, Ledger, Shaped
        <5> QED BY <4>2, <5>1, <5>3
      <4>4. CASE Assembling(c, m)
        <5>1. /\ DOMAIN pending'[c] = DOMAIN pending[c] /\ a \in DOMAIN pending[c]
              /\ pending'[c][a] = pending[c][a] \cup {m.index}
          BY <4>4 DEF Assembling, Takes, ClientKeeps, Deposit, Ledger, Shaped
        <5> QED BY <3>3, <4>2, <5>1
      <4>5. CASE Assembled(c, m) \/ Discarded(c, m)
        <5>1. a \in lostDown'[c] \cup cache'[c]
          BY <4>5 DEF Assembled, Discarded, Ledger, Shaped
        <5> QED BY <3>7, <5>1
      <4> QED BY <4>3, <4>4, <4>5 DEF ClientHandles
    <3>8. Downloading(c)'
      <4>1. down'[c] \subseteq Message
        BY <3>1, <3>2 DEF Downloading
      <4>2. \A b \in DOMAIN pending'[c] : Partial(pending'[c][b])
        BY <3>1, <3>5, <3>6 DEF Downloading
      <4>3. ASSUME NEW b \in pushed'[c] \ (lostDown'[c] \cup cache'[c]), NEW i \in Index, b # a
            PROVE  Pushes(c, b, i)' # {} \/ (b \in DOMAIN pending'[c] /\ i \in pending'[c][b])
        <5>1. b \in pushed[c] \ (lostDown[c] \cup cache[c])
          BY <3>2
        <5>2. Pushes(c, b, i) # {} \/ (b \in DOMAIN pending[c] /\ i \in pending[c][b])
          BY <3>1, <5>1 DEF Downloading
        <5> QED BY <3>3, <3>5, <4>3, <5>2
      <4> HIDE DEF a
      <4> QED BY <3>2, <3>7, <4>1, <4>2, <4>3 DEF Downloading
    <3> QED BY <1>1, <2>2, <3>8 DEF DownSide
  <2> QED BY <2>1, <2>2
<1> QED BY <1>4, <1>5, <1>6, <1>7 DEF Ledger

-----------------------------------------------------------------------------
(* Connections and uploads *)

LEMMA ConnectionKeeps ==
    ASSUME Ledger, Provenance', NEW c \in Client, Welcome(c) \/ Shutdown(c) \/ Reap(c)
    PROVE  Ledger'
<1>1. /\ UNCHANGED <<store, cache, pending, sent, offered, pushed, lostUp, lostDown>>
      /\ \A d \in Client : d # c => /\ link'[d] = link[d] /\ up'[d] = up[d]
                                    /\ down'[d] = down[d] /\ uploads'[d] = uploads[d]
  BY DEF Welcome, Shutdown, Reap, serverVars, clientVars, wireVars, historyVars, Ledger, Shaped
<1>2. Shaped'
  BY <1>1 DEF Welcome, Shutdown, Reap, serverVars, wireVars, Ledger, Shaped
<1>3. ASSUME NEW d \in Client, d # c PROVE UpSide(d)' /\ DownSide(d)'
  <2>1. /\ link'[d] = link[d] /\ up'[d] = up[d] /\ down'[d] = down[d] /\ uploads'[d] = uploads[d]
    BY <1>1, <1>3
  <2> QED BY <1>1, <2>1, UpAside, DownAside DEF Ledger, Shaped
<1>4. UpSide(c)' /\ DownSide(c)'
  <2>1. CASE Welcome(c)
    <3>1. /\ link[c] = "joining" /\ link'[c] = "welcomed" /\ up'[c] = {} /\ offered'[c] = {}
          /\ DOMAIN uploads'[c] = {} /\ down'[c] = {} /\ pushed'[c] = {} /\ DOMAIN pending'[c] = {}
      BY <2>1 DEF Welcome, serverVars, clientVars, wireVars, historyVars, Ledger, Shaped, UpSide, DownSide
    <3>2. \A a : Announces(c, a)' = {} /\ \A i \in Index : Chunks(c, a, i)' = {}
      BY <3>1 DEF Announces, Chunks
    <3>3. Uploading(c)'
      BY <3>1, <3>2, FS_EmptySet DEF Uploading
    <3>4. Downloading(c)'
      BY <3>1 DEF Downloading
    <3> QED BY <3>1, <3>3, <3>4 DEF UpSide, DownSide
  <2>2. CASE Shutdown(c) \/ Reap(c)
    <3>1. link'[c] \notin {"joining", "welcomed"}
      BY <2>2 DEF Shutdown, Reap, Ledger, Shaped
    <3> QED BY <3>1, Closed
  <2> QED BY <2>1, <2>2
<1> QED BY <1>2, <1>3, <1>4 DEF Ledger

LEMMA BreakKeeps ==
    ASSUME Ledger, Provenance', NEW c \in Client, NEW a \in Asset, UploadBreaks(c, a)
    PROVE  Ledger'
<1>1. /\ UNCHANGED <<store, uploads, cache, offered, pushed, lostUp, lostDown>> /\ sent' = sent + 1
      /\ link' = [link EXCEPT ![c] = "shut"] /\ down' = [down EXCEPT ![c] = {}]
      /\ pending' = [pending EXCEPT ![c] = Forget(@, a)]
  BY DEF UploadBreaks, serverVars, historyVars
<1>2. \E x : up' = [up EXCEPT ![c] = x]
  BY DEF UploadBreaks
<1>3. Shaped'
  <2>1. /\ up' = [d \in Client |-> up'[d]] /\ down' = [d \in Client |-> down'[d]]
        /\ link' = [d \in Client |-> link'[d]] /\ pending' = [d \in Client |-> pending'[d]]
    BY <1>1, <1>2, Updated DEF Ledger, Shaped
  <2> QED BY <1>1, <2>1 DEF Ledger, Shaped
<1>4. ASSUME NEW d \in Client, d # c PROVE UpSide(d)' /\ DownSide(d)'
  <2>1. /\ link'[d] = link[d] /\ up'[d] = up[d] /\ down'[d] = down[d] /\ pending'[d] = pending[d]
    BY <1>1, <1>2, <1>4 DEF Ledger, Shaped
  <2> QED BY <1>1, <2>1, UpAside, DownAside DEF Ledger, Shaped
<1>5. UpSide(c)' /\ DownSide(c)'
  BY <1>1, Closed DEF Ledger, Shaped
<1> QED BY <1>3, <1>4, <1>5 DEF Ledger

LEMMA UploadKeeps ==
    ASSUME Ledger, Provenance', NEW c \in Client, NEW a \in Asset, Upload(c, a)
    PROVE  Ledger'
<1>1. /\ link[c] = "welcomed" /\ UNCHANGED <<link, store, uploads, down, pushed, lostUp>>
      /\ sent' = sent + 1 /\ sent \in Nat
      /\ up' = [up EXCEPT ![c] = @ \cup Transfer(sent, a)]
      /\ pending' = [pending EXCEPT ![c] = Begin(@, a)]
      /\ offered' = [offered EXCEPT ![c] = @ \cup {a}]
  BY DEF Upload, serverVars, Ledger, Shaped
<1>2. cache' = cache \/ cache' = [cache EXCEPT ![c] = @ \cup {a}]
  BY DEF Upload
<1>3. lostDown' = lostDown \/ lostDown' = [lostDown EXCEPT ![c] = @ \cup {a}]
  BY DEF Upload, GivesUp
<1>4. Shaped'
  <2>1. /\ up' = [d \in Client |-> up'[d]] /\ pending' = [d \in Client |-> pending'[d]]
        /\ offered' = [d \in Client |-> offered'[d]]
    BY <1>1, Updated DEF Ledger, Shaped
  <2>2. cache' = [d \in Client |-> cache'[d]] /\ lostDown' = [d \in Client |-> lostDown'[d]]
    BY <1>2, <1>3, Updated DEF Ledger, Shaped
  <2> QED BY <1>1, <2>1, <2>2 DEF Ledger, Shaped
<1>5. ASSUME NEW d \in Client, d # c PROVE UpSide(d)' /\ DownSide(d)'
  <2>1. /\ link'[d] = link[d] /\ up'[d] = up[d] /\ down'[d] = down[d] /\ pending'[d] = pending[d]
        /\ offered'[d] = offered[d] /\ cache'[d] = cache[d] /\ lostDown'[d] = lostDown[d]
    BY <1>1, <1>2, <1>3, <1>5 DEF Ledger, Shaped
  <2> QED BY <1>1, <2>1, UpAside, DownAside DEF Ledger, Shaped
<1>6. Uploading(c) /\ Downloading(c)
  BY <1>1 DEF Ledger, UpSide, DownSide
<1>7. up'[c] = up[c] \cup Transfer(sent, a) /\ offered'[c] = offered[c] \cup {a}
  BY <1>1 DEF Ledger, Shaped
<1>8. Announces(c, a)' = Announces(c, a) \cup {Announce(sent, a)} /\ Announce(sent, a) \notin Announces(c, a)
  BY <1>1, <1>6, <1>7, TransferIs DEF Announces, Uploading
<1>9. \A i \in Index : /\ Chunks(c, a, i)' = Chunks(c, a, i) \cup {Chunk(sent, a, i)}
                       /\ Chunk(sent, a, i) \notin Chunks(c, a, i)
  BY <1>1, <1>6, <1>7, TransferIs DEF Chunks, Uploading
<1>10. \A b : b # a => /\ Announces(c, b)' = Announces(c, b)
                       /\ \A i \in Index : Chunks(c, b, i)' = Chunks(c, b, i)
  BY <1>1, <1>7, TransferIs DEF Announces, Chunks
<1>11. \A b : \A i : Lacks(c, b, i)' = Lacks(c, b, i)
  BY <1>1 DEF Lacks
<1>12. /\ IsFiniteSet(Announces(c, a)')
       /\ Cardinality(Announces(c, a)') = Cardinality(Announces(c, a)) + 1
  <2>1. IsFiniteSet(Announces(c, a))
    BY <1>6 DEF Uploading
  <2> QED BY <1>8, <2>1, FS_AddElement
<1>13. ASSUME NEW i \in Index
       PROVE  /\ IsFiniteSet(Chunks(c, a, i)')
              /\ Cardinality(Chunks(c, a, i)') = Cardinality(Chunks(c, a, i)) + 1
  <2>1. IsFiniteSet(Chunks(c, a, i))
    BY <1>6 DEF Uploading
  <2> QED BY <1>9, <2>1, FS_AddElement
<1>14. ASSUME a \notin lostUp[c] \cup store PROVE Enough(c, a)'
  <2>1. a \in DOMAIN uploads[c] => a \in offered[c]
    BY <1>6 DEF Uploading
  <2>2. CASE a \in offered[c]
    <3>1. Enough(c, a)
      BY <1>6, <1>14, <2>2 DEF Uploading
    <3>2. \A i \in Index : Lacks(c, a, i) \in Nat
      BY DEF Lacks
    <3>3. \A i \in Index : Cardinality(Chunks(c, a, i)') >= Cardinality(Announces(c, a)') + Lacks(c, a, i)'
      BY <1>6, <1>11, <1>12, <1>13, <3>1, <3>2, Counted DEF Enough
    <3> QED BY <1>8, <3>3 DEF Enough
  <2>3. CASE a \notin offered[c]
    <3>1. Announces(c, a) = {} /\ \A i \in Index : Chunks(c, a, i) = {} /\ Lacks(c, a, i) = 0
      BY <1>6, <2>1, <2>3 DEF Announces, Chunks, Lacks, Uploading
    <3>2. /\ Cardinality(Announces(c, a)') = 1
          /\ \A i \in Index : Cardinality(Chunks(c, a, i)') = 1 /\ Lacks(c, a, i)' = 0
      BY <1>11, <1>12, <1>13, <3>1, FS_EmptySet
    <3> QED BY <1>8, <3>2 DEF Enough
  <2> QED BY <2>2, <2>3
<1>15. ASSUME NEW b \in offered[c] \ (lostUp[c] \cup store), b # a PROVE Enough(c, b)'
  <2>1. Enough(c, b)
    BY <1>6 DEF Uploading
  <2> QED BY <1>1, <1>10, <1>11, <1>15, <2>1 DEF Enough
<1>16. Uploading(c)'
  <2>1. up'[c] \subseteq Message /\ offered'[c] \subseteq Asset
    BY <1>1, <1>6, <1>7, TransferIs DEF Uploading
  <2>2. \A m \in up'[c] : m.transfer < sent' /\ m.asset \in offered'[c]
    BY <1>1, <1>6, <1>7, TransferIs, MessageIs DEF Uploading
  <2>3. \A b \in DOMAIN uploads'[c] : b \in offered'[c] /\ Partial(uploads'[c][b])
    BY <1>1, <1>6, <1>7 DEF Uploading
  <2>4. \A b \in offered'[c] \ (lostUp'[c] \cup store') : Enough(c, b)'
    BY <1>1, <1>7, <1>14, <1>15
  <2>5. \A b \in Asset : /\ IsFiniteSet(Announces(c, b)')
                         /\ \A i \in Index : IsFiniteSet(Chunks(c, b, i)')
    BY <1>6, <1>10, <1>12, <1>13 DEF Uploading
  <2> QED BY <2>1, <2>2, <2>3, <2>4, <2>5 DEF Uploading
<1>17. Downloading(c)'
  <2>1. pending'[c] = Begin(pending[c], a) /\ down'[c] = down[c] /\ pushed'[c] = pushed[c]
    BY <1>1 DEF Ledger, Shaped
  <2>2. \A b \in DOMAIN pending'[c] : Partial(pending'[c][b])
    BY <1>6, <2>1, EmptyIsPartial DEF Begin, Downloading
  <2>3. lostDown[c] \subseteq lostDown'[c] /\ cache[c] \subseteq cache'[c]
    BY <1>2, <1>3 DEF Ledger, Shaped
  <2>4. ASSUME NEW b \in pushed[c] \ (lostDown'[c] \cup cache'[c]), NEW i \in Index
        PROVE  Pushes(c, b, i)' # {} \/ (b \in DOMAIN pending'[c] /\ i \in pending'[c][b])
    <3>1. b \in pushed[c] \ (lostDown[c] \cup cache[c])
      BY <2>3
    <3>2. Pushes(c, b, i) # {} \/ (b \in DOMAIN pending[c] /\ i \in pending[c][b])
      BY <1>6, <3>1 DEF Downloading
    <3>3. Pushes(c, b, i)' = Pushes(c, b, i)
      BY <2>1 DEF Pushes
    <3>4. CASE b = a
      <4>1. ~(a \in DOMAIN pending[c] /\ pending[c][a] # {})
        BY <2>4, <3>1, <3>4 DEF Upload, GivesUp, Ledger, Shaped
      <4> QED BY <3>2, <3>3, <3>4, <4>1
    <3>5. CASE b # a
      BY <2>1, <3>2, <3>3, <3>5 DEF Begin
    <3> QED BY <3>4, <3>5
  <2> QED BY <1>6, <2>1, <2>2, <2>4 DEF Downloading
<1>18. UpSide(c)' /\ DownSide(c)'
  BY <1>1, <1>16, <1>17 DEF UpSide, DownSide
<1> QED BY <1>4, <1>5, <1>18 DEF Ledger

-----------------------------------------------------------------------------
\* On a connection that stays up nothing is missing, in either direction, that was
\* not thrown away: overlapping uploads and pushes, resets and answers lose nothing
\* else (handleAssetAnnounce, handleAssetChunk 380-496, drainAssetInbox 2091-2200).
THEOREM NothingElseIsLost == Spec => []TransfersArrive
<1>1. Init => Ledger
  <2> SUFFICES ASSUME Init PROVE Ledger
    OBVIOUS
  <2>1. DOMAIN NoReceivers = {}
    BY DEF NoReceivers
  <2>2. Shaped
    BY DEF Init, Shaped
  <2>3. Provenance
    BY <2>1 DEF Init, Provenance
  <2>4. \A c \in Client : UpSide(c) /\ DownSide(c)
    BY <2>1 DEF Init, UpSide, DownSide
  <2> QED BY <2>2, <2>3, <2>4 DEF Ledger
<1>2. Ledger /\ [Next]_vars => Ledger'
  <2> SUFFICES ASSUME Ledger, [Next]_vars PROVE Ledger'
    OBVIOUS
  <2>1. CASE UNCHANGED vars
    <3>1. UNCHANGED <<link, store, uploads, cache, pending, up, down, sent, offered, pushed, lostUp, lostDown>>
      BY <2>1 DEF vars, serverVars, clientVars, wireVars, historyVars
    <3>2. Provenance' /\ Shaped'
      BY <3>1 DEF Ledger, Provenance, Shaped
    <3>3. \A c \in Client : UpSide(c)' /\ DownSide(c)'
      BY <3>1, UpAside, DownAside DEF Ledger, Shaped
    <3> QED BY <3>2, <3>3 DEF Ledger
  <2>2. CASE Next
    <3>1. Provenance
      BY DEF Ledger
    <3>2. PICK c \in Client :
            \/ Welcome(c) \/ Shutdown(c) \/ Reap(c)
            \/ \E a \in Asset : Upload(c, a) \/ UploadBreaks(c, a)
            \/ \E m \in up[c] : ServerHandles(c, m)
            \/ \E m \in down[c] : ClientHandles(c, m)
      BY <2>2 DEF Next
    <3>3. Provenance'
      BY <3>1, <3>2, ConnectionStep, UploadStep, BreakStep, ServerStep, ClientStep DEF Simulates
    <3> QED BY <3>2, <3>3, ConnectionKeeps, UploadKeeps, BreakKeeps, ServerKeeps, ClientKeepsLedger
  <2> QED BY <2>1, <2>2
<1>3. Ledger => TransfersArrive
  <2> SUFFICES ASSUME Ledger PROVE TransfersArrive
    OBVIOUS
  <2>1. ASSUME NEW c \in Client, link[c] = "welcomed", up[c] = {}, NEW a \in offered[c] \ lostUp[c], a \notin store
        PROVE  FALSE
    <3>1. Uploading(c) /\ Enough(c, a) /\ a \in Asset
      BY <2>1 DEF Ledger, UpSide, Uploading
    <3>2. Announces(c, a) = {} /\ \A i \in Index : Chunks(c, a, i) = {}
      BY <2>1 DEF Announces, Chunks
    <3>3. a \in DOMAIN uploads[c] /\ Partial(uploads[c][a])
      BY <3>1, <3>2 DEF Enough, Uploading
    <3>4. \A i \in Index : 0 >= 0 + Lacks(c, a, i)
      BY <3>1, <3>2, FS_EmptySet DEF Enough
    <3>5. \A i \in Index : i \in uploads[c][a]
      BY <3>3, <3>4 DEF Lacks
    <3> QED BY <3>3, <3>5 DEF Partial
  <2>2. ASSUME NEW c \in Client, link[c] = "welcomed", down[c] = {}, NEW a \in pushed[c] \ lostDown[c], a \notin cache[c]
        PROVE  FALSE
    <3>1. Downloading(c)
      BY <2>2 DEF Ledger, DownSide
    <3>2. \A i \in Index : Pushes(c, a, i) = {}
      BY <2>2 DEF Pushes
    <3>3. \A i \in Index : a \in DOMAIN pending[c] /\ i \in pending[c][a]
      BY <2>2, <3>1, <3>2 DEF Downloading
    <3>4. a \in DOMAIN pending[c] /\ Partial(pending[c][a])
      BY <3>1, <3>3, LastIsLast DEF Downloading
    <3> QED BY <3>3, <3>4 DEF Partial
  <2> QED BY <2>1, <2>2 DEF TransfersArrive, StoredUnlessThrown, ReceivedUnlessThrown
<1> QED BY <1>1, <1>2, <1>3, PTL DEF Spec
=============================================================================
