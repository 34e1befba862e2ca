----------------------------- MODULE AssetStore ------------------------------
(****************************************************************************)
(* What the parties of asset sync promise, without messages: an asset is    *)
(* identified by its content, so a store only grows; the server comes to    *)
(* hold what some client has offered, and a client what it offered itself   *)
(* or what the server holds.                                                *)
(****************************************************************************)
CONSTANTS Client, Asset

VARIABLES
    server,    \* assets the server holds
    cache,     \* assets each client holds
    offered    \* assets each client has uploaded

vars == <<server, cache, offered>>

Init ==
    /\ server = {}
    /\ cache   = [c \in Client |-> {}]
    /\ offered = [c \in Client |-> {}]

Hold(c, a) == cache' = [cache EXCEPT ![c] = @ \cup {a}]

\* The client's own copy may fail to be saved.
Offer(c, a) ==
    /\ offered' = [offered EXCEPT ![c] = @ \cup {a}]
    /\ Hold(c, a) \/ UNCHANGED cache
    /\ UNCHANGED server

Publish(a) ==
    /\ \E c \in Client : a \in offered[c]
    /\ server' = server \cup {a}
    /\ UNCHANGED <<cache, offered>>

Fetch(c, a) ==
    /\ a \in server
    /\ Hold(c, a)
    /\ UNCHANGED <<server, offered>>

Next ==
    \E a \in Asset :
        \/ Publish(a)
        \/ \E c \in Client : Offer(c, a) \/ Fetch(c, a)

Spec == Init /\ [][Next]_vars
=============================================================================
