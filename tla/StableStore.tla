----------------------------- MODULE StableStore -----------------------------
(****************************************************************************)
(* What replacing a file by way of a temporary one promises: every name     *)
(* holds one whole value or none, a replacement takes effect in one step,   *)
(* and a value is lost only while its own replacement is under way and was  *)
(* hit by a failure of the file system.                                     *)
(****************************************************************************)
EXTENDS Naturals

CONSTANTS Names, Values, Nothing

VARIABLES
    kept,    \* what each name holds
    wanted   \* the replacement under way, or Nothing

StInit ==
    /\ kept \in [Names -> Values \cup {Nothing}]
    /\ wanted = Nothing

Replacements == [name : Names, value : Values, hit : BOOLEAN]

Ask == wanted = Nothing /\ wanted' \in Replacements /\ UNCHANGED kept

\* A step of the replacement under way: it has no effect yet, takes effect, or,
\* once hit by a failure, loses what the name held; and it goes on, ends, or
\* makes way for another.
Work ==
    /\ wanted \in Replacements
    /\ \/ kept' = kept
       \/ kept' = [kept EXCEPT ![wanted.name] = wanted.value]
       \/ wanted.hit /\ kept' = [kept EXCEPT ![wanted.name] = Nothing]
    /\ wanted' \in Replacements \cup {Nothing}

StNext == Ask \/ Work

StSpec == StInit /\ [][StNext]_<<kept, wanted>>
=============================================================================
