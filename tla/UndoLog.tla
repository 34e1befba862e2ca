------------------------------- MODULE UndoLog -------------------------------
(****************************************************************************)
(* The history of applied NetTransform edits that the server keeps so that  *)
(* a client can undo and redo its own edits (engine/UndoLog.h).             *)
(*                                                                          *)
(* One vector holds the entries of every client; what is undoable or        *)
(* redoable is found by walking back over it with a filter on the author.   *)
(* The walk is described here by what it returns: the greatest index whose  *)
(* entry passes the filter. typeNameHash is left out: every entry is a      *)
(* NetTransform.                                                            *)
(****************************************************************************)
EXTENDS Integers, Sequences

\* struct UndoEntry. A pose is whatever the caller takes for a NetTransform.
UndoEntry(Pose) ==
    [txId : Nat, client : Nat, entity : Nat,
     before : Pose, after : Pose, undone : BOOLEAN]

\* Mutant: nothing is recorded.
RecordNothing(log, entry) == log

\* recordApplied: the new entry goes last and nothing else is touched, so the
\* undone entries before it stay redoable.
RecordApplied(log, entry) == Append(log, entry)

\* What both walk-backs return: the last entry that client c authored and
\* whose undone flag is `flag`.
IsLatest(log, c, flag, i) ==
    /\ i \in DOMAIN log
    /\ log[i].client = c
    /\ log[i].undone = flag
    /\ \A j \in DOMAIN log :
          j > i => ~(log[j].client = c /\ log[j].undone = flag)

IsLatestUndoable(log, c, i) == IsLatest(log, c, FALSE, i)
IsLatestRedoable(log, c, i) == IsLatest(log, c, TRUE, i)

\* The loop of markUndone / markRedone: the FIRST entry with this txId gets
\* the flag; an unknown txId changes nothing.
SetUndone(log, txId, flag) ==
    [i \in DOMAIN log |->
        IF /\ log[i].txId = txId
           /\ \A j \in DOMAIN log : j < i => log[j].txId # txId
          THEN [log[i] EXCEPT !.undone = flag]
          ELSE log[i]]

\* Mutant: an undone entry is not marked.
MarkNothing(log, txId) == log
MarkUndone(log, txId) == SetUndone(log, txId, TRUE)
MarkRedone(log, txId) == SetUndone(log, txId, FALSE)
=============================================================================
