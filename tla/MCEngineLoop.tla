---------------------------- MODULE MCEngineLoop ----------------------------
(* The instance of EngineLoop for TLC. *)
EXTENDS EngineLoop

System(n, p) == [name |-> n, priority |-> p, current |-> TRUE]
Old(n)       == [name |-> n, priority |-> 0, current |-> FALSE]

\* The first two builds have the same systems, created in another order; the
\* third rejects one.
Builds == [v \in 0 .. 2 |->
              IF v = 0 THEN <<System("a", 2), System("b", 1)>>
              ELSE IF v = 1 THEN <<System("b", 1), System("a", 2)>>
              ELSE <<Old("a"), System("b", 1)>>]

Setup(files, port, clients, edits) ==
    [files |-> files, port |-> port, jobs |-> clients, writes |-> edits]

\* Two screenshots and a command one after the other, a batch of a screenshot
\* and a command, the files alone, and everything with one command.
MCWorkloads ==
    {Setup(FALSE, TRUE, {<<"s1">>, <<"s2">>, <<"w1">>}, 0),
     Setup(FALSE, TRUE, {<<"s1", "w1">>, <<"w2", "q1">>}, 0),
     Setup(TRUE, FALSE, {}, 2),
     Setup(TRUE, TRUE, {<<"w1">>}, 0)}
=============================================================================
