---------------------------- MODULE MCDeployment ----------------------------
(* Two trees, the second worth twice the first; or one tree only. *)
EXTENDS Deployment

CONSTANTS s, t, a, b   \* two sets of terms, two of the rest

First == [terms |-> s, rest |-> a]

MCMaxTotalClaim == [v \in Versions |-> v]

Careful == [folder |-> <<1, 2>>, params |-> {First}, patient |-> TRUE]

\* The second set of parameters differs in what verify compares, or only in
\* what it does not.
Rushed(second) ==
    [folder |-> <<1>>, params |-> {First, second}, patient |-> FALSE]

MCCareful == {Careful}
MCCarefulAndRushed ==
    {Careful} \cup {Rushed([terms |-> t, rest |-> a]),
                    Rushed([terms |-> s, rest |-> b])}
=============================================================================
