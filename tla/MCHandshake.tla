---------------------------- MODULE MCHandshake ------------------------------
(***************************************************************************)
(* Small instance of Handshake: two nodes, one mirror, two brains, and two *)
(* sessions, so that a message of one session can be repeated in the other *)
(* and a restart can fall between them.                                    *)
(***************************************************************************)
EXTENDS Handshake, TLC

\* Nodes, brains and sessions are interchangeable: no action names one.
Symmetry ==
    Permutations(Nodes) \cup Permutations(Brains) \cup Permutations(Sessions)
=============================================================================
