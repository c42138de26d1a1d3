--------------------------- MODULE MCSyncProtocol ----------------------------
(***************************************************************************)
(* Small instances of SyncProtocol.  The files are chosen so that two      *)
(* versions share chunks in another order, one is longer than a request    *)
(* allows, residuals can be put under the wrong pattern, and the special   *)
(* kinds of file (passthrough, empty, edge, damaged) all occur.            *)
(***************************************************************************)
EXTENDS SyncProtocol

CONSTANTS p1, p2, x, y

a == [pattern |-> p1, residual |-> x]
b == [pattern |-> p2, residual |-> y]
c == [pattern |-> p1, residual |-> y]

MCFiles == {Packed(<<a, b>>), Packed(<<b, a>>), Packed(<<a>>), Packed(<<b, c, a>>),
            PackedPassthrough(<<a>>), Packed(<< >>), PackedEdge(<<a, b>>),
            Damaged(<<a, b>>, "block"), Damaged(<<c>>, "table")}
=============================================================================
