------------------------------ MODULE MCCodec ------------------------------
(* Integers of eight bits, with entries at the edges of their range, and inputs
   that hold codewords in and out of alignment, delimiters, windows that cut,
   polynomials and runs longer than RunLimit. *)
EXTENDS Codec

MCWords == <<<<0, 1, 3>>, <<3, 3, 3>>>>
MCInputs == {<<0, 1, 3, 0, 1, 3, 3>>, <<2, 0, 1, 3, 1, 2>>, <<3, 3, 2, 3, 3, 3, 3>>, <<1>>,
             <<1, 1, 0, 2, 1, 3, 2, 0>>}
MCBoundaries == {<<1, 3>>, <<2>>, <<3, 3>>}
MCAnyEntries ==
    {[id |-> i, offset |-> o, dsize |-> d, size |-> 3, index |-> IF i = 255 THEN 255 ELSE 0] :
        i \in {0, 1, 64, 125, 126, 255}, o \in {0, 7, 128, 255}, d \in {0, 31}}
=============================================================================
