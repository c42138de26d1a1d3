------------------------------ MODULE MCBrain ------------------------------
(* Two corpora of two files: one whose buckets overflow, with a buffer that is
   not a multiple of the chunk size, and one whose patterns are tied.  The brain
   that was there is none, one of this chunk size, one of words so large that its
   header truncates their size to one cell, and one of words large enough to be
   matched whole.  Input repeats a chunk, so that two
   workers may store it twice in a cache of three. *)
EXTENDS BrainSearch, TLC

MCCorpora == {<<<<0, 1, 0, 2, 1, 0, 1>>, <<0, 0, 0, 1, 1>>>>, <<<<1, 0, 0, 2>>, <<0, 2, 1, 0>>>>}
MCContents == {Gone, <<2, 2>>}
MCOldBrains == {<< >>, <<<<0, 1>>, <<2, 0>>>>, <<<<1, 0, 2, 1, 0>>>>, <<<<0, 1, 2>>>>}
MCInput == <<<<2, 1>>, <<1, 1>>, <<1, 1>>, <<2, 2>>, <<0, 3>>, <<0, 2>>>>
MCHighEntropy == {<<2, 2>>}

Symmetry == Permutations(Workers)

\* Once the bytes of the brain are read, the corpus and the options play no part.
View ==
    IF phase \in {"create", "header", "write"} THEN <<phase, selected, brain, intended, faults, searchVars>>
    ELSE IF phase \in {"done", "failed"} THEN <<phase, brain, intended, searchVars>>
    ELSE vars
=============================================================================
