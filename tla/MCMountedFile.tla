--------------------------- MODULE MCMountedFile ---------------------------
(***************************************************************************)
(* Four chunks in two blocks: a patch and a literal one; a codeword as it  *)
(* is and a fractal one, a block without residuals, whose frame is empty.  *)
(* The first frame lies across two pages, and the cache holds fewer cells  *)
(* than the file has.                                                      *)
(***************************************************************************)
EXTENDS MountedFile

MCEntries == <<[size |-> 1, delta |-> 1, route |-> "patch"],
               [size |-> 1, delta |-> 1, route |-> "literal"],
               [size |-> 1, delta |-> 0, route |-> "pattern"],
               [size |-> 1, delta |-> 0, route |-> "fractal"]>>
MCFrameSizes == <<4, 0>>
MCRequests == {[off |-> 0, len |-> 4], [off |-> 4, len |-> 1]}

\* The brain the file was packed with, and others.
Own == [i \in 1..4 |-> "own"]
Brains == {[Own EXCEPT ![3] = "other"], [Own EXCEPT ![1] = "short", ![3] = "short"],
           [Own EXCEPT ![3] = "none"]}
Mounted(kind, remote, tail, words, dict) ==
    [kind |-> kind, remote |-> remote, tail |-> tail, words |-> words, dict |-> dict]

MCFiles ==
    {Mounted(kind, remote, 0, Own, TRUE) : kind \in Kinds, remote \in BOOLEAN}
      \cup {Mounted("sealed", FALSE, 1, Own, TRUE)}
      \cup {Mounted("blocks", FALSE, 0, words, TRUE) : words \in Brains}
      \cup {Mounted("blocks", FALSE, 0, Own, FALSE)}
============================================================================
