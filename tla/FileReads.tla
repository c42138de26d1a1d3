------------------------------ MODULE FileReads ------------------------------
(***************************************************************************)
(* What a mounted file promises to its readers, whatever caches, locks and *)
(* downloads are behind it: every read is answered; the answer is exact as *)
(* long as nothing underneath has failed and the brain is the one the file *)
(* was packed with.  After a failure it may be an error, and only where    *)
(* the content is not verified when it is loaded (a file stored as it is)  *)
(* short or wrong.  Nobody compares brains: with another one an answer may *)
(* be an error or wrong, but never short.                                  *)
(***************************************************************************)
CONSTANT Readers

VARIABLES
    pending,   \* readers that wait for an answer
    outcome,   \* how each reader's last read ended
    verified,  \* blocks are decoded, or decrypted, before they are used
    matched,   \* the brain is the one the file was packed with
    faulty,    \* something underneath has failed
    serving    \* the process runs

Outcomes == {"none", "exact", "short", "wrong", "error"}
abstract == <<pending, outcome, verified, matched, faulty, serving>>

Allowed ==
    {"exact"} \cup (IF faulty \/ ~matched THEN {"error"} ELSE {})
              \cup (IF ~matched THEN {"wrong"} ELSE {})
              \cup (IF faulty /\ ~verified THEN {"short", "wrong"} ELSE {})

Init ==
    /\ pending = {} /\ outcome = [r \in Readers |-> "none"]
    /\ {verified, matched, faulty} \subseteq BOOLEAN /\ serving = TRUE

Ask(r) ==
    /\ serving /\ r \notin pending
    /\ pending' = pending \cup {r} /\ outcome' = [outcome EXCEPT ![r] = "none"]
    /\ UNCHANGED <<verified, matched, faulty, serving>>

Answer(r) ==
    /\ serving /\ r \in pending
    /\ pending' = pending \ {r}
    /\ \E o \in Allowed : outcome' = [outcome EXCEPT ![r] = o]
    /\ UNCHANGED <<verified, matched, faulty, serving>>

\* A failed read may be answered in the same step.
Fail ==
    /\ serving /\ faulty' = TRUE
    /\ UNCHANGED <<pending, outcome, verified, matched, serving>>

FailAndAnswer(r) ==
    /\ serving /\ r \in pending /\ faulty' = TRUE
    /\ pending' = pending \ {r} /\ outcome' = [outcome EXCEPT ![r] = "error"]
    /\ UNCHANGED <<verified, matched, serving>>

Stop ==
    /\ faulty /\ serving' = FALSE
    /\ UNCHANGED <<pending, outcome, verified, matched, faulty>>

Next ==
    \/ \E r \in Readers : Ask(r) \/ Answer(r) \/ FailAndAnswer(r)
    \/ Fail \/ Stop

Safe == Init /\ [][Next]_abstract
Spec == Safe /\ \A r \in Readers : WF_abstract(Answer(r))
=============================================================================
