------------------------------ MODULE Handshake ------------------------------
(***************************************************************************)
(* The sovereignty handshake of internal/network/auth.go: two peers prove  *)
(* to each other, over one libp2p stream, that they hold the same brain    *)
(* (codebook), and each records the other in its `authenticated` map, the  *)
(* map that SyncProtocol.handleStream consults before serving a file.      *)
(*                                                                         *)
(* Both ends of a stream run the same function `handshake`, so a session   *)
(* is a pair of ends and every protocol action takes an end.  A nonce is   *)
(* 32 random bytes: it is modelled by the end that drew it.  An HMAC is    *)
(* modelled by the tuple of what it covers.                                *)
(*                                                                         *)
(* Mirrors are peers that hold no brain and can only send back what was    *)
(* sent to them, now or in another session: the comment on authProof       *)
(* (auth.go:40) says that a proof "cannot be replayed or reflected".       *)
(***************************************************************************)
EXTENDS Naturals, Sequences, FiniteSets

CONSTANTS
    Nodes,        \* peers that run the program
    Mirrors,      \* peers that only repeat what they received
    Brains,       \* codebook hashes
    Sessions,     \* auth streams that may be opened
    MaxRestarts,  \* bound: restarts of nodes
    MaxRepeats,   \* bound: messages a mirror puts on one stream
    None,         \* no peer: the session has not been opened
    Junk          \* a 32-byte word nobody drew as a nonce

Peers == Nodes \cup Mirrors

Side == {"init", "resp"}
End == Sessions \X Side

ASSUME PeersAssumption == Nodes \cap Mirrors = {} /\ None \notin Peers /\ Junk \notin End
ASSUME BoundsAssumption == MaxRestarts \in Nat /\ MaxRepeats \in Nat

Other(e) == <<e[1], IF e[2] = "init" THEN "resp" ELSE "init">>

VARIABLES
    brain,          \* CodebookHash of each node
    held,           \* history: every brain a node has held
    authenticated,  \* CromNode.authenticated of each node
    peer,           \* the peer at each end of a session
    pc,             \* where each end is in handshake
    inbox,          \* bytes on their way to each end, in order
    alive,          \* FALSE once the connection under the stream is gone
    seen,           \* messages that reached a mirror
    restarts        \* number of restarts so far

vars == <<brain, held, authenticated, peer, pc, inbox, alive, seen, restarts>>

NonceOfSession(e) == [kind |-> "nonce", from |-> e[1]]
Nonce(e) == [kind |-> "nonce", from |-> e]
Proof(key, sender, nonce) ==
    [kind |-> "proof", key |-> key, sender |-> sender, nonce |-> nonce]
Ack == [kind |-> "ack"]

Nonces == [kind : {"nonce"}, from : End]
Proofs == [kind : {"proof"}, key : Brains, sender : Nodes, nonce : End \cup {Junk}]
Msgs == Nonces \cup Proofs \cup {Ack}

Busy == {"start", "nonceSent", "proofSent", "verified"}
Ended == {"ok", "mismatch", "failed", "gone"}
-----------------------------------------------------------------------------
Init ==
    /\ brain \in [Nodes -> Brains]
    /\ held = [n \in Nodes |-> {brain[n]}]
    /\ authenticated = [n \in Nodes |-> {}]
    /\ peer = [e \in End |-> None]
    /\ pc = [e \in End |-> "unused"]
    /\ inbox = [e \in End |-> << >>]
    /\ alive = [s \in Sessions |-> FALSE]
    /\ seen = {}
    /\ restarts = 0

(***************************************************************************)
(* What end e writes reaches the other end, unless the connection is gone. *)
(* A mirror at the other end remembers it.                                 *)
(***************************************************************************)
Write(e, m, rest) ==
    /\ alive[e[1]]
    /\ inbox' = [rest EXCEPT ![Other(e)] = Append(@, m)]
    /\ seen' = IF peer[Other(e)] \in Mirrors THEN seen \cup {m} ELSE seen

(***************************************************************************)
(* io.ReadFull takes the bytes that come next, whatever they were meant as *)
(* (a nonce and a proof are both 32 bytes).  A word that is not a nonce    *)
(* still gets a proof, about a value that nobody drew.                     *)
(***************************************************************************)
Arrived(e) == inbox[e] # << >>
AsNonce(m) == IF m.kind = "nonce" THEN m.from ELSE Junk
Take(e) == [inbox EXCEPT ![e] = Tail(@)]
Goto(e, from, to) == pc[e] = from /\ pc' = [pc EXCEPT ![e] = to]

(***************************************************************************)
(* AuthenticatePeer opens a stream; mDNS, the DHT and pull all call it, so *)
(* both peers may open one at the same moment.  authHandler runs at the    *)
(* other end.                                                              *)
(***************************************************************************)
AuthenticatePeer(e, a, b) ==
    /\ e[2] = "init" /\ peer[e] = None
    /\ a # b /\ (a \in Nodes \/ b \in Nodes)
    /\ peer' = [peer EXCEPT ![e] = a, ![Other(e)] = b]
    /\ pc' = [pc EXCEPT ![e] = "start", ![Other(e)] = "start"]
    /\ alive' = [alive EXCEPT ![e[1]] = TRUE]
    /\ UNCHANGED <<brain, held, authenticated, inbox, seen, restarts>>

\* handshake: draw a nonce and send it.
SendNonce(e) ==
    /\ peer[e] \in Nodes
    /\ Goto(e, "start", "nonceSent")
    /\ Write(e, Nonce(e), inbox)
    /\ UNCHANGED <<brain, held, authenticated, peer, alive, restarts>>

\* authProof as node n computes it for the peer `sender` and this nonce.
AuthProofUnbound(n, sender, nonce) == Proof(brain[n], n, nonce)
AuthProof(n, sender, nonce) == Proof(brain[n], sender, nonce)

\* handshake: read the other nonce, answer with the proof.
SendProof(e) ==
    /\ peer[e] \in Nodes
    /\ Goto(e, "nonceSent", "proofSent")
    /\ Arrived(e)
    /\ LET n == peer[e]
       IN  Write(e, AuthProof(n, n, AsNonce(Head(inbox[e]))), Take(e))
    /\ UNCHANGED <<brain, held, authenticated, peer, alive, restarts>>

\* hmac.Equal against the proof this node expects of its remote peer.
ProofMatchesAnyBrain(e) ==
    \E k \in Brains : Head(inbox[e]) = Proof(k, peer[Other(e)], e)
ProofMatches(e) ==
    Head(inbox[e]) = AuthProof(peer[e], peer[Other(e)], e)

\* handshake: the proof is right, so the peer is stored before any ack.
AcceptProof(e) ==
    /\ peer[e] \in Nodes
    /\ Goto(e, "proofSent", "verified")
    /\ Arrived(e) /\ ProofMatches(e)
    /\ authenticated' = [authenticated EXCEPT ![peer[e]] = @ \cup {peer[Other(e)]}]
    /\ inbox' = Take(e)
    /\ UNCHANGED <<brain, held, peer, alive, seen, restarts>>

\* Closing the connection to a peer ends every stream the two share.
Shared(s, t) == {peer[<<s, x>>] : x \in Side} = {peer[<<t, x>>] : x \in Side}

\* handshake returns errBrainMismatch: authHandler and AuthenticatePeer both
\* close the connection to the peer.
RejectProof(e) ==
    /\ peer[e] \in Nodes
    /\ Goto(e, "proofSent", "mismatch")
    /\ Arrived(e) /\ ~ProofMatches(e)
    /\ alive' = [s \in Sessions |-> alive[s] /\ ~Shared(s, e[1])]
    /\ inbox' = Take(e)
    /\ UNCHANGED <<brain, held, authenticated, peer, seen, restarts>>

\* handshake, responder: the ack.
AckAfterAck(e) ==
    /\ e[2] = "resp" /\ peer[e] \in Nodes
    /\ Goto(e, "verified", "ok")
    /\ Arrived(e)
    /\ Write(e, Ack, Take(e))
    /\ UNCHANGED <<brain, held, authenticated, peer, alive, restarts>>
AckBeforeCheck(e) ==
    /\ e[2] = "resp" /\ peer[e] \in Nodes
    /\ pc[e] \in {"proofSent", "verified"}
    /\ pc' = [pc EXCEPT ![e] = "ok"]
    /\ Write(e, Ack, inbox)
    /\ UNCHANGED <<brain, held, authenticated, peer, alive, restarts>>
SendAck(e) ==
    /\ e[2] = "resp" /\ peer[e] \in Nodes
    /\ Goto(e, "verified", "ok")
    /\ Write(e, Ack, inbox)
    /\ UNCHANGED <<brain, held, authenticated, peer, alive, restarts>>

\* handshake, initiator: returns nil only after the ack.
ReadAck(e) ==
    /\ e[2] = "init" /\ peer[e] \in Nodes
    /\ Goto(e, "verified", "ok")
    /\ Arrived(e)
    /\ inbox' = Take(e)
    /\ UNCHANGED <<brain, held, authenticated, peer, alive, seen, restarts>>

(***************************************************************************)
(* A read or a write fails, which may happen at any moment: the connection *)
(* was lost with what was in flight, the other end has returned (deferred  *)
(* Close), or the deadline of AuthTimeout has passed.  handshake returns   *)
(* an error; what it stored in `authenticated` stays there.                *)
(***************************************************************************)
HandshakeError(e) ==
    /\ peer[e] \in Nodes
    /\ pc[e] \in Busy
    /\ pc' = [pc EXCEPT ![e] = "failed"]
    /\ UNCHANGED <<brain, held, authenticated, peer, inbox, alive, seen, restarts>>
-----------------------------------------------------------------------------
(* The environment. *)

\* A mirror sends the nonce of its own end or repeats something it was sent.
Repeat(e, m) ==
    /\ peer[e] \in Mirrors /\ pc[e] = "start"
    /\ m \in seen \cup {Nonce(e), Ack}
    /\ Len(inbox[Other(e)]) < MaxRepeats
    /\ Write(e, m, inbox)
    /\ UNCHANGED <<brain, held, authenticated, peer, pc, alive, restarts>>

\* The process of node n stops and starts again with brain b: the map is in
\* memory and starts empty, the peer identity is a file and stays.
Restart(n, b) ==
    /\ restarts < MaxRestarts
    /\ restarts' = restarts + 1
    /\ brain' = [brain EXCEPT ![n] = b]
    /\ held' = [held EXCEPT ![n] = @ \cup {b}]
    /\ authenticated' = [authenticated EXCEPT ![n] = {}]
    /\ pc' = [e \in End |-> IF peer[e] = n THEN "gone" ELSE pc[e]]
    /\ alive' = [s \in Sessions |-> alive[s] /\ \A x \in Side : peer[<<s, x>>] # n]
    /\ UNCHANGED <<peer, inbox, seen>>
-----------------------------------------------------------------------------
Next ==
    \/ \E e \in End, a, b \in Peers : AuthenticatePeer(e, a, b)
    \/ \E e \in End : SendNonce(e)
    \/ \E e \in End : SendProof(e)
    \/ \E e \in End : AcceptProof(e)
    \/ \E e \in End : RejectProof(e)
    \/ \E e \in End : SendAck(e)
    \/ \E e \in End : ReadAck(e)
    \/ \E e \in End : HandshakeError(e)
    \/ \E e \in End, m \in Msgs : Repeat(e, m)
    \/ \E n \in Nodes, b \in Brains : Restart(n, b)

Spec == Init /\ [][Next]_vars
-----------------------------------------------------------------------------
\* Type invariant.
TypeOK ==
    /\ brain \in [Nodes -> Brains]
    /\ held \in [Nodes -> SUBSET Brains]
    /\ authenticated \in [Nodes -> SUBSET Peers]
    /\ peer \in [End -> Peers \cup {None}]
    /\ pc \in [End -> Busy \cup Ended \cup {"unused"}]
    /\ inbox \in [End -> Seq(Msgs)]
    /\ alive \in [Sessions -> BOOLEAN]
    /\ seen \subseteq Msgs
    /\ restarts \in Nat

(***************************************************************************)
(* Whoever IsAuthenticated accepts is a node that has held the brain this  *)
(* node is using: no sequence of replayed or reflected messages, nor a     *)
(* proof made before a restart, gets a mirror or the holder of another     *)
(* brain into the map (auth.go:40, 123).                                   *)
(***************************************************************************)
AuthenticatedHeldBrain ==
    \A n \in Nodes : \A p \in authenticated[n] :
        p \in Nodes /\ brain[n] \in held[p]

(***************************************************************************)
(* "The initiator waits for a final ack, so it only proceeds once the      *)
(* other side accepted it" (auth.go:51): when the initiator's handshake    *)
(* returned nil, the responder serves it, unless it restarted meanwhile.   *)
(***************************************************************************)
InitiatorWasAccepted ==
    \A s \in Sessions :
        LET i == <<s, "init">>
            r == <<s, "resp">>
        IN  (pc[i] = "ok" /\ peer[r] \in Nodes) =>
                \/ pc[r] = "gone"
                \/ pc[r] = "ok" /\ peer[i] \in authenticated[peer[r]]

(***************************************************************************)
(* Two live processes whose handshake returned nil on both ends hold the   *)
(* same brain now, whatever restarts and other sessions happened around.   *)
(***************************************************************************)
BothOkMeansSameBrain ==
    \A s \in Sessions :
        LET i == <<s, "init">>
            r == <<s, "resp">>
        IN  (pc[i] = "ok" /\ pc[r] = "ok") => brain[peer[i]] = brain[peer[r]]

(***************************************************************************)
(* handshake needs its deadline only against failures: on a live stream    *)
(* between two nodes whose ends are both still running, one of them can    *)
(* always move, so the two never wait for each other.                      *)
(***************************************************************************)
NoMutualWait ==
    \A s \in Sessions :
        LET ends == {<<s, "init">>, <<s, "resp">>}
        IN  (alive[s] /\ \A e \in ends : peer[e] \in Nodes /\ pc[e] \in Busy) =>
                \E e \in ends :
                    ENABLED (\/ SendNonce(e) \/ SendProof(e) \/ AcceptProof(e)
                             \/ RejectProof(e) \/ SendAck(e) \/ ReadAck(e))
=============================================================================
