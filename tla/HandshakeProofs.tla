--------------------------- MODULE HandshakeProofs ---------------------------
(***************************************************************************)
(* Safety properties of Handshake, for any sets of nodes,                  *)
(* mirrors, brains and sessions and any number of restarts.                *)
(***************************************************************************)
EXTENDS Handshake, TLAPS

(***************************************************************************)
(* What can be said of a message wherever it is: a nonce belongs to an     *)
(* opened session; a proof was made with a brain its sender has held, and, *)
(* if the sender is the other end of the nonce's session and has not       *)
(* restarted since, with the brain it holds now.                           *)
(***************************************************************************)
Sound(m) ==
    /\ m.kind = "nonce" => peer[m.from] # None
    /\ m.kind = "proof" =>
         /\ m.key \in held[m.sender]
         /\ m.nonce \in End =>
              /\ peer[m.nonce] # None
              /\ (peer[Other(m.nonce)] = m.sender /\ pc[Other(m.nonce)] # "gone")
                     => m.key = brain[m.sender]

SoundMsgs == {m \in Msgs : Sound(m)}

\* Every message in flight or remembered by a mirror is sound.
SoundWire == seen \subseteq SoundMsgs /\ inbox \in [End -> Seq(SoundMsgs)]

\* The two ends of a session are opened together.
OpenedTogether ==
    /\ \A e \in End : /\ peer[e] = None <=> pc[e] = "unused"
                      /\ peer[e] = None <=> peer[Other(e)] = None
                      /\ peer[e] = None => inbox[e] = << >>
    /\ \A n \in Nodes : brain[n] \in held[n]

\* An end that accepted the other's proof.
Accepted ==
    \A e \in End : pc[e] \in {"verified", "ok"} =>
        /\ peer[e] \in Nodes /\ peer[Other(e)] \in Nodes
        /\ peer[Other(e)] \in authenticated[peer[e]]
        /\ pc[Other(e)] # "gone" => brain[peer[e]] = brain[peer[Other(e)]]

\* How many messages an end can have sent, short of the ack.
Sent(state) == CASE state = "start" -> 0
                 [] state = "nonceSent" -> 1
                 [] OTHER -> 2
\* How many messages an end has read.
Read(state) == CASE state = "proofSent" -> 1
                 [] state = "verified" -> 2
                 [] OTHER -> 0

\* Until the responder sends the ack, the initiator has got at most a nonce
\* and a proof from it, read or still on the way.
AckIsThird ==
    \A e \in End :
        (e[2] = "init" /\ peer[Other(e)] \in Nodes) =>
            \/ pc[Other(e)] \in {"ok", "gone"}
            \/ /\ pc[e] # "ok"
               /\ pc[e] \in Busy => Len(inbox[e]) + Read(pc[e]) <= Sent(pc[Other(e)])

IInv == TypeOK /\ SoundWire /\ OpenedTogether /\ Accepted /\ AckIsThird
-----------------------------------------------------------------------------
\* The two ends of a session are each other's other end.
LEMMA OtherEnd ==
    \A e \in End :
        /\ Other(e) \in End /\ Other(Other(e)) = e /\ Other(e) # e
        /\ Other(e)[1] = e[1] /\ e[1] \in Sessions
        /\ e[2] = "init" => Other(e)[2] = "resp"
        /\ e[2] = "resp" => Other(e)[2] = "init"
  BY DEF End, Side, Other

\* Messages of different kinds differ, and each kind has its fields.
LEMMA MsgKinds ==
    /\ \A e \in End : Nonce(e) \in Msgs /\ Nonce(e).kind = "nonce" /\ Nonce(e).from = e
    /\ \A k \in Brains, n \in Nodes, w \in End \cup {Junk} :
            /\ Proof(k, n, w) \in Msgs /\ Proof(k, n, w).kind = "proof"
            /\ Proof(k, n, w).key = k /\ Proof(k, n, w).sender = n
            /\ Proof(k, n, w).nonce = w
    /\ Ack \in Msgs /\ Ack.kind = "ack"
    /\ \A m \in Msgs : m.kind = "nonce" => m.from \in End
    /\ \A m \in Msgs : m.kind = "proof" =>
            m.key \in Brains /\ m.sender \in Nodes /\ m.nonce \in End \cup {Junk}
  BY DEF Nonce, Proof, Ack, Msgs, Nonces, Proofs

\* A sequence over a set is a sequence over any larger set.
LEMMA SeqMonotone ==
    ASSUME NEW S, NEW T, S \subseteq T
    PROVE  Seq(S) \subseteq Seq(T)
  OBVIOUS
-----------------------------------------------------------------------------
\* Every action keeps the types.
LEMMA TypeStep == TypeOK /\ [Next]_vars => TypeOK'
  <1> SUFFICES ASSUME TypeOK, [Next]_vars PROVE TypeOK'
    OBVIOUS
  <1> USE DEF TypeOK
  <1>1. ASSUME NEW i \in End, NEW a \in Peers, NEW b \in Peers,
               AuthenticatePeer(i, a, b)
        PROVE  TypeOK'
    BY <1>1, OtherEnd DEF AuthenticatePeer, Busy
  <1>2. ASSUME NEW e \in End, SendNonce(e) PROVE TypeOK'
    <2>1. inbox' \in [End -> Seq(Msgs)] /\ seen' \subseteq Msgs
      BY <1>2, OtherEnd, MsgKinds DEF SendNonce, Write
    <2> QED BY <1>2, <2>1 DEF SendNonce, Goto, Busy
  <1>3. ASSUME NEW e \in End, SendProof(e) PROVE TypeOK'
    <2>1. Head(inbox[e]) \in Msgs /\ Take(e) \in [End -> Seq(Msgs)]
      BY <1>3 DEF SendProof, Arrived, Take
    <2>2. AuthProof(peer[e], peer[e], AsNonce(Head(inbox[e]))) \in Msgs
      BY <1>3, <2>1, MsgKinds DEF SendProof, AuthProof, AsNonce
    <2>3. inbox' \in [End -> Seq(Msgs)] /\ seen' \subseteq Msgs
      BY <1>3, <2>1, <2>2, OtherEnd DEF SendProof, Write
    <2> QED BY <1>3, <2>3 DEF SendProof, Goto, Busy
  <1>4. ASSUME NEW e \in End, AcceptProof(e) PROVE TypeOK'
    <2>1. Take(e) \in [End -> Seq(Msgs)]
      BY <1>4 DEF AcceptProof, Arrived, Take
    <2>2. peer[Other(e)] \in Peers
      BY <1>4, <2>1, OtherEnd, MsgKinds, PeersAssumption
      DEF AcceptProof, Arrived, ProofMatches, AuthProof, Proof, Peers, Msgs, Nonces, Proofs, Ack
    <2> QED BY <1>4, <2>1, <2>2 DEF AcceptProof, Goto, Busy
  <1>5. ASSUME NEW e \in End, RejectProof(e) PROVE TypeOK'
    BY <1>5 DEF RejectProof, Arrived, Take, Goto, Ended
  <1>6. ASSUME NEW e \in End, SendAck(e) PROVE TypeOK'
    <2>1. inbox' \in [End -> Seq(Msgs)] /\ seen' \subseteq Msgs
      BY <1>6, OtherEnd, MsgKinds DEF SendAck, Write
    <2> QED BY <1>6, <2>1 DEF SendAck, Goto, Ended
  <1>7. ASSUME NEW e \in End, ReadAck(e) PROVE TypeOK'
    BY <1>7 DEF ReadAck, Arrived, Take, Goto, Ended
  <1>8. ASSUME NEW e \in End, HandshakeError(e) PROVE TypeOK'
    BY <1>8 DEF HandshakeError, Ended
  <1>9. ASSUME NEW e \in End, NEW m \in Msgs, Repeat(e, m) PROVE TypeOK'
    <2>1. inbox' \in [End -> Seq(Msgs)] /\ seen' \subseteq Msgs
      BY <1>9, OtherEnd DEF Repeat, Write
    <2> QED BY <1>9, <2>1 DEF Repeat
  <1>10. ASSUME NEW n \in Nodes, NEW b \in Brains, Restart(n, b) PROVE TypeOK'
    BY <1>10 DEF Restart, Ended
  <1>11. CASE UNCHANGED vars
    BY <1>11 DEF vars
  <1> QED
    BY <1>1, <1>2, <1>3, <1>4, <1>5, <1>6, <1>7, <1>8, <1>9, <1>10, <1>11 DEF Next
-----------------------------------------------------------------------------
\* A sound message stays sound: a restart changes the brain only of a node
\* whose ends it marks gone.
LEMMA SoundStable == IInv /\ [Next]_vars => SoundMsgs \subseteq SoundMsgs'
  <1> SUFFICES ASSUME IInv, [Next]_vars, NEW m \in Msgs, Sound(m)
               PROVE  Sound(m)'
    BY DEF SoundMsgs
  <1> USE MsgKinds, OtherEnd DEF IInv, TypeOK, Sound
  <1>1. ASSUME NEW i \in End, NEW a \in Peers, NEW b \in Peers,
               AuthenticatePeer(i, a, b)
        PROVE  Sound(m)'
    <2>1. ASSUME NEW e \in End, peer[e] # None
          PROVE  /\ peer'[e] = peer[e] /\ pc'[e] = pc[e]
                 /\ peer'[Other(e)] = peer[Other(e)] /\ pc'[Other(e)] = pc[Other(e)]
      BY <1>1, <2>1 DEF AuthenticatePeer, OpenedTogether
    <2> QED BY <1>1, <2>1 DEF AuthenticatePeer
  <1>2. ASSUME NEW e \in End, pc[e] # "gone",
               \E v : v # "gone" /\ pc' = [pc EXCEPT ![e] = v],
               UNCHANGED <<peer, brain, held>>
        PROVE  Sound(m)'
    BY <1>2
  <1>3. ASSUME NEW n \in Nodes, NEW b \in Brains, Restart(n, b) PROVE Sound(m)'
    BY <1>3 DEF Restart
  <1>4. ASSUME UNCHANGED <<peer, pc, brain, held>> PROVE Sound(m)'
    BY <1>4
  <1>5. ASSUME NEW e \in End,
               \/ SendNonce(e) \/ SendProof(e) \/ AcceptProof(e) \/ RejectProof(e)
               \/ SendAck(e) \/ ReadAck(e) \/ HandshakeError(e)
        PROVE  Sound(m)'
    BY <1>2, <1>5
    DEF SendNonce, SendProof, AcceptProof, RejectProof, SendAck, ReadAck,
        HandshakeError, Goto, Busy
  <1> QED
    BY <1>1, <1>3, <1>4, <1>5 DEF Next, Repeat, vars

\* Nothing unsound is ever written.
LEMMA WireStep == IInv /\ [Next]_vars => SoundWire'
  <1> SUFFICES ASSUME IInv, [Next]_vars PROVE SoundWire'
    OBVIOUS
  <1> DEFINE S == SoundMsgs
             T == SoundMsgs'
  <1>1. S \subseteq T /\ Seq(S) \subseteq Seq(T)
    BY SoundStable, SeqMonotone
  <1>2. inbox \in [End -> Seq(S)] /\ seen \subseteq S
    BY DEF IInv, SoundWire
  <1>3. ASSUME NEW e \in End, NEW m \in T, NEW rest \in [End -> Seq(T)],
               Write(e, m, rest)
        PROVE  SoundWire'
    BY <1>1, <1>2, <1>3, OtherEnd DEF Write, SoundWire
  <1>4. inbox \in [End -> Seq(T)] /\ seen \subseteq T
    BY <1>1, <1>2
  <1>5. ASSUME NEW e \in End, Arrived(e)
        PROVE  Head(inbox[e]) \in S /\ Take(e) \in [End -> Seq(T)]
    <2>1. Tail(inbox[e]) \in Seq(S) /\ Head(inbox[e]) \in S
      BY <1>2, <1>5 DEF Arrived
    <2> QED BY <1>1, <1>4, <2>1 DEF Take
  <1>6. ASSUME NEW e \in End, SendNonce(e) PROVE SoundWire'
    <2>1. Nonce(e) \in T
      BY <1>6, MsgKinds, PeersAssumption
      DEF SendNonce, SoundMsgs, Sound, IInv, TypeOK, Peers
    <2> QED BY <1>3, <1>4, <1>6, <2>1 DEF SendNonce
  <1>7. ASSUME NEW e \in End, SendProof(e) PROVE SoundWire'
    <2> DEFINE w == AsNonce(Head(inbox[e]))
    <2>1. w \in End \cup {Junk} /\ (w \in End => peer[w] # None)
      BY <1>5, <1>7, MsgKinds, PeersAssumption DEF SendProof, AsNonce, SoundMsgs, Sound
    <2>2. AuthProof(peer[e], peer[e], w) \in S
      BY <1>7, <2>1, MsgKinds DEF SendProof, AuthProof, SoundMsgs, Sound, IInv,
         TypeOK, OpenedTogether
    <2> QED BY <1>1, <1>3, <1>5, <1>7, <2>2 DEF SendProof
  <1>8. ASSUME NEW e \in End, AcceptProof(e) \/ RejectProof(e) \/ ReadAck(e)
        PROVE  SoundWire'
    BY <1>4, <1>5, <1>8 DEF AcceptProof, RejectProof, ReadAck, SoundWire
  <1>9. ASSUME NEW e \in End, SendAck(e) PROVE SoundWire'
    <2>1. Ack \in T
      BY MsgKinds DEF SoundMsgs, Sound
    <2> QED BY <1>3, <1>4, <1>9, <2>1 DEF SendAck
  <1>10. ASSUME NEW e \in End, NEW m \in Msgs, Repeat(e, m) PROVE SoundWire'
    <2>1. Nonce(e) \in S /\ Ack \in S
      BY <1>10, MsgKinds, PeersAssumption DEF Repeat, SoundMsgs, Sound, Peers
    <2> QED BY <1>1, <1>2, <1>3, <1>4, <1>10, <2>1 DEF Repeat
  <1>11. ASSUME UNCHANGED <<inbox, seen>> PROVE SoundWire'
    BY <1>4, <1>11 DEF SoundWire
  <1> QED
    BY <1>6, <1>7, <1>8, <1>9, <1>10, <1>11
    DEF Next, AuthenticatePeer, HandshakeError, Restart, vars
-----------------------------------------------------------------------------
\* Sessions are opened at both ends at once, and a node has held its brain.
LEMMA OpenedStep == IInv /\ [Next]_vars => OpenedTogether'
  <1> SUFFICES ASSUME IInv, [Next]_vars PROVE OpenedTogether'
    OBVIOUS
  <1> USE OtherEnd, PeersAssumption DEF IInv, TypeOK, OpenedTogether
  <1>1. ASSUME NEW i \in End, NEW a \in Peers, NEW b \in Peers,
               AuthenticatePeer(i, a, b)
        PROVE  OpenedTogether'
    BY <1>1 DEF AuthenticatePeer, Peers
  <1>2. ASSUME NEW e \in End, peer[e] # None, NEW v, v # "unused",
               pc' = [pc EXCEPT ![e] = v], UNCHANGED <<peer, brain, held>>,
               \A x \in End : inbox'[x] = inbox[x] \/ x \in {e, Other(e)}
        PROVE  OpenedTogether'
    BY <1>2
  <1>3. ASSUME NEW e \in End,
               SendNonce(e) \/ SendProof(e) \/ SendAck(e)
        PROVE  OpenedTogether'
    <2>1. \A x \in End : inbox'[x] = inbox[x] \/ x \in {e, Other(e)}
      BY <1>3 DEF SendNonce, SendProof, SendAck, Write, Take
    <2> QED BY <1>2, <1>3, <2>1 DEF SendNonce, SendProof, SendAck, Goto, Peers
  <1>4. ASSUME NEW e \in End,
               AcceptProof(e) \/ RejectProof(e) \/ ReadAck(e) \/ HandshakeError(e)
        PROVE  OpenedTogether'
    <2>1. \A x \in End : inbox'[x] = inbox[x] \/ x \in {e, Other(e)}
      BY <1>4 DEF AcceptProof, RejectProof, ReadAck, HandshakeError, Take
    <2> QED BY <1>2, <1>4, <2>1
            DEF AcceptProof, RejectProof, ReadAck, HandshakeError, Goto, Peers
  <1>5. ASSUME NEW e \in End, NEW m \in Msgs, Repeat(e, m) PROVE OpenedTogether'
    BY <1>5 DEF Repeat, Write, Peers
  <1>6. ASSUME NEW n \in Nodes, NEW b \in Brains, Restart(n, b) PROVE OpenedTogether'
    BY <1>6 DEF Restart, Peers
  <1>7. CASE UNCHANGED vars
    BY <1>7 DEF vars
  <1> QED
    BY <1>1, <1>3, <1>4, <1>5, <1>6, <1>7 DEF Next
-----------------------------------------------------------------------------
\* A proof that matches was made by the node at the other end, with the
\* brain it still holds unless it restarted.
LEMMA MatchingProof ==
    ASSUME IInv, NEW e \in End, peer[e] \in Nodes, Arrived(e), ProofMatches(e)
    PROVE  /\ peer[Other(e)] \in Nodes
           /\ brain[peer[e]] \in held[peer[Other(e)]]
           /\ pc[Other(e)] # "gone" => brain[peer[e]] = brain[peer[Other(e)]]
  <1> DEFINE m == Head(inbox[e])
  <1>1. m \in SoundMsgs
    BY DEF IInv, SoundWire, Arrived
  <1>2. /\ m.kind = "proof" /\ m.key = brain[peer[e]]
        /\ m.sender = peer[Other(e)] /\ m.nonce = e
    BY DEF ProofMatches, AuthProof, Proof
  <1> QED BY <1>1, <1>2, MsgKinds DEF SoundMsgs, Sound

\* What an end that accepted a proof knows stays true.
LEMMA AcceptedStep == IInv /\ [Next]_vars => Accepted'
  <1> SUFFICES ASSUME IInv, [Next]_vars PROVE Accepted'
    OBVIOUS
  <1> USE OtherEnd, PeersAssumption DEF IInv, TypeOK, Accepted
  <1>1. ASSUME NEW i \in End, NEW a \in Peers, NEW b \in Peers,
               AuthenticatePeer(i, a, b)
        PROVE  Accepted'
    BY <1>1 DEF AuthenticatePeer, OpenedTogether, Peers
  <1>2. ASSUME NEW e \in End, NEW v, pc[e] # "gone",
               v \in {"verified", "ok"} => pc[e] = "verified",
               pc' = [pc EXCEPT ![e] = v],
               UNCHANGED <<peer, brain, authenticated>>
        PROVE  Accepted'
    BY <1>2
  <1>3. ASSUME NEW e \in End,
               \/ SendNonce(e) \/ SendProof(e) \/ RejectProof(e)
               \/ SendAck(e) \/ ReadAck(e) \/ HandshakeError(e)
        PROVE  Accepted'
    BY <1>2, <1>3, ZenonT(30) DEF SendNonce, SendProof, RejectProof, SendAck, ReadAck,
       HandshakeError, Goto, Busy
  <1>4. ASSUME NEW e \in End, AcceptProof(e) PROVE Accepted'
    BY <1>4, MatchingProof DEF AcceptProof, Goto
  <1>5. ASSUME NEW n \in Nodes, NEW b \in Brains, Restart(n, b) PROVE Accepted'
    BY <1>5 DEF Restart
  <1>6. ASSUME UNCHANGED <<pc, peer, brain, authenticated>> PROVE Accepted'
    BY <1>6
  <1> QED
    BY <1>1, <1>3, <1>4, <1>5, <1>6 DEF Next, Repeat, vars

\* The values of the two counts.
LEMMA Counts ==
    /\ Sent("start") = 0 /\ Sent("nonceSent") = 1
    /\ Sent("proofSent") = 2
    /\ Read("start") = 0 /\ Read("nonceSent") = 0
    /\ Read("proofSent") = 1 /\ Read("verified") = 2
  BY DEF Sent, Read

\* The initiator never counts a third message before the ack is sent.
LEMMA AckStep == IInv /\ [Next]_vars => AckIsThird'
  <1> SUFFICES ASSUME IInv, [Next]_vars,
                      NEW x \in End, x[2] = "init", (peer[Other(x)] \in Nodes)',
                      pc'[Other(x)] \notin {"ok", "gone"}
               PROVE  /\ pc'[x] # "ok"
                      /\ pc'[x] \in Busy =>
                           Len(inbox'[x]) + Read(pc'[x]) <= Sent(pc'[Other(x)])
    BY DEF AckIsThird
  <1> DEFINE y == Other(x)
             Goal == /\ pc'[x] # "ok"
                     /\ pc'[x] \in Busy =>
                          Len(inbox'[x]) + Read(pc'[x]) <= Sent(pc'[y])
             Before == /\ pc[x] # "ok"
                       /\ pc[x] \in Busy =>
                            Len(inbox[x]) + Read(pc[x]) <= Sent(pc[y])
  <1> USE OtherEnd, PeersAssumption DEF IInv, TypeOK
  <1>a. /\ Len(inbox[x]) \in Nat /\ y \in End /\ y # x /\ y[2] = "resp"
        /\ inbox[x] # << >> => Len(inbox[x]) > 0 /\ Len(Tail(inbox[x])) = Len(inbox[x]) - 1
    OBVIOUS
  <1>b. ASSUME pc[y] \notin {"ok", "gone"}, peer[y] \in Nodes PROVE Before
    BY <1>b, <1>a DEF AckIsThird
  <1>c. Sent(pc[y]) \in Nat /\ Sent(pc[y]) <= 2 /\ Read(pc[x]) \in Nat
    BY DEF Sent, Read
  <1>1. ASSUME NEW i \in End, NEW a \in Peers, NEW b \in Peers,
               AuthenticatePeer(i, a, b)
        PROVE  Goal
    <2>1. CASE i = x
      BY <1>1, <2>1, <1>a DEF AuthenticatePeer, OpenedTogether, Sent, Read
    <2>2. CASE i # x
      <3>1. pc'[x] = pc[x] /\ pc'[y] = pc[y] /\ inbox'[x] = inbox[x] /\ peer'[y] = peer[y]
        BY <1>1, <2>2 DEF AuthenticatePeer
      <3> QED BY <3>1 DEF AckIsThird
    <2> QED BY <2>1, <2>2
  <1>2. ASSUME NEW e \in End, e # x, e # y, pc'[x] = pc[x], pc'[y] = pc[y],
               inbox'[x] = inbox[x], UNCHANGED peer
        PROVE  Goal
    BY <1>2 DEF AckIsThird
  <1>3. ASSUME NEW e \in End, SendNonce(e) PROVE Goal
    <2>1. CASE e = x
      BY <1>3, <2>1, <1>a DEF SendNonce, Goto, Write, AckIsThird, Read, Busy
    <2>2. CASE e = y
      <3>1. /\ pc[y] = "start" /\ pc'[y] = "nonceSent" /\ pc'[x] = pc[x]
            /\ Len(inbox'[x]) = Len(inbox[x]) + 1
        BY <1>3, <2>2, <1>a DEF SendNonce, Goto, Write
      <3>2. Before
        BY <1>3, <2>2, <3>1, <1>b DEF SendNonce
      <3> QED BY <3>1, <3>2, <1>a, <1>c, Counts
    <2>3. CASE e # x /\ e # y
      BY <1>2, <1>3, <2>3 DEF SendNonce, Goto, Write
    <2> QED BY <2>1, <2>2, <2>3
  <1>4. ASSUME NEW e \in End, SendProof(e) PROVE Goal
    <2>1. CASE e = x
      <3>1. /\ pc[x] = "nonceSent" /\ pc'[x] = "proofSent" /\ pc'[y] = pc[y]
            /\ inbox[x] # << >> /\ inbox'[x] = Tail(inbox[x])
        BY <1>4, <2>1, <1>a DEF SendProof, Goto, Write, Take, Arrived
      <3> QED BY <1>4, <3>1, <1>a, Counts DEF SendProof, AckIsThird, Busy
    <2>2. CASE e = y
      <3>1. /\ pc[y] = "nonceSent" /\ pc'[y] = "proofSent" /\ pc'[x] = pc[x]
            /\ Len(inbox'[x]) = Len(inbox[x]) + 1
        BY <1>4, <2>2, <1>a DEF SendProof, Goto, Write, Take
      <3>2. Before
        BY <1>4, <2>2, <3>1, <1>b DEF SendProof
      <3>3. Sent(pc[y]) = 1 /\ Sent(pc'[y]) = 2
        BY <3>1, Counts
      <3> QED BY <3>1, <3>2, <3>3, <1>a, <1>c
    <2>3. CASE e # x /\ e # y
      BY <1>2, <1>4, <2>3 DEF SendProof, Goto, Write, Take
    <2> QED BY <2>1, <2>2, <2>3
  <1>5. ASSUME NEW e \in End, AcceptProof(e) PROVE Goal
    <2>1. CASE e = x
      <3>1. /\ pc[x] = "proofSent" /\ pc'[x] = "verified" /\ pc'[y] = pc[y]
            /\ inbox[x] # << >> /\ inbox'[x] = Tail(inbox[x])
        BY <1>5, <2>1, <1>a DEF AcceptProof, Goto, Take, Arrived
      <3> QED BY <1>5, <3>1, <1>a, Counts DEF AcceptProof, AckIsThird, Busy
    <2>2. CASE e = y
      BY <1>5, <2>2, <1>a DEF AcceptProof, Goto, Take, AckIsThird, Sent
    <2>3. CASE e # x /\ e # y
      BY <1>2, <1>5, <2>3 DEF AcceptProof, Goto, Take
    <2> QED BY <2>1, <2>2, <2>3
  <1>6. ASSUME NEW e \in End, RejectProof(e) PROVE Goal
    <2>1. CASE e = x
      BY <1>6, <2>1, <1>a DEF RejectProof, Goto, AckIsThird, Busy
    <2>2. CASE e = y
      BY <1>6, <2>2, <1>a DEF RejectProof, Goto, Take, AckIsThird, Sent
    <2>3. CASE e # x /\ e # y
      BY <1>2, <1>6, <2>3 DEF RejectProof, Goto, Take
    <2> QED BY <2>1, <2>2, <2>3
  <1>7. ASSUME NEW e \in End, SendAck(e) PROVE Goal
    <2>1. CASE e = y
      BY <1>7, <2>1 DEF SendAck, Goto
    <2>2. CASE e # x /\ e # y
      BY <1>2, <1>7, <2>2 DEF SendAck, Goto, Write
    <2> QED BY <1>7, <2>1, <2>2 DEF SendAck
  <1>8. ASSUME NEW e \in End, ReadAck(e) PROVE Goal
    <2>1. CASE e = x
      \* Reading a third message: the responder must have sent the ack.
      BY <1>8, <2>1, <1>a, SMTT(30) DEF ReadAck, Goto, Arrived, AckIsThird, Read, Sent, Busy
    <2>2. CASE e # x /\ e # y
      BY <1>2, <1>8, <2>2 DEF ReadAck, Goto, Take
    <2> QED BY <1>8, <2>1, <2>2, <1>a DEF ReadAck
  <1>9. ASSUME NEW e \in End, HandshakeError(e) PROVE Goal
    <2>1. CASE e = y
      <3>1. /\ pc[y] \in Busy /\ pc'[y] = "failed" /\ pc'[x] = pc[x]
            /\ inbox' = inbox /\ peer' = peer
        BY <1>9, <2>1, <1>a DEF HandshakeError
      <3>2. Before
        BY <3>1, <1>b DEF Busy
      <3>3. Sent(pc'[y]) = 2
        BY <3>1 DEF Sent
      <3> QED BY <3>1, <3>2, <3>3, <1>a, <1>c
    <2>2. CASE e # y
      BY <1>9, <2>2 DEF HandshakeError, AckIsThird, Busy
    <2> QED BY <2>1, <2>2
  <1>10. ASSUME NEW e \in End, NEW m \in Msgs, Repeat(e, m) PROVE Goal
    BY <1>10 DEF Repeat, Write, AckIsThird
  <1>11. ASSUME NEW n \in Nodes, NEW b \in Brains, Restart(n, b) PROVE Goal
    BY <1>11 DEF Restart, AckIsThird, Busy
  <1>12. CASE UNCHANGED vars
    BY <1>12 DEF vars, AckIsThird
  <1> QED
    BY <1>1, <1>3, <1>4, <1>5, <1>6, <1>7, <1>8, <1>9, <1>10, <1>11, <1>12 DEF Next
-----------------------------------------------------------------------------
(***************************************************************************)
(* NoMutualWait says that one of two running ends can move, which speaks   *)
(* of ENABLED.  What can stop an end on a live stream is io.ReadFull with  *)
(* nothing to read: where handshake waits for the nonce, for the proof     *)
(* and, at the initiator, for the ack.                                     *)
(***************************************************************************)
WaitsToRead(e) ==
    /\ inbox[e] = << >>
    /\ \/ pc[e] \in {"nonceSent", "proofSent"}
       \/ pc[e] = "verified" /\ e[2] = "init"

BetweenNodes(e) == peer[e] \in Nodes /\ peer[Other(e)] \in Nodes

\* Of two nodes at the ends of a stream, at most one waits for the other.
NotBothWait ==
    \A e \in End : BetweenNodes(e) => ~(WaitsToRead(e) /\ WaitsToRead(Other(e)))

\* While both ends run, each has read or will find on the wire exactly what
\* the other has sent.
NothingMissing ==
    \A e \in End :
        (BetweenNodes(e) /\ pc[e] \in Busy /\ pc[Other(e)] \in Busy) =>
            Len(inbox[e]) + Read(pc[e]) = Sent(pc[Other(e)])

\* Every message between two running nodes is counted once, when it is sent
\* and when it is read.
LEMMA MissingStep == IInv /\ NothingMissing /\ [Next]_vars => NothingMissing'
  <1> SUFFICES ASSUME IInv, NothingMissing, [Next]_vars, NEW x \in End,
                      peer'[x] \in Nodes, peer'[Other(x)] \in Nodes,
                      pc'[x] \in Busy, pc'[Other(x)] \in Busy
               PROVE  Len(inbox'[x]) + Read(pc'[x]) = Sent(pc'[Other(x)])
    BY DEF NothingMissing, BetweenNodes
  <1> DEFINE y == Other(x)
             Goal == Len(inbox'[x]) + Read(pc'[x]) = Sent(pc'[y])
             Before == Len(inbox[x]) + Read(pc[x]) = Sent(pc[y])
  <1> USE OtherEnd, PeersAssumption DEF IInv, TypeOK
  <1>a. /\ Len(inbox[x]) \in Nat /\ y \in End /\ y # x /\ Other(y) = x
        /\ inbox[x] # << >> => Len(inbox[x]) > 0 /\ Len(Tail(inbox[x])) = Len(inbox[x]) - 1
    OBVIOUS
  <1>b. ASSUME pc[x] \in Busy, pc[y] \in Busy, UNCHANGED peer PROVE Before
    BY <1>b, <1>a DEF NothingMissing, BetweenNodes
  <1>c. Sent(pc[y]) \in Nat /\ Read(pc[x]) \in Nat
    BY DEF Sent, Read
  <1>1. ASSUME NEW i \in End, NEW a \in Peers, NEW b \in Peers,
               AuthenticatePeer(i, a, b)
        PROVE  Goal
    <2>1. CASE i = x \/ i = y
      <3>1. inbox'[x] = << >> /\ pc'[x] = "start" /\ pc'[y] = "start"
        BY <1>1, <2>1, <1>a DEF AuthenticatePeer, OpenedTogether
      <3> QED BY <3>1, Counts
    <2>2. CASE i # x /\ i # y
      <3>1. /\ pc'[x] = pc[x] /\ pc'[y] = pc[y] /\ inbox'[x] = inbox[x]
            /\ peer'[x] = peer[x] /\ peer'[y] = peer[y]
        BY <1>1, <2>2, <1>a DEF AuthenticatePeer
      <3> QED BY <3>1, <1>a DEF NothingMissing, BetweenNodes
    <2> QED BY <2>1, <2>2
  <1>2. ASSUME pc'[x] = pc[x], pc'[y] = pc[y], inbox'[x] = inbox[x], UNCHANGED peer
        PROVE  Goal
    BY <1>2, <1>b
  <1>3. ASSUME NEW e \in End, SendNonce(e) PROVE Goal
    <2>1. CASE e = x
      <3>1. /\ pc[x] = "start" /\ pc'[x] = "nonceSent" /\ pc'[y] = pc[y]
            /\ inbox'[x] = inbox[x]
        BY <1>3, <2>1, <1>a DEF SendNonce, Goto, Write
      <3>2. Before
        BY <1>3, <3>1, <1>b DEF SendNonce, Busy
      <3> QED BY <3>1, <3>2, Counts
    <2>2. CASE e = y
      <3>1. /\ pc[y] = "start" /\ pc'[y] = "nonceSent" /\ pc'[x] = pc[x]
            /\ Len(inbox'[x]) = Len(inbox[x]) + 1
        BY <1>3, <2>2, <1>a DEF SendNonce, Goto, Write
      <3>2. Before
        BY <1>3, <3>1, <1>b DEF SendNonce, Busy
      <3> QED BY <3>1, <3>2, <1>a, <1>c, Counts
    <2>3. CASE e # x /\ e # y
      BY <1>2, <1>3, <2>3, <1>a DEF SendNonce, Goto, Write
    <2> QED BY <2>1, <2>2, <2>3
  <1>4. ASSUME NEW e \in End, SendProof(e) PROVE Goal
    <2>1. CASE e = x
      <3>1. /\ pc[x] = "nonceSent" /\ pc'[x] = "proofSent" /\ pc'[y] = pc[y]
            /\ inbox[x] # << >> /\ inbox'[x] = Tail(inbox[x])
        BY <1>4, <2>1, <1>a DEF SendProof, Goto, Write, Take, Arrived
      <3>2. Before
        BY <1>4, <3>1, <1>b DEF SendProof, Busy
      <3> QED BY <3>1, <3>2, <1>a, <1>c, Counts
    <2>2. CASE e = y
      <3>1. /\ pc[y] = "nonceSent" /\ pc'[y] = "proofSent" /\ pc'[x] = pc[x]
            /\ Len(inbox'[x]) = Len(inbox[x]) + 1
        BY <1>4, <2>2, <1>a DEF SendProof, Goto, Write, Take
      <3>2. Before
        BY <1>4, <3>1, <1>b DEF SendProof, Busy
      <3> QED BY <3>1, <3>2, <1>a, <1>c, Counts
    <2>3. CASE e # x /\ e # y
      BY <1>2, <1>4, <2>3, <1>a DEF SendProof, Goto, Write, Take
    <2> QED BY <2>1, <2>2, <2>3
  <1>5. ASSUME NEW e \in End, AcceptProof(e) PROVE Goal
    <2>1. CASE e = x
      <3>1. /\ pc[x] = "proofSent" /\ pc'[x] = "verified" /\ pc'[y] = pc[y]
            /\ inbox[x] # << >> /\ inbox'[x] = Tail(inbox[x])
        BY <1>5, <2>1, <1>a DEF AcceptProof, Goto, Take, Arrived
      <3>2. Before
        BY <1>5, <3>1, <1>b DEF AcceptProof, Busy
      <3> QED BY <3>1, <3>2, <1>a, <1>c, Counts
    <2>2. CASE e = y
      <3>1. /\ pc[y] = "proofSent" /\ pc'[y] = "verified" /\ pc'[x] = pc[x]
            /\ inbox'[x] = inbox[x]
        BY <1>5, <2>2, <1>a DEF AcceptProof, Goto, Take
      <3>2. Before
        BY <1>5, <3>1, <1>b DEF AcceptProof, Busy
      <3>3. Sent("verified") = 2
        BY DEF Sent
      <3> QED BY <3>1, <3>2, <3>3, Counts
    <2>3. CASE e # x /\ e # y
      BY <1>2, <1>5, <2>3, <1>a DEF AcceptProof, Goto, Take
    <2> QED BY <2>1, <2>2, <2>3
  <1>6. ASSUME NEW e \in End, RejectProof(e) \/ ReadAck(e) \/ HandshakeError(e) PROVE Goal
    \* The end has returned, so it is not one of the two that still run.
    <2>1. pc'[e] \notin Busy
      BY <1>6 DEF RejectProof, ReadAck, HandshakeError, Goto, Busy
    <2>2. e # x /\ e # y
      BY <2>1
    <2> QED BY <1>2, <1>6, <2>2, <1>a DEF RejectProof, ReadAck, HandshakeError, Goto, Take
  <1>7. ASSUME NEW e \in End, SendAck(e) PROVE Goal
    <2>1. pc'[e] \notin Busy
      BY <1>7 DEF SendAck, Goto, Busy
    <2>2. e # x /\ e # y
      BY <2>1
    <2> QED BY <1>2, <1>7, <2>2, <1>a DEF SendAck, Goto, Write
  <1>8. ASSUME NEW e \in End, NEW m \in Msgs, Repeat(e, m) PROVE Goal
    <2>1. e # y
      BY <1>8 DEF Repeat
    <2> QED BY <1>2, <1>8, <2>1, <1>a DEF Repeat, Write
  <1>9. ASSUME NEW n \in Nodes, NEW b \in Brains, Restart(n, b) PROVE Goal
    BY <1>2, <1>9, <1>a DEF Restart, Busy
  <1>10. CASE UNCHANGED vars
    BY <1>2, <1>10 DEF vars
  <1> QED
    BY <1>1, <1>3, <1>4, <1>5, <1>6, <1>7, <1>8, <1>9, <1>10 DEF Next
-----------------------------------------------------------------------------
\* Type correctness: no handshake, restart or repeated message takes the
\* state of auth.go out of its types.
THEOREM TypeCorrect == Spec => []TypeOK
  <1>1. Init => TypeOK
    BY DEF Init, TypeOK
  <1> QED BY <1>1, TypeStep, PTL DEF Spec

\* The inductive invariant of the handshake.
THEOREM Inductive == Spec => []IInv
  <1>1. Init => IInv
    <2> SUFFICES ASSUME Init PROVE IInv
      OBVIOUS
    <2>1. TypeOK
      BY DEF Init, TypeOK
    <2>2. SoundWire
      BY DEF Init, SoundWire
    <2>3. OpenedTogether
      BY OtherEnd DEF Init, OpenedTogether
    <2>4. Accepted /\ AckIsThird
      BY OtherEnd, PeersAssumption DEF Init, Accepted, AckIsThird, Peers
    <2> QED BY <2>1, <2>2, <2>3, <2>4 DEF IInv
  <1>2. IInv /\ [Next]_vars => IInv'
    BY TypeStep, WireStep, OpenedStep, AcceptedStep, AckStep DEF IInv
  <1> QED BY <1>1, <1>2, PTL DEF Spec

\* Only a node that has held this node's brain enters `authenticated`
\* (auth.go:40, 123), whatever is replayed or reflected.
THEOREM AuthenticationSound == Spec => []AuthenticatedHeldBrain
  <1>1. Init => AuthenticatedHeldBrain
    BY DEF Init, AuthenticatedHeldBrain
  <1>2. IInv /\ AuthenticatedHeldBrain /\ [Next]_vars => AuthenticatedHeldBrain'
    <2> SUFFICES ASSUME IInv, AuthenticatedHeldBrain, [Next]_vars
                 PROVE  AuthenticatedHeldBrain'
      OBVIOUS
    <2> USE DEF IInv, TypeOK, AuthenticatedHeldBrain
    <2>1. ASSUME NEW e \in End, AcceptProof(e) PROVE AuthenticatedHeldBrain'
      BY <2>1, MatchingProof DEF AcceptProof
    <2>2. ASSUME NEW n \in Nodes, NEW b \in Brains, Restart(n, b)
          PROVE  AuthenticatedHeldBrain'
      BY <2>2 DEF Restart
    <2>3. ASSUME UNCHANGED <<authenticated, brain, held>> PROVE AuthenticatedHeldBrain'
      BY <2>3
    <2> QED
      BY <2>1, <2>2, <2>3
      DEF Next, AuthenticatePeer, SendNonce, SendProof, RejectProof, SendAck, ReadAck,
          HandshakeError, Repeat, vars
  <1> QED BY <1>1, <1>2, Inductive, PTL DEF Spec

\* When AuthenticatePeer returned nil, the responder had accepted the
\* initiator (auth.go:51).
THEOREM AckMeansAccepted == Spec => []InitiatorWasAccepted
  <1>1. IInv => InitiatorWasAccepted
    <2> SUFFICES ASSUME IInv, NEW s \in Sessions, pc[<<s, "init">>] = "ok",
                        peer[<<s, "resp">>] \in Nodes, pc[<<s, "resp">>] # "gone"
                 PROVE  /\ pc[<<s, "resp">>] = "ok"
                        /\ peer[<<s, "init">>] \in authenticated[peer[<<s, "resp">>]]
      BY DEF InitiatorWasAccepted
    <2> DEFINE i == <<s, "init">>
    <2>1. i \in End /\ i[2] = "init" /\ Other(i) = <<s, "resp">>
      BY DEF End, Side, Other
    <2>2. pc[Other(i)] = "ok"
      BY <2>1 DEF IInv, AckIsThird
    <2> QED BY <2>1, <2>2, OtherEnd DEF IInv, Accepted
  <1> QED BY <1>1, Inductive, PTL

\* Two running processes whose handshake ended well on both ends hold the
\* same brain at this moment.
THEOREM SameBrain == Spec => []BothOkMeansSameBrain
  <1>1. IInv => BothOkMeansSameBrain
    <2> SUFFICES ASSUME IInv, NEW s \in Sessions, pc[<<s, "init">>] = "ok",
                        pc[<<s, "resp">>] = "ok"
                 PROVE  brain[peer[<<s, "init">>]] = brain[peer[<<s, "resp">>]]
      BY DEF BothOkMeansSameBrain
    <2>1. <<s, "init">> \in End /\ Other(<<s, "init">>) = <<s, "resp">>
      BY DEF End, Side, Other
    <2> QED BY <2>1 DEF IInv, Accepted
  <1> QED BY <1>1, Inductive, PTL

\* Two nodes on one stream never both stand at io.ReadFull with nothing on
\* its way to either, so handshake needs AuthTimeout only for peers and
\* connections that fail (auth.go: handshake).
THEOREM NeverBothWait == Spec => []NotBothWait
  <1>1. Init => NothingMissing
    BY DEF Init, NothingMissing, Busy
  <1>2. IInv /\ NothingMissing => NotBothWait
    <2> SUFFICES ASSUME IInv, NothingMissing, NEW e \in End, BetweenNodes(e),
                        WaitsToRead(e), WaitsToRead(Other(e))
                 PROVE  FALSE
      BY DEF NotBothWait
    <2> DEFINE o == Other(e)
    <2>1. o \in End /\ Other(o) = e /\ BetweenNodes(o)
      BY OtherEnd DEF BetweenNodes
    <2>2. /\ pc[e] \in {"nonceSent", "proofSent", "verified"}
          /\ pc[o] \in {"nonceSent", "proofSent", "verified"}
          /\ Len(inbox[e]) = 0 /\ Len(inbox[o]) = 0
      BY DEF WaitsToRead
    <2>3. Read(pc[e]) \in Nat /\ Read(pc[o]) \in Nat
      BY DEF Read
    <2>4. Read(pc[e]) = Sent(pc[o])
      BY <2>1, <2>2, <2>3 DEF NothingMissing, Busy
    <2>5. Read(pc[o]) = Sent(pc[e])
      BY <2>1, <2>2, <2>3 DEF NothingMissing, Busy
    <2>6. Sent("verified") = 2
      BY DEF Sent
    \* Only an end that has read both messages has read all that was sent.
    <2>7. pc[e] = "verified" /\ pc[o] = "verified"
      BY <2>2, <2>4, <2>5, <2>6, Counts
    <2>8. e[2] = "init" /\ o[2] = "init"
      BY <2>7 DEF WaitsToRead
    <2> QED BY <2>8, OtherEnd
  <1> QED BY <1>1, <1>2, MissingStep, Inductive, PTL DEF Spec
=============================================================================
