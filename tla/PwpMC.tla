-------------------------------- MODULE PwpMC --------------------------------
(* The parts of the peer wire protocol library; a behaviour belongs to one.  *)
EXTENDS PwpConnection, PwpMsghandler, PwpHandshaker, Bitstream

Seeds == [p \in Peers |-> IF p = "a" THEN {0} ELSE {}]
\* The whole piece, its middle, and a block that reaches beyond it
Asked == {[piece |-> 0, off |-> b[1], len |-> b[2]] : b \in {<<0, 3>>, <<1, 1>>, <<2, 3>>}}

Simple(t, args) == [type |-> t, args |-> args, data |-> <<>>]
Messages ==
    {[type |-> "KEEPALIVE"], Simple("CHOKE", <<>>), Simple("INTERESTED", <<>>),
     Simple("HAVE", <<7>>), Simple("REQUEST", <<1, 0, 300>>), Simple("CANCEL", <<1, 70000, 2>>),
     [type |-> "BITFIELD", pieces |-> {0, 6, 9}],
     [type |-> "PIECE", args |-> <<1, 258>>, data |-> <<4, 0, 9>>]}
Streams == {<<m, n>> : m, n \in Messages}

\* The name, a beginning of it, and another of the same length
Name == [i \in 1 .. 19 |-> 65 + i]
Names == {Name, SubSeq(Name, 1, 4), [Name EXCEPT ![19] = 1]}
\* A hash with a zero byte; one that differs before it, one that differs after it
Hash == [i \in 1 .. 20 |-> IF i = 12 THEN 0 ELSE i]
Hashes == {Hash, [Hash EXCEPT ![11] = 99], [Hash EXCEPT ![20] = 99]}
Trailing == <<0, 0, 0, 1, 2>>

Init == ConnInit \/ MsgInit \/ HsInit \/ StreamInit

Next == ConnNext \/ MsgNext \/ HsNext \/ StreamNext

Spec == Init /\ [][Next]_subjectVars

\* What is read of the other end's bytes does not depend on how they are cut into
\* buffers: the handshake is answered from its own bytes, every message behind it
\* reaches the connection in order, and nothing is left over between two messages.
StreamsReadExactly == MessagesExact /\ MessageBoundaries /\ HandshakeExact
=============================================================================
