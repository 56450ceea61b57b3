------------------------ MODULE PwpConnectionProofs -------------------------
(***************************************************************************)
(* What a piece that arrives leaves of the pending requests, for blocks of *)
(* any offsets and lengths: __conn_remove_pending_request gives up exactly *)
(* the bytes of the piece, however it cuts the requests.  From it, what    *)
(* both ends of a connection keep to in every order of calls and messages. *)
(***************************************************************************)
EXTENDS PwpConnection, TLAPS

LEMMA EndIsInt == \A b \in BlockSet : End(b) \in Nat /\ End(b) = b.off + b.len
  BY DEF End, BlockSet

LEMMA BytesIn ==
    ASSUME NEW b \in BlockSet, NEW p, NEW i \in Int
    PROVE  <<p, i>> \in Bytes(b) <=> p = b.piece /\ b.off <= i /\ i < b.off + b.len
  BY DEF Bytes, End, BlockSet

LEMMA BytesArePairs ==
    ASSUME NEW b \in BlockSet, NEW x \in Bytes(b)
    PROVE  \E p \in Nat, i \in Int : x = <<p, i>>
  BY DEF Bytes, End, BlockSet

\* The parts are blocks.
LEMMA PartsAreBlocks ==
    ASSUME NEW pb \in BlockSet, NEW r \in BlockSet
    PROVE  Remainder(pb, r) \subseteq BlockSet
<1>1. r.off < pb.off => LeftPart(pb, r) \in BlockSet
  BY DEF LeftPart, BlockSet
<1>2. InMiddle(pb, r) => RightPart(pb, r) \in BlockSet
  BY DEF RightPart, InMiddle, End, BlockSet
<1>3. OnLeft(pb, r) => Shrunk(pb, r) \in BlockSet
  BY DEF Shrunk, OnLeft, End, BlockSet
<1> QED
  BY <1>1, <1>2, <1>3 DEF Remainder, InMiddle, OnRight

\* The bytes that are left of a request are its bytes without those of the piece.
LEMMA PartsExact ==
    ASSUME NEW pb \in BlockSet, NEW r \in BlockSet, NEW p \in Nat, NEW i \in Int
    PROVE  (\E b \in Remainder(pb, r) : <<p, i>> \in Bytes(b))
              <=> <<p, i>> \in Bytes(r) /\ <<p, i>> \notin Bytes(pb)
<1> DEFINE In(b) == p = b.piece /\ b.off <= i /\ i < b.off + b.len
<1>1. (<<p, i>> \in Bytes(r) <=> In(r)) /\ (<<p, i>> \in Bytes(pb) <=> In(pb))
  BY BytesIn
<1>2. \A b \in Remainder(pb, r) : <<p, i>> \in Bytes(b) <=> In(b)
  BY BytesIn, PartsAreBlocks
<1>3. (\E b \in Remainder(pb, r) : In(b)) <=> In(r) /\ ~In(pb)
  <2>1. CASE pb.piece # r.piece
    BY <2>1 DEF Remainder
  <2>2. CASE pb.piece = r.piece /\ Eats(pb, r)
    BY <2>2 DEF Remainder, Eats, End, BlockSet
  <2>3. CASE pb.piece = r.piece /\ ~Eats(pb, r) /\ InMiddle(pb, r)
    <3>1. Remainder(pb, r) = {RightPart(pb, r), LeftPart(pb, r)}
      BY <2>3 DEF Remainder
    <3> QED
      BY <2>3, <3>1 DEF InMiddle, RightPart, LeftPart, End, BlockSet
  <2>4. CASE pb.piece = r.piece /\ ~Eats(pb, r) /\ ~InMiddle(pb, r) /\ OnLeft(pb, r)
    <3>1. Remainder(pb, r) = {Shrunk(pb, r)}
      BY <2>4 DEF Remainder
    <3> QED
      BY <2>4, <3>1 DEF OnLeft, Shrunk, End, BlockSet
  <2>5. CASE pb.piece = r.piece /\ ~Eats(pb, r) /\ ~InMiddle(pb, r) /\ ~OnLeft(pb, r) /\ OnRight(pb, r)
    <3>1. Remainder(pb, r) = {LeftPart(pb, r)}
      BY <2>5 DEF Remainder
    <3> QED
      BY <2>5, <3>1 DEF OnRight, LeftPart, End, BlockSet
  <2>6. CASE pb.piece = r.piece /\ ~Eats(pb, r) /\ ~InMiddle(pb, r) /\ ~OnLeft(pb, r) /\ ~OnRight(pb, r)
    <3>1. Remainder(pb, r) = {r}
      BY <2>6 DEF Remainder
    <3> QED
      BY <2>6, <3>1 DEF Eats, InMiddle, OnLeft, OnRight, End, BlockSet
  <2> QED
    BY <2>1, <2>2, <2>3, <2>4, <2>5, <2>6
<1> HIDE DEF In
<1> QED
  BY <1>1, <1>2, <1>3

\* The parts of one request are not empty and share no byte.
LEMMA PartsApart ==
    ASSUME NEW pb \in BlockSet, pb.len > 0, NEW r \in BlockSet, r.len > 0
    PROVE  /\ \A b \in Remainder(pb, r) : b.len > 0
           /\ \A a, b \in Remainder(pb, r) : a # b => Bytes(a) \intersect Bytes(b) = {}
<1>1. \A b \in Remainder(pb, r) : b.len > 0
  <2>1. r.off < pb.off => LeftPart(pb, r).len > 0
    BY DEF LeftPart, BlockSet
  <2>2. InMiddle(pb, r) => RightPart(pb, r).len > 0
    BY DEF RightPart, InMiddle, End, BlockSet
  <2>3. OnLeft(pb, r) => Shrunk(pb, r).len > 0
    BY DEF Shrunk, OnLeft, End, BlockSet
  <2> QED
    BY <2>1, <2>2, <2>3 DEF Remainder, InMiddle, OnRight
<1>2. ASSUME NEW a \in Remainder(pb, r), NEW b \in Remainder(pb, r), a # b
      PROVE  Bytes(a) \intersect Bytes(b) = {}
  <2>1. InMiddle(pb, r) /\ Remainder(pb, r) = {RightPart(pb, r), LeftPart(pb, r)}
    BY <1>2 DEF Remainder
  <2>2. RightPart(pb, r) \in BlockSet /\ LeftPart(pb, r) \in BlockSet
    BY <2>1, PartsAreBlocks
  <2>3. Bytes(RightPart(pb, r)) \intersect Bytes(LeftPart(pb, r)) = {}
    <3>1. SUFFICES ASSUME NEW x \in Bytes(RightPart(pb, r)), x \in Bytes(LeftPart(pb, r))
                   PROVE  FALSE
      OBVIOUS
    <3>2. PICK p \in Nat, i \in Int : x = <<p, i>>
      BY <2>2, BytesArePairs
    <3>3. RightPart(pb, r).off <= i /\ i < LeftPart(pb, r).off + LeftPart(pb, r).len
      BY <2>2, <3>1, <3>2, BytesIn
    <3> QED
      BY <2>1, <3>3 DEF RightPart, LeftPart, InMiddle, End, BlockSet
  <2> QED
    BY <1>2, <2>1, <2>3
<1> QED
  BY <1>1, <1>2

\* The same about sets of bytes.
LEMMA PartsBytes ==
    ASSUME NEW pb \in BlockSet, NEW r \in BlockSet
    PROVE  BytesOf(Remainder(pb, r)) = Bytes(r) \ Bytes(pb)
<1>1. \A x : x \in BytesOf(Remainder(pb, r)) <=> \E b \in Remainder(pb, r) : x \in Bytes(b)
  BY DEF BytesOf
<1>2. ASSUME NEW x, x \in BytesOf(Remainder(pb, r)) PROVE x \in Bytes(r) \ Bytes(pb)
  <2>1. PICK b \in Remainder(pb, r) : x \in Bytes(b)
    BY <1>1, <1>2
  <2>2. PICK p \in Nat, i \in Int : x = <<p, i>>
    BY <2>1, PartsAreBlocks, BytesArePairs
  <2> QED
    BY <2>1, <2>2, PartsExact
<1>3. ASSUME NEW x, x \in Bytes(r) \ Bytes(pb) PROVE x \in BytesOf(Remainder(pb, r))
  <2>1. PICK p \in Nat, i \in Int : x = <<p, i>>
    BY <1>3, BytesArePairs
  <2> QED
    BY <1>1, <1>3, <2>1, PartsExact
<1> QED
  BY <1>2, <1>3

-----------------------------------------------------------------------------
\* pwp_conn_piece, for any pending requests and any piece or fragment of one.
\* When the requests are not empty and share no byte, what
\* __conn_remove_pending_request leaves of them covers their bytes without those
\* that arrived, again in blocks that are not empty and share no byte: nothing
\* that arrived is asked for again, and nothing that did not is forgotten.
THEOREM PieceSettles ==
    ASSUME NEW reqs, DOMAIN reqs \subseteq BlockSet, NEW pb \in BlockSet, pb.len > 0,
           \A r \in DOMAIN reqs : r.len > 0,
           \A a, b \in DOMAIN reqs : a # b => Bytes(a) \intersect Bytes(b) = {}
    PROVE  LET left == DOMAIN __conn_remove_pending_request(reqs, pb)
           IN  /\ BytesOf(left) = BytesOf(DOMAIN reqs) \ Bytes(pb)
               /\ \A b \in left : b.len > 0
               /\ \A a, b \in left : a # b => Bytes(a) \intersect Bytes(b) = {}
<1> DEFINE left == DOMAIN __conn_remove_pending_request(reqs, pb)
<1>1. left = UNION {Remainder(pb, r) : r \in DOMAIN reqs}
  BY DEF __conn_remove_pending_request
<1> HIDE DEF left
<1>2. \A b : b \in left <=> \E r \in DOMAIN reqs : b \in Remainder(pb, r)
  BY <1>1
<1>3. \A r \in DOMAIN reqs : BytesOf(Remainder(pb, r)) = Bytes(r) \ Bytes(pb)
  BY PartsBytes
<1>4. \A r \in DOMAIN reqs : \A b : b \in Remainder(pb, r) => Bytes(b) \subseteq Bytes(r)
  BY <1>3 DEF BytesOf
<1>5. BytesOf(left) = BytesOf(DOMAIN reqs) \ Bytes(pb)
  <2>1. \A S, x : x \in BytesOf(S) <=> \E b \in S : x \in Bytes(b)
    BY DEF BytesOf
  <2>2. \A x : x \in BytesOf(left) <=> \E r \in DOMAIN reqs : x \in BytesOf(Remainder(pb, r))
    BY <1>2, <2>1
  <2>3. \A x : x \in BytesOf(left) <=> \E r \in DOMAIN reqs : x \in Bytes(r) /\ x \notin Bytes(pb)
    BY <1>3, <2>2
  <2> QED
    BY <2>1, <2>3
<1>6. \A b \in left : b.len > 0
  BY <1>2, PartsApart
<1>7. ASSUME NEW a \in left, NEW b \in left, a # b
      PROVE  Bytes(a) \intersect Bytes(b) = {}
  <2>1. PICK r \in DOMAIN reqs : a \in Remainder(pb, r)
    BY <1>2
  <2>2. PICK s \in DOMAIN reqs : b \in Remainder(pb, s)
    BY <1>2
  <2>3. CASE r = s
    BY <1>7, <2>1, <2>2, <2>3, PartsApart
  <2>4. CASE r # s
    <3>1. Bytes(a) \subseteq Bytes(r) /\ Bytes(b) \subseteq Bytes(s)
      BY <1>4, <2>1, <2>2
    <3>2. Bytes(r) \intersect Bytes(s) = {}
      BY <2>4
    <3> QED
      BY <3>1, <3>2
  <2> QED
    BY <2>3, <2>4
<1> QED
  BY <1>5, <1>6, <1>7 DEF left
-----------------------------------------------------------------------------
(* What holds of one end: a connection c whose caller is owed these bytes *)

IsConn(c) ==
    c = [flags |-> c.flags, recv_reqs |-> c.recv_reqs, peer_reqs |-> c.peer_reqs,
         reqs |-> c.reqs, peerhas |-> c.peerhas, completed |-> c.completed]

\* recv_reqs
Pending(f, owed) ==
    /\ f = [b \in DOMAIN f |-> f[b]] /\ DOMAIN f \subseteq BlockSet
    /\ BytesOf(DOMAIN f) = owed
    /\ \A a, b \in DOMAIN f : a # b => Bytes(a) \intersect Bytes(b) = {}
    /\ \A b \in DOMAIN f : b.len > 0 /\ f[b] \in 0 .. ReqTimeout

\* reqs: what the caller has offered is owed by nobody yet
Wanted(q, owed) ==
    /\ q \in Seq(Blocks)
    /\ \A i \in 1 .. Len(q) : Bytes(q[i]) \intersect owed = {}
    /\ \A i, j \in 1 .. Len(q) : i # j => Bytes(q[i]) \intersect Bytes(q[j]) = {}

\* peer_reqs
Queue(q, done) ==
    /\ q \in Seq(BlockSet)
    /\ \A i, j \in 1 .. Len(q) : q[i] = q[j] => i = j
    /\ \A i \in 1 .. Len(q) : q[i].piece \in done /\ 0 < q[i].len /\ End(q[i]) <= PieceLen

EndOk(c, owed) ==
    /\ IsConn(c)
    /\ Pending(c.recv_reqs, owed) /\ Wanted(c.reqs, owed) /\ Queue(c.peer_reqs, c.completed)
    /\ "PEER_CHOKING" \in c.flags => c.recv_reqs = NoReqs
    /\ "IM_CHOKING" \in c.flags => c.peer_reqs = <<>>

WireMessages ==
    [type : {"CHOKE", "UNCHOKE", "INTERESTED", "UNINTERESTED"}]
    \union [type : {"HAVE"}, piece : Pieces]
    \union [type : {"BITFIELD"}, pieces : SUBSET Pieces]
    \union [type : {"REQUEST", "CANCEL", "PIECE"}, blk : BlockSet]

ConnInv ==
    /\ subject = "connection"
    /\ obj = [up |-> obj.up, calls |-> obj.calls, conn |-> obj.conn, wire |-> obj.wire]
    /\ obj.conn = [p \in Peers |-> obj.conn[p]]
    /\ obj.wire \in [Peers -> Seq(WireMessages)]
    /\ abs = [p \in Peers |-> abs[p]]
    /\ \A p \in Peers : EndOk(obj.conn[p], abs[p])

ConnSpec == ConnInit /\ [][ConnNext]_subjectVars
\* A field of a connection is assigned.
LEMMA Assigned ==
    ASSUME NEW c, IsConn(c), NEW x
    PROVE  /\ [c EXCEPT !.flags = x] = [flags |-> x, recv_reqs |-> c.recv_reqs,
                 peer_reqs |-> c.peer_reqs, reqs |-> c.reqs, peerhas |-> c.peerhas, completed |-> c.completed]
           /\ [c EXCEPT !.recv_reqs = x] = [flags |-> c.flags, recv_reqs |-> x,
                 peer_reqs |-> c.peer_reqs, reqs |-> c.reqs, peerhas |-> c.peerhas, completed |-> c.completed]
           /\ [c EXCEPT !.peer_reqs = x] = [flags |-> c.flags, recv_reqs |-> c.recv_reqs,
                 peer_reqs |-> x, reqs |-> c.reqs, peerhas |-> c.peerhas, completed |-> c.completed]
           /\ [c EXCEPT !.reqs = x] = [flags |-> c.flags, recv_reqs |-> c.recv_reqs,
                 peer_reqs |-> c.peer_reqs, reqs |-> x, peerhas |-> c.peerhas, completed |-> c.completed]
           /\ [c EXCEPT !.peerhas = x] = [flags |-> c.flags, recv_reqs |-> c.recv_reqs,
                 peer_reqs |-> c.peer_reqs, reqs |-> c.reqs, peerhas |-> x, completed |-> c.completed]
<1> DEFINE d == [flags |-> c.flags, recv_reqs |-> c.recv_reqs, peer_reqs |-> c.peer_reqs,
                 reqs |-> c.reqs, peerhas |-> c.peerhas, completed |-> c.completed]
<1>1. c = d
  BY DEF IsConn
<1>2. /\ [d EXCEPT !.flags = x] = [flags |-> x, recv_reqs |-> c.recv_reqs,
            peer_reqs |-> c.peer_reqs, reqs |-> c.reqs, peerhas |-> c.peerhas, completed |-> c.completed]
      /\ [d EXCEPT !.recv_reqs = x] = [flags |-> c.flags, recv_reqs |-> x,
            peer_reqs |-> c.peer_reqs, reqs |-> c.reqs, peerhas |-> c.peerhas, completed |-> c.completed]
      /\ [d EXCEPT !.peer_reqs = x] = [flags |-> c.flags, recv_reqs |-> c.recv_reqs,
            peer_reqs |-> x, reqs |-> c.reqs, peerhas |-> c.peerhas, completed |-> c.completed]
      /\ [d EXCEPT !.reqs = x] = [flags |-> c.flags, recv_reqs |-> c.recv_reqs,
            peer_reqs |-> c.peer_reqs, reqs |-> x, peerhas |-> c.peerhas, completed |-> c.completed]
      /\ [d EXCEPT !.peerhas = x] = [flags |-> c.flags, recv_reqs |-> c.recv_reqs,
            peer_reqs |-> c.peer_reqs, reqs |-> c.reqs, peerhas |-> x, completed |-> c.completed]
  OBVIOUS
<1> QED
  BY <1>1, <1>2

\* A connection whose parts are in order.
LEMMA EndMade ==
    ASSUME NEW fl, NEW f, NEW q, NEW w, NEW h, NEW done, NEW owed,
           Pending(f, owed), Wanted(w, owed), Queue(q, done),
           "PEER_CHOKING" \in fl => f = NoReqs, "IM_CHOKING" \in fl => q = <<>>
    PROVE  EndOk([flags |-> fl, recv_reqs |-> f, peer_reqs |-> q, reqs |-> w,
                  peerhas |-> h, completed |-> done], owed)
  BY DEF EndOk, IsConn

\* A flag is set or cleared.
LEMMA FlagsMoved ==
    ASSUME NEW c, NEW owed, EndOk(c, owed), NEW fl,
           "PEER_CHOKING" \in fl => c.recv_reqs = NoReqs, "IM_CHOKING" \in fl => c.peer_reqs = <<>>
    PROVE  EndOk([c EXCEPT !.flags = fl], owed)
<1>1. [c EXCEPT !.flags = fl] = [flags |-> fl, recv_reqs |-> c.recv_reqs,
          peer_reqs |-> c.peer_reqs, reqs |-> c.reqs, peerhas |-> c.peerhas, completed |-> c.completed]
  BY Assigned, Zenon DEF EndOk
<1> QED
  BY <1>1, EndMade DEF EndOk

\* The pieces of the peer have no part in it.
LEMMA PeerHasMoved ==
    ASSUME NEW c, NEW owed, EndOk(c, owed), NEW h
    PROVE  EndOk([c EXCEPT !.peerhas = h], owed)
<1>1. [c EXCEPT !.peerhas = h] = [flags |-> c.flags, recv_reqs |-> c.recv_reqs,
          peer_reqs |-> c.peer_reqs, reqs |-> c.reqs, peerhas |-> h, completed |-> c.completed]
  BY Assigned, Zenon DEF EndOk
<1> QED
  BY <1>1, EndMade DEF EndOk

\* What is offered stays apart from fewer bytes.
LEMMA WantedLess ==
    ASSUME NEW q, NEW owed, Wanted(q, owed), NEW less, less \subseteq owed
    PROVE  Wanted(q, less)
  BY Zenon DEF Wanted

\* Requests are given back.
LEMMA PendingMoved ==
    ASSUME NEW c, NEW owed, EndOk(c, owed), NEW f, NEW less, less \subseteq owed,
           Pending(f, less), c.recv_reqs = NoReqs => f = NoReqs
    PROVE  EndOk([c EXCEPT !.recv_reqs = f], less)
<1>1. [c EXCEPT !.recv_reqs = f] = [flags |-> c.flags, recv_reqs |-> f,
          peer_reqs |-> c.peer_reqs, reqs |-> c.reqs, peerhas |-> c.peerhas, completed |-> c.completed]
  BY Assigned, Zenon DEF EndOk
<1>2. Wanted(c.reqs, less)
  BY WantedLess DEF EndOk
<1> QED
  BY <1>1, <1>2, EndMade DEF EndOk

\* The requests of the peer change.
LEMMA QueueMoved ==
    ASSUME NEW c, NEW owed, EndOk(c, owed), NEW q, Queue(q, c.completed),
           "IM_CHOKING" \in c.flags => q = <<>>
    PROVE  EndOk([c EXCEPT !.peer_reqs = q], owed)
<1>1. [c EXCEPT !.peer_reqs = q] = [flags |-> c.flags, recv_reqs |-> c.recv_reqs,
          peer_reqs |-> q, reqs |-> c.reqs, peerhas |-> c.peerhas, completed |-> c.completed]
  BY Assigned, Zenon DEF EndOk
<1> QED
  BY <1>1, EndMade DEF EndOk

\* Nothing is pending.
LEMMA NothingPending ==
    /\ Pending(NoReqs, {})
    /\ \A f : DOMAIN f = {} /\ f = [b \in DOMAIN f |-> f[b]] => f = NoReqs
    /\ DOMAIN NoReqs = {}
<1>1. DOMAIN NoReqs = {} /\ NoReqs = [b \in DOMAIN NoReqs |-> NoReqs[b]]
  BY DEF NoReqs
<1>2. BytesOf({}) = {}
  BY DEF BytesOf
<1>3. \A f : DOMAIN f = {} /\ f = [b \in DOMAIN f |-> f[b]] => f = NoReqs
  BY DEF NoReqs
<1> QED
  BY <1>1, <1>2, <1>3 DEF Pending

\* Requests are taken out together with their bytes, and the others age.
LEMMA GivenBack ==
    ASSUME NEW f, NEW owed, Pending(f, owed), NEW out, out \subseteq DOMAIN f,
           NEW g, g = [b \in DOMAIN f \ out |-> g[b]],
           \A b \in DOMAIN f \ out : g[b] \in 0 .. ReqTimeout
    PROVE  Pending(g, owed \ BytesOf(out))
<1>1. DOMAIN g = DOMAIN f \ out
  OBVIOUS
<1>2. \A S, x : x \in BytesOf(S) <=> \E b \in S : x \in Bytes(b)
  BY DEF BytesOf
<1>3. ASSUME NEW x, x \in BytesOf(DOMAIN g) PROVE x \in owed \ BytesOf(out)
  <2>1. PICK b \in DOMAIN f \ out : x \in Bytes(b)
    BY <1>1, <1>2, <1>3
  <2>2. x \in owed
    BY <1>2, <2>1 DEF Pending
  <2>3. \A a \in out : x \notin Bytes(a)
    BY <2>1 DEF Pending
  <2> QED
    BY <1>2, <2>2, <2>3
<1>4. ASSUME NEW x, x \in owed \ BytesOf(out) PROVE x \in BytesOf(DOMAIN g)
  <2>1. PICK b \in DOMAIN f : x \in Bytes(b)
    BY <1>2, <1>4 DEF Pending
  <2>2. b \notin out
    BY <1>2, <1>4, <2>1
  <2> QED
    BY <1>1, <1>2, <2>1, <2>2
<1>5. BytesOf(DOMAIN g) = owed \ BytesOf(out)
  BY <1>3, <1>4
<1>6. g = [b \in DOMAIN g |-> g[b]]
  BY <1>1
<1> QED
  BY <1>1, <1>5, <1>6 DEF Pending
-----------------------------------------------------------------------------
(* What the calls and the messages do to one end *)

\* All requests are given back: we are choked, or the peer is gone.
LEMMA AllGivenBack ==
    ASSUME NEW c, NEW owed, EndOk(c, owed)
    PROVE  EndOk(__expunge_my_pending_reqs(c), owed \ BytesOf(DOMAIN c.recv_reqs))
<1>1. owed \ BytesOf(DOMAIN c.recv_reqs) = {}
  BY DEF EndOk, Pending
<1> QED
  BY <1>1, NothingPending, PendingMoved DEF __expunge_my_pending_reqs

\* The part of a sequence behind its head, and a sequence without one element.
LEMMA Shorter ==
    ASSUME NEW S, NEW q \in Seq(S), q # <<>>
    PROVE  /\ Head(q) \in S /\ Head(q) = q[1] /\ 1 \in 1 .. Len(q)
           /\ Tail(q) \in Seq(S) /\ Len(Tail(q)) = Len(q) - 1 /\ Len(q) \in Nat
           /\ \A i \in 1 .. Len(Tail(q)) : Tail(q)[i] = q[i + 1] /\ i + 1 \in 1 .. Len(q)
  OBVIOUS

LEMMA Behind ==
    ASSUME NEW S, NEW a \in Seq(S), NEW b \in Seq(S)
    PROVE  /\ a \o b \in Seq(S) /\ Len(a \o b) = Len(a) + Len(b)
           /\ \A i \in 1 .. Len(a) : (a \o b)[i] = a[i]
           /\ \A i \in 1 .. Len(b) : (a \o b)[Len(a) + i] = b[i]
  OBVIOUS

LEMMA Without ==
    ASSUME NEW S, NEW q \in Seq(S), NEW k \in 1 .. Len(q)
    PROVE  /\ RemoveAt(q, k) \in Seq(S) /\ Len(RemoveAt(q, k)) = Len(q) - 1 /\ Len(q) \in Nat
           /\ \A i \in 1 .. Len(q) - 1 : /\ RemoveAt(q, k)[i] = q[IF i < k THEN i ELSE i + 1]
                                         /\ (IF i < k THEN i ELSE i + 1) \in 1 .. Len(q)
<1> DEFINE a == SubSeq(q, 1, k - 1)
           b == SubSeq(q, k + 1, Len(q))
<1>1. Len(q) \in Nat /\ k \in Nat
  OBVIOUS
<1>2. a \in Seq(S) /\ Len(a) = k - 1 /\ \A i \in 1 .. k - 1 : a[i] = q[i]
  BY <1>1
<1>3. b \in Seq(S) /\ Len(b) = Len(q) - k /\ \A i \in 1 .. Len(q) - k : b[i] = q[k + i]
  BY <1>1
<1>4. RemoveAt(q, k) = a \o b
  BY DEF RemoveAt
<1> HIDE DEF a, b
<1>5. a \o b \in Seq(S) /\ Len(a \o b) = Len(q) - 1
  <2>1. a \o b \in Seq(S) /\ Len(a \o b) = Len(a) + Len(b)
    BY <1>2, <1>3, Behind, Zenon
  <2>2. (k - 1) + (Len(q) - k) = Len(q) - 1
    BY <1>1
  <2> QED
    BY <1>2, <1>3, <2>1, <2>2
<1>6. ASSUME NEW i \in 1 .. Len(q) - 1
      PROVE  /\ (a \o b)[i] = q[IF i < k THEN i ELSE i + 1]
             /\ (IF i < k THEN i ELSE i + 1) \in 1 .. Len(q)
  <2>1. CASE i < k
    <3>1. i \in 1 .. Len(a) /\ i \in 1 .. k - 1
      BY <1>1, <1>2, <2>1
    <3>2. (a \o b)[i] = a[i]
      BY <1>2, <1>3, <3>1, Behind
    <3> QED
      BY <1>1, <1>2, <2>1, <3>1, <3>2
  <2>2. CASE ~(i < k)
    <3> DEFINE j == i - (k - 1)
    <3>1. j \in 1 .. Len(q) - k /\ (k - 1) + j = i /\ k + j = i + 1
      BY <1>1, <2>2
    <3> HIDE DEF j
    <3>2. (a \o b)[(k - 1) + j] = b[j]
      BY <1>1, <1>2, <1>3, <3>1, Behind
    <3>3. b[j] = q[k + j]
      BY <1>3, <3>1
    <3>4. (a \o b)[i] = q[i + 1]
      BY <3>1, <3>2, <3>3, Zenon
    <3>5. i + 1 \in 1 .. Len(q)
      BY <1>1
    <3> QED
      BY <2>2, <3>4, <3>5
  <2> QED
    BY <2>1, <2>2, Zenon
<1> QED
  BY <1>1, <1>4, <1>5, <1>6

\* A request of the peer is served, or taken back.
LEMMA QueueShrinks ==
    ASSUME NEW q, NEW done, Queue(q, done)
    PROVE  /\ q # <<>> => Queue(Tail(q), done) /\ Head(q) \in BlockSet
           /\ \A b : Queue(llqueue_remove_item_via_cmpfunction(q, b), done)
           /\ \A b : llqueue_remove_item_via_cmpfunction(<<>>, b) = <<>>
<1>1. q # <<>> => Queue(Tail(q), done) /\ Head(q) \in BlockSet
  BY Shorter DEF Queue
<1>2. ASSUME NEW b PROVE Queue(llqueue_remove_item_via_cmpfunction(q, b), done)
  <2> DEFINE k == CHOOSE i \in DOMAIN q : q[i] = b
  <2>1. CASE Contains(q, b)
    <3>1. DOMAIN q = 1 .. Len(q) /\ q \in Seq(BlockSet)
      BY DEF Queue
    <3>2. k \in 1 .. Len(q)
      BY <2>1, <3>1 DEF Contains
    <3> HIDE DEF k
    <3> DEFINE r == RemoveAt(q, k)
    <3>3. /\ r \in Seq(BlockSet) /\ Len(r) = Len(q) - 1 /\ Len(q) \in Nat
          /\ \A i \in 1 .. Len(q) - 1 : /\ r[i] = q[IF i < k THEN i ELSE i + 1]
                                        /\ (IF i < k THEN i ELSE i + 1) \in 1 .. Len(q)
      BY <3>1, <3>2, Without, Zenon
    <3> HIDE DEF r
    <3>4. \A i, j \in 1 .. Len(r) : r[i] = r[j] => i = j
      <4> SUFFICES ASSUME NEW i \in 1 .. Len(r), NEW j \in 1 .. Len(r), r[i] = r[j] PROVE i = j
        OBVIOUS
      <4>1. (IF i < k THEN i ELSE i + 1) = (IF j < k THEN j ELSE j + 1)
        BY <3>3 DEF Queue
      <4> QED
        BY <3>2, <3>3, <4>1
    <3>5. Queue(r, done)
      BY <3>3, <3>4 DEF Queue
    <3> QED
      BY <2>1, <3>5 DEF llqueue_remove_item_via_cmpfunction, r, k
  <2>2. CASE ~Contains(q, b)
    BY <2>2 DEF llqueue_remove_item_via_cmpfunction
  <2> QED
    BY <2>1, <2>2
<1>3. \A b : llqueue_remove_item_via_cmpfunction(<<>>, b) = <<>>
  BY DEF llqueue_remove_item_via_cmpfunction, Contains
<1> QED
  BY <1>1, <1>2, <1>3

\* A request of the peer is queued.
LEMMA QueueGrows ==
    ASSUME NEW q, NEW done, Queue(q, done), NEW r \in BlockSet, ~Contains(q, r),
           r.piece \in done, r.len # 0, End(r) <= PieceLen
    PROVE  Queue(Append(q, r), done)
<1> DEFINE n == Append(q, r)
<1>1. q \in Seq(BlockSet) /\ Len(q) \in Nat
  BY DEF Queue
<1>2. /\ n \in Seq(BlockSet) /\ Len(n) = Len(q) + 1 /\ n[Len(q) + 1] = r
      /\ \A i \in 1 .. Len(q) : n[i] = q[i]
  BY <1>1
<1> HIDE DEF n
<1>3. \A i \in 1 .. Len(q) : q[i] # r
  BY DEF Contains
<1>4. 0 < r.len
  BY DEF BlockSet
<1>5. \A i \in 1 .. Len(n) : i \in 1 .. Len(q) \/ i = Len(q) + 1
  BY <1>1, <1>2
<1>6. \A i, j \in 1 .. Len(n) : n[i] = n[j] => i = j
  BY <1>2, <1>3, <1>5 DEF Queue
<1>7. \A i \in 1 .. Len(n) : n[i].piece \in done /\ 0 < n[i].len /\ End(n[i]) <= PieceLen
  BY <1>2, <1>4, <1>5 DEF Queue
<1> QED
  BY <1>2, <1>6, <1>7 DEF Queue, n

\* The first half of periodic: old requests are given back, one request of the
\* peer is served.
LEMMA TickedOk ==
    ASSUME NEW c, NEW owed, EndOk(c, owed)
    PROVE  /\ EndOk(Ticked(c), owed \ BytesOf(OldReqs(c)))
           /\ Served(c) \in Seq(WireMessages)
<1> DEFINE f == c.recv_reqs
           g == [b \in DOMAIN f \ OldReqs(c) |-> f[b] + 1]
           aged == __expunge_my_old_pending_reqs(c)
           less == owed \ BytesOf(OldReqs(c))
           q == IF c.peer_reqs = <<>> THEN c.peer_reqs ELSE Tail(c.peer_reqs)
           choked == pwp_conn_flag_is_set(c, "PEER_INTERESTED") /\ pwp_conn_flag_is_set(c, "IM_CHOKING")
           fl == IF choked THEN c.flags \ {"PEER_CHOKING"} ELSE c.flags
<1>1. Pending(g, less)
  <2>1. OldReqs(c) \subseteq DOMAIN f
    BY DEF OldReqs
  <2>2. \A b \in DOMAIN f \ OldReqs(c) : g[b] \in 0 .. ReqTimeout
    BY BlocksAssumption DEF OldReqs, EndOk, Pending
  <2>3. g = [b \in DOMAIN f \ OldReqs(c) |-> g[b]]
    OBVIOUS
  <2>4. Pending(f, owed)
    BY DEF EndOk
  <2> HIDE DEF g, f
  <2> QED
    BY <2>1, <2>2, <2>3, <2>4, GivenBack
<1>2. f = NoReqs => g = NoReqs
  <2>1. f = NoReqs => DOMAIN g = {} /\ g = [b \in DOMAIN g |-> g[b]]
    BY NothingPending
  <2> HIDE DEF g
  <2> QED
    BY <2>1, NothingPending
<1>3. aged = [c EXCEPT !.recv_reqs = g]
  BY DEF __expunge_my_old_pending_reqs
<1> HIDE DEF g
<1>4. aged = [flags |-> c.flags, recv_reqs |-> g,
          peer_reqs |-> c.peer_reqs, reqs |-> c.reqs, peerhas |-> c.peerhas, completed |-> c.completed]
  BY <1>3, Assigned, Zenon DEF EndOk
<1>5. Ticked(c) = [aged EXCEPT !.peer_reqs = q, !.flags = fl]
  <2>1. aged.peer_reqs = c.peer_reqs /\ aged.flags = c.flags
    BY <1>4
  <2> HIDE DEF aged
  <2>2. Ticked(c) = [aged EXCEPT !.peer_reqs = IF @ = <<>> THEN @ ELSE Tail(@),
                                 !.flags = IF choked THEN @ \ {"PEER_CHOKING"} ELSE @]
    BY DEF Ticked, aged
  <2> QED
    BY <2>1, <2>2
<1> HIDE DEF aged, q, fl
<1>6. Ticked(c) = [flags |-> fl, recv_reqs |-> g,
          peer_reqs |-> q, reqs |-> c.reqs, peerhas |-> c.peerhas, completed |-> c.completed]
  BY <1>4, <1>5, Zenon
<1>7. /\ Queue(q, c.completed) /\ ("IM_CHOKING" \in fl => q = <<>>)
      /\ "PEER_CHOKING" \in fl => g = NoReqs
  BY <1>2, QueueShrinks DEF EndOk, q, fl
<1>8. Wanted(c.reqs, less)
  BY WantedLess DEF EndOk
<1>9. Served(c) \in Seq(WireMessages)
  <2>1. CASE c.peer_reqs = <<>>
    BY <2>1 DEF Served
  <2>2. CASE c.peer_reqs # <<>>
    <3>1. Head(c.peer_reqs) \in BlockSet
      BY <2>2, QueueShrinks, Zenon DEF EndOk
    <3>2. [type |-> "PIECE", blk |-> Head(c.peer_reqs)] \in WireMessages
      BY <3>1 DEF WireMessages
    <3> QED
      BY <2>2, <3>2 DEF Served, Piece
  <2> QED
    BY <2>1, <2>2
<1> HIDE DEF less
<1> QED
  BY <1>1, <1>6, <1>7, <1>8, <1>9, EndMade DEF less
\* The request that is sent lies in the block that was asked for.
LEMMA Fits ==
    ASSUME NEW b \in Blocks
    PROVE  /\ __req_fit(b) \in BlockSet /\ __req_fit(b).len > 0
           /\ Bytes(__req_fit(b)) \subseteq Bytes(b) /\ b \in BlockSet
<1> DEFINE r == __req_fit(b)
<1>1. b \in BlockSet /\ 0 < b.len /\ b.off <= PieceLen /\ PieceLen \in Nat
  BY BlocksAssumption
<1>2. b.piece \in Nat /\ b.off \in Nat /\ b.len \in Nat
  BY <1>1 DEF BlockSet
<1>3. r \in BlockSet /\ r.len \in Nat /\ r.len > 0 /\ r.len <= b.len /\ r.off = b.off /\ r.piece = b.piece
  <2>1. CASE PieceLen < End(b)
    <3> DEFINE n == End(b) - PieceLen
    <3>1. n \in Nat /\ n > 0 /\ n <= b.len
      BY <1>1, <1>2, <2>1 DEF End
    <3>2. r = [b EXCEPT !.len = n]
      BY <2>1 DEF __req_fit
    <3> HIDE DEF n
    <3> QED
      BY <1>1, <3>1, <3>2 DEF BlockSet
  <2>2. CASE ~(PieceLen < End(b))
    BY <1>1, <1>2, <2>2 DEF __req_fit
  <2> QED
    BY <2>1, <2>2
<1> HIDE DEF r
<1>4. Bytes(r) \subseteq Bytes(b)
  <2> SUFFICES ASSUME NEW x \in Bytes(r) PROVE x \in Bytes(b)
    OBVIOUS
  <2>1. PICK p \in Nat, i \in Int : x = <<p, i>>
    BY <1>3, BytesArePairs
  <2>2. p = r.piece /\ r.off <= i /\ i < r.off + r.len
    BY <1>3, <2>1, BytesIn
  <2>3. p = b.piece /\ b.off <= i /\ i < b.off + b.len
    BY <1>2, <1>3, <2>1, <2>2
  <2> QED
    BY <1>1, <2>1, <2>3, BytesIn
<1> QED
  BY <1>1, <1>3, <1>4 DEF r

\* The caller offers blocks.
LEMMA Offered ==
    ASSUME NEW c, NEW owed, EndOk(c, owed), NEW bs \in Seq(Blocks), MayOffer(owed, c, bs)
    PROVE  EndOk([c EXCEPT !.reqs = c.reqs \o bs], owed)
<1> DEFINE q == c.reqs
           w == q \o bs
<1>1. q \in Seq(Blocks) /\ Len(q) \in Nat /\ Len(bs) \in Nat /\ DOMAIN bs = 1 .. Len(bs)
      /\ DOMAIN q = 1 .. Len(q)
  BY DEF EndOk, Wanted
<1>2. \A i \in 1 .. Len(bs) :
        /\ Bytes(bs[i]) \intersect owed = {}
        /\ \A j \in 1 .. Len(q) : Bytes(bs[i]) \intersect Bytes(q[j]) = {}
        /\ \A j \in 1 .. i - 1 : Bytes(bs[i]) \intersect Bytes(bs[j]) = {}
  BY <1>1 DEF MayOffer, BytesOf, Range
<1>3. \A i, j \in 1 .. Len(bs) : i # j => Bytes(bs[i]) \intersect Bytes(bs[j]) = {}
  <2> SUFFICES ASSUME NEW i \in 1 .. Len(bs), NEW j \in 1 .. Len(bs), i # j
               PROVE  Bytes(bs[i]) \intersect Bytes(bs[j]) = {}
    BY Zenon
  <2>1. j \in 1 .. i - 1 \/ i \in 1 .. j - 1
    BY <1>1
  <2> QED
    BY <1>2, <2>1, Zenon
<1> HIDE DEF q
<1>4. /\ w \in Seq(Blocks) /\ Len(w) = Len(q) + Len(bs)
      /\ \A i \in 1 .. Len(q) : w[i] = q[i]
      /\ \A i \in 1 .. Len(bs) : w[Len(q) + i] = bs[i]
  BY <1>1, Behind
<1> HIDE DEF w
<1>5. \A i \in 1 .. Len(w) : i \in 1 .. Len(q) \/ (i - Len(q) \in 1 .. Len(bs) /\ Len(q) + (i - Len(q)) = i)
  BY <1>1, <1>4
<1>6. \A i \in 1 .. Len(w) : Bytes(w[i]) \intersect owed = {}
  <2> TAKE i \in 1 .. Len(w)
  <2>1. CASE i \in 1 .. Len(q)
    BY <1>4, <2>1 DEF EndOk, Wanted, q
  <2>2. CASE i - Len(q) \in 1 .. Len(bs) /\ Len(q) + (i - Len(q)) = i
    <3>1. w[i] = bs[i - Len(q)]
      BY <1>4, <2>2
    <3> QED
      BY <1>2, <2>2, <3>1
  <2> QED
    BY <1>5, <2>1, <2>2
<1>7. \A i, j \in 1 .. Len(w) : i # j => Bytes(w[i]) \intersect Bytes(w[j]) = {}
  <2>0. \A i \in 1 .. Len(w) : \/ i \in 1 .. Len(q) /\ w[i] = q[i]
                               \/ \E k \in 1 .. Len(bs) : i = Len(q) + k /\ w[i] = bs[k]
    BY <1>4, <1>5, Zenon
  <2> SUFFICES ASSUME NEW i \in 1 .. Len(w), NEW j \in 1 .. Len(w), i # j
               PROVE  Bytes(w[i]) \intersect Bytes(w[j]) = {}
    BY Zenon
  <2>1. CASE i \in 1 .. Len(q) /\ w[i] = q[i] /\ j \in 1 .. Len(q) /\ w[j] = q[j]
    BY <2>1, Zenon DEF EndOk, Wanted, q
  <2>2. ASSUME NEW k \in 1 .. Len(bs), w[i] = bs[k], j \in 1 .. Len(q), w[j] = q[j]
        PROVE  Bytes(w[i]) \intersect Bytes(w[j]) = {}
    BY <1>2, <2>2, Zenon
  <2>3. ASSUME NEW k \in 1 .. Len(bs), w[j] = bs[k], i \in 1 .. Len(q), w[i] = q[i]
        PROVE  Bytes(w[i]) \intersect Bytes(w[j]) = {}
    BY <1>2, <2>3, Zenon
  <2>4. ASSUME NEW k \in 1 .. Len(bs), NEW l \in 1 .. Len(bs), w[i] = bs[k], w[j] = bs[l],
               i = Len(q) + k, j = Len(q) + l
        PROVE  Bytes(w[i]) \intersect Bytes(w[j]) = {}
    BY <1>3, <2>4, Zenon
  <2> QED
    BY <2>0, <2>1, <2>2, <2>3, <2>4, Zenon
<1>8. Wanted(w, owed)
  BY <1>4, <1>6, <1>7 DEF Wanted
<1>9. [c EXCEPT !.reqs = w] = [flags |-> c.flags, recv_reqs |-> c.recv_reqs,
          peer_reqs |-> c.peer_reqs, reqs |-> w, peerhas |-> c.peerhas, completed |-> c.completed]
  BY Assigned, Zenon DEF EndOk
<1>10. /\ Pending(c.recv_reqs, owed) /\ Queue(c.peer_reqs, c.completed)
       /\ "PEER_CHOKING" \in c.flags => c.recv_reqs = NoReqs
       /\ "IM_CHOKING" \in c.flags => c.peer_reqs = <<>>
  BY DEF EndOk
<1>11. EndOk([c EXCEPT !.reqs = w], owed)
  BY <1>8, <1>9, <1>10, EndMade
<1> QED
  BY <1>11 DEF w, q

\* The first of the offered blocks is asked for.
LEMMA Processed ==
    ASSUME NEW c, NEW owed, EndOk(c, owed), c.reqs # <<>>, "PEER_CHOKING" \notin c.flags
    PROVE  /\ EndOk(__process_requests(c), owed \union Bytes(__req_fit(Head(c.reqs))))
           /\ Request(__req_fit(Head(c.reqs))) \in Seq(WireMessages)
<1> DEFINE q == c.reqs
           f == c.recv_reqs
           b == __req_fit(Head(q))
           g == [k \in DOMAIN f \union {b} |-> IF k = b THEN 0 ELSE f[k]]
           more == owed \union Bytes(b)
<1>1. /\ Head(q) \in Blocks /\ Head(q) = q[1] /\ 1 \in 1 .. Len(q)
      /\ Tail(q) \in Seq(Blocks) /\ Len(Tail(q)) = Len(q) - 1 /\ Len(q) \in Nat
      /\ \A i \in 1 .. Len(Tail(q)) : Tail(q)[i] = q[i + 1] /\ i + 1 \in 1 .. Len(q)
  BY Shorter DEF EndOk, Wanted
<1>2. b \in BlockSet /\ b.len > 0 /\ Bytes(b) \subseteq Bytes(Head(q))
  BY <1>1, Fits
<1>3. Pending(f, owed) /\ Wanted(q, owed)
  BY DEF EndOk
<1>4. __process_requests(c) = [c EXCEPT !.reqs = Tail(q), !.recv_reqs = g]
  BY DEF __process_requests
<1> HIDE DEF q, f, b
<1>5. Bytes(b) \intersect owed = {}
  BY <1>1, <1>2, <1>3 DEF Wanted
<1>6. Pending(g, more)
  <2>1. DOMAIN g = DOMAIN f \union {b} /\ g = [k \in DOMAIN g |-> g[k]]
    OBVIOUS
  <2>2. \A k \in DOMAIN g : g[k] \in 0 .. ReqTimeout
    BY <1>3, BlocksAssumption DEF Pending
  <2> HIDE DEF g
  <2>3. \A S, x : x \in BytesOf(S) <=> \E k \in S : x \in Bytes(k)
    BY DEF BytesOf
  <2>4. BytesOf(DOMAIN g) = more
    BY <1>3, <2>1, <2>3 DEF Pending
  <2>5. \A k \in DOMAIN f : Bytes(k) \subseteq owed
    BY <1>3, <2>3 DEF Pending
  <2>6. \A k, l \in DOMAIN g : k # l => Bytes(k) \intersect Bytes(l) = {}
    <3> SUFFICES ASSUME NEW k \in DOMAIN g, NEW l \in DOMAIN g, k # l
                 PROVE  Bytes(k) \intersect Bytes(l) = {}
      OBVIOUS
    <3>1. CASE k \in DOMAIN f /\ l \in DOMAIN f
      BY <1>3, <3>1 DEF Pending
    <3>2. CASE k = b /\ l \in DOMAIN f
      BY <1>5, <2>5, <3>2
    <3>3. CASE l = b /\ k \in DOMAIN f
      BY <1>5, <2>5, <3>3
    <3> QED
      BY <2>1, <3>1, <3>2, <3>3
  <2>7. \A k \in DOMAIN g : k \in BlockSet /\ k.len > 0
    BY <1>2, <1>3, <2>1 DEF Pending
  <2> QED
    BY <2>1, <2>2, <2>4, <2>6, <2>7, Zenon DEF Pending
<1>7. Wanted(Tail(q), more)
  <2> DEFINE t == Tail(q)
  <2>1. \A i \in 1 .. Len(t) : t[i] = q[i + 1] /\ i + 1 \in 1 .. Len(q) /\ i + 1 # 1
    BY <1>1
  <2>2. t \in Seq(Blocks) /\ Len(t) \in Nat
    BY <1>1
  <2> HIDE DEF t
  <2>3. \A i \in 1 .. Len(t) : Bytes(t[i]) \intersect more = {}
    BY <1>1, <1>2, <1>3, <2>1 DEF Wanted
  <2>4. ASSUME NEW i \in 1 .. Len(t), NEW j \in 1 .. Len(t), i # j
        PROVE  Bytes(t[i]) \intersect Bytes(t[j]) = {}
    <3>1. i + 1 # j + 1
      BY <2>2, <2>4
    <3>2. t[i] = q[i + 1] /\ t[j] = q[j + 1] /\ i + 1 \in 1 .. Len(q) /\ j + 1 \in 1 .. Len(q)
      BY <2>1
    <3>3. Bytes(q[i + 1]) \intersect Bytes(q[j + 1]) = {}
      BY <1>3, <3>1, <3>2, Zenon DEF Wanted
    <3> QED
      BY <3>2, <3>3
  <2> QED
    BY <2>2, <2>3, <2>4, Zenon DEF Wanted, t
<1> DEFINE new == [flags |-> c.flags, recv_reqs |-> g, peer_reqs |-> c.peer_reqs,
                   reqs |-> Tail(q), peerhas |-> c.peerhas, completed |-> c.completed]
<1>8. __process_requests(c) = new
  <2> DEFINE d == [flags |-> c.flags, recv_reqs |-> c.recv_reqs, peer_reqs |-> c.peer_reqs,
                   reqs |-> Tail(q), peerhas |-> c.peerhas, completed |-> c.completed]
  <2>1. [c EXCEPT !.reqs = Tail(q)] = d
    BY Assigned, Zenon DEF EndOk
  <2> HIDE DEF g
  <2>2. [c EXCEPT !.reqs = Tail(q), !.recv_reqs = g] = [[c EXCEPT !.reqs = Tail(q)] EXCEPT !.recv_reqs = g]
    BY DEF EndOk, IsConn
  <2> QED
    BY <1>4, <2>1, <2>2, Zenon
<1>9. EndOk(new, more)
  <2> HIDE DEF g, more
  <2>1. Queue(c.peer_reqs, c.completed) /\ ("IM_CHOKING" \in c.flags => c.peer_reqs = <<>>)
    BY DEF EndOk
  <2>2. "PEER_CHOKING" \in c.flags => g = NoReqs
    OBVIOUS
  <2> QED
    BY <1>6, <1>7, <2>1, <2>2, EndMade, Zenon
<1>10. Request(b) \in Seq(WireMessages)
  <2>1. [type |-> "REQUEST", blk |-> b] \in WireMessages
    BY <1>2 DEF WireMessages
  <2> QED
    BY <2>1 DEF Request
<1> QED
  BY <1>8, <1>9, <1>10 DEF b, q

\* A piece, or a fragment of one, arrives.
LEMMA Arrived ==
    ASSUME NEW c, NEW owed, EndOk(c, owed), NEW pb \in BlockSet, pb.len > 0
    PROVE  EndOk([c EXCEPT !.recv_reqs = __conn_remove_pending_request(c.recv_reqs, pb)],
                 owed \ Bytes(pb))
<1> DEFINE f == c.recv_reqs
           g == __conn_remove_pending_request(f, pb)
           left == DOMAIN g
<1>1. Pending(f, owed)
  BY DEF EndOk
<1> HIDE DEF f
<1>2. /\ BytesOf(left) = BytesOf(DOMAIN f) \ Bytes(pb)
      /\ \A b \in left : b.len > 0
      /\ \A a, b \in left : a # b => Bytes(a) \intersect Bytes(b) = {}
  BY <1>1, PieceSettles DEF Pending
<1>3. left = UNION {Remainder(pb, r) : r \in DOMAIN f} /\ g = [b \in left |-> g[b]]
  BY DEF __conn_remove_pending_request
<1>4. left \subseteq BlockSet
  BY <1>1, <1>3, PartsAreBlocks DEF Pending
<1>5. \A b \in left : g[b] \in 0 .. ReqTimeout
  <2> TAKE b \in left
  <2>1. g[b] = f[CHOOSE r \in DOMAIN f : b \in Remainder(pb, r)]
    BY <1>3 DEF __conn_remove_pending_request
  <2>2. \E r \in DOMAIN f : b \in Remainder(pb, r)
    BY <1>3
  <2> QED
    BY <1>1, <2>1, <2>2 DEF Pending
<1>6. f = NoReqs => g = NoReqs
  <2>1. f = NoReqs => left = {}
    BY <1>3, NothingPending
  <2> QED
    BY <1>3, <2>1, NothingPending, Zenon
<1> HIDE DEF g
<1>7. Pending(g, owed \ Bytes(pb))
  BY <1>1, <1>2, <1>3, <1>4, <1>5 DEF Pending
<1> QED
  BY <1>6, <1>7, PendingMoved DEF f, g
-----------------------------------------------------------------------------
(* The steps of the connection *)

LEMMA TwoEnds ==
    ASSUME NEW p \in Peers
    PROVE  Other(p) \in Peers /\ Other(p) # p
  BY PeersAssumption DEF Other

LEMMA SilentWires == Silent \in [Peers -> Seq(WireMessages)]
  BY DEF Silent

\* A call of the caller of p.
LEMMA CallStep ==
    ASSUME ConnInv, NEW p \in Peers, NEW calls, NEW c, NEW out \in Seq(WireMessages), NEW sent,
           NEW owed, LeavesAfter(calls, p, c, out, sent, owed), EndOk(c, owed)
    PROVE  ConnInv'
<1> DEFINE conn == [obj.conn EXCEPT ![p] = c]
           wire == IF sent THEN [obj.wire EXCEPT ![p] = obj.wire[p] \o out] ELSE Silent
<1>1. /\ obj' = [up |-> sent, calls |-> calls, conn |-> conn, wire |-> wire]
      /\ abs' = [abs EXCEPT ![p] = owed] /\ subject' = subject
  BY DEF LeavesAfter
<1>2. wire \in [Peers -> Seq(WireMessages)]
  <2>1. obj.wire[p] \o out \in Seq(WireMessages) /\ obj.wire \in [Peers -> Seq(WireMessages)]
    BY Behind DEF ConnInv
  <2> QED
    BY <2>1, SilentWires
<1> HIDE DEF wire
<1>3. obj'.conn = conn /\ obj'.wire = wire /\ obj'.up = sent /\ obj'.calls = calls
  BY <1>1
<1>4. conn = [q \in Peers |-> conn[q]] /\ \A q \in Peers : conn[q] = IF q = p THEN c ELSE obj.conn[q]
  BY Zenon DEF ConnInv
<1>5. abs' = [q \in Peers |-> abs'[q]] /\ \A q \in Peers : abs'[q] = IF q = p THEN owed ELSE abs[q]
  BY <1>1 DEF ConnInv
<1> HIDE DEF conn
<1>6. \A q \in Peers : EndOk(conn[q], abs'[q])
  BY <1>4, <1>5, Zenon DEF ConnInv
<1> QED
  BY <1>1, <1>2, <1>3, <1>4, <1>5, <1>6 DEF ConnInv

\* A message handled by p.
LEMMA HandledStep ==
    ASSUME ConnInv, NEW p \in Peers, NEW c, NEW out \in Seq(WireMessages), NEW drop,
           NEW rest \in Seq(WireMessages), NEW owed, obj.wire[Other(p)] # <<>>,
           Handled(p, c, out, drop, rest, owed), EndOk(c, owed)
    PROVE  ConnInv'
<1> DEFINE q == Other(p)
           conn == [obj.conn EXCEPT ![p] = c]
           wire == IF drop THEN Silent
                   ELSE [obj.wire EXCEPT ![q] = rest \o Tail(obj.wire[q]), ![p] = obj.wire[p] \o out]
<1>0. q \in Peers /\ q # p
  BY TwoEnds
<1>1. /\ obj' = [up |-> ~drop, calls |-> obj.calls, conn |-> conn, wire |-> wire]
      /\ abs' = [abs EXCEPT ![p] = owed] /\ subject' = subject
  <2>1. obj' = [up |-> ~drop, calls |-> obj.calls, conn |-> [obj.conn EXCEPT ![p] = c],
                wire |-> IF drop THEN Silent
                         ELSE [obj.wire EXCEPT ![q] = rest \o Tail(@), ![p] = @ \o out]]
    BY DEF Handled
  <2>2. [obj.wire EXCEPT ![q] = rest \o Tail(@), ![p] = @ \o out]
          = [obj.wire EXCEPT ![q] = rest \o Tail(obj.wire[q]), ![p] = obj.wire[p] \o out]
    <3> HIDE DEF q
    <3> QED
      BY <1>0 DEF ConnInv
  <2> QED
    BY <2>1, <2>2 DEF Handled
<1>2. wire \in [Peers -> Seq(WireMessages)]
  <2>1. obj.wire[p] \o out \in Seq(WireMessages) /\ obj.wire \in [Peers -> Seq(WireMessages)]
    BY Behind DEF ConnInv
  <2>2. Tail(obj.wire[q]) \in Seq(WireMessages)
    BY <1>0, <2>1, Shorter
  <2>3. rest \o Tail(obj.wire[q]) \in Seq(WireMessages)
    BY <2>2, Behind
  <2> HIDE DEF q
  <2> QED
    BY <2>1, <2>3, SilentWires, Zenon
<1> HIDE DEF wire, q
<1>3. obj'.conn = conn /\ obj'.wire = wire /\ obj'.up = (~drop) /\ obj'.calls = obj.calls
  BY <1>1
<1>4. conn = [r \in Peers |-> conn[r]] /\ \A r \in Peers : conn[r] = IF r = p THEN c ELSE obj.conn[r]
  BY Zenon DEF ConnInv
<1>5. abs' = [r \in Peers |-> abs'[r]] /\ \A r \in Peers : abs'[r] = IF r = p THEN owed ELSE abs[r]
  BY <1>1, Zenon DEF ConnInv
<1> HIDE DEF conn
<1>6. \A r \in Peers : EndOk(conn[r], abs'[r])
  BY <1>4, <1>5, Zenon DEF ConnInv
<1> QED
  BY <1>1, <1>2, <1>3, <1>4, <1>5, <1>6 DEF ConnInv

\* The messages that carry no block.
LEMMA Short ==
    /\ Msg("CHOKE") \in Seq(WireMessages) /\ Msg("UNCHOKE") \in Seq(WireMessages)
    /\ Msg("INTERESTED") \in Seq(WireMessages) /\ Msg("UNINTERESTED") \in Seq(WireMessages)
    /\ <<>> \in Seq(WireMessages)
<1>1. \A t \in {"CHOKE", "UNCHOKE", "INTERESTED", "UNINTERESTED"} : [type |-> t] \in WireMessages
  BY DEF WireMessages
<1> QED
  BY <1>1 DEF Msg

\* Our interest has no part in it.
LEMMA Interest ==
    ASSUME NEW c, NEW owed, EndOk(c, owed), NEW sent, NEW f,
           f \notin {"PEER_CHOKING", "IM_CHOKING"}
    PROVE  /\ EndOk(WithFlag(c, f), owed) /\ EndOk(pwp_conn_set_im_interested(c, sent), owed)
<1>1. \A g : g \notin {"PEER_CHOKING", "IM_CHOKING"} => EndOk(WithFlag(c, g), owed)
  BY FlagsMoved, Zenon DEF WithFlag, EndOk
<1>2. "IM_INTERESTED" \notin {"PEER_CHOKING", "IM_CHOKING"}
  OBVIOUS
<1> QED
  BY <1>1, <1>2 DEF pwp_conn_set_im_interested

\* A flag is cleared.
LEMMA FlagCleared ==
    ASSUME NEW c, NEW owed, EndOk(c, owed), NEW f
    PROVE  EndOk(NoFlag(c, f), owed)
  BY FlagsMoved, Zenon DEF NoFlag, EndOk
\* pwp_conn_periodic.
LEMMA PeriodicOk ==
    ASSUME ConnInv, NEW p \in Peers, NEW sent \in BOOLEAN, pwp_conn_periodic(p, sent)
    PROVE  ConnInv'
<1> DEFINE old == obj.conn[p]
           c == Ticked(old)
           out == Served(old)
           owed == abs[p] \ BytesOf(OldReqs(old))
           interested == pwp_conn_flag_is_set(c, "IM_INTERESTED")
           choked == pwp_conn_flag_is_set(c, "PEER_CHOKING")
<1>1. EndOk(c, owed) /\ out \in Seq(WireMessages)
  BY TickedOk, Zenon DEF ConnInv
<1>2. \/ /\ ~interested
         /\ Leaves(p, pwp_conn_set_im_interested(c, sent), out \o Msg("INTERESTED"), sent, owed)
      \/ /\ interested /\ choked
         /\ Leaves(p, c, out, sent, owed)
      \/ /\ interested /\ ~choked
         /\ \E offers \in SeqOf(Blocks, MaxReqs) :
               LET full == [c EXCEPT !.reqs = c.reqs \o offers]
               IN  /\ MayOffer(owed, c, offers)
                   /\ IF full.reqs = <<>> THEN Leaves(p, c, out, sent, owed)
                      ELSE LET b == __req_fit(Head(full.reqs))
                           IN  Leaves(p, __process_requests(full), out \o Request(b), sent,
                                      owed \union Bytes(b))
  BY Zenon DEF pwp_conn_periodic
<1> HIDE DEF c, out, owed, interested
<1>3. CASE Leaves(p, pwp_conn_set_im_interested(c, sent), out \o Msg("INTERESTED"), sent, owed)
  <2>1. EndOk(pwp_conn_set_im_interested(c, sent), owed)
    <3>1. "IM_INTERESTED" \notin {"PEER_CHOKING", "IM_CHOKING"}
      OBVIOUS
    <3> QED
      BY <1>1, <3>1, Interest, Zenon
  <2>2. out \o Msg("INTERESTED") \in Seq(WireMessages)
    BY <1>1, Short, Behind
  <2> QED
    BY <1>3, <2>1, <2>2, CallStep, Zenon DEF Leaves
<1>4. CASE Leaves(p, c, out, sent, owed)
  BY <1>1, <1>4, CallStep DEF Leaves
<1>5. ASSUME ~choked, NEW offers \in SeqOf(Blocks, MaxReqs), MayOffer(owed, c, offers),
             c.reqs \o offers # <<>>,
             LET full == [c EXCEPT !.reqs = c.reqs \o offers]
                 b == __req_fit(Head(full.reqs))
             IN  Leaves(p, __process_requests(full), out \o Request(b), sent, owed \union Bytes(b))
      PROVE  ConnInv'
  <2> DEFINE full == [c EXCEPT !.reqs = c.reqs \o offers]
             b == __req_fit(Head(full.reqs))
  <2>1. offers \in Seq(Blocks)
    BY DEF SeqOf
  <2>2. EndOk(full, owed)
    BY <1>1, <1>5, <2>1, Offered
  <2>3. full.reqs # <<>> /\ "PEER_CHOKING" \notin full.flags
    <3>1. full = [flags |-> c.flags, recv_reqs |-> c.recv_reqs, peer_reqs |-> c.peer_reqs,
                  reqs |-> c.reqs \o offers, peerhas |-> c.peerhas, completed |-> c.completed]
      BY <1>1, Assigned, Zenon DEF EndOk
    <3> QED
      BY <1>5, <3>1 DEF pwp_conn_flag_is_set
  <2> HIDE DEF full
  <2>4. EndOk(__process_requests(full), owed \union Bytes(b)) /\ Request(b) \in Seq(WireMessages)
    BY <2>2, <2>3, Processed, Zenon
  <2>5. out \o Request(b) \in Seq(WireMessages)
    BY <1>1, <2>4, Behind
  <2>6. Leaves(p, __process_requests(full), out \o Request(b), sent, owed \union Bytes(b))
    BY <1>5, Zenon DEF full
  <2> HIDE DEF b
  <2> QED
    BY <2>4, <2>5, <2>6, CallStep, Zenon DEF Leaves
<1>6. ASSUME NEW offers \in SeqOf(Blocks, MaxReqs)
      PROVE  [c EXCEPT !.reqs = c.reqs \o offers].reqs = c.reqs \o offers
  BY <1>1, Assigned, Zenon DEF EndOk
<1> QED
  BY <1>2, <1>3, <1>4, <1>5, <1>6, Zenon

\* The other calls.
LEMMA CallsOk ==
    ASSUME ConnInv, NEW p \in Peers, ConnCalls(p)
    PROVE  ConnInv'
<1> DEFINE c == obj.conn[p]
<1>0. EndOk(c, abs[p])
  BY DEF ConnInv
<1>1. ASSUME NEW b \in Blocks, pwp_conn_offer_block(p, b) PROVE ConnInv'
  <2>1. MayOffer(abs[p], c, <<b>>) /\ <<b>> \in Seq(Blocks)
    BY <1>1 DEF pwp_conn_offer_block
  <2>2. EndOk([c EXCEPT !.reqs = c.reqs \o <<b>>], abs[p])
    BY <1>0, <2>1, Offered, Zenon
  <2>3. Leaves(p, [c EXCEPT !.reqs = c.reqs \o <<b>>], <<>>, TRUE, abs[p])
    BY <1>1, Zenon DEF pwp_conn_offer_block
  <2> HIDE DEF c
  <2> QED
    BY <2>2, <2>3, Short, CallStep, Zenon DEF Leaves
<1>2. ASSUME NEW sent \in BOOLEAN, pwp_conn_choke_peer(p, sent) PROVE ConnInv'
  <2> DEFINE d == __expunge_their_pending_reqs(WithFlag(c, "IM_CHOKING"))
  <2>1. Calls(p, d, Msg("CHOKE"), sent, abs[p])
    BY <1>2 DEF pwp_conn_choke_peer
  <2>2. EndOk(d, abs[p])
    <3> HIDE DEF c
    <3> DEFINE fl == c.flags \union {"IM_CHOKING"}
    <3>1. WithFlag(c, "IM_CHOKING") = [flags |-> fl, recv_reqs |-> c.recv_reqs,
            peer_reqs |-> c.peer_reqs, reqs |-> c.reqs, peerhas |-> c.peerhas, completed |-> c.completed]
      <4>1. IsConn(c) /\ WithFlag(c, "IM_CHOKING") = [c EXCEPT !.flags = fl]
        BY <1>0, Zenon DEF WithFlag, EndOk
      <4> QED
        BY <4>1, Assigned, Zenon
    <3>2. d = [flags |-> fl, recv_reqs |-> c.recv_reqs, peer_reqs |-> <<>>, reqs |-> c.reqs,
               peerhas |-> c.peerhas, completed |-> c.completed]
      <4> DEFINE w == WithFlag(c, "IM_CHOKING")
      <4> HIDE DEF w, fl
      <4>1. w.flags = fl /\ w.recv_reqs = c.recv_reqs /\ w.reqs = c.reqs /\ w.peerhas = c.peerhas
            /\ w.completed = c.completed /\ w.peer_reqs = c.peer_reqs
        BY <3>1 DEF w
      <4>2. IsConn(w)
        BY <3>1, <4>1 DEF w, IsConn
      <4>3. [w EXCEPT !.peer_reqs = <<>>] = [flags |-> w.flags, recv_reqs |-> w.recv_reqs,
              peer_reqs |-> <<>>, reqs |-> w.reqs, peerhas |-> w.peerhas, completed |-> w.completed]
        BY <4>2, Assigned, Zenon
      <4>4. d = [w EXCEPT !.peer_reqs = <<>>]
        BY DEF __expunge_their_pending_reqs, w
      <4> HIDE DEF d
      <4> QED
        BY <4>1, <4>3, <4>4
    <3>3. Queue(<<>>, c.completed)
      BY DEF Queue
    <3>4. "PEER_CHOKING" \in fl => c.recv_reqs = NoReqs
      BY <1>0 DEF EndOk
    <3>5. Pending(c.recv_reqs, abs[p]) /\ Wanted(c.reqs, abs[p])
      BY <1>0 DEF EndOk
    <3> QED
      BY <3>2, <3>3, <3>4, <3>5, EndMade
  <2> HIDE DEF d
  <2> QED
    BY <2>1, <2>2, Short, CallStep DEF Calls
<1>3. ASSUME NEW sent \in BOOLEAN, pwp_conn_unchoke_peer(p, sent) PROVE ConnInv'
  <2>1. Calls(p, NoFlag(c, "IM_CHOKING"), Msg("UNCHOKE"), sent, abs[p])
    BY <1>3 DEF pwp_conn_unchoke_peer
  <2>2. EndOk(NoFlag(c, "IM_CHOKING"), abs[p])
    BY <1>0, FlagCleared
  <2> QED
    BY <2>1, <2>2, Short, CallStep DEF Calls
<1>4. ASSUME NEW sent \in BOOLEAN, pwp_conn_send_statechange(p, sent) PROVE ConnInv'
  BY <1>0, <1>4, Short, CallStep DEF pwp_conn_send_statechange, Calls
<1>5. ASSUME NEW sent \in BOOLEAN, NEW i \in Pieces, pwp_conn_send_have(p, i, sent) PROVE ConnInv'
  <2>1. [type |-> "HAVE", piece |-> i] \in WireMessages
    BY DEF WireMessages
  <2>2. <<[type |-> "HAVE", piece |-> i]>> \in Seq(WireMessages)
    BY <2>1
  <2>3. Calls(p, c, <<[type |-> "HAVE", piece |-> i]>>, sent, abs[p])
    BY <1>5 DEF pwp_conn_send_have
  <2> QED
    BY <1>0, <2>2, <2>3, CallStep, Zenon DEF Calls
<1>6. ASSUME NEW sent \in BOOLEAN, NEW b \in DOMAIN c.recv_reqs, pwp_conn_send_cancel(p, b, sent)
      PROVE  ConnInv'
  <2>1. [type |-> "CANCEL", blk |-> b] \in WireMessages
    BY <1>0 DEF WireMessages, EndOk, Pending
  <2>2. <<[type |-> "CANCEL", blk |-> b]>> \in Seq(WireMessages)
    BY <2>1
  <2>3. Calls(p, c, <<[type |-> "CANCEL", blk |-> b]>>, sent, abs[p])
    BY <1>6 DEF pwp_conn_send_cancel
  <2> QED
    BY <1>0, <2>2, <2>3, CallStep, Zenon DEF Calls
<1> QED
  BY <1>1, <1>2, <1>3, <1>4, <1>5, <1>6, PeriodicOk DEF ConnCalls

\* The handlers of the messages that carry no block.
LEMMA HandlesShort ==
    ASSUME ConnInv, NEW p \in Peers,
           \/ pwp_conn_choke(p) \/ pwp_conn_unchoke(p)
           \/ pwp_conn_interested(p) \/ pwp_conn_uninterested(p)
           \/ \E sent \in BOOLEAN : pwp_conn_have(p, sent)
           \/ pwp_conn_bitfield(p)
    PROVE  ConnInv'
<1> DEFINE c == obj.conn[p]
<1>0. EndOk(c, abs[p])
  BY DEF ConnInv
<1>a. \A t : Reads(p, t) => obj.wire[Other(p)] # <<>>
  BY DEF Reads
<1>b. <<>> \in Seq(WireMessages) /\ Msg("INTERESTED") \in Seq(WireMessages)
  BY Short
<1>1. CASE pwp_conn_choke(p)
  <2> DEFINE f == WithFlag(c, "PEER_CHOKING")
             d == __expunge_my_pending_reqs(f)
             owed == abs[p] \ BytesOf(DOMAIN c.recv_reqs)
  <2>1. Handled(p, d, <<>>, FALSE, <<>>, owed) /\ Reads(p, "CHOKE")
    BY <1>1, Zenon DEF pwp_conn_choke
  <2>2. EndOk(d, owed)
    <3> HIDE DEF c
    <3> DEFINE fl == c.flags \union {"PEER_CHOKING"}
    <3>1. f = [flags |-> fl, recv_reqs |-> c.recv_reqs,
            peer_reqs |-> c.peer_reqs, reqs |-> c.reqs, peerhas |-> c.peerhas, completed |-> c.completed]
      BY <1>0, Assigned, Zenon DEF WithFlag, EndOk
    <3>2. d = [flags |-> fl, recv_reqs |-> NoReqs, peer_reqs |-> c.peer_reqs, reqs |-> c.reqs,
               peerhas |-> c.peerhas, completed |-> c.completed]
      BY <3>1 DEF __expunge_my_pending_reqs
    <3>3. owed = {}
      BY <1>0 DEF EndOk, Pending
    <3>4. Wanted(c.reqs, owed)
      BY <1>0, WantedLess DEF EndOk
    <3>5. Queue(c.peer_reqs, c.completed) /\ ("IM_CHOKING" \in fl => c.peer_reqs = <<>>)
      BY <1>0 DEF EndOk
    <3>6. Pending(NoReqs, owed)
      BY <3>3, NothingPending, Zenon
    <3> HIDE DEF owed, fl
    <3> QED
      BY <3>2, <3>4, <3>5, <3>6, EndMade, Zenon
  <2> HIDE DEF d, owed
  <2> QED
    BY <1>a, <1>b, <2>1, <2>2, HandledStep, Zenon
<1>2. CASE pwp_conn_unchoke(p)
  <2>1. Handled(p, NoFlag(c, "PEER_CHOKING"), <<>>, FALSE, <<>>, abs[p]) /\ Reads(p, "UNCHOKE")
    BY <1>2, Zenon DEF pwp_conn_unchoke
  <2>2. EndOk(NoFlag(c, "PEER_CHOKING"), abs[p])
    BY <1>0, FlagCleared
  <2> QED
    BY <1>a, <1>b, <2>1, <2>2, HandledStep, Zenon
<1>3. CASE pwp_conn_interested(p)
  <2>1. Handled(p, WithFlag(c, "PEER_INTERESTED"), <<>>, FALSE, <<>>, abs[p]) /\ Reads(p, "INTERESTED")
    BY <1>3, Zenon DEF pwp_conn_interested
  <2>2. EndOk(WithFlag(c, "PEER_INTERESTED"), abs[p])
    <3>1. "PEER_INTERESTED" \notin {"PEER_CHOKING", "IM_CHOKING"}
      OBVIOUS
    <3> QED
      BY <1>0, <3>1, Interest
  <2> QED
    BY <1>a, <1>b, <2>1, <2>2, HandledStep, Zenon
<1>4. CASE pwp_conn_uninterested(p)
  <2>1. /\ Handled(p, NoFlag(c, "PEER_INTERESTED"), <<>>, FALSE, <<>>, abs[p])
        /\ Reads(p, "UNINTERESTED")
    BY <1>4, Zenon DEF pwp_conn_uninterested
  <2>2. EndOk(NoFlag(c, "PEER_INTERESTED"), abs[p])
    BY <1>0, FlagCleared
  <2> QED
    BY <1>a, <1>b, <2>1, <2>2, HandledStep, Zenon
<1>5. ASSUME NEW sent \in BOOLEAN, pwp_conn_have(p, sent) PROVE ConnInv'
  <2> DEFINE i == Message(p).piece
             marked == pwp_conn_mark_peer_has_piece(c, i)
             d == pwp_conn_set_im_interested(marked, sent)
             out == IF sent THEN Msg("INTERESTED") ELSE <<>>
  <2>1. EndOk(marked, abs[p])
    BY <1>0, PeerHasMoved DEF pwp_conn_mark_peer_has_piece
  <2>2. /\ Reads(p, "HAVE")
        /\ \/ Handled(p, marked, <<>>, i \notin Pieces, <<>>, abs[p])
           \/ Handled(p, d, out, i \notin Pieces \/ ~sent, <<>>, abs[p])
    BY <1>5 DEF pwp_conn_have
  <2>3. "IM_INTERESTED" \notin {"PEER_CHOKING", "IM_CHOKING"}
    OBVIOUS
  <2> HIDE DEF marked
  <2>4. EndOk(d, abs[p])
    BY <2>1, <2>3, Interest, Zenon
  <2>5. out \in Seq(WireMessages)
    BY <1>b
  <2> HIDE DEF d, out
  <2> QED
    BY <1>a, <1>b, <2>1, <2>2, <2>4, <2>5, HandledStep, Zenon
<1>6. CASE pwp_conn_bitfield(p)
  <2> DEFINE f == WithFlag(c, "BITFIELD_RECEIVED")
             h == f.peerhas \union (Message(p).pieces \intersect Pieces)
             drop == pwp_conn_flag_is_set(c, "BITFIELD_RECEIVED")
  <2>1. Handled(p, [f EXCEPT !.peerhas = h], <<>>, drop, <<>>, abs[p]) /\ Reads(p, "BITFIELD")
    BY <1>6 DEF pwp_conn_bitfield
  <2>2. EndOk(f, abs[p])
    <3>1. "BITFIELD_RECEIVED" \notin {"PEER_CHOKING", "IM_CHOKING"}
      OBVIOUS
    <3> QED
      BY <1>0, <3>1, Interest
  <2> HIDE DEF f, h, drop
  <2>3. EndOk([f EXCEPT !.peerhas = h], abs[p])
    BY <2>2, PeerHasMoved
  <2> QED
    BY <1>a, <1>b, <2>1, <2>3, HandledStep, Zenon
<1> QED
  BY <1>1, <1>2, <1>3, <1>4, <1>5, <1>6

\* The handlers of the messages that carry a block.
LEMMA HandlesBlocks ==
    ASSUME ConnInv, NEW p \in Peers,
           \/ pwp_conn_request(p) \/ pwp_conn_cancel(p)
           \/ \E n \in 1 .. PieceLen : pwp_conn_piece(p, n)
    PROVE  ConnInv'
<1> DEFINE c == obj.conn[p]
           b == Message(p).blk
<1>0. EndOk(c, abs[p])
  BY DEF ConnInv
<1>a. \A t : Reads(p, t) => obj.wire[Other(p)] # <<>> /\ Message(p).type = t
  BY DEF Reads, Message
<1>b. <<>> \in Seq(WireMessages)
  BY Short
<1>c. ASSUME obj.wire[Other(p)] # <<>>, Message(p).type \in {"REQUEST", "CANCEL", "PIECE"}
      PROVE  b \in BlockSet
  <2>1. obj.wire[Other(p)] \in Seq(WireMessages)
    BY TwoEnds DEF ConnInv
  <2>2. Message(p) \in WireMessages
    BY <1>c, <2>1, Shorter DEF Message
  <2> QED
    BY <1>c, <2>2 DEF WireMessages
<1>1. CASE pwp_conn_request(p)
  <2> DEFINE queued == IF Contains(c.peer_reqs, b) THEN c ELSE [c EXCEPT !.peer_reqs = Append(c.peer_reqs, b)]
             d == IF ValidRequest(c, b) THEN queued ELSE c
  <2>1. /\ Reads(p, "REQUEST")
        /\ Handled(p, d, <<>>, ~ValidRequest(c, b), <<>>, abs[p])
    BY <1>1 DEF pwp_conn_request
  <2>2. b \in BlockSet
    BY <1>a, <1>c, <2>1
  <2>3. EndOk(d, abs[p])
    <3> HIDE DEF c, b
    <3>1. CASE ValidRequest(c, b) /\ ~Contains(c.peer_reqs, b)
      <4>1. Queue(Append(c.peer_reqs, b), c.completed)
        BY <1>0, <2>2, <3>1, QueueGrows DEF ValidRequest, EndOk
      <4>2. "IM_CHOKING" \notin c.flags
        BY <3>1 DEF ValidRequest, pwp_conn_flag_is_set
      <4>3. EndOk([c EXCEPT !.peer_reqs = Append(c.peer_reqs, b)], abs[p])
        BY <1>0, <4>1, <4>2, QueueMoved, Zenon
      <4> QED
        BY <3>1, <4>3
    <3>2. CASE ~(ValidRequest(c, b) /\ ~Contains(c.peer_reqs, b))
      BY <1>0, <3>2
    <3> QED
      BY <3>1, <3>2
  <2> HIDE DEF d
  <2> QED
    BY <1>a, <1>b, <2>1, <2>3, HandledStep, Zenon
<1>2. CASE pwp_conn_cancel(p)
  <2> DEFINE q == llqueue_remove_item_via_cmpfunction(c.peer_reqs, b)
  <2>1. Handled(p, [c EXCEPT !.peer_reqs = q], <<>>, FALSE, <<>>, abs[p]) /\ Reads(p, "CANCEL")
    BY <1>2, Zenon DEF pwp_conn_cancel
  <2>2. Queue(q, c.completed) /\ ("IM_CHOKING" \in c.flags => q = <<>>)
    <3> HIDE DEF c, b
    <3> QED
      BY <1>0, QueueShrinks DEF EndOk
  <2> HIDE DEF q
  <2>3. EndOk([c EXCEPT !.peer_reqs = q], abs[p])
    BY <1>0, <2>2, QueueMoved
  <2> QED
    BY <1>a, <1>b, <2>1, <2>3, HandledStep, Zenon
<1>3. ASSUME NEW n \in 1 .. PieceLen, pwp_conn_piece(p, n) PROVE ConnInv'
  <2> DEFINE part == [b EXCEPT !.len = n]
             f == __conn_remove_pending_request(c.recv_reqs, part)
             behind == [b EXCEPT !.off = b.off + n, !.len = b.len - n]
             rest == IF n = b.len THEN <<>> ELSE Piece(behind)
  <2>1. /\ Handled(p, [c EXCEPT !.recv_reqs = f], <<>>, FALSE, rest, abs[p] \ Bytes(part))
        /\ Reads(p, "PIECE") /\ n <= b.len
    BY <1>3, Zenon DEF pwp_conn_piece
  <2>2. b \in BlockSet
    BY <1>a, <1>c, <2>1
  <2> HIDE DEF b, c
  <2>3. n \in Nat /\ n > 0 /\ b.len \in Nat /\ b.off \in Nat
    BY <2>2, BlocksAssumption DEF BlockSet
  <2>4. part \in BlockSet /\ part.len > 0
    BY <2>2, <2>3 DEF BlockSet
  <2> HIDE DEF part
  <2>5. EndOk([c EXCEPT !.recv_reqs = f], abs[p] \ Bytes(part))
    BY <1>0, <2>4, Arrived
  <2>6. rest \in Seq(WireMessages)
    <3>1. b.off + n \in Nat /\ b.len - n \in Nat
      BY <2>1, <2>3
    <3>2. behind \in BlockSet
      BY <2>2, <3>1, Zenon DEF BlockSet
    <3> HIDE DEF behind
    <3>3. [type |-> "PIECE", blk |-> behind] \in WireMessages
      BY <3>2 DEF WireMessages
    <3>4. Piece(behind) \in Seq(WireMessages)
      BY <3>3 DEF Piece
    <3> QED
      BY <1>b, <3>4
  <2> HIDE DEF f, rest
  <2> QED
    BY <1>a, <1>b, <2>1, <2>5, <2>6, HandledStep, Zenon
<1> QED
  BY <1>1, <1>2, <1>3

\* The caller releases a connection that was dropped.
LEMMA Released ==
    ASSUME ConnInv, NEW p \in Peers, pwp_conn_release(p)
    PROVE  ConnInv'
<1> DEFINE c == obj.conn[p]
           t == __expunge_their_pending_reqs(c)
           d == __expunge_my_pending_reqs(t)
           owed == abs[p] \ BytesOf(DOMAIN c.recv_reqs)
           conn == [obj.conn EXCEPT ![p] = d]
<1>0. EndOk(c, abs[p])
  BY DEF ConnInv
<1>1. EndOk(d, owed)
  <2> HIDE DEF c
  <2>1. t = [flags |-> c.flags, recv_reqs |-> c.recv_reqs, peer_reqs |-> <<>>, reqs |-> c.reqs,
             peerhas |-> c.peerhas, completed |-> c.completed]
    BY <1>0, Assigned, Zenon DEF EndOk, __expunge_their_pending_reqs
  <2>2. Queue(<<>>, c.completed)
    BY DEF Queue
  <2>3. EndOk(t, abs[p])
    <3>1. /\ Pending(c.recv_reqs, abs[p]) /\ Wanted(c.reqs, abs[p])
          /\ "PEER_CHOKING" \in c.flags => c.recv_reqs = NoReqs
      BY <1>0 DEF EndOk
    <3> QED
      BY <2>1, <2>2, <3>1, EndMade
  <2>4. t.recv_reqs = c.recv_reqs
    BY <2>1
  <2> HIDE DEF t
  <2> QED
    BY <2>3, <2>4, AllGivenBack
<1>2. /\ obj' = [up |-> obj.up, calls |-> obj.calls, conn |-> conn, wire |-> obj.wire]
      /\ abs' = [abs EXCEPT ![p] = owed] /\ subject' = subject
  <2>1. /\ obj' = [obj EXCEPT !.conn[p] = d] /\ abs' = [abs EXCEPT ![p] = owed]
        /\ subject' = subject
    BY DEF pwp_conn_release
  <2> HIDE DEF d
  <2>2. [obj EXCEPT !.conn[p] = d] = [obj EXCEPT !.conn = conn]
    OBVIOUS
  <2> HIDE DEF conn
  <2>3. obj = [up |-> obj.up, calls |-> obj.calls, conn |-> obj.conn, wire |-> obj.wire]
    BY DEF ConnInv
  <2>4. [obj EXCEPT !.conn = conn] = [up |-> obj.up, calls |-> obj.calls, conn |-> conn, wire |-> obj.wire]
    BY <2>3
  <2> QED
    BY <2>1, <2>2, <2>4
<1> HIDE DEF d, owed
<1>3. obj'.conn = conn /\ obj'.wire = obj.wire /\ obj'.up = obj.up /\ obj'.calls = obj.calls
  BY <1>2
<1>4. conn = [r \in Peers |-> conn[r]] /\ \A r \in Peers : conn[r] = IF r = p THEN d ELSE obj.conn[r]
  BY Zenon DEF ConnInv
<1>5. abs' = [r \in Peers |-> abs'[r]] /\ \A r \in Peers : abs'[r] = IF r = p THEN owed ELSE abs[r]
  BY <1>2 DEF ConnInv
<1> HIDE DEF conn
<1>6. \A r \in Peers : EndOk(conn[r], abs'[r])
  BY <1>1, <1>4, <1>5 DEF ConnInv
<1> QED
  BY <1>2, <1>3, <1>4, <1>5, <1>6 DEF ConnInv
\* Two peers that have exchanged bitfields and nothing else.
LEMMA ConnStarts == ConnInit => ConnInv
<1> SUFFICES ASSUME ConnInit PROVE ConnInv
  OBVIOUS
<1>1. /\ subject = "connection"
      /\ obj.conn = [p \in Peers |-> pwp_conn_new(p)]
      /\ obj.wire = [p \in Peers |-> <<pwp_send_bitfield(p)>>]
      /\ abs = [p \in Peers |-> {}]
      /\ obj = [up |-> obj.up, calls |-> obj.calls, conn |-> obj.conn, wire |-> obj.wire]
  BY DEF ConnInit
<1>2. obj.wire \in [Peers -> Seq(WireMessages)]
  <2>1. \A p \in Peers : pwp_send_bitfield(p) \in WireMessages
    BY PiecesAssumption DEF pwp_send_bitfield, WireMessages
  <2>2. \A p \in Peers : <<pwp_send_bitfield(p)>> \in Seq(WireMessages)
    BY <2>1
  <2> QED
    BY <1>1, <2>2
<1>3. ASSUME NEW p \in Peers PROVE EndOk(obj.conn[p], abs[p])
  <2>1. obj.conn[p] = pwp_conn_new(p) /\ abs[p] = {}
    BY <1>1
  <2>2. Pending(NoReqs, {})
    BY NothingPending
  <2>3. Wanted(<<>>, {}) /\ Queue(<<>>, Completed[p])
    BY DEF Wanted, Queue
  <2> QED
    BY <2>1, <2>2, <2>3, EndMade DEF pwp_conn_new
<1> QED
  BY <1>1, <1>2, <1>3 DEF ConnInv

\* What holds of a connection between any two steps.
LEMMA ConnInvariant == ConnSpec => []ConnInv
<1>1. ConnInv /\ [ConnNext]_subjectVars => ConnInv'
  <2> SUFFICES ASSUME ConnInv, [ConnNext]_subjectVars PROVE ConnInv'
    OBVIOUS
  <2>1. ASSUME NEW p \in Peers, ConnCalls(p) PROVE ConnInv'
    BY <2>1, CallsOk
  <2>2. ASSUME NEW p \in Peers, ConnHandles(p) PROVE ConnInv'
    BY <2>2, HandlesShort, HandlesBlocks DEF ConnHandles
  <2>3. ASSUME NEW p \in Peers, pwp_conn_release(p) PROVE ConnInv'
    BY <2>3, Released
  <2>4. CASE UNCHANGED subjectVars
    BY <2>4 DEF ConnInv, subjectVars
  <2> QED
    BY <2>1, <2>2, <2>3, <2>4 DEF ConnNext
<1> QED
  BY <1>1, ConnStarts, PTL DEF ConnSpec

\* pwp_connection.c settles every request: whatever order pieces, fragments, late
\* answers, timeouts, chokes and releases come in, recv_reqs covers the bytes asked
\* for and neither pushed nor given back, each byte once, in blocks that are not empty.
THEOREM RequestsAreSettled == ConnSpec => []RequestsSettled
<1>1. ConnInv => RequestsSettled
  BY Zenon DEF ConnInv, EndOk, Pending, RequestsSettled
<1> QED
  BY <1>1, ConnInvariant, PTL

\* No request outlives the timeout of pwp_conn_periodic, however often
\* __conn_remove_pending_request splits or shrinks it.
THEOREM RequestsDoExpire == ConnSpec => []RequestsExpire
<1>1. ConnInv => RequestsExpire
  <2> SUFFICES ASSUME ConnInv, NEW p \in Peers, NEW b \in DOMAIN obj.conn[p].recv_reqs
               PROVE  obj.conn[p].recv_reqs[b] <= ReqTimeout
    BY DEF RequestsExpire
  <2>1. Pending(obj.conn[p].recv_reqs, abs[p])
    BY DEF ConnInv, EndOk
  <2>2. obj.conn[p].recv_reqs[b] \in 0 .. ReqTimeout
    BY <2>1 DEF Pending
  <2> QED
    BY <2>2, BlocksAssumption
<1> QED
  BY <1>1, ConnInvariant, PTL

\* A choke ends what was asked for in both directions (pwp_conn_choke,
\* pwp_conn_choke_peer), and pwp_conn_request queues only what can be served, once.
THEOREM ChokesAreRespected == ConnSpec => []ChokesRespected
<1>1. ConnInv => ChokedAsksNothing
  BY DEF ConnInv, EndOk, ChokedAsksNothing
<1>2. ConnInv => QueueServable
  <2> SUFFICES ASSUME ConnInv, NEW p \in Peers
               PROVE  LET c == obj.conn[p]
                      IN  /\ "IM_CHOKING" \in c.flags => c.peer_reqs = <<>>
                          /\ IsInjective(c.peer_reqs)
                          /\ \A r \in Range(c.peer_reqs) :
                                r.piece \in c.completed /\ 0 < r.len /\ End(r) <= PieceLen
    BY DEF QueueServable
  <2>1. EndOk(obj.conn[p], abs[p])
    BY DEF ConnInv
  <2> DEFINE c == obj.conn[p]
             q == c.peer_reqs
  <2>2. Queue(q, c.completed) /\ ("IM_CHOKING" \in c.flags => q = <<>>)
    BY <2>1 DEF EndOk
  <2> HIDE DEF q, c
  <2>3. DOMAIN q = 1 .. Len(q)
    BY <2>2 DEF Queue
  <2>4. IsInjective(q)
    BY <2>2, <2>3 DEF Queue, IsInjective
  <2>5. \A r \in Range(q) : \E i \in 1 .. Len(q) : r = q[i]
    BY <2>3 DEF Range
  <2>6. \A r \in Range(q) : r.piece \in c.completed /\ 0 < r.len /\ End(r) <= PieceLen
    BY <2>2, <2>5 DEF Queue
  <2> QED
    BY <2>2, <2>4, <2>6 DEF q, c
<1> QED
  BY <1>1, <1>2, ConnInvariant, PTL DEF ChokesRespected
=============================================================================
