-------------------------- MODULE TlsBridgeProofs --------------------------
(* No socket is lost, no record is lost, doubled or misrouted, and no        *)
(* verdict is taken back, for any number of slots, connections, records and  *)
(* requests, and whatever the network does: the invariant of the bridge,     *)
(* what each operation does to the records of one connection and what a step *)
(* on one slot leaves of the others, and then the steps and the theorems.    *)
EXTENDS TlsBridge, FiniteSetTheorems, SequenceTheorems, WellFoundedInduction, TLAPS

-----------------------------------------------------------------------------
(* The inductive invariant.                                                  *)

Records == [kind : {"hello", "finished", "close_notify", "malformed", "data", "request"}, n : Nat]
Engines == [phase : {"handshake", "open", "closing", "closed"}, err : BOOLEAN,
            out : Seq(Records), app : Seq(Nat), waits : {"none", "flush", "notify"}]
Nets == [rx : Seq(Records), tx : Seq(Records), fin : BOOLEAN, rst : BOOLEAN,
         ready : BOOLEAN, bye : BOOLEAN, sent : Nat, reqs : Seq(Nat)]
Connections == [state : {"IDLE", "HANDSHAKING", "ESTABLISHED", "CLOSING", "ERROR"},
                fd : Fds \cup {-1}, tab_multiplex_id : 0..MaxConns, eng : Engines]

Pumps == [at : {"poll", "loop", "write", "push", "over"}, slot : Slots,
          progress : BOOLEAN, by : {"poll", "send"}]

Typed ==
  /\ global_tls_connections \in [Slots -> Connections]
  /\ pump \in Pumps
  /\ fds \in [Fds -> Conns \cup {Free, Stdin}]
  /\ net \in [Conns -> Nets]
  /\ ring \in [0..MaxConns -> Seq(Conns \X Nat)]
  /\ asked \in [Conns -> Nat]
  /\ held \in [Slots -> 0..MaxConns]
  /\ load \in Loads /\ opened \in 0..load.conns

\* The slots, the fds and the connections: a connection is held by one slot at
\* most, and a held slot names the socket of its connection or none.
Connected(s) == held[s] # 0 /\ global_tls_connections[s].fd > 0
Owned ==
  /\ fds[0] = Stdin
  /\ \A f \in Fds \ {0} : fds[f] # Free =>
       fds[f] \in Conns /\ \E s \in Slots : held[s] = fds[f] /\ global_tls_connections[s].fd = f
  /\ \A s \in Slots : global_tls_connections[s].fd > 0 =>
       held[s] # 0 /\ fds[global_tls_connections[s].fd] = held[s]
  /\ \A s \in Slots : held[s] = 0 <=> global_tls_connections[s].state = "IDLE"
  /\ \A s \in Slots : held[s] <= opened /\ (held[s] # 0 => global_tls_connections[s].fd # 0)
  /\ \A s, t \in Slots : held[s] = held[t] /\ held[s] # 0 => s = t
  /\ \A s \in Slots : held[s] # 0 /\ global_tls_connections[s].fd = -1 =>
       global_tls_connections[s].state = "HANDSHAKING"
  /\ pump.at # "poll" => Connected(pump.slot)

\* What the socket holds for the engine: the data records after the first lo, up
\* to hi, in order, and only what ends the talk comes after them.
Queue(rx, lo, hi, bye) ==
  /\ \/ Len(rx) = hi - lo
     \/ bye /\ Len(rx) = hi - lo + 1 /\ rx[Len(rx)] \in {CloseNotify, Malformed}
  /\ \A i \in 1..(hi - lo) : rx[i] = Rec("data", lo + i)

\* Before the handshake is through there is one hello, on its way out or back.
Greeting(rx, tx, out, bye) ==
  /\ \/ rx \in {<<>>, <<Malformed>>} /\ tx = <<>> /\ out \in {<<>>, <<Hello>>}
     \/ rx \in {<<>>, <<Malformed>>} /\ tx = <<Hello>> /\ out = <<>>
     \/ rx \in {<<Hello>>, <<Hello, Malformed>>} /\ tx = <<>> /\ out = <<>>
  /\ rx \in {<<Malformed>>, <<Hello, Malformed>>} => bye

\* The engine has closed in order, or is about to.
Ending(e) == e.phase = "closing" \/ (e.phase = "closed" /\ ~ e.err)

\* How many records the tab has, or will have from the engine.
Had(r, e) == IF e.app = <<>> THEN r ELSE r + 1

\* Where the records of a connection are: n is its socket, r the number that its
\* tab has, a the number of requests taken, and e the engine of its slot.
Carried(n, r, a, e) ==
  /\ e.app = <<>> \/ (e.app = <<r + 1>> /\ e.phase = "open")
  /\ Had(r, e) <= n.sent
  /\ e.err => e.phase = "closed"
  /\ e.phase = "handshake" => n.sent = 0 /\ ~ n.ready /\ Greeting(n.rx, n.tx, e.out, n.bye)
  /\ e.phase = "open" =>
       /\ \A i \in 1..Len(e.out) : e.out[i] # Hello
       /\ \A i \in 1..Len(n.tx) : n.tx[i] # Hello
       /\ ~ n.rst => Queue(n.rx, Had(r, e), n.sent, n.bye)
  /\ Ending(e) => n.rx = <<>> /\ (n.fin \/ n.bye) /\ n.sent = r
  /\ ~ n.rst => Requested(n.reqs, a, n.tx \o e.out)

\* What a state says of the engine that is never taken back.
Judged(state, e) == state = "CLOSING" => e.phase = "closed" /\ ~ e.err

\* A tab has the records of its connection from the first on.
InOrder(q, c) == q = [i \in 1..Len(q) |-> <<c, i>>]

Delivered ==
  /\ ring[0] = <<>>
  /\ \A c \in Conns : InOrder(ring[c], c)
  /\ \A c \in Conns : ~ Open(c) => net[c] = NoNet /\ ring[c] = <<>> /\ asked[c] = 0
  /\ \A s \in Slots : Connected(s) =>
       LET c == held[s]
           conn == global_tls_connections[s]
       IN /\ conn.tab_multiplex_id = c
          /\ Carried(net[c], Len(ring[c]), asked[c], conn.eng)
          /\ Judged(conn.state, conn.eng)

IInv == Typed /\ Owned /\ Delivered

-----------------------------------------------------------------------------
(* The engine and the records.                                               *)

\* What the flags of br_ssl_engine_current_state say.
LEMMA Flags ==
  ASSUME NEW e \in Engines
  PROVE  /\ "CLOSED" \in current_state(e) <=> e.phase = "closed"
         /\ "RECVREC" \in current_state(e) <=>
              e.phase # "closed" /\ e.app = <<>> /\ (e.phase = "closing" => e.waits # "none")
         /\ "SENDREC" \in current_state(e) <=> e.phase # "closed" /\ e.out # <<>>
         /\ "SENDAPP" \in current_state(e) <=> e.phase = "open" /\ e.out = <<>>
         /\ "RECVAPP" \in current_state(e) <=> e.phase # "closed" /\ e.app # <<>>
BY Zenon DEF current_state

\* The named records are records, all different.
LEMMA RecordTypes ==
  /\ {Hello, Finished, CloseNotify, Malformed} \subseteq Records
  /\ \A i \in Nat : Rec("data", i) \in Records /\ Rec("request", i) \in Records
  /\ Hello.kind = "hello" /\ Finished.kind = "finished"
  /\ CloseNotify.kind = "close_notify" /\ Malformed.kind = "malformed"
  /\ \A i \in Nat : Rec("data", i).kind = "data" /\ Rec("data", i).n = i
  /\ \A i \in Nat : Rec("request", i).kind = "request" /\ Rec("request", i).n = i
BY DEF Records, Rec, Hello, Finished, CloseNotify, Malformed

\* Sequences of one and two elements.
LEMMA ShortSeqs ==
  \A x, y : /\ Tail(<<x>>) = <<>> /\ Tail(<<x, y>>) = <<y>>
            /\ Append(<<>>, x) = <<x>> /\ Append(<<x>>, y) = <<x, y>>
<1> SUFFICES ASSUME NEW x, NEW y
             PROVE  /\ Tail(<<x>>) = <<>> /\ Tail(<<x, y>>) = <<y>>
                    /\ Append(<<>>, x) = <<x>> /\ Append(<<x>>, y) = <<x, y>>
  BY Zenon
<1>1. Tail(<<x>>) = <<>>
  OBVIOUS
<1>2. Tail(<<x, y>>) = <<y>>
  OBVIOUS
<1>3. Append(<<>>, x) = <<x>>
  OBVIOUS
<1>4. Append(<<x>>, y) = <<x, y>>
  <2>1. x \in {x, y} /\ y \in {x, y} /\ <<x>> \in Seq({x, y}) /\ Len(<<x>>) = 1
    OBVIOUS
  <2>2. /\ Append(<<x>>, y) \in Seq({x, y}) /\ Len(Append(<<x>>, y)) = 2
        /\ Append(<<x>>, y)[1] = x /\ Append(<<x>>, y)[2] = y
    BY <2>1, AppendProperties
  <2>3. /\ Append(<<x>>, y) \in [1..2 -> {x, y}] /\ <<x, y>> \in [1..2 -> {x, y}]
        /\ <<x, y>>[1] = x /\ <<x, y>>[2] = y
    <3>1. <<x, y>> \in [1..2 -> {x, y}] /\ <<x, y>>[1] = x /\ <<x, y>>[2] = y
      OBVIOUS
    <3>2. \A q \in Seq({x, y}) : Len(q) = 2 => q \in [1..2 -> {x, y}]
      OBVIOUS
    <3> QED BY <2>2, <3>1, <3>2, Zenon
  <2>4. \A i \in 1..2 : i = 1 \/ i = 2
    OBVIOUS
  <2> HIDE <2>1
  <2>5. \A i \in 1..2 : Append(<<x>>, y)[i] = <<x, y>>[i]
    BY <2>2, <2>3, <2>4, Zenon
  <2>6. ASSUME NEW f \in [1..2 -> {x, y}], NEW g \in [1..2 -> {x, y}], \A i \in 1..2 : f[i] = g[i]
        PROVE  f = g
    BY <2>6
  <2> QED BY <2>3, <2>5, <2>6, Zenon
<1> QED BY <1>1, <1>2, <1>3, <1>4, Zenon

\* Moving a prefix from one sequence to the end of another, as a write moves
\* records from the engine to the socket, leaves their concatenation as it is.
LEMMA MovePrefix ==
  ASSUME NEW s \in Seq(Records), NEW t \in Seq(Records), NEW n \in 1..Len(t)
  PROVE  /\ s \o SubSeq(t, 1, n) \in Seq(Records) /\ SubSeq(t, n + 1, Len(t)) \in Seq(Records)
         /\ (s \o SubSeq(t, 1, n)) \o SubSeq(t, n + 1, Len(t)) = s \o t
<1> DEFINE u == SubSeq(t, 1, n)
           v == SubSeq(t, n + 1, Len(t))
<1>1. u \in Seq(Records) /\ v \in Seq(Records)
  BY SubSeqProperties, ElementOfSeq
<1>2. u \o v = t
  BY ConcatAdjacentSubSeq, SubSeqFull
<1> HIDE DEF u, v
<1>3. s \o u \in Seq(Records)
  BY <1>1, ConcatProperties, Zenon
<1>4. (s \o u) \o v = s \o (u \o v)
  BY <1>1, ConcatAssociative, SMTT(30)
<1> QED BY <1>1, <1>2, <1>3, <1>4, Zenon DEF u, v

\* The same for one record at the end, and for the first of the socket.
LEMMA ConcatEnds ==
  ASSUME NEW S, NEW s \in Seq(S), NEW t \in Seq(S), NEW x \in S
  PROVE  /\ s \o Append(t, x) = Append(s \o t, x)
         /\ s # <<>> => s \o t # <<>> /\ Head(s \o t) = Head(s) /\ Tail(s) \o t = Tail(s \o t)
<1>1. s \o Append(t, x) = Append(s \o t, x)
  <2>1. Append(t, x) = t \o <<x>> /\ Append(s \o t, x) = (s \o t) \o <<x>> /\ <<x>> \in Seq(S)
    BY AppendIsConcat, ConcatProperties
  <2> QED BY <2>1, ConcatAssociative
<1>2. ASSUME s # <<>>
      PROVE  s \o t # <<>> /\ Head(s \o t) = Head(s) /\ Tail(s) \o t = Tail(s \o t)
  <2>1. s \o t # <<>> /\ s \o t \in Seq(S)
    BY <1>2, ConcatProperties, ConcatEqualIffEmpty
  <2>2. Head(s \o t) = Head(s)
    BY <1>2, ConcatProperties
  <2>3. Tail(s) \o t \in Seq(S) /\ Tail(s \o t) \in Seq(S)
    BY <1>2, <2>1, HeadTailProperties, ConcatProperties, Zenon
  <2>4. Len(Tail(s) \o t) = Len(Tail(s \o t))
    BY <1>2, <2>1, HeadTailProperties, ConcatProperties
  <2>5. \A i \in 1..Len(Tail(s) \o t) : (Tail(s) \o t)[i] = Tail(s \o t)[i]
    BY <1>2, <2>1, HeadTailProperties, ConcatProperties
  <2> QED BY <2>1, <2>2, <2>3, <2>4, <2>5, SeqEqual, Zenon
<1> QED BY <1>1, <1>2, Zenon

\* Requested, place by place.
Placed(reqs, a, way) ==
  /\ \A i \in 1..Len(reqs) : reqs[i] = i
  /\ Len(reqs) <= a
  /\ \A i \in 1..Len(way) : way[i].kind = "request" => way[i].n \in (Len(reqs) + 1)..a
  /\ \A m \in (Len(reqs) + 1)..a :
       \E i \in 1..Len(way) : way[i].kind = "request" /\ way[i].n = m
  /\ \A i, j \in 1..Len(way) :
       i < j /\ way[i].kind = "request" /\ way[j].kind = "request" => way[i].n < way[j].n

\* It says the same as Requested.
LEMMA RequestedMeans ==
  ASSUME NEW reqs \in Seq(Nat), NEW a \in Nat, NEW way \in Seq(Records)
  PROVE  Requested(reqs, a, way) <=> Placed(reqs, a, way)
<1>1. reqs = [i \in 1..Len(reqs) |-> i] <=> \A i \in 1..Len(reqs) : reqs[i] = i
  OBVIOUS
<1>2. {way[i].n : i \in {j \in 1..Len(way) : way[j].kind = "request"}} = (Len(reqs) + 1)..a
        <=> /\ \A i \in 1..Len(way) : way[i].kind = "request" => way[i].n \in (Len(reqs) + 1)..a
            /\ \A m \in (Len(reqs) + 1)..a :
                 \E i \in 1..Len(way) : way[i].kind = "request" /\ way[i].n = m
  <2> DEFINE N == (Len(reqs) + 1)..a
  <2> HIDE DEF N
  <2>1. {way[i].n : i \in {j \in 1..Len(way) : way[j].kind = "request"}} = N
          <=> /\ \A i \in 1..Len(way) : way[i].kind = "request" => way[i].n \in N
              /\ \A m \in N : \E i \in 1..Len(way) : way[i].kind = "request" /\ way[i].n = m
    BY Zenon
  <2> QED BY <2>1, Zenon DEF N
<1> QED BY <1>1, <1>2, Zenon DEF Requested, Placed

\* A connection begins with no request, and its first record is the hello.
LEMMA RequestedFirst == Requested(<<>>, 0, <<>> \o <<Hello>>)
<1>1. <<>> \in Seq(Nat) /\ <<Hello>> \in Seq(Records) /\ Len(<<Hello>>) = 1 /\ <<Hello>>[1] = Hello
      /\ <<>> \o <<Hello>> = <<Hello>>
  BY RecordTypes
<1>2. Placed(<<>>, 0, <<Hello>>)
  BY <1>1, RecordTypes DEF Placed
<1> QED BY <1>1, <1>2, RequestedMeans, Zenon

\* The engine adds a request of netd_tls_send, or a record of its own.
LEMMA RequestedMore ==
  ASSUME NEW reqs \in Seq(Nat), NEW a \in Nat, NEW way \in Seq(Records), NEW x \in Records,
         Requested(reqs, a, way)
  PROVE  /\ x.kind # "request" => Requested(reqs, a, Append(way, x))
         /\ x = Rec("request", a + 1) => Requested(reqs, a + 1, Append(way, x))
<1> DEFINE w == Append(way, x)
           L == Len(way)
           N == Len(reqs)
           Asks(r) == r.kind = "request"
<1>1. /\ w \in Seq(Records) /\ Len(w) = L + 1 /\ w[L + 1] = x
      /\ \A i \in 1..L : w[i] = way[i]
  BY AppendProperties
<1>2. L \in Nat /\ N \in Nat
  OBVIOUS
<1>a. \A i \in 1..L : way[i].n \in Nat
  <2>1. \A i \in 1..L : way[i] \in Records
    OBVIOUS
  <2> QED BY <2>1, Zenon DEF Records
<1>3. Placed(reqs, a, way)
  BY RequestedMeans, Zenon
<1>4. (\A i \in 1..N : reqs[i] = i) /\ N <= a
  BY <1>3, Zenon DEF Placed
<1>5. \A i \in 1..L : Asks(way[i]) => way[i].n \in (N + 1)..a
  BY <1>3, Zenon DEF Placed
<1>6. \A m \in (N + 1)..a : \E i \in 1..L : Asks(way[i]) /\ way[i].n = m
  BY <1>3, Zenon DEF Placed
<1>7. \A i, j \in 1..L : i < j /\ Asks(way[i]) /\ Asks(way[j]) => way[i].n < way[j].n
  BY <1>3, Zenon DEF Placed
<1>8. ASSUME NEW b \in Nat,
             \A i \in 1..(L + 1) : Asks(w[i]) => w[i].n \in (N + 1)..b,
             \A m \in (N + 1)..b : \E i \in 1..(L + 1) : Asks(w[i]) /\ w[i].n = m,
             \A i, j \in 1..(L + 1) : i < j /\ Asks(w[i]) /\ Asks(w[j]) => w[i].n < w[j].n,
             N <= b
      PROVE  Requested(reqs, b, w)
  <2>1. Placed(reqs, b, w)
    BY <1>1, <1>4, <1>8, Zenon DEF Placed
  <2> QED BY <1>1, <2>1, RequestedMeans, Zenon
<1> HIDE DEF w, L, N
<1>9. ASSUME x.kind # "request" PROVE Requested(reqs, a, w)
  <2>1. ~ Asks(w[L + 1])
    BY <1>1, <1>9, Zenon
  <2>2. \A i \in 1..(L + 1) : i = L + 1 \/ i \in 1..L
    BY <1>2
  <2> HIDE DEF Asks
  <2>3. \A i \in 1..(L + 1) : Asks(w[i]) => w[i].n \in (N + 1)..a
    BY <1>1, <1>5, <2>1, <2>2, Zenon
  <2>4. \A m \in (N + 1)..a : \E i \in 1..(L + 1) : Asks(w[i]) /\ w[i].n = m
    <3>1. 1..L \subseteq 1..(L + 1)
      BY <1>2
    <3> QED BY <1>1, <1>6, <3>1, Zenon
  <2>5. \A i, j \in 1..(L + 1) : i < j /\ Asks(w[i]) /\ Asks(w[j]) => w[i].n < w[j].n
    BY <1>1, <1>7, <2>1, <2>2, Zenon
  <2> QED BY <1>4, <1>8, <2>3, <2>4, <2>5, Zenon
<1>10. ASSUME x = Rec("request", a + 1) PROVE Requested(reqs, a + 1, w)
  <2>1. w[L + 1].n = a + 1 /\ Asks(w[L + 1])
    BY <1>1, <1>10 DEF Rec
  <2>2. \A i \in 1..(L + 1) : i = L + 1 \/ i \in 1..L
    BY <1>2
  <2> HIDE DEF Asks
  <2>3. \A i \in 1..(L + 1) : Asks(w[i]) => w[i].n \in (N + 1)..(a + 1)
    <3>1. a + 1 \in (N + 1)..(a + 1)
      BY <1>2, <1>4
    <3>2. \A i \in 1..L : Asks(way[i]) => way[i].n \in (N + 1)..(a + 1)
      BY <1>2, <1>5
    <3> QED BY <1>1, <2>1, <2>2, <3>1, <3>2, Zenon
  <2>4. \A m \in (N + 1)..(a + 1) : \E i \in 1..(L + 1) : Asks(w[i]) /\ w[i].n = m
    <3> SUFFICES ASSUME NEW m \in (N + 1)..(a + 1)
                 PROVE  \E i \in 1..(L + 1) : Asks(w[i]) /\ w[i].n = m
      BY Zenon
    <3>1. CASE m = a + 1
      <4>1. L + 1 \in 1..(L + 1)
        BY <1>2
      <4> QED BY <2>1, <3>1, <4>1, Zenon
    <3>2. CASE m # a + 1
      <4>0. m \in (N + 1)..a
        BY <1>2, <3>2
      <4>1. PICK i \in 1..L : Asks(way[i]) /\ way[i].n = m
        BY <1>6, <4>0, Zenon
      <4>2. i \in 1..(L + 1)
        BY <1>2
      <4> QED BY <1>1, <4>1, <4>2, Zenon
    <3> QED BY <3>1, <3>2, Zenon
  <2>5. \A i, j \in 1..(L + 1) : i < j /\ Asks(w[i]) /\ Asks(w[j]) => w[i].n < w[j].n
    <3> SUFFICES ASSUME NEW i \in 1..(L + 1), NEW j \in 1..(L + 1), i < j, Asks(w[i]), Asks(w[j])
                 PROVE  w[i].n < w[j].n
      BY Zenon
    <3>1. i \in 1..L
      BY <1>2
    <3>2. CASE j = L + 1
      <4>1. w[i] = way[i] /\ way[i].n \in (N + 1)..a
        BY <1>1, <1>5, <3>1, Zenon
      <4>2. w[j].n = a + 1
        BY <2>1, <3>2, Zenon
      <4> QED BY <1>2, <4>1, <4>2
    <3>3. CASE j \in 1..L
      BY <1>1, <1>7, <3>1, <3>3, Zenon
    <3> QED BY <2>2, <3>2, <3>3, Zenon
  <2>6. a + 1 \in Nat /\ N <= a + 1
    BY <1>2, <1>4
  <2> QED BY <1>8, <2>3, <2>4, <2>5, <2>6, Zenon
<1> QED BY <1>9, <1>10, Zenon DEF w

\* The peer takes the first record: if it is a request it is the next one.
LEMMA RequestedLess ==
  ASSUME NEW reqs \in Seq(Nat), NEW a \in Nat, NEW way \in Seq(Records), way # <<>>,
         Requested(reqs, a, way)
  PROVE  /\ Head(way).kind # "request" => Requested(reqs, a, Tail(way))
         /\ Head(way).kind = "request" => Requested(Append(reqs, Head(way).n), a, Tail(way))
<1> DEFINE w == Tail(way)
           L == Len(w)
           N == Len(reqs)
           Asks(r) == r.kind = "request"
<1>1. /\ w \in Seq(Records) /\ Len(way) = L + 1 /\ Head(way) = way[1]
      /\ \A i \in 1..L : w[i] = way[i + 1]
  BY HeadTailProperties
<1>2. L \in Nat /\ N \in Nat
  BY <1>1
<1>a. \A i \in 1..(L + 1) : way[i].n \in Nat
  <2>1. \A i \in 1..(L + 1) : way[i] \in Records
    BY <1>1
  <2> QED BY <2>1, Zenon DEF Records
<1>3. Placed(reqs, a, way)
  BY RequestedMeans, Zenon
<1>4. (\A i \in 1..N : reqs[i] = i) /\ N <= a
  BY <1>3, Zenon DEF Placed
<1>5. \A i \in 1..(L + 1) : Asks(way[i]) => way[i].n \in (N + 1)..a
  BY <1>1, <1>3, Zenon DEF Placed
<1>6. \A m \in (N + 1)..a : \E i \in 1..(L + 1) : Asks(way[i]) /\ way[i].n = m
  BY <1>1, <1>3, Zenon DEF Placed
<1>7. \A i, j \in 1..(L + 1) : i < j /\ Asks(way[i]) /\ Asks(way[j]) => way[i].n < way[j].n
  BY <1>1, <1>3, Zenon DEF Placed
<1>8. ASSUME NEW q \in Seq(Nat), \A i \in 1..Len(q) : q[i] = i, Len(q) <= a,
             \A i \in 1..L : Asks(w[i]) => w[i].n \in (Len(q) + 1)..a,
             \A m \in (Len(q) + 1)..a : \E i \in 1..L : Asks(w[i]) /\ w[i].n = m,
             \A i, j \in 1..L : i < j /\ Asks(w[i]) /\ Asks(w[j]) => w[i].n < w[j].n
      PROVE  Requested(q, a, w)
  <2>1. Placed(q, a, w)
    BY <1>8, Zenon DEF Placed
  <2> QED BY <1>1, <2>1, RequestedMeans, Zenon
<1> HIDE DEF w, L
<1>9. \A i \in 1..L : i + 1 \in 1..(L + 1) /\ way[i + 1] = w[i] /\ w[i].n \in Nat
  BY <1>1, <1>2, <1>a
<1>10. \A i \in 1..(L + 1) : i = 1 \/ (i - 1 \in 1..L /\ way[i] = w[i - 1])
  BY <1>1, <1>2
<1> HIDE DEF Asks
<1>11. \A i, j \in 1..L : i < j /\ Asks(w[i]) /\ Asks(w[j]) => w[i].n < w[j].n
  <2> SUFFICES ASSUME NEW i \in 1..L, NEW j \in 1..L, i < j, Asks(w[i]), Asks(w[j])
               PROVE  w[i].n < w[j].n
    BY Zenon
  <2>1. i + 1 < j + 1
    BY <1>2
  <2> QED BY <1>7, <1>9, <2>1, Zenon
<1>12. ASSUME ~ Asks(way[1]) PROVE Requested(reqs, a, w)
  <2>1. \A i \in 1..L : Asks(w[i]) => w[i].n \in (N + 1)..a
    BY <1>5, <1>9, Zenon
  <2>2. \A m \in (N + 1)..a : \E i \in 1..L : Asks(w[i]) /\ w[i].n = m
    <3> SUFFICES ASSUME NEW m \in (N + 1)..a PROVE \E i \in 1..L : Asks(w[i]) /\ w[i].n = m
      BY Zenon
    <3>1. PICK i \in 1..(L + 1) : Asks(way[i]) /\ way[i].n = m
      BY <1>6, Zenon
    <3>2. i - 1 \in 1..L /\ way[i] = w[i - 1]
      BY <1>10, <1>12, <3>1, Zenon
    <3> QED BY <3>1, <3>2, Zenon
  <2> QED BY <1>4, <1>8, <1>11, <2>1, <2>2, Zenon
<1>13. ASSUME Asks(way[1]) PROVE Requested(Append(reqs, way[1].n), a, w)
  <2>1. 1 \in 1..(L + 1) /\ way[1].n \in (N + 1)..a
    BY <1>2, <1>5, <1>13
  <2> HIDE DEF N
  <2>2. way[1].n = N + 1
    <3>0. N + 1 \in (N + 1)..a
      BY <1>2, <2>1
    <3>1. PICK i \in 1..(L + 1) : Asks(way[i]) /\ way[i].n = N + 1
      BY <1>6, <3>0, Zenon
    <3>2. i # 1 => way[1].n < way[i].n
      BY <1>2, <1>7, <1>13, <2>1, <3>1
    <3> QED BY <1>2, <2>1, <3>1, <3>2
  <2> DEFINE q == Append(reqs, way[1].n)
  <2>3. /\ q \in Seq(Nat) /\ Len(q) = N + 1 /\ q[N + 1] = N + 1
        /\ \A i \in 1..N : q[i] = reqs[i]
    BY <1>2, <2>2, AppendProperties DEF N
  <2> HIDE DEF q
  <2>4. (\A i \in 1..Len(q) : q[i] = i) /\ Len(q) <= a
    <3>1. N + 1 <= a
      BY <1>2, <2>1, <2>2
    <3>2. \A i \in 1..(N + 1) : i = N + 1 \/ i \in 1..N
      BY <1>2
    <3> QED BY <1>4, <2>3, <3>1, <3>2, Zenon
  <2>5. \A i \in 1..L : Asks(w[i]) => w[i].n \in (Len(q) + 1)..a
    <3> SUFFICES ASSUME NEW i \in 1..L, Asks(w[i]) PROVE w[i].n \in (Len(q) + 1)..a
      BY Zenon
    <3>1. i + 1 \in 1..(L + 1) /\ 1 < i + 1 /\ Asks(way[i + 1])
      BY <1>2, <1>9
    <3>2. way[1].n < way[i + 1].n /\ way[i + 1].n \in (N + 1)..a
      BY <1>5, <1>7, <1>13, <2>1, <3>1, Zenon
    <3> QED BY <1>2, <1>9, <2>2, <2>3, <3>2
  <2>6. \A m \in (Len(q) + 1)..a : \E i \in 1..L : Asks(w[i]) /\ w[i].n = m
    <3> SUFFICES ASSUME NEW m \in (Len(q) + 1)..a PROVE \E i \in 1..L : Asks(w[i]) /\ w[i].n = m
      BY Zenon
    <3>1. m \in (N + 1)..a /\ m # N + 1
      BY <1>2, <2>3
    <3>2. PICK i \in 1..(L + 1) : Asks(way[i]) /\ way[i].n = m
      BY <1>6, <3>1, Zenon
    <3>3. i # 1
      BY <2>2, <3>1, <3>2, Zenon
    <3> QED BY <1>10, <3>2, <3>3, Zenon
  <2> QED BY <1>8, <1>11, <2>3, <2>4, <2>5, <2>6, Zenon DEF q
<1> QED BY <1>1, <1>12, <1>13, Zenon DEF w, Asks

\* The way of a request is the socket and then the engine: what the engine adds
\* comes last, what the peer takes comes first, and a write changes nothing.
LEMMA OnTheWay ==
  ASSUME NEW reqs \in Seq(Nat), NEW a \in Nat, NEW s \in Seq(Records), NEW t \in Seq(Records),
         Requested(reqs, a, s \o t)
  PROVE  /\ \A x \in Records : x.kind # "request" => Requested(reqs, a, s \o Append(t, x))
         /\ Requested(reqs, a + 1, s \o Append(t, Rec("request", a + 1)))
         /\ s # <<>> /\ Head(s).kind # "request" => Requested(reqs, a, Tail(s) \o t)
         /\ s # <<>> /\ Head(s).kind = "request" => Requested(Append(reqs, Head(s).n), a, Tail(s) \o t)
         /\ \A m \in 1..Len(t) : Requested(reqs, a, (s \o SubSeq(t, 1, m)) \o SubSeq(t, m + 1, Len(t)))
<1>1. s \o t \in Seq(Records)
  BY ConcatProperties, Zenon
<1>2. ASSUME NEW x \in Records
      PROVE  /\ x.kind # "request" => Requested(reqs, a, s \o Append(t, x))
             /\ x = Rec("request", a + 1) => Requested(reqs, a + 1, s \o Append(t, x))
  <2>1. s \o Append(t, x) = Append(s \o t, x)
    BY ConcatEnds
  <2> QED BY <1>1, <2>1, RequestedMore, Zenon
<1>3. Rec("request", a + 1) \in Records
  BY RecordTypes
<1>4. ASSUME s # <<>>
      PROVE  /\ Head(s).kind # "request" => Requested(reqs, a, Tail(s) \o t)
             /\ Head(s).kind = "request" => Requested(Append(reqs, Head(s).n), a, Tail(s) \o t)
  <2>1. s \o t # <<>> /\ Head(s \o t) = Head(s) /\ Tail(s) \o t = Tail(s \o t)
    BY <1>3, <1>4, ConcatEnds, Zenon
  <2> QED BY <1>1, <2>1, RequestedLess, Zenon
<1>5. ASSUME NEW m \in 1..Len(t)
      PROVE  Requested(reqs, a, (s \o SubSeq(t, 1, m)) \o SubSeq(t, m + 1, Len(t)))
  <2>1. (s \o SubSeq(t, 1, m)) \o SubSeq(t, m + 1, Len(t)) = s \o t
    BY MovePrefix, Zenon
  <2> QED BY <2>1, Zenon
<1> QED BY <1>2, <1>3, <1>4, <1>5, Zenon

\* The queue of records as the peer fills it.
LEMMA QueueGrows ==
  ASSUME NEW q \in Seq(Records), NEW lo \in Nat, NEW hi \in Nat, lo <= hi
  PROVE  /\ Queue(<<>>, lo, lo, FALSE) /\ Queue(<<Malformed>>, lo, lo, TRUE)
         /\ Queue(q, lo, hi, FALSE) => Queue(q, lo, hi, TRUE)
         /\ Queue(q, lo, hi, FALSE) => Queue(Append(q, Rec("data", hi + 1)), lo, hi + 1, FALSE)
         /\ Queue(q, lo, hi, FALSE) => Queue(Append(q, CloseNotify), lo, hi, TRUE)
         /\ Queue(q, lo, hi, FALSE) => Queue(Append(q, Malformed), lo, hi, TRUE)
<1>1. Queue(<<>>, lo, lo, FALSE) /\ Queue(<<Malformed>>, lo, lo, TRUE)
  BY DEF Queue
<1>2. Queue(q, lo, hi, FALSE) => Queue(q, lo, hi, TRUE)
  BY Zenon DEF Queue
<1>3. ASSUME NEW x \in Records
      PROVE  /\ Append(q, x) \in Seq(Records) /\ Len(Append(q, x)) = Len(q) + 1
             /\ Append(q, x)[Len(q) + 1] = x /\ \A i \in 1..Len(q) : Append(q, x)[i] = q[i]
  BY AppendProperties
<1>4. ASSUME Queue(q, lo, hi, FALSE)
      PROVE  Len(q) = hi - lo /\ \A i \in 1..Len(q) : q[i] = Rec("data", lo + i)
  BY <1>4, Zenon DEF Queue
<1>5. ASSUME Queue(q, lo, hi, FALSE), NEW x \in {CloseNotify, Malformed}
      PROVE  Queue(Append(q, x), lo, hi, TRUE)
  <2> DEFINE w == Append(q, x)
  <2>1. x \in Records
    BY RecordTypes
  <2>2. Len(w) = Len(q) + 1 /\ w[Len(q) + 1] = x /\ \A i \in 1..Len(q) : w[i] = q[i]
    BY <1>3, <2>1, Zenon
  <2> HIDE DEF w
  <2> QED BY <1>4, <1>5, <2>2, Zenon DEF Queue, w
<1>6. ASSUME Queue(q, lo, hi, FALSE)
      PROVE  Queue(Append(q, Rec("data", hi + 1)), lo, hi + 1, FALSE)
  <2> DEFINE w == Append(q, Rec("data", hi + 1))
  <2>1. Rec("data", hi + 1) \in Records
    BY RecordTypes
  <2>2. Len(w) = Len(q) + 1 /\ w[Len(q) + 1] = Rec("data", hi + 1) /\ \A i \in 1..Len(q) : w[i] = q[i]
    BY <1>3, <2>1, Zenon
  <2> HIDE DEF w
  <2>3. Len(w) = (hi + 1) - lo
    BY <1>4, <1>6, <2>2
  <2>4. \A i \in 1..((hi + 1) - lo) : w[i] = Rec("data", lo + i)
    <3> SUFFICES ASSUME NEW i \in 1..((hi + 1) - lo) PROVE w[i] = Rec("data", lo + i)
      BY Zenon
    <3>1. CASE i = Len(q) + 1
      <4>1. lo + i = hi + 1
        BY <1>4, <1>6, <3>1
      <4> QED BY <2>2, <3>1, <4>1, Zenon
    <3>2. CASE i # Len(q) + 1
      <4>1. i \in 1..Len(q)
        BY <1>4, <1>6, <3>2
      <4> QED BY <1>4, <1>6, <2>2, <4>1, Zenon
    <3> QED BY <3>1, <3>2, Zenon
  <2> QED BY <2>3, <2>4, Zenon DEF Queue, w
<1> QED BY <1>1, <1>2, <1>5, <1>6, Zenon

\* The queue of records as the engine empties it.
LEMMA QueueShrinks ==
  ASSUME NEW q \in Seq(Records), NEW lo \in Nat, NEW hi \in Nat, lo <= hi, NEW bye \in BOOLEAN,
         Queue(q, lo, hi, bye)
  PROVE  /\ q = <<>> => lo = hi
         /\ q # <<>> => Head(q) # Hello
         /\ q # <<>> /\ Head(q).kind = "data" =>
              lo + 1 <= hi /\ Head(q).n = lo + 1 /\ Queue(Tail(q), lo + 1, hi, bye)
         /\ q # <<>> /\ Head(q) = CloseNotify => lo = hi /\ bye /\ Tail(q) = <<>>
<1> DEFINE k == hi - lo
<1>1. k \in Nat /\ lo + k = hi /\ Len(q) \in Nat
  OBVIOUS
<1>2. Len(q) = k \/ (Len(q) = k + 1 /\ bye /\ q[k + 1] \in {CloseNotify, Malformed})
  BY <1>1, Zenon DEF Queue
<1>3. \A i \in 1..k : q[i] = Rec("data", lo + i)
  BY Zenon DEF Queue
<1> HIDE DEF k
<1>4. \A i \in 1..k : q[i].kind = "data" /\ q[i].n = lo + i
  <2>1. \A i \in 1..k : lo + i \in Nat
    BY <1>1
  <2> QED BY <1>3, <2>1, RecordTypes
<1>5. q = <<>> => lo = hi
  BY <1>1, <1>2
<1>6. ASSUME q # <<>>
      PROVE  /\ Head(q) # Hello
             /\ Head(q).kind = "data" =>
                  lo + 1 <= hi /\ Head(q).n = lo + 1 /\ Queue(Tail(q), lo + 1, hi, bye)
             /\ Head(q) = CloseNotify => lo = hi /\ bye /\ Tail(q) = <<>>
  <2>1. /\ Len(q) >= 1 /\ Head(q) = q[1] /\ Len(Tail(q)) = Len(q) - 1
        /\ \A i \in 1..Len(q) - 1 : Tail(q)[i] = q[i + 1]
    BY <1>1, <1>6, HeadTailProperties
  <2>2. CASE k = 0
    <3>1. Len(q) = 1 /\ bye /\ Head(q) \in {CloseNotify, Malformed}
      BY <1>1, <1>2, <2>1, <2>2
    <3>2. Head(q).kind \in {"close_notify", "malformed"}
      BY <3>1, RecordTypes, Zenon
    <3>3. Tail(q) = <<>>
      <4>1. Len(Tail(q)) = 0 /\ Tail(q) \in Seq(Records)
        BY <1>6, <2>1, <3>1, HeadTailProperties
      <4> QED BY <4>1, EmptySeq, Zenon
    <3>4. Head(q) # Hello /\ Head(q).kind # "data" /\ lo = hi
      BY <1>1, <2>2, <3>2, RecordTypes
    <3> QED BY <3>1, <3>3, <3>4, Zenon
  <2>3. CASE k > 0
    <3>1. Head(q).kind = "data" /\ Head(q).n = lo + 1
      BY <1>1, <1>4, <2>1, <2>3
    <3>2. Head(q) # Hello /\ Head(q) # CloseNotify
      BY <3>1, RecordTypes, Zenon
    <3>3. Queue(Tail(q), lo + 1, hi, bye)
      <4> DEFINE w == Tail(q)
      <4>1. Len(w) = Len(q) - 1 /\ \A i \in 1..Len(q) - 1 : w[i] = q[i + 1]
        BY <2>1, Zenon
      <4> HIDE DEF w
      <4>2. hi - (lo + 1) = k - 1
        BY <1>1
      <4>3. Len(w) = k - 1 \/ (bye /\ Len(w) = k - 1 + 1 /\ w[Len(w)] \in {CloseNotify, Malformed})
        <5>1. CASE Len(q) = k
          BY <4>1, <5>1, Zenon
        <5>2. CASE Len(q) = k + 1 /\ bye /\ q[k + 1] \in {CloseNotify, Malformed}
          <6>1. Len(w) = k /\ k \in 1..Len(q) - 1
            BY <1>1, <2>3, <4>1, <5>2
          <6>2. w[k] = q[k + 1]
            BY <4>1, <6>1, Zenon
          <6> QED BY <1>1, <5>2, <6>1, <6>2
        <5> QED BY <1>2, <5>1, <5>2, Zenon
      <4>4. \A i \in 1..(k - 1) : w[i] = Rec("data", (lo + 1) + i)
        <5> SUFFICES ASSUME NEW i \in 1..(k - 1) PROVE w[i] = Rec("data", (lo + 1) + i)
          BY Zenon
        <5>1. i + 1 \in 1..k /\ i \in 1..Len(q) - 1 /\ lo + (i + 1) = (lo + 1) + i
          BY <1>1, <1>2
        <5> QED BY <1>3, <4>1, <5>1, Zenon
      <4> QED BY <4>2, <4>3, <4>4, Zenon DEF Queue, w
    <3>4. lo + 1 <= hi
      BY <1>1, <2>3
    <3> QED BY <3>1, <3>2, <3>3, <3>4, Zenon
  <2> QED BY <1>1, <2>2, <2>3
<1> QED BY <1>5, <1>6, Zenon

\* What br_ssl_engine_recvrec_ack makes of a record, by its kind and the phase.
LEMMA AckCases ==
  ASSUME NEW e \in Engines, NEW r \in Records, NEW e2 \in recvrec_ack(e, r), e.phase # "closed"
  PROVE  \/ /\ r = Hello /\ e.phase = "handshake"
            /\ e2 = [e EXCEPT !.phase = "open", !.out = Append(@, Finished)]
         \/ /\ r.kind = "data" /\ e.phase = "open"
            /\ e2 = [e EXCEPT !.app = <<r.n>>]
         \/ r = CloseNotify /\ e.phase = "open" /\ \E w \in {"none", "flush"} : e2 = closure(e, w)
         \/ e.phase = "closing"
         \/ e2 = engine_fail(e)
BY RecordTypes, Zenon DEF recvrec_ack

-----------------------------------------------------------------------------
(* Each step of the pump, of netd_tls_send and of the peer keeps the records *)
(* of its connection accounted for.                                          *)

\* A connection whose engine has been reset and whose peer has done nothing.
LEMMA CarriedFirst == client_reset \in Engines /\ NoNet \in Nets /\ Carried(NoNet, 0, 0, client_reset)
<1>1. NoEngine \in Engines /\ <<Hello>> \in Seq(Records)
  BY RecordTypes DEF NoEngine, Engines
<1>2. /\ client_reset \in Engines
      /\ client_reset.phase = "handshake" /\ client_reset.out = <<Hello>>
      /\ client_reset.app = <<>> /\ ~ client_reset.err
  BY <1>1, Zenon DEF client_reset, NoEngine, Engines
<1>3. NoNet \in Nets
  BY DEF NoNet, Nets
<1>4. Greeting(NoNet.rx, NoNet.tx, client_reset.out, NoNet.bye)
  BY <1>2, Zenon DEF Greeting, NoNet
<1>5. Requested(NoNet.reqs, 0, NoNet.tx \o client_reset.out)
  BY <1>2, RequestedFirst, Zenon DEF NoNet
<1>6. NoNet.sent = 0 /\ ~ NoNet.ready /\ Had(0, client_reset) = 0
  BY <1>2, Zenon DEF NoNet, Had
<1> QED BY <1>2, <1>3, <1>4, <1>5, <1>6 DEF Carried, Ending

\* A closure, on the end of a stream or on a close_notify that comes last: nothing
\* more is to be delivered.
LEMMA CarriedClose ==
  ASSUME NEW n \in Nets, NEW r \in Nat, NEW a \in Nat, NEW e \in Engines, NEW e2,
         IF e.phase = "closing" THEN e2 = e ELSE \E w \in {"none", "flush", "notify"} : e2 = closure(e, w),
         e.phase # "closed", e.app = <<>>, ~ e.err,
         n.rx = <<>>, n.fin \/ n.bye, n.sent = r,
         ~ n.rst => Requested(n.reqs, a, n.tx \o e.out)
  PROVE  e2 \in Engines /\ Carried(n, r, a, e2)
<1>1. CASE e.phase = "closing"
  BY <1>1 DEF Carried, Ending, Nets, Had
<1>2. CASE e.phase # "closing"
  <2>1. PICK w \in {"none", "flush", "notify"} : e2 = closure(e, w)
    BY <1>2, Zenon
  <2>a. Append(e.out, CloseNotify) \in Seq(Records)
    BY RecordTypes, AppendProperties, Zenon DEF Engines
  <2>2. /\ e2 \in Engines /\ e2.phase = "closing" /\ e2.app = <<>> /\ e2.err = e.err
        /\ e2.out = Append(e.out, CloseNotify)
    BY <2>1, <2>a, Zenon DEF Engines, closure
  <2>3. ~ n.rst => Requested(n.reqs, a, n.tx \o e2.out)
    <3>1. /\ n.tx \in Seq(Records) /\ e.out \in Seq(Records) /\ n.reqs \in Seq(Nat)
          /\ CloseNotify \in Records /\ CloseNotify.kind # "request"
      BY RecordTypes, Zenon DEF Nets, Engines
    <3> QED BY <2>2, <3>1, OnTheWay, Zenon
  <2> QED BY <2>2, <2>3 DEF Carried, Ending, Nets, Had
<1> QED BY <1>1, <1>2, Zenon

\* STEP 1 with a record: the engine gets the next one, and what it makes of it
\* neither skips nor repeats any.
LEMMA CarriedFeed ==
  ASSUME NEW n \in Nets, NEW r \in Nat, NEW a \in Nat, NEW e \in Engines, Carried(n, r, a, e),
         e.phase # "closed", e.app = <<>>, ~ n.rst, n.rx # <<>>,
         NEW e2 \in recvrec_ack(e, Head(n.rx))
  PROVE  e2 \in Engines /\ Carried([n EXCEPT !.rx = Tail(@)], r, a, e2)
<1> DEFINE x == Head(n.rx)
           n2 == [n EXCEPT !.rx = Tail(@)]
<1>1. n.rx \in Seq(Records) /\ n.tx \in Seq(Records) /\ e.out \in Seq(Records) /\ n.reqs \in Seq(Nat)
      /\ n.sent \in Nat /\ n.bye \in BOOLEAN
  BY Zenon DEF Nets, Engines
<1>2. x \in Records /\ Tail(n.rx) \in Seq(Records)
  BY <1>1, HeadTailProperties, Zenon
<1>3. /\ n2 \in Nets /\ n2.rx = Tail(n.rx) /\ n2.tx = n.tx /\ n2.reqs = n.reqs /\ n2.rst = n.rst
      /\ n2.sent = n.sent /\ n2.fin = n.fin /\ n2.bye = n.bye /\ n2.ready = n.ready
  BY <1>2, Zenon DEF Nets
<1>4. /\ ~ e.err /\ Requested(n.reqs, a, n.tx \o e.out) /\ r <= n.sent
      /\ e.phase \in {"handshake", "open"}
      /\ e.phase = "handshake" => n.sent = 0 /\ Greeting(n.rx, n.tx, e.out, n.bye)
      /\ e.phase = "open" => /\ \A i \in 1..Len(e.out) : e.out[i] # Hello
                             /\ \A i \in 1..Len(n.tx) : n.tx[i] # Hello
                             /\ Queue(n.rx, r, n.sent, n.bye)
  BY <1>1, Zenon DEF Carried, Ending, Engines, Had
<1> SUFFICES e2 \in Engines /\ Carried(n2, r, a, e2)
  BY Zenon
<1> HIDE DEF n2, x
<1>5. CASE e2 = engine_fail(e)
  <2>1. e2 \in Engines /\ e2.phase = "closed" /\ e2.err = TRUE /\ e2.app = <<>> /\ e2.out = e.out
    BY <1>5, Zenon DEF engine_fail, Engines
  <2> QED BY <1>3, <1>4, <2>1, Zenon DEF Carried, Ending, Had
<1>6. CASE x = Hello /\ e.phase = "handshake" /\ e2 = [e EXCEPT !.phase = "open", !.out = Append(@, Finished)]
  <2>1. Finished \in Records /\ Finished.kind # "request" /\ Finished # Hello /\ Malformed # Hello
    BY RecordTypes, Zenon
  <2>2. x = Hello /\ n.sent = 0 /\ Greeting(n.rx, n.tx, e.out, n.bye)
    BY <1>4, <1>6, Zenon
  <2>3. n.rx = <<Hello>> \/ n.rx = <<Hello, Malformed>>
    <3>1. n.rx \in {<<Malformed>>, <<Hello>>, <<Hello, Malformed>>}
      BY <2>2, Zenon DEF Greeting
    <3>2. n.rx[1] = Hello
      BY <1>1, <2>2, HeadTailProperties DEF x
    <3> QED BY <2>1, <3>1, <3>2
  <2>4. e.out = <<>> /\ n.tx = <<>> /\ (n.rx = <<Hello, Malformed>> => n.bye)
    <3>1. n.rx # <<Malformed>>
      BY <2>1, <2>3
    <3> QED BY <2>2, <3>1, Zenon DEF Greeting
  <2>5. <<Finished>> \in Seq(Records) /\ Append(e.out, Finished) = <<Finished>>
    BY <2>1, <2>4, ShortSeqs
  <2>6. e2 \in Engines /\ e2.phase = "open" /\ e2.err = e.err /\ e2.app = <<>> /\ e2.out = <<Finished>>
    BY <1>6, <2>5, Zenon DEF Engines
  <2>7. r = 0 /\ Had(r, e2) = 0 /\ n2.sent = 0 /\ ~ e2.err
    BY <1>3, <1>4, <2>2, <2>6 DEF Had
  <2>8. Queue(n2.rx, 0, 0, n2.bye)
    <3>1. Queue(<<>>, 0, 0, n2.bye) /\ Queue(<<Malformed>>, 0, 0, TRUE)
      BY DEF Queue
    <3>2. n2.rx = <<>> \/ (n2.rx = <<Malformed>> /\ n2.bye = TRUE)
      BY <1>1, <1>3, <2>3, <2>4, ShortSeqs, Zenon
    <3> QED BY <3>1, <3>2, Zenon
  <2>9. Requested(n2.reqs, a, n2.tx \o e2.out)
    <3>1. Requested(n.reqs, a, n.tx \o Append(e.out, Finished))
      BY <1>1, <1>4, <2>1, OnTheWay, Zenon
    <3> QED BY <1>3, <2>5, <2>6, <3>1, Zenon
  <2>10. \A i \in 1..Len(e2.out) : e2.out[i] # Hello
    BY <2>1, <2>6
  <2>11. \A i \in 1..Len(n2.tx) : n2.tx[i] # Hello
    BY <1>3, <2>4
  <2> QED BY <2>6, <2>7, <2>8, <2>9, <2>10, <2>11 DEF Carried, Ending
<1>7. CASE x.kind = "data" /\ e.phase = "open" /\ e2 = [e EXCEPT !.app = <<x.n>>]
  <2>1. x.kind = "data" /\ Queue(n.rx, r, n.sent, n.bye)
    BY <1>4, <1>7, Zenon
  <2>2. r + 1 <= n.sent /\ x.n = r + 1 /\ Queue(Tail(n.rx), r + 1, n.sent, n.bye)
    <3>1. Queue(n.rx, r, n.sent, n.bye) /\ r <= n.sent /\ n.rx # <<>> /\ Head(n.rx).kind = "data"
      BY <1>4, <2>1, Zenon DEF x
    <3>2. /\ r + 1 <= n.sent /\ Head(n.rx).n = r + 1
          /\ Queue(Tail(n.rx), r + 1, n.sent, n.bye)
      BY <1>1, <3>1, QueueShrinks
    <3> QED BY <3>2, Zenon DEF x
  <2>3. <<x.n>> \in Seq(Nat)
    BY <2>2
  <2>4. e2 \in Engines /\ e2.phase = "open" /\ e2.err = e.err /\ e2.app = <<r + 1>> /\ e2.out = e.out
    BY <1>7, <2>2, <2>3, Zenon DEF Engines
  <2>5. Had(r, e2) = r + 1
    BY <2>4 DEF Had
  <2>6. ~ e2.err /\ Had(r, e2) <= n2.sent /\ Requested(n2.reqs, a, n2.tx \o e2.out)
        /\ Queue(n2.rx, Had(r, e2), n2.sent, n2.bye)
    BY <1>3, <1>4, <2>2, <2>4, <2>5, Zenon
  <2>7. (\A i \in 1..Len(e2.out) : e2.out[i] # Hello) /\ (\A i \in 1..Len(n2.tx) : n2.tx[i] # Hello)
    BY <1>3, <1>4, <1>7, <2>4, Zenon
  <2> QED BY <2>4, <2>6, <2>7, Zenon DEF Carried, Ending
<1>8. CASE x = CloseNotify /\ e.phase = "open" /\ \E w \in {"none", "flush"} : e2 = closure(e, w)
  <2>1. x = CloseNotify /\ Queue(n.rx, r, n.sent, n.bye)
    BY <1>4, <1>8, Zenon
  <2>2. r = n.sent /\ n.bye /\ Tail(n.rx) = <<>>
    BY <1>1, <1>4, <2>1, QueueShrinks DEF x
  <2>3. n2.rx = <<>> /\ n2.sent = r /\ (n2.fin \/ n2.bye)
    BY <1>3, <2>2, Zenon
  <2>4. ~ n2.rst => Requested(n2.reqs, a, n2.tx \o e.out)
    BY <1>3, <1>4, Zenon
  <2> QED BY <1>3, <1>4, <1>8, <2>3, <2>4, CarriedClose, Zenon
<1> QED BY <1>2, <1>4, <1>5, <1>6, <1>7, <1>8, AckCases, Zenon DEF x

\* STEP 1 at the end of the stream: there is no record left to read.
LEMMA CarriedEof ==
  ASSUME NEW n \in Nets, NEW r \in Nat, NEW a \in Nat, NEW e \in Engines, Carried(n, r, a, e),
         e.phase # "closed", e.app = <<>>, ~ n.rst, n.rx = <<>>, n.fin
  PROVE  engine_close(e) \in Engines /\ Carried(n, r, a, engine_close(e))
<1>1. n.sent \in Nat /\ n.bye \in BOOLEAN /\ n.rx \in Seq(Records)
  BY Zenon DEF Nets
<1>2. /\ ~ e.err /\ Requested(n.reqs, a, n.tx \o e.out) /\ r <= n.sent
      /\ e.phase = "handshake" => n.sent = 0
      /\ e.phase = "open" => Queue(n.rx, r, n.sent, n.bye)
      /\ e.phase = "closing" => n.sent = r
  BY Zenon DEF Carried, Ending, Had
<1>a. e.phase \in {"handshake", "open", "closing"}
  BY Zenon DEF Engines
<1>3. n.sent = r
  <2>1. CASE e.phase = "open"
    <3>1. Queue(n.rx, r, n.sent, n.bye)
      BY <1>2, <2>1, Zenon
    <3>2. Len(n.rx) = 0
      OBVIOUS
    <3> QED BY <1>1, <1>2, <3>1, <3>2 DEF Queue
  <2>2. CASE e.phase # "open"
    BY <1>1, <1>2, <1>a, <2>2
  <2> QED BY <2>1, <2>2, Zenon
<1>4. IF e.phase = "closing" THEN engine_close(e) = e
      ELSE \E w \in {"none", "flush", "notify"} : engine_close(e) = closure(e, w)
  BY Zenon DEF engine_close
<1> QED BY <1>2, <1>3, <1>4, CarriedClose, Zenon

\* STEP 2: the records that the socket takes leave the engine for the socket.
LEMMA CarriedFlush ==
  ASSUME NEW n \in Nets, NEW r \in Nat, NEW a \in Nat, NEW e \in Engines, Carried(n, r, a, e),
         e.phase # "closed", NEW m \in 1..Len(e.out)
  PROVE  /\ [n EXCEPT !.tx = @ \o SubSeq(e.out, 1, m)] \in Nets
         /\ sendrec_ack(e, m) \in Engines
         /\ Carried([n EXCEPT !.tx = @ \o SubSeq(e.out, 1, m)], r, a, sendrec_ack(e, m))
<1> DEFINE n2 == [n EXCEPT !.tx = @ \o SubSeq(e.out, 1, m)]
           e2 == sendrec_ack(e, m)
<1>1. n.tx \in Seq(Records) /\ e.out \in Seq(Records)
  BY Zenon DEF Nets, Engines
<1>2. /\ n.tx \o SubSeq(e.out, 1, m) \in Seq(Records)
      /\ SubSeq(e.out, m + 1, Len(e.out)) \in Seq(Records)
      /\ (n.tx \o SubSeq(e.out, 1, m)) \o SubSeq(e.out, m + 1, Len(e.out)) = n.tx \o e.out
  BY <1>1, MovePrefix, Zenon
<1>3. /\ n2 \in Nets /\ n2.tx = n.tx \o SubSeq(e.out, 1, m) /\ n2.rx = n.rx /\ n2.reqs = n.reqs
      /\ n2.rst = n.rst /\ n2.sent = n.sent /\ n2.fin = n.fin /\ n2.bye = n.bye /\ n2.ready = n.ready
  BY <1>2, Zenon DEF Nets
<1>4. /\ e2 \in Engines /\ e2.out = SubSeq(e.out, m + 1, Len(e.out)) /\ e2.app = e.app /\ e2.err = e.err
      /\ e2.phase = e.phase \/ (e.phase = "closing" /\ e2.phase = "closed")
  BY <1>2, Zenon DEF Engines, sendrec_ack
<1> SUFFICES n2 \in Nets /\ e2 \in Engines /\ Carried(n2, r, a, e2)
  BY Zenon
<1> HIDE DEF n2, e2
<1>5. ~ n2.rst => Requested(n2.reqs, a, n2.tx \o e2.out)
  BY <1>2, <1>3, <1>4, Zenon DEF Carried
<1>6. /\ e2.app = <<>> \/ (e2.app = <<r + 1>> /\ e2.phase = "open")
      /\ Had(r, e2) = Had(r, e) /\ Had(r, e2) <= n2.sent /\ ~ e.err
  BY <1>3, <1>4, Zenon DEF Carried, Had
<1>7. CASE e.phase = "closing"
  BY <1>3, <1>4, <1>5, <1>6, <1>7 DEF Carried, Ending
<1>8. CASE e.phase = "open"
  <2>1. /\ \A i \in 1..Len(e.out) : e.out[i] # Hello
        /\ \A i \in 1..Len(n.tx) : n.tx[i] # Hello
        /\ ~ n.rst => Queue(n.rx, Had(r, e), n.sent, n.bye)
    BY <1>8, Zenon DEF Carried
  <2>2. \A i \in 1..Len(e2.out) : e2.out[i] # Hello
    <3>1. \A i \in 1..(Len(e.out) - m) : e2.out[i] = e.out[m + i] /\ m + i \in 1..Len(e.out)
      BY <1>1, <1>4
    <3>2. Len(e2.out) = Len(e.out) - m
      BY <1>1, <1>4
    <3> QED BY <2>1, <3>1, <3>2, Zenon
  <2>3. \A i \in 1..Len(n2.tx) : n2.tx[i] # Hello
    <3> DEFINE u == SubSeq(e.out, 1, m)
    <3>1. Len(u) = m /\ \A i \in 1..m : u[i] = e.out[i]
      BY <1>1
    <3>2. u \in Seq(Records)
      BY <1>1, SubSeqProperties, ElementOfSeq
    <3>a. n2.tx = n.tx \o u
      BY <1>3, Zenon
    <3> HIDE DEF u
    <3>3. \A i \in 1..Len(u) : u[i] # Hello
      BY <1>1, <2>1, <3>1
    <3>4. Len(n2.tx) = Len(n.tx) + Len(u)
          /\ \A i \in 1..Len(n2.tx) : n2.tx[i] = IF i <= Len(n.tx) THEN n.tx[i] ELSE u[i - Len(n.tx)]
      BY <1>1, <3>2, <3>a, ConcatProperties
    <3>5. Len(n.tx) \in Nat /\ Len(u) \in Nat
      BY <1>1, <3>2
    <3> QED
      <4> SUFFICES ASSUME NEW i \in 1..Len(n2.tx) PROVE n2.tx[i] # Hello
        BY Zenon
      <4>1. CASE i <= Len(n.tx)
        <5>1. i \in 1..Len(n.tx)
          BY <3>5, <4>1
        <5> QED BY <2>1, <3>4, <4>1, <5>1, Zenon
      <4>2. CASE ~ (i <= Len(n.tx))
        <5>1. i - Len(n.tx) \in 1..Len(u)
          BY <3>4, <3>5, <4>2
        <5> QED BY <3>3, <3>4, <4>2, <5>1, Zenon
      <4> QED BY <4>1, <4>2, Zenon
  <2>4. e2.phase = "open" /\ ~ e2.err /\ (~ n2.rst => Queue(n2.rx, Had(r, e2), n2.sent, n2.bye))
    BY <1>3, <1>4, <1>6, <1>8, <2>1, Zenon
  <2> QED BY <1>3, <1>4, <1>5, <1>6, <2>2, <2>3, <2>4, Zenon DEF Carried, Ending
<1>9. CASE e.phase = "handshake"
  <2>1. n.sent = 0 /\ ~ n.ready /\ Greeting(n.rx, n.tx, e.out, n.bye)
    BY <1>9, Zenon DEF Carried
  <2>2. n.rx \in {<<>>, <<Malformed>>} /\ n.tx = <<>> /\ e.out = <<Hello>>
    <3>1. e.out # <<>>
      BY <1>1
    <3> QED BY <2>1, <3>1, Zenon DEF Greeting
  <2>3. m = 1 /\ SubSeq(e.out, 1, m) = <<Hello>> /\ SubSeq(e.out, m + 1, Len(e.out)) = <<>>
    <3>1. Len(e.out) = 1 /\ Len(<<Hello>>) = 1
      BY <2>2, Zenon
    <3>2. m = 1
      BY <3>1
    <3>3. m + 1 = 2
      BY <3>2
    <3>4. SubSeq(e.out, 1, Len(e.out)) = e.out /\ SubSeq(e.out, 2, 1) = <<>>
      BY <1>1, SubSeqFull, SubSeqEmpty
    <3> QED BY <2>2, <3>1, <3>2, <3>3, <3>4, Zenon
  <2>4. n2.tx = <<Hello>> /\ e2.out = <<>>
    BY <1>3, <1>4, <2>2, <2>3
  <2>5. Greeting(n2.rx, n2.tx, e2.out, n2.bye)
    BY <1>3, <2>1, <2>2, <2>4, Zenon DEF Greeting
  <2>6. e2.phase = "handshake" /\ ~ e2.err
    BY <1>4, <1>6, <1>9, Zenon
  <2> QED BY <1>3, <1>4, <1>5, <1>6, <2>1, <2>5, <2>6, Zenon DEF Carried, Ending
<1> QED BY <1>7, <1>8, <1>9, Zenon DEF Engines

\* STEP 3: the tab gets the one record that the engine has.
LEMMA CarriedPush ==
  ASSUME NEW n \in Nets, NEW r \in Nat, NEW a \in Nat, NEW e \in Engines, Carried(n, r, a, e),
         e.app # <<>>
  PROVE  /\ e.app = <<r + 1>> /\ e.phase = "open"
         /\ recvapp_ack(e) \in Engines /\ Carried(n, r + 1, a, recvapp_ack(e))
<1> DEFINE e2 == recvapp_ack(e)
<1>1. e.app = <<r + 1>> /\ e.phase = "open" /\ ~ e.err
  BY Zenon DEF Carried
<1>2. e2 \in Engines /\ e2.phase = e.phase /\ e2.err = e.err /\ e2.out = e.out /\ e2.app = <<>>
  <2>1. <<>> \in Seq(Nat)
    OBVIOUS
  <2>2. e2 = [e EXCEPT !.app = <<>>]
    BY Zenon DEF recvapp_ack
  <2> HIDE DEF e2
  <2> QED BY <2>1, <2>2, Zenon DEF Engines
<1> HIDE DEF e2
<1>3. Had(r + 1, e2) = Had(r, e)
  <2>1. Had(r + 1, e2) = r + 1
    BY <1>2, Zenon DEF Had
  <2>2. Had(r, e) = r + 1
    BY Zenon DEF Had
  <2> QED BY <2>1, <2>2, Zenon
<1>4. Carried(n, r + 1, a, e2)
  BY <1>1, <1>2, <1>3, Zenon DEF Carried, Ending
<1> QED BY <1>1, <1>2, <1>4, Zenon DEF e2

\* br_ssl_engine_sendapp_ack: the request that netd_tls_send has put in.
LEMMA CarriedSend ==
  ASSUME NEW n \in Nets, NEW r \in Nat, NEW a \in Nat, NEW e \in Engines, Carried(n, r, a, e),
         e.phase = "open", e.out = <<>>
  PROVE  /\ sendapp_ack(e, Rec("request", a + 1)) \in Engines
         /\ Carried(n, r, a + 1, sendapp_ack(e, Rec("request", a + 1)))
<1> DEFINE x == Rec("request", a + 1)
           e2 == sendapp_ack(e, x)
<1>1. x \in Records /\ x # Hello /\ x.kind = "request"
  BY RecordTypes
<1>2. n.tx \in Seq(Records) /\ e.out \in Seq(Records) /\ n.reqs \in Seq(Nat)
  BY Zenon DEF Nets, Engines
<1>3. ~ n.rst => Requested(n.reqs, a + 1, n.tx \o Append(e.out, x))
  BY <1>2, OnTheWay, Zenon DEF Carried
<1> HIDE DEF x
<1>4. Append(e.out, x) \in Seq(Records) /\ Append(e.out, x) = <<x>>
  BY <1>1, <1>2, ShortSeqs, AppendProperties, Zenon
<1>5. /\ e2 \in Engines /\ e2.phase = e.phase /\ e2.err = e.err /\ e2.app = e.app
      /\ e2.out = Append(e.out, x)
  BY <1>4, Zenon DEF Engines, sendapp_ack
<1> HIDE DEF e2
<1>6. \A i \in 1..Len(e2.out) : e2.out[i] # Hello
  <2>1. e2.out = <<x>>
    BY <1>4, <1>5, Zenon
  <2> QED BY <1>1, <2>1
<1>7. Had(r, e2) = Had(r, e)
  BY <1>5, Zenon DEF Had
<1>8. ~ n.rst => Requested(n.reqs, a + 1, n.tx \o e2.out)
  BY <1>3, <1>5, Zenon
<1>9. Carried(n, r, a + 1, e2)
  BY <1>5, <1>6, <1>7, <1>8, Zenon DEF Carried, Ending
<1> QED BY <1>5, <1>9, Zenon DEF e2, x

\* The peer takes the first record in the socket: it answers a hello, and counts
\* a request.
LEMMA CarriedTaken ==
  ASSUME NEW n \in Nets, NEW r \in Nat, NEW a \in Nat, NEW e \in Engines, Carried(n, r, a, e),
         ~ n.rst, n.tx # <<>>,
         NEW n2 \in Nets, n2.tx = Tail(n.tx), n2.rst = n.rst, n2.fin = n.fin, n2.bye = n.bye,
         n2.sent = n.sent,
         \/ /\ Head(n.tx) = Hello /\ ~ n.fin /\ ~ n.bye
            /\ n2.rx = Append(n.rx, Hello) /\ n2.ready = n.ready /\ n2.reqs = n.reqs
         \/ Head(n.tx) = Finished /\ n2.rx = n.rx /\ n2.reqs = n.reqs
         \/ /\ Head(n.tx).kind = "request"
            /\ n2.rx = n.rx /\ n2.ready = n.ready /\ n2.reqs = Append(n.reqs, Head(n.tx).n)
         \/ /\ Head(n.tx).kind # "request"
            /\ n2.rx = n.rx /\ n2.ready = n.ready /\ n2.reqs = n.reqs
  PROVE  Carried(n2, r, a, e)
<1> DEFINE x == Head(n.tx)
<1>1. n.tx \in Seq(Records) /\ e.out \in Seq(Records) /\ n.reqs \in Seq(Nat) /\ n.rx \in Seq(Records)
  BY Zenon DEF Nets, Engines
<1>2. x = n.tx[1] /\ 1 \in 1..Len(n.tx) /\ Len(Tail(n.tx)) = Len(n.tx) - 1
      /\ \A i \in 1..Len(n.tx) - 1 : Tail(n.tx)[i] = n.tx[i + 1]
  BY <1>1, HeadTailProperties
<1>3. /\ x.kind # "request" => Requested(n.reqs, a, Tail(n.tx) \o e.out)
      /\ x.kind = "request" => Requested(Append(n.reqs, x.n), a, Tail(n.tx) \o e.out)
  BY <1>1, OnTheWay, Zenon DEF Carried
<1> HIDE DEF x
<1>4. Requested(n2.reqs, a, n2.tx \o e.out)
  BY <1>3, RecordTypes, Zenon DEF x
<1>5. CASE e.phase = "handshake"
  <2>1. n.sent = 0 /\ ~ n.ready /\ Greeting(n.rx, n.tx, e.out, n.bye)
    BY <1>5, Zenon DEF Carried
  <2>2. n.tx = <<Hello>> /\ n.rx \in {<<>>, <<Malformed>>} /\ e.out = <<>>
        /\ (n.rx = <<Malformed>> => n.bye)
    BY <2>1, Zenon DEF Greeting
  <2>3. x = Hello /\ n2.tx = <<>>
    BY <1>2, <2>2, ShortSeqs
  <2>4. /\ n2.ready = n.ready
        /\ n2.rx = n.rx \/ (n2.rx = Append(n.rx, Hello) /\ ~ n.bye)
    BY <2>3, RecordTypes, Zenon DEF x
  <2>5. Greeting(n2.rx, n2.tx, e.out, n2.bye)
    <3>1. CASE n2.rx = n.rx
      <4>1. <<>> # <<Malformed>> /\ <<>> # <<Hello, Malformed>>
        BY Zenon
      <4> QED BY <2>2, <2>3, <3>1, <4>1, Zenon DEF Greeting
    <3>2. CASE n2.rx = Append(n.rx, Hello) /\ ~ n.bye
      <4>1. n2.rx = <<Hello>>
        BY <2>2, <3>2, ShortSeqs, Zenon
      <4>2. <<Hello>> # <<Malformed>> /\ <<Hello>> # <<Hello, Malformed>>
        BY RecordTypes, Zenon
      <4> QED BY <2>2, <2>3, <4>1, <4>2, Zenon DEF Greeting
    <3> QED BY <2>4, <3>1, <3>2, Zenon
  <2> QED BY <1>4, <1>5, <2>1, <2>4, <2>5, Zenon DEF Carried, Ending
<1>6. CASE e.phase = "open"
  <2>1. \A i \in 1..Len(n.tx) : n.tx[i] # Hello
    BY <1>6, Zenon DEF Carried
  <2>2. n2.rx = n.rx
    BY <1>2, <2>1, Zenon DEF x
  <2>3. \A i \in 1..Len(n2.tx) : n2.tx[i] # Hello
    <3>1. Len(n.tx) \in Nat
      BY <1>1
    <3>2. \A i \in 1..Len(n.tx) - 1 : i + 1 \in 1..Len(n.tx)
      BY <3>1
    <3> QED BY <1>2, <2>1, <3>2
  <2> QED BY <1>4, <1>6, <2>2, <2>3, Zenon DEF Carried, Ending
<1>7. CASE Ending(e)
  <2>1. n2.rx = n.rx
    BY <1>7, Zenon DEF Carried
  <2> QED BY <1>4, <1>7, <2>1, Zenon DEF Carried, Ending
<1>8. CASE e.phase = "closed" /\ e.err
  BY <1>4, <1>8, Zenon DEF Carried, Ending
<1> QED BY <1>5, <1>6, <1>7, <1>8, Zenon DEF Engines, Ending

\* The peer sends a record of data, its close_notify, or what BearSSL refuses.
LEMMA CarriedMore ==
  ASSUME NEW n \in Nets, NEW r \in Nat, NEW a \in Nat, NEW e \in Engines, Carried(n, r, a, e),
         ~ n.rst, ~ n.fin, ~ n.bye,
         NEW n2 \in Nets, n2.tx = n.tx, n2.reqs = n.reqs, n2.rst = n.rst, n2.fin = n.fin,
         n2.ready = n.ready,
         \/ /\ n.ready /\ n2.rx = Append(n.rx, Rec("data", n.sent + 1))
            /\ n2.sent = n.sent + 1 /\ n2.bye = n.bye
         \/ n.ready /\ n2.rx = Append(n.rx, CloseNotify) /\ n2.sent = n.sent /\ n2.bye
         \/ n2.rx = Append(n.rx, Malformed) /\ n2.sent = n.sent /\ n2.bye
  PROVE  Carried(n2, r, a, e)
<1>1. n.rx \in Seq(Records) /\ n.sent \in Nat /\ n.bye = FALSE /\ n2.bye \in BOOLEAN
  BY Zenon DEF Nets
<1>2. /\ Had(r, e) \in Nat /\ Had(r, e) <= n.sent /\ Requested(n2.reqs, a, n2.tx \o e.out)
      /\ ~ Ending(e)
  BY DEF Carried, Had
<1>a. Had(r, e) <= n2.sent
  BY <1>1, <1>2
<1>3. CASE e.phase = "handshake"
  <2>1. n.sent = 0 /\ ~ n.ready /\ Greeting(n.rx, n.tx, e.out, n.bye)
    BY <1>3, Zenon DEF Carried
  <2>2. n.rx \in {<<>>, <<Hello>>}
    BY <2>1, Zenon DEF Greeting
  <2>3. n2.rx = Append(n.rx, Malformed) /\ n2.sent = n.sent /\ n2.bye
    BY <2>1, Zenon
  <2>4. \/ n.rx = <<>> /\ n2.rx = <<Malformed>>
        \/ n.rx = <<Hello>> /\ n2.rx = <<Hello, Malformed>>
    BY <2>2, <2>3, ShortSeqs, Zenon
  <2>5. Greeting(n2.rx, n2.tx, e.out, n2.bye)
    <3>1. <<>> # <<Hello>> /\ <<>> # <<Hello, Malformed>>
      BY Zenon
    <3>2. <<Hello>> # <<Malformed>>
      BY RecordTypes, Zenon
    <3> QED BY <2>1, <2>3, <2>4, <3>1, <3>2, Zenon DEF Greeting
  <2> QED BY <1>2, <1>3, <2>1, <2>3, <2>5, Zenon DEF Carried, Ending
<1>4. CASE e.phase = "open"
  <2>1. Queue(n.rx, Had(r, e), n.sent, FALSE)
    BY <1>1, <1>4, Zenon DEF Carried
  <2>2. Queue(n2.rx, Had(r, e), n2.sent, n2.bye)
    <3>1. CASE n2.rx = Append(n.rx, Rec("data", n.sent + 1)) /\ n2.sent = n.sent + 1 /\ n2.bye = n.bye
      BY <1>1, <1>2, <2>1, <3>1, QueueGrows, Zenon
    <3>2. CASE n2.rx = Append(n.rx, CloseNotify) /\ n2.sent = n.sent /\ n2.bye
      BY <1>1, <1>2, <2>1, <3>2, QueueGrows, Zenon
    <3>3. CASE n2.rx = Append(n.rx, Malformed) /\ n2.sent = n.sent /\ n2.bye
      BY <1>1, <1>2, <2>1, <3>3, QueueGrows, Zenon
    <3> QED BY <3>1, <3>2, <3>3, Zenon
  <2> QED BY <1>2, <1>a, <1>4, <2>2, Zenon DEF Carried, Ending
<1>5. CASE e.phase = "closed" /\ e.err
  BY <1>2, <1>a, <1>5, Zenon DEF Carried
<1> QED BY <1>2, <1>3, <1>4, <1>5, Zenon DEF Engines, Ending

\* The peer ends the stream, or resets the connection.
LEMMA CarriedEnd ==
  ASSUME NEW n \in Nets, NEW r \in Nat, NEW a \in Nat, NEW e \in Engines, Carried(n, r, a, e),
         NEW n2 \in Nets, n2.reqs = n.reqs, n2.ready = n.ready, n2.bye = n.bye, n2.sent = n.sent,
         \/ n2.fin /\ n2.rst = n.rst /\ n2.rx = n.rx /\ n2.tx = n.tx
         \/ n2.rst /\ n2.fin = n.fin /\ n2.rx = <<>> /\ n2.tx = <<>>
  PROVE  Carried(n2, r, a, e)
<1>1. CASE n2.fin /\ n2.rst = n.rst /\ n2.rx = n.rx /\ n2.tx = n.tx
  BY <1>1, Zenon DEF Carried
<1>2. CASE n2.rst /\ n2.fin = n.fin /\ n2.rx = <<>> /\ n2.tx = <<>>
  <2>1. Greeting(n.rx, n.tx, e.out, n.bye) => Greeting(n2.rx, n2.tx, e.out, n2.bye)
    <3>1. <<>> # <<Malformed>> /\ <<>> # <<Hello, Malformed>>
      BY Zenon
    <3> QED BY <1>2, <3>1, Zenon DEF Greeting
  <2>2. \A i \in 1..Len(n2.tx) : n2.tx[i] # Hello
    BY <1>2
  <2> QED BY <1>2, <2>1, <2>2, Zenon DEF Carried
<1> QED BY <1>1, <1>2, Zenon

-----------------------------------------------------------------------------
(* The slots.                                                                *)

\* The first idle slot and the lowest free fd exist when there is any.
LEMMA MinIn ==
  ASSUME NEW S \in SUBSET Nat, S # {}
  PROVE  Min(S) \in S
<1>1. PICK x \in S : \A y \in S : ~ (<<y, x>> \in OpToRel(<, Nat))
  BY NatLessThanWellFounded, WFMin, Zenon
<1>2. \A y \in S : x <= y
  <2> SUFFICES ASSUME NEW y \in S, y < x PROVE FALSE
    BY SMT
  <2>1. <<y, x>> \in {ss \in Nat \X Nat : ss[1] < ss[2]}
    BY Zenon
  <2> QED BY <1>1, <2>1, Zenon DEF OpToRel
<1> QED BY <1>2, Zenon DEF Min

\* A slot that was acquired has a socket, or waits for its first one.
LEMMA SlotCases ==
  ASSUME Typed, Owned, NEW s \in Slots
  PROVE  /\ global_tls_connections[s].fd = -1 \/ global_tls_connections[s].fd = 0
              \/ global_tls_connections[s].fd > 0
         /\ held[s] # 0 => (Unconnected(s) <=> global_tls_connections[s].fd = -1)
         /\ held[s] # 0 => (Unconnected(s) <=> ~ Connected(s))
<1> DEFINE d == global_tls_connections[s].fd
<1>1. d \in Fds \cup {-1} /\ held[s] \in 0..MaxConns
  BY Zenon DEF Typed, Connections
<1>2. d = -1 \/ d = 0 \/ d > 0
  BY <1>1, SizesPositive DEF Fds
<1>3. ASSUME held[s] # 0
      PROVE  Unconnected(s) <=> d = -1
  <2>1. d # 0
    BY <1>3, Zenon DEF Owned
  <2>2. ASSUME d > 0 PROVE ~ Unconnected(s)
    <3>1. fds[d] = held[s] /\ d \in Fds
      BY <1>1, <2>2 DEF Owned
    <3> QED BY <3>1, Zenon DEF Unconnected
  <2>3. ASSUME d = -1 PROVE Unconnected(s)
    <3>1. global_tls_connections[s].state = "HANDSHAKING"
      BY <1>3, <2>3, Zenon DEF Owned
    <3>2. ASSUME NEW f \in Fds, fds[f] = held[s] PROVE FALSE
      <4>1. f # 0
        BY <1>3, <3>2, Zenon DEF Owned, Stdin
      <4>2. fds[f] # Free
        BY <1>1, <3>2, SizesPositive DEF Free
      <4>3. PICK t \in Slots : held[t] = fds[f] /\ global_tls_connections[t].fd = f
        BY <4>1, <4>2, Zenon DEF Owned
      <4>4. t = s
        BY <1>3, <3>2, <4>3 DEF Owned
      <4>5. f = -1
        BY <2>3, <4>3, <4>4, Zenon
      <4> QED BY <4>5, SizesPositive DEF Fds
    <3> QED BY <1>3, <3>1, <3>2, Zenon DEF Unconnected
  <2> QED BY <1>2, <2>1, <2>2, <2>3, Zenon
<1>4. ASSUME held[s] # 0
      PROVE  Unconnected(s) <=> ~ Connected(s)
  <2>1. d # 0
    BY <1>4, Zenon DEF Owned
  <2>2. d = -1 <=> ~ (d > 0)
    BY <1>2, <2>1
  <2> QED BY <1>3, <1>4, <2>2, Zenon DEF Connected
<1> QED BY <1>2, <1>3, <1>4, Zenon

\* As many fds as slots, besides fd 0: a slot that waits for a socket finds one.
LEMMA FreeFd ==
  ASSUME Typed, Owned, NEW s \in Slots, global_tls_connections[s].fd = -1
  PROVE  /\ {f \in Fds : fds[f] = Free} \in SUBSET Nat
         /\ Min({f \in Fds : fds[f] = Free}) \in Fds \ {0}
         /\ fds[Min({f \in Fds : fds[f] = Free})] = Free
<1> DEFINE N == MAX_CONCURRENT_TLS_SOCKETS
           F == {f \in Fds : fds[f] = Free}
<1>1. N \in Nat /\ N >= 1 /\ Slots = 0..(N - 1) /\ Fds = 0..N
  BY SizesPositive DEF Slots, Fds
<1>2. F \in SUBSET Nat
  BY <1>1
<1>3. 0 \notin F
  BY DEF Owned, Stdin, Free
<1>4. ASSUME F = {} PROVE FALSE
  <2> DEFINE g == [f \in 1..N |-> CHOOSE t \in Slots : global_tls_connections[t].fd = f]
             T == Slots \ {s}
  <2>1. ASSUME NEW f \in 1..N
        PROVE  g[f] \in T /\ global_tls_connections[g[f]].fd = f
    <3>1. f \in Fds \ {0} /\ fds[f] # Free
      BY <1>1, <1>4
    <3>2. \E t \in Slots : global_tls_connections[t].fd = f
      BY <3>1, Zenon DEF Owned
    <3>3. g[f] \in Slots /\ global_tls_connections[g[f]].fd = f
      BY <3>2, Zenon
    <3>4. g[f] # s
      BY <3>3
    <3> QED BY <3>3, <3>4, Zenon
  <2>2. g \in [1..N -> T]
    BY <2>1, Zenon
  <2> HIDE DEF g
  <2>3. IsFiniteSet(Slots) /\ Cardinality(Slots) = N
    BY <1>1, FS_Interval
  <2>4. IsFiniteSet(T) /\ Cardinality(T) = N - 1
    BY <2>3, FS_RemoveElement, Zenon
  <2>5. IsFiniteSet(1..N) /\ Cardinality(1..N) = N
    BY <1>1, FS_Interval
  <2>6. \E x, y \in 1..N : x # y /\ g[x] = g[y]
    <3>1. Cardinality(T) < Cardinality(1..N)
      BY <1>1, <2>4, <2>5
    <3> HIDE DEF T, N
    <3> QED BY <2>2, <2>4, <2>5, <3>1, FS_PigeonHole, Zenon
  <2> QED BY <2>1, <2>6, Zenon
<1>5. Min(F) \in F
  BY <1>2, <1>4, MinIn, Zenon
<1> HIDE DEF F
<1>6. Min(F) \in Fds \ {0} /\ fds[Min(F)] = Free
  BY <1>3, <1>5, Zenon DEF F
<1> QED BY <1>2, <1>6, Zenon DEF F

\* A connection has an open socket when the slot that holds it is connected.
LEMMA OpenHeld ==
  ASSUME Typed, Owned, NEW c \in Conns
  PROVE  Open(c) <=> \E s \in Slots : Connected(s) /\ held[s] = c
<1>1. c # 0 /\ c # Free
  BY SizesPositive DEF Conns, Free
<1>2. ASSUME Open(c) PROVE \E s \in Slots : Connected(s) /\ held[s] = c
  <2>1. PICK f \in Fds : fds[f] = c
    BY <1>2, Zenon DEF Open
  <2>2. f # 0
    BY <1>1, <2>1, Zenon DEF Owned, Stdin
  <2>3. PICK s \in Slots : held[s] = fds[f] /\ global_tls_connections[s].fd = f
    BY <1>1, <2>1, <2>2, Zenon DEF Owned
  <2>4. f > 0
    BY <2>2, SizesPositive DEF Fds
  <2> QED BY <1>1, <2>1, <2>3, <2>4, Zenon DEF Connected
<1>3. ASSUME NEW s \in Slots, Connected(s), held[s] = c PROVE Open(c)
  <2>1. global_tls_connections[s].fd \in Fds /\ fds[global_tls_connections[s].fd] = c
    BY <1>3 DEF Connected, Owned, Typed, Connections
  <2> QED BY <2>1, Zenon DEF Open
<1> QED BY <1>2, <1>3, Zenon

\* A step that moves one connection, its slot, its socket and its tab, and leaves
\* the others alone.
LEMMA OneMoves ==
  ASSUME Typed, Owned, Delivered, NEW s \in Slots, Connected(s),
         NEW conn \in Connections, NEW n \in Nets, NEW q \in Seq(Conns \X Nat), NEW a \in Nat,
         global_tls_connections' = [global_tls_connections EXCEPT ![s] = conn],
         net' = [net EXCEPT ![held[s]] = n],
         ring' = [ring EXCEPT ![held[s]] = q],
         asked' = [asked EXCEPT ![held[s]] = a],
         UNCHANGED <<fds, opened, held, load>>,
         conn.fd = global_tls_connections[s].fd, conn.state # "IDLE",
         conn.tab_multiplex_id = global_tls_connections[s].tab_multiplex_id,
         pump' \in Pumps, pump'.at # "poll" => Connected(pump'.slot),
         InOrder(q, held[s]),
         Carried(n, Len(q), a, conn.eng), Judged(conn.state, conn.eng)
  PROVE  IInv'
<1>1. held[s] \in Conns /\ held[s] \in 0..MaxConns /\ held[s] # 0
  BY SizesPositive DEF Typed, Connected, Conns
<1>2. Typed'
  BY <1>1, Zenon DEF Typed
<1>3. /\ global_tls_connections'[s] = conn
      /\ \A t \in Slots \ {s} : global_tls_connections'[t] = global_tls_connections[t]
      /\ \A t \in Slots : global_tls_connections'[t].fd = global_tls_connections[t].fd
  BY Zenon DEF Typed
<1>4. /\ net'[held[s]] = n /\ ring'[held[s]] = q /\ asked'[held[s]] = a
      /\ \A c \in Conns \ {held[s]} : net'[c] = net[c] /\ ring'[c] = ring[c] /\ asked'[c] = asked[c]
      /\ ring'[0] = ring[0]
  BY <1>1, SizesPositive DEF Typed, Conns
<1>5. \A t \in Slots : Connected(t)' <=> Connected(t)
  BY <1>3, Zenon DEF Connected
<1>6. Owned'
  <2>1. \A t \in Slots : held[t] = 0 <=> global_tls_connections'[t].state = "IDLE"
    BY <1>1, <1>3 DEF Owned
  <2>2. \A t \in Slots : held[t] # 0 /\ global_tls_connections'[t].fd = -1 =>
          global_tls_connections'[t].state = "HANDSHAKING"
    <3>1. global_tls_connections[s].fd # -1
      BY DEF Connected
    <3> QED BY <1>3, <3>1 DEF Owned
  <2>3. pump'.at # "poll" => Connected(pump.slot)'
    <3>1. pump'.slot \in Slots
      BY Zenon DEF Pumps
    <3> QED BY <1>3, <3>1, Zenon DEF Connected
  <2>4. /\ \A f \in Fds \ {0} : fds[f] # Free =>
             fds[f] \in Conns /\ \E t \in Slots : held[t] = fds[f] /\ global_tls_connections'[t].fd = f
        /\ \A t \in Slots : global_tls_connections'[t].fd > 0 =>
             held[t] # 0 /\ fds[global_tls_connections'[t].fd] = held[t]
        /\ \A t \in Slots : held[t] <= opened /\ (held[t] # 0 => global_tls_connections'[t].fd # 0)
        /\ \A t, u \in Slots : held[t] = held[u] /\ held[t] # 0 => t = u
        /\ fds[0] = Stdin
    BY <1>3 DEF Owned
  <2> QED BY <2>1, <2>2, <2>3, <2>4 DEF Owned
<1>7. Delivered'
  <2>1. ring'[0] = <<>>
    BY <1>4, Zenon DEF Delivered
  <2>2. \A c \in Conns : InOrder(ring'[c], c)
    <3>1. \A c \in Conns : InOrder(ring[c], c)
      BY Zenon DEF Delivered
    <3> SUFFICES ASSUME NEW c \in Conns PROVE InOrder(ring'[c], c)
      BY Zenon
    <3>2. CASE c = held[s]
      <4>1. ring'[c] = q
        BY <1>4, <3>2, Zenon
      <4> QED BY <3>2, <4>1, Zenon
    <3>3. CASE c # held[s]
      <4>1. ring'[c] = ring[c]
        BY <1>4, <3>3, Zenon
      <4> QED BY <3>1, <4>1, Zenon
    <3> QED BY <3>2, <3>3, Zenon
  <2>3. \A c \in Conns : ~ Open(c)' => net'[c] = NoNet /\ ring'[c] = <<>> /\ asked'[c] = 0
    <3>1. Open(held[s])
      BY <1>1, OpenHeld, Zenon
    <3>2. \A c \in Conns : Open(c)' <=> Open(c)
      BY Zenon DEF Open
    <3> QED BY <1>4, <3>1, <3>2, Zenon DEF Delivered
  <2>4. ASSUME NEW t \in Slots, Connected(t)'
        PROVE  /\ global_tls_connections'[t].tab_multiplex_id = held[t]
               /\ Carried(net'[held[t]], Len(ring'[held[t]]), asked'[held[t]], global_tls_connections'[t].eng)
               /\ Judged(global_tls_connections'[t].state, global_tls_connections'[t].eng)
    <3>1. Connected(t)
      BY <1>5, <2>4, Zenon
    <3>2. CASE t = s
      BY <1>3, <1>4, <3>2 DEF Delivered
    <3>3. CASE t # s
      <4>1. held[t] # held[s] /\ held[t] \in Conns
        BY <1>1, <3>1, <3>3, SizesPositive DEF Owned, Connected, Typed, Conns
      <4> QED BY <1>3, <1>4, <3>1, <3>3, <4>1, Zenon DEF Delivered
    <3> QED BY <3>2, <3>3, Zenon
  <2> QED BY <2>1, <2>2, <2>3, <2>4, Zenon DEF Delivered
<1> QED BY <1>2, <1>6, <1>7, Zenon DEF IInv

\* What is known of a connected slot and of its connection.
LEMMA SlotFacts ==
  ASSUME Typed, Owned, Delivered, NEW s \in Slots, Connected(s)
  PROVE  LET c == held[s]
             conn == global_tls_connections[s]
         IN /\ c \in Conns /\ c # 0 /\ conn.fd \in Fds \ {0} /\ fds[conn.fd] = c
            /\ conn \in Connections /\ conn.eng \in Engines /\ conn.state # "IDLE"
            /\ conn.tab_multiplex_id = c
            /\ net[c] \in Nets /\ ring[c] \in Seq(Conns \X Nat) /\ asked[c] \in Nat
            /\ Len(ring[c]) \in Nat
            /\ InOrder(ring[c], c)
            /\ Carried(net[c], Len(ring[c]), asked[c], conn.eng)
            /\ Judged(conn.state, conn.eng)
<1> DEFINE c == held[s]
           conn == global_tls_connections[s]
<1>1. c \in Conns /\ c # 0 /\ c \in 0..MaxConns
  BY SizesPositive DEF Typed, Connected, Conns
<1>2. conn \in Connections /\ conn.eng \in Engines /\ conn.fd \in Fds \cup {-1} /\ conn.fd > 0
  BY Zenon DEF Typed, Connections, Connected
<1>3. conn.fd \in Fds \ {0} /\ fds[conn.fd] = c
  BY <1>2 DEF Owned
<1>4. conn.state # "IDLE"
  BY <1>1, Zenon DEF Owned
<1>5. net[c] \in Nets /\ ring[c] \in Seq(Conns \X Nat) /\ asked[c] \in Nat /\ Len(ring[c]) \in Nat
  BY <1>1 DEF Typed
<1>6. InOrder(ring[c], c)
  BY <1>1, Zenon DEF Delivered
<1>7. /\ conn.tab_multiplex_id = c
      /\ Carried(net[c], Len(ring[c]), asked[c], conn.eng)
      /\ Judged(conn.state, conn.eng)
  BY Zenon DEF Delivered
<1> QED BY <1>1, <1>2, <1>3, <1>4, <1>5, <1>6, <1>7, Zenon

\* A step that moves the state or the engine of one slot only.
LEMMA SlotMoves ==
  ASSUME Typed, Owned, Delivered, NEW s \in Slots, Connected(s), NEW conn \in Connections,
         global_tls_connections' = [global_tls_connections EXCEPT ![s] = conn],
         UNCHANGED <<net, ring, asked>>, UNCHANGED <<fds, opened, held, load>>,
         conn.fd = global_tls_connections[s].fd, conn.state # "IDLE",
         conn.tab_multiplex_id = global_tls_connections[s].tab_multiplex_id,
         pump' \in Pumps, pump'.at # "poll" => Connected(pump'.slot),
         Carried(net[held[s]], Len(ring[held[s]]), asked[held[s]], conn.eng),
         Judged(conn.state, conn.eng)
  PROVE  IInv'
<1>1. /\ net[held[s]] \in Nets /\ ring[held[s]] \in Seq(Conns \X Nat) /\ asked[held[s]] \in Nat
      /\ InOrder(ring[held[s]], held[s])
  BY SlotFacts, Zenon
<1>2. /\ net' = [net EXCEPT ![held[s]] = net[held[s]]]
      /\ ring' = [ring EXCEPT ![held[s]] = ring[held[s]]]
      /\ asked' = [asked EXCEPT ![held[s]] = asked[held[s]]]
  BY Zenon DEF Typed
<1> DEFINE n == net[held[s]]
           q == ring[held[s]]
           a == asked[held[s]]
<1>3. n \in Nets /\ q \in Seq(Conns \X Nat) /\ a \in Nat
      /\ InOrder(q, held[s])
      /\ Carried(n, Len(q), a, conn.eng) /\ Judged(conn.state, conn.eng)
      /\ net' = [net EXCEPT ![held[s]] = n] /\ ring' = [ring EXCEPT ![held[s]] = q]
      /\ asked' = [asked EXCEPT ![held[s]] = a]
  BY <1>1, <1>2, Zenon
<1> HIDE DEF n, q, a
<1> QED BY <1>3, OneMoves, Zenon

\* A step of the peer.
LEMMA PeerMoves ==
  ASSUME Typed, Owned, Delivered, NEW c \in Conns, NEW n \in Nets, Peer(c, n), net[c].rst => n.rst,
         \A r, a \in Nat : \A e \in Engines : Carried(net[c], r, a, e) => Carried(n, r, a, e)
  PROVE  IInv'
<1>1. PICK s \in Slots : Connected(s) /\ held[s] = c
  BY OpenHeld, Zenon DEF Peer
<1> DEFINE conn == global_tls_connections[s]
           q == ring[c]
           a == asked[c]
<1>2. /\ conn \in Connections /\ conn.eng \in Engines /\ conn.state # "IDLE"
      /\ q \in Seq(Conns \X Nat) /\ a \in Nat /\ Len(q) \in Nat
      /\ Carried(net[c], Len(q), a, conn.eng) /\ Judged(conn.state, conn.eng)
  BY <1>1, SlotFacts, Zenon
<1>a. InOrder(q, c)
  BY Zenon DEF Delivered
<1>3. Carried(n, Len(q), a, conn.eng)
  BY <1>2, Zenon
<1>4. Judged(conn.state, conn.eng)
  <2>1. net[c].rst \in BOOLEAN /\ n.rst \in BOOLEAN
    BY Zenon DEF Typed, Nets
  <2> QED BY <1>2, <2>1, Zenon DEF Judged
<1>5. /\ global_tls_connections' = [global_tls_connections EXCEPT ![s] = conn]
      /\ net' = [net EXCEPT ![c] = n]
      /\ ring' = [ring EXCEPT ![c] = q] /\ asked' = [asked EXCEPT ![c] = a]
      /\ UNCHANGED <<pump, fds, opened, held, load>>
  BY Zenon DEF Peer, Typed
<1>6. pump' \in Pumps /\ (pump'.at # "poll" => Connected(pump'.slot))
  BY <1>5, Zenon DEF Typed, Owned
<1>7. conn.fd = global_tls_connections[s].fd
      /\ conn.tab_multiplex_id = global_tls_connections[s].tab_multiplex_id
  BY Zenon
<1> HIDE DEF conn, q, a
<1> QED BY <1>1, <1>2, <1>a, <1>3, <1>4, <1>5, <1>6, <1>7, OneMoves, Zenon

-----------------------------------------------------------------------------
(* Each step keeps the invariant.                                            *)

\* The pump stays at its slot until it returns.
LEMMA PumpStays ==
  ASSUME Typed, Owned, pump.at # "poll"
  PROVE  /\ pump.slot \in Slots /\ Connected(pump.slot) /\ Idle \in Pumps /\ Idle.at = "poll"
         /\ \A v \in Int : Return(v) => pump' \in Pumps /\ (pump'.at # "poll" => Connected(pump'.slot))
         /\ \A w \in {"loop", "write", "push"} : \A b \in BOOLEAN :
              /\ [pump EXCEPT !.at = w] \in Pumps /\ [pump EXCEPT !.at = w].slot = pump.slot
              /\ [pump EXCEPT !.at = w, !.progress = b] \in Pumps
              /\ [pump EXCEPT !.at = w, !.progress = b].slot = pump.slot
<1>1. pump \in Pumps /\ pump.slot \in Slots /\ Connected(pump.slot)
  BY Zenon DEF Typed, Owned, Pumps
<1>2. Idle \in Pumps /\ Idle.at = "poll"
  BY SizesPositive DEF Idle, Pumps, Slots
<1>3. /\ [pump EXCEPT !.at = "over", !.progress = FALSE] \in Pumps
      /\ [pump EXCEPT !.at = "over", !.progress = FALSE].slot = pump.slot
  BY <1>1, Zenon DEF Pumps
<1>4. ASSUME NEW v \in Int, Return(v)
      PROVE  pump' \in Pumps /\ (pump'.at # "poll" => Connected(pump'.slot))
  BY <1>1, <1>2, <1>3, <1>4, Zenon DEF Return
<1>5. \A w \in {"loop", "write", "push"} : \A b \in BOOLEAN :
        /\ [pump EXCEPT !.at = w] \in Pumps /\ [pump EXCEPT !.at = w].slot = pump.slot
        /\ [pump EXCEPT !.at = w, !.progress = b] \in Pumps
        /\ [pump EXCEPT !.at = w, !.progress = b].slot = pump.slot
  BY <1>1, Zenon DEF Pumps
<1> QED BY <1>1, <1>2, <1>4, <1>5, Zenon

\* The verdict of the engine becomes the state of the slot.
LEMMA ClosedStep ==
  ASSUME IInv, closed
  PROVE  IInv'
<1> DEFINE s == pump.slot
           c == held[s]
           st == IF Engine.err THEN "ERROR" ELSE "CLOSING"
           conn == [Conn EXCEPT !.state = st]
<1>1. Typed /\ Owned /\ Delivered /\ pump.at # "poll"
  BY Zenon DEF IInv, closed
<1>2. s \in Slots /\ Connected(s)
  BY <1>1, PumpStays, Zenon
<1>3. /\ Conn \in Connections /\ Conn.eng \in Engines
      /\ Carried(net[c], Len(ring[c]), asked[c], Conn.eng)
  BY <1>1, <1>2, SlotFacts, Zenon DEF Conn
<1>4. Engine.phase = "closed"
  BY <1>3, Flags, Zenon DEF closed, Engine
<1>5. /\ conn \in Connections /\ conn.eng = Conn.eng /\ conn.fd = Conn.fd /\ conn.state = st
      /\ conn.tab_multiplex_id = Conn.tab_multiplex_id
  BY <1>3, Zenon DEF Connections
<1>6. /\ global_tls_connections' = [global_tls_connections EXCEPT ![s] = conn]
      /\ UNCHANGED <<net, ring, asked>> /\ UNCHANGED <<fds, opened, held, load>>
  BY Zenon DEF closed, Set
<1>7. pump' \in Pumps /\ (pump'.at # "poll" => Connected(pump'.slot))
  <2>1. Return(IF Engine.err THEN -1 ELSE 1)
    BY Zenon DEF closed
  <2>2. (IF Engine.err THEN -1 ELSE 1) \in Int
    OBVIOUS
  <2> QED BY <1>1, <2>1, <2>2, PumpStays, Zenon
<1>8. Judged(conn.state, conn.eng) /\ conn.state # "IDLE"
  BY <1>4, <1>5 DEF Judged, Engine
<1>9. Carried(net[c], Len(ring[c]), asked[c], conn.eng)
  BY <1>3, <1>5, Zenon
<1> HIDE DEF conn, st
<1> QED BY <1>1, <1>2, <1>5, <1>6, <1>7, <1>8, <1>9, SlotMoves, Zenon DEF Conn

\* A failed read or write leaves the engine and the records as they are.
LEMMA HardErrorStep ==
  ASSUME IInv, hard_error
  PROVE  IInv'
<1> DEFINE s == pump.slot
           c == held[s]
           conn == [Conn EXCEPT !.state = "ERROR"]
<1>1. Typed /\ Owned /\ Delivered /\ pump.at # "poll"
  BY Zenon DEF IInv, hard_error
<1>2. s \in Slots /\ Connected(s)
  BY <1>1, PumpStays, Zenon
<1>3. /\ Conn \in Connections /\ Conn.eng \in Engines /\ fds[Conn.fd] = c
      /\ Carried(net[c], Len(ring[c]), asked[c], Conn.eng)
  BY <1>1, <1>2, SlotFacts, Zenon DEF Conn
<1>5. /\ conn \in Connections /\ conn.eng = Conn.eng /\ conn.fd = Conn.fd /\ conn.state = "ERROR"
      /\ conn.tab_multiplex_id = Conn.tab_multiplex_id
  BY <1>3, Zenon DEF Connections
<1>6. /\ global_tls_connections' = [global_tls_connections EXCEPT ![s] = conn]
      /\ UNCHANGED <<net, ring, asked>> /\ UNCHANGED <<fds, opened, held, load>>
  BY Zenon DEF hard_error, Set
<1>7. pump' \in Pumps /\ (pump'.at # "poll" => Connected(pump'.slot))
  <2>1. Return(-1) /\ -1 \in Int
    BY DEF hard_error
  <2> QED BY <1>1, <2>1, PumpStays, Zenon
<1>8. Judged(conn.state, conn.eng) /\ conn.state # "IDLE"
  BY <1>5, Zenon DEF Judged
<1>9. Carried(net[c], Len(ring[c]), asked[c], conn.eng)
  BY <1>3, <1>5, Zenon
<1> HIDE DEF conn
<1> QED BY <1>1, <1>2, <1>5, <1>6, <1>7, <1>8, <1>9, SlotMoves, Zenon DEF Conn

\* A step of the pump that moves nothing.
LEMMA NothingMoves ==
  ASSUME IInv, UNCHANGED <<global_tls_connections, fds, net, ring, asked, opened, held, load>>,
         pump' \in Pumps, pump'.at # "poll" => Connected(pump'.slot)
  PROVE  IInv'
<1>1. Typed'
  BY Zenon DEF IInv, Typed
<1>2. Owned'
  BY DEF IInv, Owned, Connected
<1>3. Delivered'
  BY Zenon DEF IInv, Delivered, Connected, Open
<1> QED BY <1>1, <1>2, <1>3, Zenon DEF IInv

\* STEP 1, with a record.
LEMMA FeedRecordStep ==
  ASSUME IInv, feed_record
  PROVE  IInv'
<1> DEFINE s == pump.slot
           c == held[s]
<1>1. Typed /\ Owned /\ Delivered /\ pump.at # "poll"
  BY Zenon DEF IInv, feed_record
<1>2. s \in Slots /\ Connected(s)
  BY <1>1, PumpStays, Zenon
<1>3. /\ Conn \in Connections /\ Conn.eng \in Engines /\ fds[Conn.fd] = c /\ c \in Conns
      /\ net[c] \in Nets /\ ring[c] \in Seq(Conns \X Nat) /\ asked[c] \in Nat /\ Len(ring[c]) \in Nat
      /\ InOrder(ring[c], c) /\ Conn.state # "IDLE"
      /\ Carried(net[c], Len(ring[c]), asked[c], Conn.eng)
      /\ Judged(Conn.state, Conn.eng)
  BY <1>1, <1>2, SlotFacts, Zenon DEF Conn
<1>4. Conn.eng.phase # "closed" /\ Conn.eng.app = <<>> /\ ~ net[c].rst /\ net[c].rx # <<>>
  BY <1>3, Flags, Zenon DEF feed_record, Engine, Socket
<1>5. PICK e \in recvrec_ack(Conn.eng, Head(net[c].rx)) :
        global_tls_connections' = [global_tls_connections EXCEPT ![s] = [Conn EXCEPT !.eng = e]]
  BY <1>3, Zenon DEF feed_record, Engine, Socket, Set
<1> DEFINE conn == [Conn EXCEPT !.eng = e]
           n == [net[c] EXCEPT !.rx = Tail(@)]
           q == ring[c]
           a == asked[c]
<1>6. e \in Engines /\ Carried(n, Len(q), a, e)
  BY <1>3, <1>4, CarriedFeed, Zenon
<1>7. /\ conn \in Connections /\ conn.eng = e /\ conn.fd = Conn.fd /\ conn.state = Conn.state
      /\ conn.tab_multiplex_id = Conn.tab_multiplex_id
  BY <1>3, <1>6, Zenon DEF Connections
<1>8. n \in Nets /\ n.rst = net[c].rst
  <2>1. Tail(net[c].rx) \in Seq(Records)
    BY <1>3, <1>4, HeadTailProperties, Zenon DEF Nets
  <2> QED BY <1>3, <2>1, Zenon DEF Nets
<1>9. /\ net' = [net EXCEPT ![c] = n] /\ ring' = [ring EXCEPT ![c] = q]
      /\ asked' = [asked EXCEPT ![c] = a] /\ UNCHANGED <<fds, opened, held, load>>
  BY <1>1, <1>3, Zenon DEF feed_record, Socket, Typed
<1>10. pump' \in Pumps /\ (pump'.at # "poll" => Connected(pump'.slot))
  BY <1>1, <1>2, PumpStays, Zenon DEF feed_record
<1>11. Judged(conn.state, conn.eng)
  BY <1>3, <1>4, <1>7, <1>8, Zenon DEF Judged
<1>12. Carried(n, Len(q), a, conn.eng) /\ InOrder(q, c) /\ q \in Seq(Conns \X Nat) /\ a \in Nat
  BY <1>3, <1>6, <1>7, Zenon
<1> HIDE DEF conn, n, q, a
<1>13. global_tls_connections' = [global_tls_connections EXCEPT ![s] = conn]
  BY <1>5, Zenon DEF conn
<1> QED BY <1>1, <1>2, <1>3, <1>7, <1>8, <1>9, <1>10, <1>11, <1>12, <1>13, OneMoves, Zenon DEF Conn

\* STEP 1, at the end of the stream.
LEMMA FeedEofStep ==
  ASSUME IInv, feed_eof
  PROVE  IInv'
<1> DEFINE s == pump.slot
           c == held[s]
<1>1. Typed /\ Owned /\ Delivered /\ pump.at # "poll"
  BY Zenon DEF IInv, feed_eof
<1>2. s \in Slots /\ Connected(s)
  BY <1>1, PumpStays, Zenon
<1>3. /\ Conn \in Connections /\ Conn.eng \in Engines /\ fds[Conn.fd] = c /\ c \in Conns
      /\ net[c] \in Nets /\ asked[c] \in Nat /\ Len(ring[c]) \in Nat /\ Conn.state # "IDLE"
      /\ Carried(net[c], Len(ring[c]), asked[c], Conn.eng)
      /\ Judged(Conn.state, Conn.eng)
  BY <1>1, <1>2, SlotFacts, Zenon DEF Conn
<1>4. Conn.eng.phase # "closed" /\ Conn.eng.app = <<>> /\ ~ net[c].rst /\ net[c].rx = <<>> /\ net[c].fin
  BY <1>3, Flags, Zenon DEF feed_eof, Engine, Socket
<1> DEFINE e == engine_close(Conn.eng)
<1>5. global_tls_connections' = [global_tls_connections EXCEPT ![s] = [Conn EXCEPT !.eng = e]]
  BY Zenon DEF feed_eof, Set
<1> DEFINE conn == [Conn EXCEPT !.eng = e]
<1>6. e \in Engines /\ Carried(net[c], Len(ring[c]), asked[c], e)
  BY <1>3, <1>4, CarriedEof, Zenon
<1>7. /\ conn \in Connections /\ conn.eng = e /\ conn.fd = Conn.fd /\ conn.state = Conn.state
      /\ conn.tab_multiplex_id = Conn.tab_multiplex_id
  BY <1>3, <1>6, Zenon DEF Connections
<1>8. UNCHANGED <<net, ring, asked>> /\ UNCHANGED <<fds, opened, held, load>>
  BY Zenon DEF feed_eof
<1>9. pump' \in Pumps /\ (pump'.at # "poll" => Connected(pump'.slot))
  BY <1>1, <1>2, PumpStays, Zenon DEF feed_eof
<1>10. Judged(conn.state, conn.eng) /\ conn.state # "IDLE"
  BY <1>3, <1>4, <1>7, Zenon DEF Judged
<1>11. Carried(net[c], Len(ring[c]), asked[c], conn.eng)
  BY <1>6, <1>7, Zenon
<1> HIDE DEF conn
<1>12. global_tls_connections' = [global_tls_connections EXCEPT ![s] = conn]
  BY <1>5, Zenon DEF conn
<1> QED BY <1>1, <1>2, <1>7, <1>8, <1>9, <1>10, <1>11, <1>12, SlotMoves, Zenon DEF Conn

\* STEP 2, when the socket takes some of the records.
LEMMA FlushRecordsStep ==
  ASSUME IInv, flush_records
  PROVE  IInv'
<1> DEFINE s == pump.slot
           c == held[s]
<1>1. Typed /\ Owned /\ Delivered /\ pump.at # "poll"
  BY Zenon DEF IInv, flush_records
<1>2. s \in Slots /\ Connected(s)
  BY <1>1, PumpStays, Zenon
<1>3. /\ Conn \in Connections /\ Conn.eng \in Engines /\ fds[Conn.fd] = c /\ c \in Conns
      /\ net[c] \in Nets /\ ring[c] \in Seq(Conns \X Nat) /\ asked[c] \in Nat /\ Len(ring[c]) \in Nat
      /\ InOrder(ring[c], c) /\ Conn.state # "IDLE"
      /\ Carried(net[c], Len(ring[c]), asked[c], Conn.eng)
      /\ Judged(Conn.state, Conn.eng)
  BY <1>1, <1>2, SlotFacts, Zenon DEF Conn
<1>4. Conn.eng.phase # "closed" /\ ~ net[c].rst
  BY <1>3, Flags, Zenon DEF flush_records, Engine, Socket
<1>5. PICK m \in 1..Len(Conn.eng.out) :
        /\ net' = [net EXCEPT ![c].tx = @ \o SubSeq(Conn.eng.out, 1, m)]
        /\ global_tls_connections' =
             [global_tls_connections EXCEPT ![s] = [Conn EXCEPT !.eng = sendrec_ack(@, m)]]
  BY <1>3, Zenon DEF flush_records, Engine, Socket, Set
<1> DEFINE e == sendrec_ack(Conn.eng, m)
           conn == [Conn EXCEPT !.eng = e]
           n == [net[c] EXCEPT !.tx = @ \o SubSeq(Conn.eng.out, 1, m)]
           q == ring[c]
           a == asked[c]
<1>6. n \in Nets /\ e \in Engines /\ Carried(n, Len(q), a, e)
  BY <1>3, <1>4, CarriedFlush, Zenon
<1>7. n.rst = net[c].rst
  BY <1>3, Zenon DEF Nets
<1> HIDE DEF e
<1>8. /\ conn \in Connections /\ conn.eng = e /\ conn.fd = Conn.fd /\ conn.state = Conn.state
      /\ conn.tab_multiplex_id = Conn.tab_multiplex_id
  BY <1>3, <1>6, Zenon DEF Connections
<1>9. /\ net' = [net EXCEPT ![c] = n] /\ ring' = [ring EXCEPT ![c] = q]
      /\ asked' = [asked EXCEPT ![c] = a] /\ UNCHANGED <<fds, opened, held, load>>
  BY <1>1, <1>3, <1>5, Zenon DEF flush_records, Typed
<1>10. pump' \in Pumps /\ (pump'.at # "poll" => Connected(pump'.slot))
  BY <1>1, <1>2, PumpStays, Zenon DEF flush_records
<1>11. Judged(conn.state, conn.eng)
  BY <1>3, <1>4, <1>7, <1>8, Zenon DEF Judged
<1>12. Carried(n, Len(q), a, conn.eng) /\ InOrder(q, c) /\ q \in Seq(Conns \X Nat) /\ a \in Nat
  BY <1>3, <1>6, <1>8, Zenon
<1>13. global_tls_connections' = [global_tls_connections EXCEPT ![s] = conn]
  BY <1>5, Zenon DEF e
<1> HIDE DEF conn, n, q, a
<1> QED BY <1>1, <1>2, <1>3, <1>6, <1>8, <1>9, <1>10, <1>11, <1>12, <1>13, OneMoves, Zenon DEF Conn

\* STEP 3: the tab's next record is the one that the engine has.
LEMMA PushStep ==
  ASSUME IInv, push_cleartext
  PROVE  IInv'
<1> DEFINE s == pump.slot
           c == held[s]
<1>1. Typed /\ Owned /\ Delivered /\ pump.at # "poll"
  BY Zenon DEF IInv, push_cleartext
<1>2. s \in Slots /\ Connected(s)
  BY <1>1, PumpStays, Zenon
<1>3. /\ Conn \in Connections /\ Conn.eng \in Engines /\ fds[Conn.fd] = c /\ c \in Conns
      /\ net[c] \in Nets /\ ring[c] \in Seq(Conns \X Nat) /\ asked[c] \in Nat /\ Len(ring[c]) \in Nat
      /\ InOrder(ring[c], c) /\ Conn.state # "IDLE" /\ Conn.tab_multiplex_id = c
      /\ Carried(net[c], Len(ring[c]), asked[c], Conn.eng)
      /\ Judged(Conn.state, Conn.eng)
  BY <1>1, <1>2, SlotFacts, Zenon DEF Conn
<1>4. pump' \in Pumps /\ (pump'.at # "poll" => Connected(pump'.slot))
  <2>1. pump' = [pump EXCEPT !.at = "loop", !.progress = FALSE] \/ Return(0)
    BY Zenon DEF push_cleartext
  <2>2. CASE Return(0)
    <3>1. 0 \in Int
      OBVIOUS
    <3> QED BY <1>1, <2>2, <3>1, PumpStays, Zenon
  <2>3. CASE pump' = [pump EXCEPT !.at = "loop", !.progress = FALSE]
    BY <1>1, <2>3, PumpStays, Zenon
  <2> QED BY <2>1, <2>2, <2>3, Zenon
<1>5. CASE ~ Takes
  <2>1. UNCHANGED <<global_tls_connections, fds, net, ring, asked, opened, held, load>>
    BY <1>5, Zenon DEF push_cleartext
  <2> QED BY <1>4, <2>1, NothingMoves, Zenon
<1>6. CASE Takes
  <2> DEFINE r == Len(ring[c])
             e == recvapp_ack(Conn.eng)
             st == IF Conn.state = "HANDSHAKING" THEN "ESTABLISHED" ELSE Conn.state
             conn == [Conn EXCEPT !.eng = e, !.state = st]
             q == Append(ring[c], <<c, r + 1>>)
             n == net[c]
             a == asked[c]
  <2>1. Conn.eng.app # <<>>
    BY <1>3, <1>6, Flags, Zenon DEF Takes, Engine
  <2>2. Conn.eng.app = <<r + 1>> /\ Conn.eng.phase = "open" /\ e \in Engines /\ Carried(n, r + 1, a, e)
    BY <1>3, <2>1, CarriedPush
  <2>3. e.phase = "open"
    BY <1>3, <2>2, Zenon DEF recvapp_ack, Engines
  <2>4. /\ global_tls_connections' = [global_tls_connections EXCEPT ![s] = conn]
        /\ ring' = [ring EXCEPT ![c] = @ \o [i \in 1..Len(Conn.eng.app) |-> <<c, Conn.eng.app[i]>>]]
        /\ UNCHANGED <<net, asked>> /\ UNCHANGED <<fds, opened, held, load>>
    BY <1>3, <1>6, Zenon DEF push_cleartext, Set, Taken, Engine, Socket
  <2>5. [i \in 1..Len(Conn.eng.app) |-> <<c, Conn.eng.app[i]>>] = <<<<c, r + 1>>>>
    <3>1. Len(Conn.eng.app) = 1 /\ Conn.eng.app[1] = r + 1
      BY <2>2
    <3> HIDE DEF r
    <3> QED BY <3>1
  <2>6. <<c, r + 1>> \in Conns \X Nat
    BY <1>3
  <2>7. ring[c] \o <<<<c, r + 1>>>> = q
    BY <1>3, <2>6, AppendIsConcat
  <2>8. /\ net' = [net EXCEPT ![c] = n] /\ ring' = [ring EXCEPT ![c] = q]
        /\ asked' = [asked EXCEPT ![c] = a]
    BY <1>1, <2>4, <2>5, <2>7, Zenon DEF Typed
  <2>9. q \in Seq(Conns \X Nat) /\ Len(q) = r + 1 /\ InOrder(q, c)
    <3>1. /\ q \in Seq(Conns \X Nat) /\ Len(q) = r + 1 /\ q[r + 1] = <<c, r + 1>>
          /\ \A i \in 1..r : q[i] = ring[c][i]
      BY <1>3, <2>6, AppendProperties
    <3>2. \A i \in 1..r : ring[c][i] = <<c, i>>
      BY <1>3, Zenon DEF InOrder
    <3> HIDE DEF q
    <3>3. r \in Nat /\ DOMAIN q = 1..(r + 1)
      BY <1>3, <3>1, LenProperties, Zenon
    <3> HIDE DEF r
    <3>4. \A i \in 1..(r + 1) : q[i] = <<c, i>>
      <4> SUFFICES ASSUME NEW i \in 1..(r + 1) PROVE q[i] = <<c, i>>
        BY Zenon
      <4>1. i = r + 1 \/ i \in 1..r
        BY <3>3
      <4> QED BY <3>1, <3>2, <4>1, Zenon
    <3>5. q = [i \in 1..(r + 1) |-> q[i]]
      BY <3>1, <3>3
    <3>6. q = [i \in 1..Len(q) |-> <<c, i>>]
      BY <3>1, <3>4, <3>5, Zenon
    <3> QED BY <3>1, <3>6, Zenon DEF InOrder
  <2>10. st \in {"HANDSHAKING", "ESTABLISHED", "CLOSING", "ERROR"}
    BY <1>3, Zenon DEF Connections
  <2> HIDE DEF e, st
  <2>11. /\ conn \in Connections /\ conn.eng = e /\ conn.fd = Conn.fd /\ conn.state = st
         /\ conn.tab_multiplex_id = Conn.tab_multiplex_id
    BY <1>3, <2>2, <2>10, Zenon DEF Connections
  <2>12. Judged(st, e)
    BY <1>3, <2>2, <2>3, Zenon DEF Judged, st
  <2>13. Carried(n, Len(q), a, conn.eng) /\ Judged(conn.state, conn.eng) /\ conn.state # "IDLE"
    BY <2>2, <2>9, <2>10, <2>11, <2>12
  <2> HIDE DEF conn, q, n, a, r
  <2> QED BY <1>1, <1>2, <1>3, <1>4, <2>4, <2>8, <2>9, <2>11, <2>13, OneMoves, Zenon DEF Conn, n, a
<1> QED BY <1>5, <1>6, Zenon

\* poll reports a connection, and netd_tls_pump begins with its slot.
LEMMA PumpStep ==
  ASSUME IInv, NEW s \in Slots, netd_tls_pump(s)
  PROVE  IInv'
<1>1. Connected(s)
  BY SlotCases, Zenon DEF IInv, netd_tls_pump
<1>2. pump' \in Pumps /\ pump'.slot = s
  BY Zenon DEF netd_tls_pump, Pumps
<1> QED BY <1>1, <1>2, NothingMoves, Zenon DEF netd_tls_pump

\* The steps that find nothing to read or to write.
LEMMA NothingStep ==
  ASSUME IInv, feed_nothing \/ flush_nothing
  PROVE  IInv'
<1>1. Typed /\ Owned /\ pump.at # "poll"
  BY Zenon DEF IInv, feed_nothing, flush_nothing
<1>2. UNCHANGED <<global_tls_connections, fds, net, ring, asked, opened, held, load>>
  BY Zenon DEF feed_nothing, flush_nothing
<1>3. \/ pump' = [pump EXCEPT !.at = "write", !.progress = FALSE]
      \/ pump' = [pump EXCEPT !.at = "push"]
  BY Zenon DEF feed_nothing, flush_nothing
<1>4. pump' \in Pumps /\ Connected(pump'.slot)
  <2>1. CASE pump' = [pump EXCEPT !.at = "write", !.progress = FALSE]
    BY <1>1, <2>1, PumpStays, Zenon
  <2>2. CASE pump' = [pump EXCEPT !.at = "push"]
    BY <1>1, <2>2, PumpStays, Zenon
  <2> QED BY <1>3, <2>1, <2>2, Zenon
<1> QED BY <1>2, <1>4, NothingMoves, Zenon

\* netd_tls_send puts the next request in an engine that is ready for it.
LEMMA SendStep ==
  ASSUME IInv, NEW s \in Slots, netd_tls_send(s)
  PROVE  IInv'
<1> DEFINE c == held[s]
           old == global_tls_connections[s]
<1>1. Typed /\ Owned /\ Delivered /\ Connected(s)
  BY SlotCases, Zenon DEF IInv, netd_tls_send
<1>3. /\ old \in Connections /\ old.eng \in Engines /\ c \in Conns
      /\ net[c] \in Nets /\ ring[c] \in Seq(Conns \X Nat) /\ asked[c] \in Nat /\ Len(ring[c]) \in Nat
      /\ InOrder(ring[c], c) /\ old.state # "IDLE"
      /\ Carried(net[c], Len(ring[c]), asked[c], old.eng)
      /\ Judged(old.state, old.eng)
  BY <1>1, SlotFacts, Zenon
<1>4. old.eng.phase = "open" /\ old.eng.out = <<>>
  BY <1>3, Flags, Zenon DEF netd_tls_send, Ready
<1> DEFINE e == sendapp_ack(old.eng, Rec("request", asked[c] + 1))
           conn == [old EXCEPT !.eng = e]
           n == net[c]
           q == ring[c]
           a == asked[c] + 1
<1>5. e \in Engines /\ Carried(n, Len(q), a, e)
  BY <1>3, <1>4, CarriedSend, Zenon
<1>6. e.phase = "open"
  BY <1>3, <1>4, Zenon DEF sendapp_ack, Engines
<1>7. global_tls_connections' = [global_tls_connections EXCEPT ![s] = conn]
  BY Zenon DEF netd_tls_send, Set, Accepted
<1> HIDE DEF e
<1>8. /\ conn \in Connections /\ conn.eng = e /\ conn.fd = old.fd /\ conn.state = old.state
      /\ conn.tab_multiplex_id = old.tab_multiplex_id
  BY <1>3, <1>5, Zenon DEF Connections
<1>9. /\ net' = [net EXCEPT ![c] = n] /\ ring' = [ring EXCEPT ![c] = q]
      /\ asked' = [asked EXCEPT ![c] = a] /\ UNCHANGED <<fds, opened, held, load>>
  BY <1>1, <1>3, Zenon DEF netd_tls_send, Typed
<1>10. pump' \in Pumps /\ (pump'.at # "poll" => Connected(pump'.slot))
  <2>1. pump' \in Pumps /\ pump'.slot = s
    BY Zenon DEF netd_tls_send, Pumps
  <2> QED BY <1>1, <2>1, Zenon
<1>11. Judged(conn.state, conn.eng)
  BY <1>3, <1>4, <1>6, <1>8, Zenon DEF Judged
<1>12. Carried(n, Len(q), a, conn.eng) /\ InOrder(q, c) /\ q \in Seq(Conns \X Nat) /\ a \in Nat
  BY <1>3, <1>5, <1>8
<1> HIDE DEF conn, n, q, a
<1> QED BY <1>1, <1>3, <1>7, <1>8, <1>9, <1>10, <1>11, <1>12, OneMoves, Zenon DEF n

\* The peer takes a record.
LEMMA TakesStep ==
  ASSUME IInv, NEW c \in Conns, peer_takes(c)
  PROVE  IInv'
<1> DEFINE o == net[c]
           x == Head(o.tx)
           m == [o EXCEPT !.tx = Tail(@)]
           n == CASE x = Hello /\ Talks(c) -> [m EXCEPT !.rx = Append(@, Hello)]
                  [] x = Finished -> [m EXCEPT !.ready = TRUE]
                  [] x.kind = "request" -> [m EXCEPT !.reqs = Append(@, x.n)]
                  [] OTHER -> m
<1>1. Typed /\ Owned /\ Delivered /\ o \in Nets /\ o.tx # <<>> /\ Peer(c, n) /\ ~ o.rst
  BY Zenon DEF IInv, Typed, peer_takes, Peer
<1>2. Tail(o.tx) \in Seq(Records) /\ x \in Records /\ x.n \in Nat
  <2>1. o.tx \in Seq(Records)
    BY <1>1, Zenon DEF Nets
  <2>2. Tail(o.tx) \in Seq(Records) /\ x \in Records
    BY <1>1, <2>1, HeadTailProperties, Zenon
  <2> QED BY <2>2, Zenon DEF Records
<1>3. /\ m \in Nets /\ m.tx = Tail(o.tx) /\ m.rx = o.rx /\ m.rst = o.rst /\ m.fin = o.fin
      /\ m.bye = o.bye /\ m.sent = o.sent /\ m.ready = o.ready /\ m.reqs = o.reqs
  BY <1>1, <1>2, Zenon DEF Nets
<1>4. Append(m.rx, Hello) \in Seq(Records) /\ Append(m.reqs, x.n) \in Seq(Nat)
  BY <1>2, <1>3, RecordTypes DEF Nets
<1> HIDE DEF m, x
<1>5. n \in Nets /\ n.tx = m.tx /\ n.rst = m.rst /\ n.fin = m.fin /\ n.bye = m.bye /\ n.sent = m.sent
      /\ \/ /\ x = Hello /\ ~ o.fin /\ ~ o.bye
            /\ n.rx = Append(m.rx, Hello) /\ n.ready = m.ready /\ n.reqs = m.reqs
         \/ x = Finished /\ n.rx = m.rx /\ n.reqs = m.reqs
         \/ /\ x.kind = "request"
            /\ n.rx = m.rx /\ n.ready = m.ready /\ n.reqs = Append(m.reqs, x.n)
         \/ /\ x.kind # "request"
            /\ n.rx = m.rx /\ n.ready = m.ready /\ n.reqs = m.reqs
  <2>1. CASE x = Hello /\ Talks(c)
    <3>1. n = [m EXCEPT !.rx = Append(@, Hello)]
      BY <2>1, RecordTypes, Zenon
    <3> HIDE DEF n
    <3>2. n \in Nets /\ n.tx = m.tx /\ n.rst = m.rst /\ n.fin = m.fin /\ n.bye = m.bye /\ n.sent = m.sent
          /\ n.rx = Append(m.rx, Hello) /\ n.ready = m.ready /\ n.reqs = m.reqs
      BY <1>3, <1>4, <3>1, Zenon DEF Nets
    <3> QED BY <2>1, <3>2, Zenon DEF Talks
  <2>2. CASE ~ (x = Hello /\ Talks(c)) /\ x = Finished
    <3>1. n = [m EXCEPT !.ready = TRUE]
      BY <2>2, RecordTypes, Zenon
    <3> HIDE DEF n
    <3>2. n \in Nets /\ n.tx = m.tx /\ n.rst = m.rst /\ n.fin = m.fin /\ n.bye = m.bye /\ n.sent = m.sent
          /\ n.rx = m.rx /\ n.reqs = m.reqs
      BY <1>3, <3>1, Zenon DEF Nets
    <3> QED BY <2>2, <3>2, Zenon
  <2>3. CASE ~ (x = Hello /\ Talks(c)) /\ x # Finished /\ x.kind = "request"
    BY <1>3, <1>4, <2>3, Zenon DEF Nets
  <2>4. CASE ~ (x = Hello /\ Talks(c)) /\ x # Finished /\ x.kind # "request"
    BY <1>3, <2>4, Zenon DEF Nets
  <2> QED BY <2>1, <2>2, <2>3, <2>4, Zenon
<1> HIDE DEF n
<1>6. ASSUME NEW r \in Nat, NEW a \in Nat, NEW e \in Engines, Carried(o, r, a, e)
      PROVE  Carried(n, r, a, e)
  BY <1>1, <1>3, <1>5, <1>6, CarriedTaken, Zenon DEF x
<1> QED BY <1>1, <1>3, <1>5, <1>6, PeerMoves, Zenon

\* The peer sends, closes, ends or resets.
LEMMA PeerStep ==
  ASSUME IInv, NEW c \in Conns,
         peer_sends(c) \/ peer_closes(c) \/ peer_ends(c) \/ peer_resets(c) \/ peer_garbles(c)
  PROVE  IInv'
<1> DEFINE o == net[c]
<1>1. Typed /\ Owned /\ Delivered /\ o \in Nets
  BY Zenon DEF IInv, Typed
<1>2. /\ o.rx \in Seq(Records) /\ o.sent \in Nat
      /\ CloseNotify \in Records /\ Malformed \in Records /\ Rec("data", o.sent + 1) \in Records
  BY <1>1, RecordTypes DEF Nets
<1>3. /\ Append(o.rx, CloseNotify) \in Seq(Records) /\ Append(o.rx, Malformed) \in Seq(Records)
      /\ Append(o.rx, Rec("data", o.sent + 1)) \in Seq(Records)
  BY <1>2
<1>4. CASE peer_sends(c)
  <2> DEFINE n == [o EXCEPT !.rx = Append(@, Rec("data", o.sent + 1)), !.sent = @ + 1]
  <2>1. Peer(c, n) /\ o.ready /\ ~ o.fin /\ ~ o.bye /\ ~ o.rst
    BY <1>4, Zenon DEF peer_sends, Talks, Peer
  <2>2. /\ n \in Nets /\ n.tx = o.tx /\ n.reqs = o.reqs /\ n.rst = o.rst /\ n.fin = o.fin
        /\ n.ready = o.ready /\ n.rx = Append(o.rx, Rec("data", o.sent + 1))
        /\ n.sent = o.sent + 1 /\ n.bye = o.bye
    <3> DEFINE rx == Append(o.rx, Rec("data", o.sent + 1))
               k == o.sent + 1
    <3>1. rx \in Seq(Records) /\ k \in Nat /\ n = [o EXCEPT !.rx = rx, !.sent = k]
      BY <1>2, <1>3
    <3> HIDE DEF n, rx, k
    <3>2. /\ n \in Nets /\ n.tx = o.tx /\ n.reqs = o.reqs /\ n.rst = o.rst /\ n.fin = o.fin
          /\ n.ready = o.ready /\ n.rx = rx /\ n.sent = k /\ n.bye = o.bye
      BY <1>1, <3>1, Zenon DEF Nets
    <3> QED BY <3>2, Zenon DEF rx, k
  <2> HIDE DEF n
  <2>3. \A r, a \in Nat : \A e \in Engines : Carried(o, r, a, e) => Carried(n, r, a, e)
    BY <1>1, <2>1, <2>2, CarriedMore, Zenon
  <2> QED BY <1>1, <2>1, <2>2, <2>3, PeerMoves, Zenon
<1>5. CASE peer_closes(c)
  <2> DEFINE n == [o EXCEPT !.rx = Append(@, CloseNotify), !.bye = TRUE]
  <2>1. Peer(c, n) /\ o.ready /\ ~ o.fin /\ ~ o.bye /\ ~ o.rst
    BY <1>5, Zenon DEF peer_closes, Talks, Peer
  <2>2. /\ n \in Nets /\ n.tx = o.tx /\ n.reqs = o.reqs /\ n.rst = o.rst /\ n.fin = o.fin
        /\ n.ready = o.ready /\ n.rx = Append(o.rx, CloseNotify) /\ n.sent = o.sent /\ n.bye = TRUE
    BY <1>1, <1>3, Zenon DEF Nets
  <2> HIDE DEF n
  <2>3. \A r, a \in Nat : \A e \in Engines : Carried(o, r, a, e) => Carried(n, r, a, e)
    BY <1>1, <2>1, <2>2, CarriedMore, Zenon
  <2> QED BY <1>1, <2>1, <2>2, <2>3, PeerMoves, Zenon
<1>6. CASE peer_garbles(c)
  <2> DEFINE n == [o EXCEPT !.rx = Append(@, Malformed), !.bye = TRUE]
  <2>1. Peer(c, n) /\ ~ o.fin /\ ~ o.bye /\ ~ o.rst
    BY <1>6, Zenon DEF peer_garbles, Talks, Peer
  <2>2. /\ n \in Nets /\ n.tx = o.tx /\ n.reqs = o.reqs /\ n.rst = o.rst /\ n.fin = o.fin
        /\ n.ready = o.ready /\ n.rx = Append(o.rx, Malformed) /\ n.sent = o.sent /\ n.bye = TRUE
    BY <1>1, <1>3, Zenon DEF Nets
  <2> HIDE DEF n
  <2>3. \A r, a \in Nat : \A e \in Engines : Carried(o, r, a, e) => Carried(n, r, a, e)
    BY <1>1, <2>1, <2>2, CarriedMore, Zenon
  <2> QED BY <1>1, <2>1, <2>2, <2>3, PeerMoves, Zenon
<1>7. CASE peer_ends(c)
  <2> DEFINE n == [o EXCEPT !.fin = TRUE]
  <2>1. Peer(c, n)
    BY <1>7, Zenon DEF peer_ends
  <2>2. /\ n \in Nets /\ n.reqs = o.reqs /\ n.ready = o.ready /\ n.bye = o.bye /\ n.sent = o.sent
        /\ n.fin = TRUE /\ n.rst = o.rst /\ n.rx = o.rx /\ n.tx = o.tx
    BY <1>1, Zenon DEF Nets
  <2> HIDE DEF n
  <2>3. \A r, a \in Nat : \A e \in Engines : Carried(o, r, a, e) => Carried(n, r, a, e)
    BY <1>1, <2>2, CarriedEnd, Zenon
  <2> QED BY <1>1, <2>1, <2>2, <2>3, PeerMoves, Zenon
<1>8. CASE peer_resets(c)
  <2> DEFINE n == [o EXCEPT !.rst = TRUE, !.rx = <<>>, !.tx = <<>>]
  <2>1. Peer(c, n)
    BY <1>8, Zenon DEF peer_resets
  <2>2. <<>> \in Seq(Records)
    OBVIOUS
  <2>3. /\ n \in Nets /\ n.reqs = o.reqs /\ n.ready = o.ready /\ n.bye = o.bye /\ n.sent = o.sent
        /\ n.rst = TRUE /\ n.fin = o.fin /\ n.rx = <<>> /\ n.tx = <<>>
    BY <1>1, <2>2, Zenon DEF Nets
  <2> HIDE DEF n
  <2>4. \A r, a \in Nat : \A e \in Engines : Carried(o, r, a, e) => Carried(n, r, a, e)
    BY <1>1, <2>3, CarriedEnd, Zenon
  <2> QED BY <1>1, <2>1, <2>3, <2>4, PeerMoves
<1> QED BY <1>4, <1>5, <1>6, <1>7, <1>8, Zenon

\* netd_tls_acquire_slot: the slot is held for the newest connection, which no
\* other slot holds, and has no socket.
LEMMA AcquireStep ==
  ASSUME IInv, netd_tls_acquire_slot
  PROVE  IInv'
<1>1. Typed /\ Owned /\ Delivered
  BY Zenon DEF IInv
<1>2. /\ opened' = opened + 1 /\ opened \in Nat /\ opened + 1 \in 0..load.conns
      /\ opened + 1 \in 0..MaxConns /\ opened + 1 # 0
      /\ UNCHANGED <<pump, fds, net, ring, asked, load>>
  <2>1. load.conns \in 1..MaxConns /\ opened \in 0..load.conns /\ opened < load.conns
    BY <1>1, LoadsTyped, Zenon DEF Typed, netd_tls_acquire_slot
  <2> QED BY <2>1, SizesPositive DEF netd_tls_acquire_slot
<1>3. CASE UNCHANGED <<global_tls_connections, held>>
  <2>1. Typed'
    BY <1>1, <1>2, <1>3, Zenon DEF Typed
  <2>2. Owned'
    <3>1. \A s \in Slots : held[s] <= opened'
      BY <1>1, <1>2 DEF Owned, Typed
    <3> QED BY <1>1, <1>2, <1>3, <3>1 DEF Owned, Connected
  <2>3. Delivered'
    BY <1>1, <1>2, <1>3, Zenon DEF Delivered, Connected, Open
  <2> QED BY <2>1, <2>2, <2>3, Zenon DEF IInv
<1>4. CASE IdleSlots # {} /\ acquire_slot(Min(IdleSlots))
  <2> DEFINE s == Min(IdleSlots)
             conn == [global_tls_connections[s] EXCEPT !.state = "HANDSHAKING", !.fd = -1]
  <2>1. s \in IdleSlots
    <3>1. IdleSlots \in SUBSET Nat
      BY DEF IdleSlots, Slots
    <3> QED BY <1>4, <3>1, MinIn, Zenon
  <2>2. s \in Slots /\ global_tls_connections[s].state = "IDLE"
    BY <2>1, Zenon DEF IdleSlots
  <2>3. /\ global_tls_connections' = [global_tls_connections EXCEPT ![s] = conn]
        /\ held' = [held EXCEPT ![s] = opened + 1]
    BY <1>2, <1>4, Zenon DEF acquire_slot, Set
  <2> HIDE DEF s
  <2>4. conn \in Connections /\ conn.state = "HANDSHAKING" /\ conn.fd = -1
    BY <1>1, <2>2, Zenon DEF Typed, Connections
  <2> HIDE DEF conn
  <2>5. held[s] = 0
    BY <1>1, <2>2, Zenon DEF Owned
  <2>6. ~ (global_tls_connections[s].fd > 0)
    BY <1>1, <2>2, <2>5, Zenon DEF Owned
  <2>7. /\ global_tls_connections'[s] = conn /\ held'[s] = opened + 1
        /\ \A t \in Slots \ {s} : /\ global_tls_connections'[t] = global_tls_connections[t]
                                  /\ held'[t] = held[t]
    BY <1>1, <2>2, <2>3, Zenon DEF Typed
  <2>8. Typed'
    BY <1>1, <1>2, <2>2, <2>3, <2>4, Zenon DEF Typed
  <2>9. \A t \in Slots : Connected(t)' <=> t # s /\ Connected(t)
    BY <2>2, <2>4, <2>7 DEF Connected
  <2>10. Owned'
    <3>1. \A t \in Slots : held[t] \in Nat /\ held[t] <= opened
      BY <1>1 DEF Owned, Typed
    <3>2. \A t \in Slots : held'[t] <= opened' /\ (held'[t] # 0 => global_tls_connections'[t].fd # 0)
      BY <1>1, <1>2, <2>4, <2>7, <3>1 DEF Owned
    <3>3. \A t, u \in Slots : held'[t] = held'[u] /\ held'[t] # 0 => t = u
      <4>1. \A t \in Slots \ {s} : held'[t] # opened + 1
        BY <1>2, <2>7, <3>1
      <4> QED BY <1>1, <2>7, <4>1 DEF Owned
    <3>4. \A f \in Fds \ {0} : fds'[f] # Free =>
            fds'[f] \in Conns /\ \E t \in Slots : held'[t] = fds'[f] /\ global_tls_connections'[t].fd = f
      <4> SUFFICES ASSUME NEW f \in Fds \ {0}, fds[f] # Free
                   PROVE  fds[f] \in Conns /\ \E t \in Slots : held'[t] = fds[f] /\ global_tls_connections'[t].fd = f
        BY <1>2, Zenon
      <4>1. fds[f] \in Conns
        BY <1>1, Zenon DEF Owned
      <4>2. PICK t \in Slots : held[t] = fds[f] /\ global_tls_connections[t].fd = f
        BY <1>1, Zenon DEF Owned
      <4>3. t # s
        BY <2>5, <4>1, <4>2, SizesPositive DEF Conns
      <4> QED BY <2>7, <4>1, <4>2, <4>3, Zenon
    <3>5. \A t \in Slots : global_tls_connections'[t].fd > 0 =>
            held'[t] # 0 /\ fds'[global_tls_connections'[t].fd] = held'[t]
      BY <1>1, <1>2, <2>4, <2>7 DEF Owned
    <3>6. \A t \in Slots : held'[t] = 0 <=> global_tls_connections'[t].state = "IDLE"
      BY <1>1, <1>2, <2>4, <2>7 DEF Owned
    <3>7. \A t \in Slots : held'[t] # 0 /\ global_tls_connections'[t].fd = -1 =>
            global_tls_connections'[t].state = "HANDSHAKING"
      BY <1>1, <2>4, <2>7 DEF Owned
    <3>8. fds'[0] = Stdin /\ pump'.at = "poll"
      BY <1>1, <1>2, Zenon DEF Owned, netd_tls_acquire_slot
    <3> QED BY <3>2, <3>3, <3>4, <3>5, <3>6, <3>7, <3>8 DEF Owned
  <2>11. Delivered'
    <3>1. \A c \in Conns : Open(c)' <=> Open(c)
      BY <1>2, Zenon DEF Open
    <3>2. \A t \in Slots : Connected(t)' =>
            /\ global_tls_connections'[t] = global_tls_connections[t] /\ held'[t] = held[t] /\ Connected(t)
      BY <2>7, <2>9, Zenon
    <3> QED BY <1>1, <1>2, <3>1, <3>2, Zenon DEF Delivered
  <2> QED BY <2>8, <2>10, <2>11, Zenon DEF IInv
<1> QED BY <1>3, <1>4, Zenon DEF netd_tls_acquire_slot

\* netd_tls_init_connection: the socket has a free fd, and nothing has moved on
\* its connection yet.
LEMMA InitStep ==
  ASSUME IInv, NEW s \in Slots, netd_tls_init_connection(s)
  PROVE  IInv'
<1> DEFINE c == held[s]
           d == Min({f \in Fds : fds[f] = Free})
           conn == [state |-> "HANDSHAKING", fd |-> d, tab_multiplex_id |-> c, eng |-> client_reset]
<1>1. Typed /\ Owned /\ Delivered /\ Unconnected(s) /\ pump.at = "poll"
  BY Zenon DEF IInv, netd_tls_init_connection
<1>2. c # 0 /\ c \in Conns /\ c \in 0..MaxConns /\ global_tls_connections[s].fd = -1 /\ ~ Open(c)
      /\ c # Free
  BY <1>1, SlotCases, SizesPositive DEF Unconnected, Typed, Conns, Open, Free
<1>3. d \in Fds \ {0} /\ fds[d] = Free
  BY <1>1, <1>2, FreeFd, Zenon
<1>4. /\ global_tls_connections' = [global_tls_connections EXCEPT ![s] = conn]
      /\ fds' = [fds EXCEPT ![d] = c]
      /\ UNCHANGED <<pump, net, ring, asked, opened, held, load>>
  BY Zenon DEF netd_tls_init_connection, Set
<1> HIDE DEF d
<1>5. /\ conn \in Connections /\ conn.state = "HANDSHAKING" /\ conn.fd = d /\ conn.tab_multiplex_id = c
      /\ conn.eng = client_reset
  BY <1>2, <1>3, CarriedFirst, Zenon DEF Connections
<1> HIDE DEF conn
<1>6. d > 0 /\ d # -1
  BY <1>3, SizesPositive DEF Fds
<1>7. /\ global_tls_connections'[s] = conn /\ fds'[d] = c /\ held' = held
      /\ \A t \in Slots \ {s} : global_tls_connections'[t] = global_tls_connections[t]
      /\ \A f \in Fds \ {d} : fds'[f] = fds[f]
  BY <1>1, <1>3, <1>4, Zenon DEF Typed
<1>8. Typed'
  BY <1>1, <1>2, <1>3, <1>4, <1>5 DEF Typed
<1>9. \A t \in Slots : Connected(t)' <=> t = s \/ Connected(t)
  BY <1>2, <1>5, <1>6, <1>7, Zenon DEF Connected
<1>10. Owned'
  <2>1. fds'[0] = Stdin /\ pump'.at = "poll"
    BY <1>1, <1>3, <1>4, <1>7, SizesPositive DEF Owned, Fds
  <2>2. \A f \in Fds \ {0} : fds'[f] # Free =>
          fds'[f] \in Conns /\ \E t \in Slots : held'[t] = fds'[f] /\ global_tls_connections'[t].fd = f
    <3> SUFFICES ASSUME NEW f \in Fds \ {0}, fds'[f] # Free
                 PROVE  fds'[f] \in Conns /\ \E t \in Slots : held[t] = fds'[f] /\ global_tls_connections'[t].fd = f
      BY <1>7, Zenon
    <3>1. CASE f = d
      BY <1>2, <1>5, <1>7, <3>1, Zenon
    <3>2. CASE f # d
      <4>1. fds'[f] = fds[f]
        BY <1>7, <3>2, Zenon
      <4>2. PICK t \in Slots : held[t] = fds[f] /\ global_tls_connections[t].fd = f
        BY <1>1, <4>1, Zenon DEF Owned
      <4>3. t # s
        BY <1>2, <4>2, SizesPositive DEF Fds
      <4>4. fds[f] \in Conns
        BY <1>1, <4>1, Zenon DEF Owned
      <4> QED BY <1>7, <4>1, <4>2, <4>3, <4>4, Zenon
    <3> QED BY <3>1, <3>2, Zenon
  <2>3. \A t \in Slots : global_tls_connections'[t].fd > 0 =>
          held'[t] # 0 /\ fds'[global_tls_connections'[t].fd] = held'[t]
    <3> SUFFICES ASSUME NEW t \in Slots, global_tls_connections'[t].fd > 0
                 PROVE  held[t] # 0 /\ fds'[global_tls_connections'[t].fd] = held[t]
      BY <1>7, Zenon
    <3>1. CASE t = s
      BY <1>2, <1>5, <1>7, <3>1, Zenon
    <3>2. CASE t # s
      <4> DEFINE g == global_tls_connections[t].fd
      <4>1. global_tls_connections'[t].fd = g /\ g > 0
        BY <1>7, <3>2, Zenon
      <4>2. g \in Fds /\ fds[g] = held[t] /\ held[t] # 0 /\ held[t] \in 0..MaxConns
        BY <1>1, <4>1 DEF Owned, Typed, Connections
      <4>3. g # d
        BY <1>3, <4>2, SizesPositive DEF Free
      <4> QED BY <1>7, <4>1, <4>2, <4>3, Zenon
    <3> QED BY <3>1, <3>2, Zenon
  <2>4. \A t \in Slots : held'[t] = 0 <=> global_tls_connections'[t].state = "IDLE"
    BY <1>1, <1>2, <1>5, <1>7 DEF Owned
  <2>5. \A t \in Slots : held'[t] <= opened' /\ (held'[t] # 0 => global_tls_connections'[t].fd # 0)
    BY <1>1, <1>4, <1>5, <1>6, <1>7 DEF Owned
  <2>6. \A t, u \in Slots : held'[t] = held'[u] /\ held'[t] # 0 => t = u
    BY <1>1, <1>7, Zenon DEF Owned
  <2>7. \A t \in Slots : held'[t] # 0 /\ global_tls_connections'[t].fd = -1 =>
          global_tls_connections'[t].state = "HANDSHAKING"
    BY <1>1, <1>5, <1>7 DEF Owned
  <2> QED BY <2>1, <2>2, <2>3, <2>4, <2>5, <2>6, <2>7 DEF Owned
<1>11. Delivered'
  <2>1. ASSUME NEW b \in Conns, ~ Open(b)' PROVE ~ Open(b)
    <3>1. \A f \in Fds : fds[f] = b => fds'[f] = b
      BY <1>3, <1>7, SizesPositive DEF Free, Conns
    <3> QED BY <2>1, <3>1, Zenon DEF Open
  <2>2. \A b \in Conns : ~ Open(b)' => net'[b] = NoNet /\ ring'[b] = <<>> /\ asked'[b] = 0
    BY <1>1, <1>4, <2>1, Zenon DEF Delivered
  <2>3. ring'[0] = <<>> /\ \A b \in Conns : InOrder(ring'[b], b)
    BY <1>1, <1>4, Zenon DEF Delivered
  <2>4. ASSUME NEW t \in Slots, Connected(t)'
        PROVE  /\ global_tls_connections'[t].tab_multiplex_id = held'[t]
               /\ Carried(net'[held'[t]], Len(ring'[held'[t]]), asked'[held'[t]], global_tls_connections'[t].eng)
               /\ Judged(global_tls_connections'[t].state, global_tls_connections'[t].eng)
    <3>1. CASE t = s
      <4>1. net[c] = NoNet /\ ring[c] = <<>> /\ asked[c] = 0
        BY <1>1, <1>2, Zenon DEF Delivered
      <4>2. Carried(net[c], Len(ring[c]), asked[c], client_reset)
        BY <4>1, CarriedFirst, Zenon
      <4> QED BY <1>4, <1>5, <1>7, <3>1, <4>2, Zenon DEF Judged
    <3>2. CASE t # s
      <4>1. Connected(t)
        BY <1>9, <2>4, <3>2, Zenon
      <4> QED BY <1>1, <1>4, <1>7, <3>2, <4>1, Zenon DEF Delivered
    <3> QED BY <3>1, <3>2, Zenon
  <2> QED BY <2>2, <2>3, <2>4, Zenon DEF Delivered
<1> QED BY <1>8, <1>10, <1>11, Zenon DEF IInv

\* netd_tls_release_slot: the socket, if there is one, is closed, and it was the
\* slot's own.
LEMMA ReleaseStep ==
  ASSUME IInv, NEW s \in Slots, netd_tls_release_slot(s)
  PROVE  IInv'
<1> DEFINE c == held[s]
           old == global_tls_connections[s]
           d == old.fd
           conn == [old EXCEPT !.state = "IDLE", !.tab_multiplex_id = 0, !.fd = -1]
<1>1. Typed /\ Owned /\ Delivered
  BY Zenon DEF IInv
<1>2. c # 0 /\ c \in Conns /\ c # Free /\ old \in Connections
  BY <1>1, SizesPositive DEF netd_tls_release_slot, Typed, Conns, Free
<1>3. d = -1 \/ (d > 0 /\ d \in Fds \ {0} /\ fds[d] = c)
  <2>1. d # 0
    BY <1>1, <1>2, Zenon DEF Owned
  <2>2. d = -1 \/ d > 0
    BY <1>1, <2>1, SlotCases, Zenon
  <2>3. d > 0 => d \in Fds \ {0} /\ fds[d] = c
    BY <1>1, <1>2, <2>1 DEF Owned, Connections
  <2> QED BY <2>2, <2>3, Zenon
<1>4. /\ global_tls_connections' = [global_tls_connections EXCEPT ![s] = conn]
      /\ fds' = IF d >= 0 THEN [fds EXCEPT ![d] = Free] ELSE fds
      /\ net' = [net EXCEPT ![c] = NoNet] /\ ring' = [ring EXCEPT ![c] = <<>>]
      /\ asked' = [asked EXCEPT ![c] = 0] /\ held' = [held EXCEPT ![s] = 0]
      /\ pump' = Idle /\ UNCHANGED <<opened, load>>
  BY Zenon DEF netd_tls_release_slot, release, Set, Forget
<1>5. conn \in Connections /\ conn.state = "IDLE" /\ conn.fd = -1
  <2>1. 0 \in 0..MaxConns
    BY SizesPositive
  <2> QED BY <1>2, <2>1, Zenon DEF Connections
<1> HIDE DEF conn
<1>6. /\ global_tls_connections'[s] = conn /\ held'[s] = 0
      /\ \A t \in Slots \ {s} : global_tls_connections'[t] = global_tls_connections[t] /\ held'[t] = held[t]
  BY <1>1, <1>4, Zenon DEF Typed
<1>7. \A f \in Fds : fds'[f] = IF d > 0 /\ f = d THEN Free ELSE fds[f]
  <2>1. CASE d = -1
    BY <1>4, <2>1
  <2>2. CASE d > 0 /\ d \in Fds \ {0}
    <3>1. fds' = [fds EXCEPT ![d] = Free]
      BY <1>4, <2>2, SizesPositive DEF Fds
    <3> QED BY <1>1, <2>2, <3>1, Zenon DEF Typed
  <2> QED BY <1>3, <2>1, <2>2, Zenon
<1>8. /\ net'[c] = NoNet /\ ring'[c] = <<>> /\ asked'[c] = 0 /\ ring'[0] = ring[0]
      /\ \A b \in Conns \ {c} : net'[b] = net[b] /\ ring'[b] = ring[b] /\ asked'[b] = asked[b]
  BY <1>1, <1>2, <1>4, SizesPositive DEF Typed, Conns
<1>9. Idle \in Pumps /\ Idle.at = "poll"
  BY SizesPositive DEF Idle, Pumps, Slots
<1>10. Typed'
  <2>1. fds' \in [Fds -> Conns \cup {Free, Stdin}]
    <3>1. CASE d = -1
      BY <1>1, <1>4, <3>1, Zenon DEF Typed
    <3>2. CASE d > 0 /\ d \in Fds \ {0}
      BY <1>1, <1>4, <3>2, Zenon DEF Typed
    <3> QED BY <1>3, <3>1, <3>2, Zenon
  <2>2. net' \in [Conns -> Nets] /\ ring' \in [0..MaxConns -> Seq(Conns \X Nat)] /\ asked' \in [Conns -> Nat]
    <3>1. NoNet \in Nets /\ <<>> \in Seq(Conns \X Nat) /\ 0 \in Nat
      BY CarriedFirst
    <3> QED BY <1>1, <1>4, <3>1, Zenon DEF Typed
  <2>3. global_tls_connections' \in [Slots -> Connections] /\ held' \in [Slots -> 0..MaxConns]
    BY <1>1, <1>4, <1>5, SizesPositive DEF Typed
  <2> QED BY <1>1, <1>4, <1>9, <2>1, <2>2, <2>3, Zenon DEF Typed
<1>11. \A t \in Slots : Connected(t)' <=> t # s /\ Connected(t)
  BY <1>5, <1>6 DEF Connected
<1>12. \A t \in Slots \ {s} : held[t] # c
  BY <1>1, <1>2, Zenon DEF Owned
<1>13. Owned'
  <2>1. fds'[0] = Stdin /\ pump'.at = "poll"
    <3>1. 0 \in Fds
      BY SizesPositive DEF Fds
    <3> QED BY <1>1, <1>3, <1>4, <1>7, <1>9, <3>1 DEF Owned
  <2>2. \A f \in Fds \ {0} : fds'[f] # Free =>
          fds'[f] \in Conns /\ \E t \in Slots : held'[t] = fds'[f] /\ global_tls_connections'[t].fd = f
    <3> SUFFICES ASSUME NEW f \in Fds \ {0}, fds'[f] # Free
                 PROVE  fds'[f] \in Conns /\ \E t \in Slots : held'[t] = fds'[f] /\ global_tls_connections'[t].fd = f
      BY Zenon
    <3>1. fds'[f] = fds[f] /\ ~ (d > 0 /\ f = d)
      BY <1>7, Zenon
    <3>2. PICK t \in Slots : held[t] = fds[f] /\ global_tls_connections[t].fd = f
      BY <1>1, <3>1, Zenon DEF Owned
    <3>3. f > 0
      BY SizesPositive DEF Fds
    <3>4. t # s
      BY <3>1, <3>2, <3>3, Zenon
    <3>5. fds[f] \in Conns
      BY <1>1, <3>1, Zenon DEF Owned
    <3> QED BY <1>6, <3>1, <3>2, <3>4, <3>5, Zenon
  <2>3. \A t \in Slots : global_tls_connections'[t].fd > 0 =>
          held'[t] # 0 /\ fds'[global_tls_connections'[t].fd] = held'[t]
    <3> SUFFICES ASSUME NEW t \in Slots, global_tls_connections'[t].fd > 0
                 PROVE  held'[t] # 0 /\ fds'[global_tls_connections'[t].fd] = held'[t]
      BY Zenon
    <3> DEFINE g == global_tls_connections[t].fd
    <3>1. t # s
      BY <1>5, <1>6
    <3>2. global_tls_connections'[t].fd = g /\ held'[t] = held[t] /\ g > 0
      BY <1>6, <3>1, Zenon
    <3>3. g \in Fds /\ fds[g] = held[t] /\ held[t] # 0
      BY <1>1, <3>2 DEF Owned, Typed, Connections
    <3>4. ~ (d > 0 /\ g = d)
      BY <1>3, <1>12, <3>1, <3>3
    <3> QED BY <1>7, <3>2, <3>3, <3>4, Zenon
  <2>4. \A t \in Slots : held'[t] = 0 <=> global_tls_connections'[t].state = "IDLE"
    BY <1>1, <1>5, <1>6 DEF Owned
  <2>5. \A t \in Slots : held'[t] <= opened' /\ (held'[t] # 0 => global_tls_connections'[t].fd # 0)
    <3>1. 0 <= opened
      BY <1>1, LoadsTyped DEF Typed
    <3> QED BY <1>1, <1>4, <1>6, <3>1 DEF Owned
  <2>6. \A t, u \in Slots : held'[t] = held'[u] /\ held'[t] # 0 => t = u
    BY <1>1, <1>6 DEF Owned
  <2>7. \A t \in Slots : held'[t] # 0 /\ global_tls_connections'[t].fd = -1 =>
          global_tls_connections'[t].state = "HANDSHAKING"
    BY <1>1, <1>6 DEF Owned
  <2> QED BY <2>1, <2>2, <2>3, <2>4, <2>5, <2>6, <2>7, Zenon DEF Owned
<1>14. Delivered'
  <2>1. ASSUME NEW b \in Conns \ {c}, ~ Open(b)' PROVE ~ Open(b)
    <3>1. \A f \in Fds : fds[f] = b => fds'[f] = b
      BY <1>3, <1>7
    <3> QED BY <2>1, <3>1, Zenon DEF Open
  <2>2. \A b \in Conns : ~ Open(b)' => net'[b] = NoNet /\ ring'[b] = <<>> /\ asked'[b] = 0
    BY <1>1, <1>8, <2>1, Zenon DEF Delivered
  <2>3. ring'[0] = <<>> /\ \A b \in Conns : InOrder(ring'[b], b)
    <3>1. InOrder(<<>>, c)
      BY DEF InOrder
    <3> QED BY <1>1, <1>8, <3>1, Zenon DEF Delivered
  <2>4. ASSUME NEW t \in Slots, Connected(t)'
        PROVE  /\ global_tls_connections'[t].tab_multiplex_id = held'[t]
               /\ Carried(net'[held'[t]], Len(ring'[held'[t]]), asked'[held'[t]], global_tls_connections'[t].eng)
               /\ Judged(global_tls_connections'[t].state, global_tls_connections'[t].eng)
    <3>1. t # s /\ Connected(t)
      BY <1>11, <2>4, Zenon
    <3>2. held[t] \in Conns \ {c}
      BY <1>1, <1>12, <3>1, SlotFacts, Zenon
    <3> QED BY <1>1, <1>6, <1>8, <3>1, <3>2 DEF Delivered
  <2> QED BY <2>2, <2>3, <2>4, Zenon DEF Delivered
<1> QED BY <1>10, <1>13, <1>14, Zenon DEF IInv

-----------------------------------------------------------------------------
(* The theorems.                                                             *)

\* The zeroed table of the bridge, with every connection still to come,
\* satisfies the invariant.
LEMMA InitEstablishes ==
  Init => IInv
<1> SUFFICES ASSUME Init PROVE IInv
  BY Zenon
<1>1. NoEngine \in Engines /\ NoNet \in Nets /\ Idle \in Pumps /\ Idle.at = "poll"
  BY CarriedFirst, SizesPositive DEF NoEngine, Engines, Idle, Pumps, Slots
<1>2. Typed
  <2>1. \A s \in Slots : [state |-> "IDLE", fd |-> 0, tab_multiplex_id |-> 0, eng |-> NoEngine] \in Connections
    BY <1>1, SizesPositive DEF Connections, Fds
  <2>2. global_tls_connections \in [Slots -> Connections]
    BY <2>1, Zenon DEF Init
  <2>3. fds \in [Fds -> Conns \cup {Free, Stdin}]
    BY Zenon DEF Init
  <2>4. ring \in [0..MaxConns -> Seq(Conns \X Nat)] /\ held \in [Slots -> 0..MaxConns]
    BY SizesPositive DEF Init
  <2>5. load \in Loads /\ opened \in 0..load.conns
    BY LoadsTyped DEF Init
  <2> QED BY <1>1, <2>2, <2>3, <2>4, <2>5, Zenon DEF Typed, Init
<1>3. Owned
  <2>1. \A s \in Slots : held[s] = 0 /\ global_tls_connections[s].fd = 0 /\ global_tls_connections[s].state = "IDLE"
    BY Zenon DEF Init
  <2>2. fds[0] = Stdin /\ \A f \in Fds \ {0} : fds[f] = Free
    BY SizesPositive DEF Init, Fds
  <2> QED BY <1>1, <2>1, <2>2 DEF Owned, Init
<1>4. Delivered
  <2>1. \A s \in Slots : ~ Connected(s)
    BY Zenon DEF Init, Connected
  <2>2. \A c \in Conns : c \in 0..MaxConns /\ InOrder(<<>>, c)
    BY SizesPositive DEF Conns, InOrder
  <2>3. ring[0] = <<>>
    BY SizesPositive DEF Init
  <2> QED BY <2>1, <2>2, <2>3, Zenon DEF Delivered, Init
<1> QED BY <1>2, <1>3, <1>4, Zenon DEF IInv

\* Every call into the bridge, every step of a pump and every move of a peer
\* preserves the invariant.
LEMMA NextKeeps ==
  IInv /\ [Next]_vars => IInv'
<1> SUFFICES ASSUME IInv, [Next]_vars PROVE IInv'
  BY Zenon
<1>1. CASE UNCHANGED vars
  <2>1. pump' \in Pumps /\ (pump'.at # "poll" => Connected(pump'.slot))
    BY <1>1, Zenon DEF IInv, Typed, Owned, vars
  <2> QED BY <1>1, <2>1, NothingMoves, Zenon DEF vars
<1>2. CASE pump_step
  BY <1>2, ClosedStep, HardErrorStep, FeedRecordStep, FeedEofStep, NothingStep, FlushRecordsStep, PushStep
     DEF pump_step
<1>3. ASSUME NEW s \in Slots,
             \/ netd_tls_init_connection(s) \/ netd_tls_release_slot(s)
             \/ netd_tls_pump(s) \/ netd_tls_send(s)
      PROVE  IInv'
  BY <1>3, InitStep, ReleaseStep, PumpStep, SendStep, Zenon
<1>4. ASSUME NEW c \in Conns, peer_step(c) PROVE IInv'
  BY <1>4, TakesStep, PeerStep, Zenon DEF peer_step
<1>5. CASE netd_tls_acquire_slot
  BY <1>5, AcquireStep, Zenon
<1>6. CASE done
  BY <1>1, <1>6, Zenon DEF done
<1> QED BY <1>1, <1>2, <1>3, <1>4, <1>5, <1>6, Zenon DEF Next

\* The invariant that the others rest on holds of every behaviour: who owns
\* which socket, and where the records of a connection are.
THEOREM Invariance == Spec => []IInv
BY InitEstablishes, NextKeeps, PTL DEF Spec

\* Every socket that acquire_slot, init_connection and release_slot have to do
\* with belongs to the slot of its connection, and fd 0 is never closed.
THEOREM SocketsAccounted == Spec => []FdsAccounted
<1>1. IInv => FdsAccounted
  BY Zenon DEF IInv, Owned, FdsAccounted
<1> QED BY <1>1, Invariance, PTL

\* What the pump pushes to a tab is what the peer of its connection sent, from
\* the first record on, in order and once.
THEOREM Routing == Spec => []RoutedInOrder
<1>1. IInv => RoutedInOrder
  <2> SUFFICES ASSUME IInv PROVE RoutedInOrder
    BY Zenon
  <2>1. Typed /\ Owned /\ Delivered
    BY Zenon DEF IInv
  <2>2. ring[0] = <<>> /\ \A c \in Conns : InOrder(ring[c], c)
    BY <2>1, Zenon DEF Delivered
  <2>3. ASSUME NEW c \in Conns PROVE Len(ring[c]) <= net[c].sent
    <3>1. CASE Open(c)
      <4>1. PICK s \in Slots : Connected(s) /\ held[s] = c
        BY <2>1, <3>1, OpenHeld, Zenon
      <4>2. /\ Carried(net[c], Len(ring[c]), asked[c], global_tls_connections[s].eng)
            /\ Len(ring[c]) \in Nat /\ net[c] \in Nets
        BY <2>1, <4>1, SlotFacts, Zenon
      <4> DEFINE r == Len(ring[c])
      <4>3. net[c].sent \in Nat /\ r \in Nat
        BY <4>2, Zenon DEF Nets
      <4>4. (IF global_tls_connections[s].eng.app = <<>> THEN r ELSE r + 1) <= net[c].sent
        BY <4>2, Zenon DEF Carried, Had
      <4> HIDE DEF r
      <4>5. r <= net[c].sent
        BY <4>3, <4>4
      <4> QED BY <4>5, Zenon DEF r
    <3>2. CASE ~ Open(c)
      <4>1. net[c] = NoNet /\ ring[c] = <<>>
        BY <2>1, <3>2, Zenon DEF Delivered
      <4>2. NoNet.sent = 0 /\ Len(<<>>) = 0
        BY Zenon DEF NoNet
      <4> QED BY <4>1, <4>2
    <3> QED BY <3>1, <3>2, Zenon
  <2> QED BY <2>2, <2>3, Zenon DEF RoutedInOrder, InOrder
<1> QED BY <1>1, Invariance, PTL

\* When the pump reports a graceful close the tab has all that the peer sent, and
\* a request that netd_tls_send took is at the peer, in the socket or in the
\* engine.
THEOREM NoLoss == Spec => []NothingLost
<1>1. IInv => NothingLost
  <2> SUFFICES ASSUME IInv, NEW s \in Slots, held[s] # 0, ~ Unconnected(s)
               PROVE  /\ global_tls_connections[s].state = "CLOSING" => Len(ring[held[s]]) = net[held[s]].sent
                      /\ ~ net[held[s]].rst =>
                           Requested(net[held[s]].reqs, asked[held[s]],
                                     net[held[s]].tx \o global_tls_connections[s].eng.out)
    BY Zenon DEF NothingLost
  <2>1. Typed /\ Owned /\ Delivered
    BY Zenon DEF IInv
  <2>2. Connected(s)
    BY <2>1, SlotCases, Zenon
  <2>3. /\ Carried(net[held[s]], Len(ring[held[s]]), asked[held[s]], global_tls_connections[s].eng)
        /\ Judged(global_tls_connections[s].state, global_tls_connections[s].eng)
    BY <2>1, <2>2, SlotFacts, Zenon
  <2> QED BY <2>3, Zenon DEF Carried, Judged, Ending
<1> QED BY <1>1, Invariance, PTL

\* A connection that is over stays so until release_slot: no later step of the
\* pump, on behalf of poll or of netd_tls_send, takes it for a live one, and a
\* graceful close stays one.
THEOREM VerdictsStand == Spec => VerdictKept
<1> DEFINE Kept == \A s \in Slots : Stands(global_tls_connections[s].state, global_tls_connections'[s].state)
<1>1. IInv /\ [Next]_vars => [Kept]_vars
  <2> SUFFICES ASSUME IInv, Next PROVE Kept
    BY Zenon
  <2>1. Typed /\ Owned /\ Delivered
    BY Zenon DEF IInv
  <2>a. \A st : Stands(st, st)
    BY DEF Stands
  <2>2. ASSUME UNCHANGED global_tls_connections PROVE Kept
    BY <2>2, <2>a, Zenon
  <2>3. ASSUME NEW s \in Slots, NEW conn, Set(s, conn),
               Stands(global_tls_connections[s].state, conn.state)
        PROVE  Kept
    <3>1. global_tls_connections'[s] = conn
          /\ \A t \in Slots \ {s} : global_tls_connections'[t] = global_tls_connections[t]
      BY <2>1, <2>3, Zenon DEF Set, Typed
    <3>2. ASSUME NEW t \in Slots
          PROVE  Stands(global_tls_connections[t].state, global_tls_connections'[t].state)
      <4>1. CASE t = s
        BY <2>3, <3>1, <4>1, Zenon
      <4>2. CASE t # s
        BY <2>a, <3>1, <4>2, Zenon
      <4> QED BY <4>1, <4>2, Zenon
    <3> QED BY <3>2, Zenon
  <2>4. ASSUME pump.at # "poll"
        PROVE  /\ pump.slot \in Slots /\ Conn \in Connections /\ Conn.eng \in Engines
               /\ Judged(Conn.state, Conn.eng)
    <3>1. pump.slot \in Slots /\ Connected(pump.slot)
      BY <2>1, <2>4, PumpStays, Zenon
    <3> QED BY <2>1, <3>1, SlotFacts, Zenon DEF Conn
  <2>5. ASSUME pump_step PROVE Kept
    <3>1. pump.at # "poll"
      BY <2>5, Zenon DEF pump_step, closed, hard_error, feed_record, feed_eof, feed_nothing,
                  flush_records, flush_nothing, push_cleartext
    <3>2. CASE closed
      <4>1. Conn.eng.phase = "closed"
        BY <2>4, <3>1, <3>2, Flags, Zenon DEF closed, Engine
      <4> DEFINE conn == [Conn EXCEPT !.state = IF Engine.err THEN "ERROR" ELSE "CLOSING"]
      <4>2. Set(pump.slot, conn)
        BY <3>2, Zenon DEF closed
      <4>3. conn.state = IF Engine.err THEN "ERROR" ELSE "CLOSING"
        BY <2>4, <3>1, Zenon DEF Connections
      <4> HIDE DEF conn
      <4>4. Stands(Conn.state, conn.state)
        BY <2>4, <3>1, <4>1, <4>3 DEF Judged, Engine, Stands
      <4> QED BY <2>3, <2>4, <3>1, <4>2, <4>4, Zenon DEF Conn
    <3>3. CASE hard_error
      <4>1. Conn.eng.phase # "closed"
        BY <2>4, <3>1, <3>3, Flags, Zenon DEF hard_error, Engine
      <4> DEFINE conn == [Conn EXCEPT !.state = "ERROR"]
      <4>2. Set(pump.slot, conn)
        BY <3>3, Zenon DEF hard_error
      <4>3. conn.state = "ERROR"
        BY <2>4, <3>1, Zenon DEF Connections
      <4> HIDE DEF conn
      <4>4. Stands(Conn.state, conn.state)
        BY <2>4, <3>1, <4>1, <4>3, Zenon DEF Judged, Stands
      <4> QED BY <2>3, <2>4, <3>1, <4>2, <4>4, Zenon DEF Conn
    <3>4. ASSUME NEW e, Set(pump.slot, [Conn EXCEPT !.eng = e]) PROVE Kept
      <4> DEFINE conn == [Conn EXCEPT !.eng = e]
      <4>1. conn.state = Conn.state
        BY <2>4, <3>1, Zenon DEF Connections
      <4> HIDE DEF conn
      <4> QED BY <2>a, <2>3, <2>4, <3>1, <3>4, <4>1, Zenon DEF Conn, conn, Stands
    <3>5. CASE feed_record \/ feed_eof \/ flush_records
      <4>1. \E e : Set(pump.slot, [Conn EXCEPT !.eng = e])
        <5>1. CASE feed_record
          BY <5>1, Zenon DEF feed_record
        <5>2. CASE feed_eof
          BY <5>2, Zenon DEF feed_eof
        <5>3. CASE flush_records
          <6>1. PICK m \in 1..Len(Engine.out) : Set(pump.slot, [Conn EXCEPT !.eng = sendrec_ack(@, m)])
            BY <5>3, Zenon DEF flush_records
          <6>2. [Conn EXCEPT !.eng = sendrec_ack(@, m)] = [Conn EXCEPT !.eng = sendrec_ack(Conn.eng, m)]
            BY Zenon
          <6> QED BY <6>1, <6>2, Zenon
        <5> QED BY <3>5, <5>1, <5>2, <5>3, Zenon
      <4> QED BY <3>4, <4>1, Zenon
    <3>6. CASE feed_nothing \/ flush_nothing
      BY <2>2, <3>6, Zenon DEF feed_nothing, flush_nothing
    <3>7. CASE push_cleartext
      <4>1. CASE Set(pump.slot, Taken(Conn))
        <5> DEFINE conn == Taken(Conn)
        <5>1. conn.state = IF Conn.state = "HANDSHAKING" THEN "ESTABLISHED" ELSE Conn.state
          BY <2>4, <3>1, Zenon DEF Taken, Connections
        <5> HIDE DEF conn
        <5> QED BY <2>a, <2>3, <2>4, <3>1, <4>1, <5>1, Zenon DEF Conn, conn, Stands
      <4> QED BY <2>2, <3>7, <4>1, Zenon DEF push_cleartext
    <3> QED BY <2>5, <3>2, <3>3, <3>5, <3>6, <3>7, Zenon DEF pump_step
  <2>6. ASSUME NEW s \in Slots, netd_tls_init_connection(s) PROVE Kept
    <3>1. global_tls_connections[s].state = "HANDSHAKING"
      BY <2>6, Zenon DEF netd_tls_init_connection, Unconnected
    <3>2. PICK conn : Set(s, conn)
      BY <2>6, Zenon DEF netd_tls_init_connection
    <3> QED BY <2>a, <2>3, <3>1, <3>2, Zenon DEF Stands
  <2>7. ASSUME NEW s \in Slots, netd_tls_release_slot(s) PROVE Kept
    <3> DEFINE conn == [global_tls_connections[s] EXCEPT !.state = "IDLE", !.tab_multiplex_id = 0, !.fd = -1]
    <3>1. Set(s, conn)
      BY <2>7, Zenon DEF netd_tls_release_slot, release
    <3>2. conn.state = "IDLE"
      BY <2>1, Zenon DEF Typed, Connections
    <3> HIDE DEF conn
    <3> QED BY <2>a, <2>3, <3>1, <3>2, Zenon DEF Stands
  <2>8. ASSUME NEW s \in Slots, netd_tls_send(s) PROVE Kept
    <3> DEFINE conn == Accepted(global_tls_connections[s], Rec("request", asked[held[s]] + 1))
    <3>1. Set(s, conn)
      BY <2>8, Zenon DEF netd_tls_send
    <3>2. conn.state = global_tls_connections[s].state
      BY <2>1, Zenon DEF Accepted, Typed, Connections
    <3> HIDE DEF conn
    <3> QED BY <2>a, <2>3, <3>1, <3>2, Zenon DEF Stands
  <2>9. ASSUME NEW s \in Slots, netd_tls_pump(s) PROVE Kept
    BY <2>2, <2>9, Zenon DEF netd_tls_pump
  <2>10. CASE netd_tls_acquire_slot
    <3>1. CASE IdleSlots # {} /\ acquire_slot(Min(IdleSlots))
      <4> DEFINE s == Min(IdleSlots)
      <4>1. IdleSlots \in SUBSET Nat
        BY DEF IdleSlots, Slots
      <4>2. s \in IdleSlots
        BY <3>1, <4>1, MinIn, Zenon
      <4>3. s \in Slots /\ global_tls_connections[s].state = "IDLE"
        BY <4>2, Zenon DEF IdleSlots
      <4>4. PICK conn : Set(s, conn)
        BY <3>1, Zenon DEF acquire_slot
      <4> HIDE DEF s
      <4> QED BY <2>a, <2>3, <4>3, <4>4 DEF Stands
    <3> QED BY <2>2, <2>10, <3>1, Zenon DEF netd_tls_acquire_slot
  <2>11. ASSUME NEW c \in Conns, peer_step(c) PROVE Kept
    <3>1. UNCHANGED global_tls_connections
      BY <2>11, Zenon DEF peer_step, peer_takes, peer_sends, peer_closes, peer_ends, peer_resets, peer_garbles, Peer
    <3> QED BY <2>2, <3>1, Zenon
  <2>12. CASE done
    BY <2>2, <2>12, Zenon DEF done, vars
  <2> HIDE DEF Kept
  <2> QED BY <2>5, <2>6, <2>7, <2>8, <2>9, <2>10, <2>11, <2>12 DEF Next
<1> QED BY <1>1, Invariance, PTL DEF Spec, VerdictKept
=============================================================================
