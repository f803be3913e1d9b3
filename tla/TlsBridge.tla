----------------------------- MODULE TlsBridge -----------------------------
(* The TLS bridge of the network daemon (tls_bridge.c, tls_state.h): a pool  *)
(* of connection slots, each a socket, a BearSSL engine and the tab that its *)
(* cleartext goes to, and the pump that moves bytes between the three.       *)
(*                                                                           *)
(* The daemon is one thread, and a call of netd_tls_pump is several steps    *)
(* here, so that the network moves between its read, its write and its push. *)
(* BearSSL, the sockets and the peer are not part of the repository and are  *)
(* modelled from how the bridge uses them: a record is one unit, a socket    *)
(* takes part of what is written or nothing, the peer answers, falls silent, *)
(* closes with or without close_notify, resets, or sends what BearSSL        *)
(* refuses.                                                                  *)
EXTENDS Integers, Sequences, FiniteSetsExt

CONSTANTS MAX_CONCURRENT_TLS_SOCKETS,  \* slots of the pool
          MaxConns,    \* connections, one for each tab
          SockCap,     \* records the socket's send buffer holds
          Loads        \* what the daemon is put to: see load

ASSUME SizesPositive == {MAX_CONCURRENT_TLS_SOCKETS, MaxConns, SockCap} \subseteq Nat \ {0}
ASSUME LoadsTyped ==
  Loads \subseteq [conns : 1..MaxConns,   \* how many tabs ask for a connection
                   together : Nat,        \* how many of them have one at a time
                   data : Nat,            \* records a peer sends on a connection
                   reqs : Nat,            \* requests a tab sends on a connection
                   faulty : SUBSET (1..MaxConns)]  \* those whose peer may break off

Slots == 0..(MAX_CONCURRENT_TLS_SOCKETS - 1)
Conns == 1..MaxConns
Fds == 0..MAX_CONCURRENT_TLS_SOCKETS   \* 0 is the daemon's standard input
Free == -1                             \* an fd that is not open
Stdin == 0                             \* what fd 0 stands for

VARIABLES global_tls_connections,  \* slot -> fd, tab_multiplex_id, state, engine
          pump,    \* the call of netd_tls_pump in progress
          fds,     \* fd -> the connection it is open on
          net,     \* connection -> both directions of its socket, and the peer
          ring,    \* tab -> what ipc_ring_push_bytes was given for it
          asked,   \* connection -> requests netd_tls_send has accepted
          opened,  \* connections that tabs have asked for so far
          held,    \* slot -> the connection its caller holds it for, or 0
          load     \* the member of Loads that this behaviour is about

vars == <<global_tls_connections, pump, fds, net, ring, asked, opened, held, load>>

Rec(k, n) == [kind |-> k, n |-> n]
Hello == Rec("hello", 0)
Finished == Rec("finished", 0)
CloseNotify == Rec("close_notify", 0)
Malformed == Rec("malformed", 0)

-----------------------------------------------------------------------------
(* BearSSL: the phase of the connection, the error it closed with, the       *)
(* records to send, the cleartext not yet taken and, in a closure, what the  *)
(* engine still asks the network for: nothing, records until its own         *)
(* close_notify is out ("flush"), or the close_notify of the peer ("notify").*)

NoEngine == [phase |-> "closed", err |-> FALSE, out |-> <<>>, app |-> <<>>, waits |-> "none"]
client_reset == [NoEngine EXCEPT !.phase = "handshake", !.out = <<Hello>>]

current_state(e) ==
  IF e.phase = "closed" THEN {"CLOSED"}
  ELSE {f \in {"RECVREC", "SENDREC", "SENDAPP", "RECVAPP"} :
          \/ f = "RECVREC" /\ e.app = <<>> /\ (e.phase = "closing" => e.waits # "none")
          \/ f = "SENDREC" /\ e.out # <<>>
          \/ f = "SENDAPP" /\ e.phase = "open" /\ e.out = <<>>
          \/ f = "RECVAPP" /\ e.app # <<>>}

\* An orderly closure: close_notify goes out, once. The side that starts it waits
\* for the close_notify of the other.
closure(e, w) == [e EXCEPT !.phase = "closing", !.out = Append(@, CloseNotify), !.waits = w]
engine_close(e) == IF e.phase = "closing" THEN e ELSE closure(e, "notify")

engine_fail(e) == [e EXCEPT !.phase = "closed", !.err = TRUE]

\* br_ssl_engine_recvrec_ack: what the engine makes of the record it was given.
recvrec_ack(e, r) ==
  CASE r = Hello /\ e.phase = "handshake" -> {[e EXCEPT !.phase = "open", !.out = Append(@, Finished)]}
    [] r.kind = "data" /\ e.phase = "open" -> {[e EXCEPT !.app = <<r.n>>]}
    [] r = CloseNotify /\ e.phase = "open" -> {closure(e, w) : w \in {"none", "flush"}}
    [] r = CloseNotify /\ e.phase = "closing" ->
         {[e EXCEPT !.waits = "none", !.phase = IF e.out = <<>> THEN "closed" ELSE @]}
    [] r.kind = "data" /\ e.phase = "closing" -> {e}
    [] OTHER -> {engine_fail(e)}

sendrec_ack(e, n) ==
  LET rest == SubSeq(e.out, n + 1, Len(e.out))
      over == e.phase = "closing" /\ rest = <<>> /\ e.waits # "notify"
  IN [e EXCEPT !.out = rest, !.phase = IF over THEN "closed" ELSE @]

sendapp_ack(e, r) == [e EXCEPT !.out = Append(@, r)]
recvapp_ack(e) == [e EXCEPT !.app = <<>>]

-----------------------------------------------------------------------------
(* The slots.                                                                *)

Idle == [at |-> "poll", slot |-> 0, progress |-> FALSE, by |-> "poll"]

NoNet == [rx |-> <<>>, tx |-> <<>>, fin |-> FALSE, rst |-> FALSE,
          ready |-> FALSE, bye |-> FALSE, sent |-> 0, reqs |-> <<>>]

\* The pool is static memory: every field of a slot is zero, the fd too.
Init ==
  /\ global_tls_connections = [s \in Slots |->
       [state |-> "IDLE", fd |-> 0, tab_multiplex_id |-> 0, eng |-> NoEngine]]
  /\ pump = Idle
  /\ fds = [f \in Fds |-> IF f = 0 THEN Stdin ELSE Free]
  /\ net = [c \in Conns |-> NoNet]
  /\ ring = [t \in 0..MaxConns |-> <<>>]
  /\ asked = [c \in Conns |-> 0]
  /\ opened = 0
  /\ held = [s \in Slots |-> 0]
  /\ load \in Loads

Set(s, conn) == global_tls_connections' = [global_tls_connections EXCEPT ![s] = conn]

IdleSlots == {s \in Slots : global_tls_connections[s].state = "IDLE"}

\* (mutant) The fd of the slot's last user, or of static memory, is kept.
acquire_slot_KeepsFd(s) ==
  /\ Set(s, [global_tls_connections[s] EXCEPT !.state = "HANDSHAKING"])
  /\ held' = [held EXCEPT ![s] = opened']

acquire_slot(s) ==
  /\ Set(s, [global_tls_connections[s] EXCEPT !.state = "HANDSHAKING", !.fd = -1])
  /\ held' = [held EXCEPT ![s] = opened']

\* A tab asks for a connection: the first idle slot is its own, or there is none
\* and the tab is turned away.
netd_tls_acquire_slot ==
  /\ pump.at = "poll" /\ opened < load.conns
  /\ Cardinality({s \in Slots : held[s] # 0}) < load.together
  /\ opened' = opened + 1
  /\ \/ IdleSlots # {} /\ acquire_slot(Min(IdleSlots))
     \/ IdleSlots = {} /\ UNCHANGED <<global_tls_connections, held>>
  /\ UNCHANGED <<pump, fds, net, ring, asked, load>>

\* The slot was acquired and its socket is not connected yet.
Unconnected(s) == held[s] # 0 /\ global_tls_connections[s].state = "HANDSHAKING"
                  /\ ~ \E f \in Fds : fds[f] = held[s]

\* (mutant) The engine still is the one of the slot's last connection.
init_connection_KeepsEngine(s) ==
  /\ pump.at = "poll" /\ Unconnected(s)
  /\ LET fd == Min({f \in Fds : fds[f] = Free})
     IN /\ fds' = [fds EXCEPT ![fd] = held[s]]
        /\ Set(s, [global_tls_connections[s] EXCEPT !.state = "HANDSHAKING", !.fd = fd,
                     !.tab_multiplex_id = held[s],
                     !.eng = IF @ = NoEngine THEN client_reset ELSE @])
  /\ UNCHANGED <<pump, net, ring, asked, opened, held, load>>

\* The caller has connected a socket, which has the lowest free fd.
netd_tls_init_connection(s) ==
  /\ pump.at = "poll" /\ Unconnected(s)
  /\ LET fd == Min({f \in Fds : fds[f] = Free})
     IN /\ fds' = [fds EXCEPT ![fd] = held[s]]
        /\ Set(s, [state |-> "HANDSHAKING", fd |-> fd, tab_multiplex_id |-> held[s],
                   eng |-> client_reset])
  /\ UNCHANGED <<pump, net, ring, asked, opened, held, load>>

\* What was observed of a connection is dropped with it: anything that moves on
\* it later shows.
Forget(c) ==
  /\ net' = [net EXCEPT ![c] = NoNet]
  /\ ring' = [ring EXCEPT ![c] = <<>>]
  /\ asked' = [asked EXCEPT ![c] = 0]

\* The engine is left as it is; the next init_connection resets it.
release(s) ==
  LET conn == global_tls_connections[s]
  IN /\ fds' = IF conn.fd >= 0 THEN [fds EXCEPT ![conn.fd] = Free] ELSE fds
     /\ Set(s, [conn EXCEPT !.state = "IDLE", !.tab_multiplex_id = 0, !.fd = -1])
     /\ Forget(held[s])
     /\ held' = [held EXCEPT ![s] = 0]
     /\ UNCHANGED <<opened, load>>

\* The connect failed, or the tab is gone, or the pump has said that the
\* connection is over.
netd_tls_release_slot(s) ==
  /\ held[s] # 0
  /\ pump.at = "poll" \/ (pump.at = "over" /\ pump.slot = s)
  /\ pump' = Idle
  /\ release(s)

-----------------------------------------------------------------------------
(* The pump. It reads, writes and pushes until a turn moves nothing.         *)

Conn == global_tls_connections[pump.slot]
Engine == Conn.eng
Socket == fds[Conn.fd]

\* Poll reports an fd that can be read or written.
Signalled(c) == \/ net[c].rx # <<>> \/ net[c].fin \/ net[c].rst
                \/ Len(net[c].tx) < SockCap

netd_tls_pump(s) ==
  /\ pump.at = "poll" /\ held[s] # 0 /\ ~ Unconnected(s) /\ Signalled(held[s])
  /\ pump' = [at |-> "loop", slot |-> s, progress |-> FALSE, by |-> "poll"]
  /\ UNCHANGED <<global_tls_connections, fds, net, ring, asked, opened, held, load>>

\* The pump returns: 0 keeps the connection, and the caller gives up the slot
\* for 1 and -1. netd_tls_send does not look at the result.
Return(verdict) ==
  pump' = IF verdict = 0 \/ pump.by = "send" THEN Idle
          ELSE [pump EXCEPT !.at = "over", !.progress = FALSE]

\* (mutant) A graceful close is reported as a connection still active.
closed_Active ==
  /\ pump.at = "loop" /\ "CLOSED" \in current_state(Engine)
  /\ Set(pump.slot, [Conn EXCEPT !.state = IF Engine.err THEN "ERROR" ELSE "CLOSING"])
  /\ Return(IF Engine.err THEN -1 ELSE 0)
  /\ UNCHANGED <<fds, net, ring, asked, opened, held, load>>

closed ==
  /\ pump.at = "loop" /\ "CLOSED" \in current_state(Engine)
  /\ Set(pump.slot, [Conn EXCEPT !.state = IF Engine.err THEN "ERROR" ELSE "CLOSING"])
  /\ Return(IF Engine.err THEN -1 ELSE 1)
  /\ UNCHANGED <<fds, net, ring, asked, opened, held, load>>

\* A read or write that fails with anything but EAGAIN: a reset, or an error that
\* may have passed by the next call.
hard_error ==
  /\ \/ pump.at = "loop" /\ "RECVREC" \in current_state(Engine)
     \/ pump.at = "write" /\ "SENDREC" \in current_state(Engine)
  /\ net[Socket].rst \/ Socket \in load.faulty
  /\ Set(pump.slot, [Conn EXCEPT !.state = "ERROR"])
  /\ Return(-1)
  /\ UNCHANGED <<fds, net, ring, asked, opened, held, load>>

\* STEP 1, with a record, with the end of the stream, and with nothing to read.
feed_record ==
  /\ pump.at = "loop" /\ "RECVREC" \in current_state(Engine)
  /\ ~ net[Socket].rst /\ net[Socket].rx # <<>>
  /\ \E e \in recvrec_ack(Engine, Head(net[Socket].rx)) : Set(pump.slot, [Conn EXCEPT !.eng = e])
  /\ net' = [net EXCEPT ![Socket].rx = Tail(@)]
  /\ pump' = [pump EXCEPT !.at = "write", !.progress = TRUE]
  /\ UNCHANGED <<fds, ring, asked, opened, held, load>>

feed_eof ==
  /\ pump.at = "loop" /\ "RECVREC" \in current_state(Engine)
  /\ ~ net[Socket].rst /\ net[Socket].rx = <<>> /\ net[Socket].fin
  /\ Set(pump.slot, [Conn EXCEPT !.eng = engine_close(@)])
  /\ pump' = [pump EXCEPT !.at = "write", !.progress = TRUE]
  /\ UNCHANGED <<fds, net, ring, asked, opened, held, load>>

feed_nothing ==
  /\ pump.at = "loop" /\ "CLOSED" \notin current_state(Engine)
  /\ "RECVREC" \in current_state(Engine) =>
       ~ net[Socket].rst /\ net[Socket].rx = <<>> /\ ~ net[Socket].fin
  /\ pump' = [pump EXCEPT !.at = "write", !.progress = FALSE]
  /\ UNCHANGED <<global_tls_connections, fds, net, ring, asked, opened, held, load>>

\* STEP 2: the socket takes some of the records, or none.
flush_records ==
  /\ pump.at = "write" /\ "SENDREC" \in current_state(Engine) /\ ~ net[Socket].rst
  /\ \E n \in 1..Len(Engine.out) :
       /\ Len(net[Socket].tx) + n <= SockCap
       /\ net' = [net EXCEPT ![Socket].tx = @ \o SubSeq(Engine.out, 1, n)]
       /\ Set(pump.slot, [Conn EXCEPT !.eng = sendrec_ack(@, n)])
  /\ pump' = [pump EXCEPT !.at = "push", !.progress = TRUE]
  /\ UNCHANGED <<fds, ring, asked, opened, held, load>>

flush_nothing ==
  /\ pump.at = "write"
  /\ "SENDREC" \in current_state(Engine) =>
       ~ net[Socket].rst /\ Len(net[Socket].tx) = SockCap
  /\ pump' = [pump EXCEPT !.at = "push"]
  /\ UNCHANGED <<global_tls_connections, fds, net, ring, asked, opened, held, load>>

\* (mutant) The progress flag is never cleared.
again_Always(pushed) == TRUE

\* Another turn when this one has moved something.
again(pushed) == pump.progress \/ pushed

\* (mutant) Cleartext is taken on established connections only.
Takes_Established == "RECVAPP" \in current_state(Engine) /\ Conn.state = "ESTABLISHED"

Takes == "RECVAPP" \in current_state(Engine)

\* (mutant) The cleartext is pushed and not acknowledged.
Taken_Unacked(conn) == [conn EXCEPT !.state = IF @ = "HANDSHAKING" THEN "ESTABLISHED" ELSE @]

\* The first cleartext makes the connection an established one.
Taken(conn) == [conn EXCEPT !.eng = recvapp_ack(@),
                            !.state = IF @ = "HANDSHAKING" THEN "ESTABLISHED" ELSE @]

\* STEP 3: the cleartext goes to the tab.
push_cleartext ==
  /\ pump.at = "push"
  /\ LET app == Takes
     IN /\ IF app
           THEN /\ ring' = [ring EXCEPT ![Conn.tab_multiplex_id] =
                              @ \o [i \in 1..Len(Engine.app) |-> <<Socket, Engine.app[i]>>]]
                /\ Set(pump.slot, Taken(Conn))
           ELSE UNCHANGED <<ring, global_tls_connections>>
        /\ IF again(app) THEN pump' = [pump EXCEPT !.at = "loop", !.progress = FALSE]
           ELSE Return(0)
  /\ UNCHANGED <<fds, net, asked, opened, held, load>>

Ready(conn) == "SENDAPP" \in current_state(conn.eng)

\* (mutant) A request makes the connection an established one.
Accepted_Establishes(conn, r) == [conn EXCEPT !.eng = sendapp_ack(@, r), !.state = "ESTABLISHED"]

Accepted(conn, r) == [conn EXCEPT !.eng = sendapp_ack(@, r)]

\* A tab's request: nothing is taken unless the engine is ready for it, and what
\* is taken is flushed by a call of the pump.
netd_tls_send(s) ==
  LET conn == global_tls_connections[s]
  IN /\ pump.at = "poll" /\ held[s] # 0 /\ ~ Unconnected(s) /\ asked[held[s]] < load.reqs
     /\ Ready(conn)
     /\ Set(s, Accepted(conn, Rec("request", asked[held[s]] + 1)))
     /\ asked' = [asked EXCEPT ![held[s]] = @ + 1]
     /\ pump' = [at |-> "loop", slot |-> s, progress |-> FALSE, by |-> "send"]
     /\ UNCHANGED <<fds, net, ring, opened, held, load>>

-----------------------------------------------------------------------------
(* The peer of a connection whose socket is open.                            *)

Open(c) == \E f \in Fds : fds[f] = c
Peer(c, n) == /\ Open(c) /\ ~ net[c].rst
              /\ net' = [net EXCEPT ![c] = n]
              /\ UNCHANGED <<global_tls_connections, pump, fds, ring, asked, opened, held, load>>
Talks(c) == ~ net[c].fin /\ ~ net[c].bye

peer_takes(c) ==
  /\ net[c].tx # <<>>
  /\ LET r == Head(net[c].tx)
         n == [net[c] EXCEPT !.tx = Tail(@)]
     IN Peer(c, CASE r = Hello /\ Talks(c) -> [n EXCEPT !.rx = Append(@, Hello)]
                  [] r = Finished -> [n EXCEPT !.ready = TRUE]
                  [] r.kind = "request" -> [n EXCEPT !.reqs = Append(@, r.n)]
                  [] OTHER -> n)

peer_sends(c) ==
  /\ net[c].ready /\ Talks(c) /\ net[c].sent < load.data
  /\ Peer(c, [net[c] EXCEPT !.rx = Append(@, Rec("data", net[c].sent + 1)), !.sent = @ + 1])

\* close_notify, with or without the end of the stream behind it.
peer_closes(c) ==
  /\ net[c].ready /\ Talks(c)
  /\ Peer(c, [net[c] EXCEPT !.rx = Append(@, CloseNotify), !.bye = TRUE])

peer_ends(c) == ~ net[c].fin /\ (c \in load.faulty \/ net[c].bye) /\ Peer(c, [net[c] EXCEPT !.fin = TRUE])

peer_resets(c) == c \in load.faulty /\ Peer(c, [net[c] EXCEPT !.rst = TRUE, !.rx = <<>>, !.tx = <<>>])

peer_garbles(c) ==
  /\ Talks(c) /\ c \in load.faulty
  /\ Peer(c, [net[c] EXCEPT !.rx = Append(@, Malformed), !.bye = TRUE])

\* Every tab has had its connection.
done == opened = load.conns /\ (\A s \in Slots : held[s] = 0) /\ UNCHANGED vars

pump_step ==
  \/ closed \/ hard_error
  \/ feed_record \/ feed_eof \/ feed_nothing
  \/ flush_records \/ flush_nothing
  \/ push_cleartext

peer_step(c) ==
  \/ peer_takes(c) \/ peer_sends(c) \/ peer_closes(c)
  \/ peer_ends(c) \/ peer_resets(c) \/ peer_garbles(c)

Next ==
  \/ netd_tls_acquire_slot
  \/ \E s \in Slots : \/ netd_tls_init_connection(s) \/ netd_tls_release_slot(s)
                      \/ netd_tls_pump(s) \/ netd_tls_send(s)
  \/ pump_step
  \/ \E c \in Conns : peer_step(c)
  \/ done

\* The thread of the daemon runs on; it gives up a slot when the pump tells it
\* to; every fd that poll reports is pumped; the network takes what was written.
Spec ==
  /\ Init /\ [][Next]_vars
  /\ WF_vars(pump_step)
  /\ \A s \in Slots : /\ WF_vars(pump.at = "over" /\ netd_tls_release_slot(s))
                      /\ SF_vars(netd_tls_pump(s))
  /\ \A c \in Conns : WF_vars(peer_takes(c))

-----------------------------------------------------------------------------
\* Every socket that is open belongs to the one slot that its connection holds,
\* so none is lost and none is closed twice, and the daemon's own fd 0, which
\* the zeroed pool names, is never closed: acquire_slot and release_slot keep fd.
FdsAccounted ==
  /\ fds[0] = Stdin
  /\ \A f \in Fds \ {0} : fds[f] # Free =>
       \E s \in Slots : held[s] = fds[f] /\ global_tls_connections[s].fd = f
  /\ \A s \in Slots : global_tls_connections[s].fd > 0 =>
       fds[global_tls_connections[s].fd] = held[s]
  /\ \A s \in Slots : held[s] = 0 <=> global_tls_connections[s].state = "IDLE"

\* What a tab is given is what the peer of its own connection sent, from the
\* first record on, in order and once: the pump never routes the cleartext of a
\* slot's last user, and takes nothing twice.
RoutedInOrder ==
  /\ ring[0] = <<>>
  /\ \A t \in Conns : /\ ring[t] = [i \in 1..Len(ring[t]) |-> <<t, i>>]
                      /\ Len(ring[t]) <= net[t].sent

\* Of a numbered requests the peer has had the first, in order and once, and
\* the others are on their way to it in the same order.
Requested(reqs, a, way) ==
  LET Is(i) == way[i].kind = "request"
  IN /\ reqs = [i \in 1..Len(reqs) |-> i] /\ Len(reqs) <= a
     /\ {way[i].n : i \in {j \in 1..Len(way) : Is(j)}} = (Len(reqs) + 1)..a
     /\ \A i, j \in 1..Len(way) : i < j /\ Is(i) /\ Is(j) => way[i].n < way[j].n

\* A connection that the pump reports as closed gracefully has delivered all that
\* the peer sent on it, and a request that netd_tls_send took is at the peer, in
\* the socket or in the engine, in order, until the connection is reset: also
\* after a read or write has failed and the pump has been called again.
NothingLost ==
  \A s \in Slots : held[s] # 0 /\ ~ Unconnected(s) =>
    LET c == held[s]
        conn == global_tls_connections[s]
    IN /\ conn.state = "CLOSING" => Len(ring[c]) = net[c].sent
       /\ ~ net[c].rst => Requested(net[c].reqs, asked[c], net[c].tx \o conn.eng.out)

\* A verdict stands until the slot is idle again; only an error, which may have
\* passed, gives way to a graceful close.
Stands(old, new) ==
  /\ old = "CLOSING" => new \in {"CLOSING", "IDLE"}
  /\ old = "ERROR" => new \in {"ERROR", "CLOSING", "IDLE"}

\* A connection that is over stays so until its slot is released: the pump that
\* netd_tls_send makes, and whose result it drops, loses no verdict.
VerdictKept ==
  [][\A s \in Slots :
       Stands(global_tls_connections[s].state, global_tls_connections'[s].state)]_vars

\* The stream of the connection that is pumped has ended without the close_notify
\* that the engine waits for: every turn reads 0, which counts as progress.
Spins ==
  /\ pump.at \in {"loop", "write", "push"} /\ Engine.phase = "closing" /\ Engine.waits = "notify"
  /\ net[Socket].rx = <<>> /\ net[Socket].fin /\ ~ net[Socket].rst

\* Every call of netd_tls_pump returns, unless its peer ends the stream without
\* close_notify and nothing else happens on the socket: then the loop runs for
\* ever, and the one thread of the daemon with it.
PumpReturns ==
  []<>(~ Spins) => (pump.at \in {"loop", "write", "push"} ~> pump.at \in {"poll", "over"})

\* When the peer has closed, ended or reset a connection, its slot is released,
\* unless a pump spins for ever, its own or that of another connection.
DeadReleased ==
  []<>(~ Spins) => \A c \in Conns : (net[c].bye \/ net[c].fin \/ net[c].rst) ~> ~ Open(c)

\* The tab catches up with all that the peer has sent, unless the connection
\* ends first or a pump spins for ever: no record is left in the engine or the
\* socket when pump returns 0.
DataArrives ==
  []<>(~ Spins) => \A c \in Conns :
    net[c].sent > Len(ring[c]) ~> (net[c].sent = Len(ring[c]) \/ ~ Open(c))
=============================================================================
