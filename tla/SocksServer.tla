----------------------------- MODULE SocksServer -----------------------------
(***************************************************************************)
(* One connection of project4/socks_server.cpp, which runs in a process of *)
(* its own: the request (Router), CONNECT or BIND, and the relay (Session) *)
(* with its two chains of asynchronous reads and writes.                   *)
(*                                                                         *)
(* A stream is a sequence of replies and of data tokens numbered in the    *)
(* order they were sent.  What a peer's kernel holds unread is bounded by  *)
(* Window; one read returns at most BufLen tokens.  The client sends data  *)
(* only after it was granted its request.  The destination is the server   *)
(* that CONNECT connects to, or whoever connects to the port of BIND.      *)
(***************************************************************************)
EXTENDS Naturals, Sequences

CONSTANTS
    ClientData, ServerData,     \* bounds: tokens each peer sends
    Window,                     \* bound: unread tokens in a kernel buffer
    BufLen                      \* max_length

ASSUME RelayAssumption ==
    /\ ClientData \in Nat /\ ServerData \in Nat
    /\ Window \in Nat \ {0} /\ BufLen \in Nat \ {0}

VARIABLES
    st,         \* the operation the process has outstanding
    cd,         \* the command: 1 CONNECT, 2 BIND, 0 none yet
    denied,     \* firewall() returned false
    up, down,   \* the chains client to server and server to client
    cOpen, sOpen,   \* client_socket_ and server_socket_ are open
    client, server, \* the peers
    c2p, s2p,   \* sent by the peers and not read yet
    pendC, pendS,   \* tokens written to the peers that they have not read
    outC, outS, \* history: all that was written to the two sockets
    cause       \* history: the end of file that ended the process

vars == <<st, cd, denied, up, down, cOpen, sOpen, client, server, c2p, s2p,
          pendC, pendS, outC, outS, cause>>

netVars == <<client, server, c2p, s2p>>
relayVars == <<up, down, cOpen, sOpen, pendC, pendS, outS, cause>>

Reply(code) == [kind |-> "reply", v |-> code]
Data(k) == [kind |-> "data", v |-> k]

Chain(s, buf) == [st |-> s, buf |-> buf]
Idle == Chain("stopped", <<>>)
Reading == Chain("read", <<>>)

Granted == \E k \in DOMAIN outC : outC[k] = Reply(90)

-----------------------------------------------------------------------------
Peer == [sent |-> 0, fin |-> FALSE, gone |-> FALSE]

Init ==
    /\ st = "route" /\ cd = 0 /\ denied = FALSE
    /\ up = Idle /\ down = Idle
    /\ cOpen = TRUE /\ sOpen = FALSE
    /\ client = Peer /\ server = Peer
    /\ c2p = <<>> /\ s2p = <<>>
    /\ pendC = 0 /\ pendS = 0
    /\ outC = <<>> /\ outS = <<>>
    /\ cause = "none"

\* A reply is written at once: the socket's buffer is empty but for it.
Replies(code) == outC' = Append(outC, Reply(code)) /\ pendC' = pendC + 1

\* do_router: the request is parsed; other commands start no operation.
\* A BIND the firewall accepts gets its first reply and waits for a
\* connection, one it rejects gets the reply of Bind::do_reject.
Route(c) ==
    /\ st = "route"
    /\ cd' = c
    /\ \/ /\ c = 1
          /\ st' = "resolve"
          /\ UNCHANGED <<denied, outC, pendC>>
       \/ /\ c = 2
          /\ denied' \in BOOLEAN
          /\ st' = IF denied' THEN "rejecting" ELSE "bind"
          /\ Replies(90)
       \/ /\ c \notin {1, 2}
          /\ st' = "idle"
          /\ UNCHANGED <<denied, outC, pendC>>
    /\ UNCHANGED <<up, down, cOpen, sOpen, pendS, outS, cause>>
    /\ UNCHANGED netVars

\* The client closes before it sends a request.
RouteError ==
    /\ st = "route"
    /\ client.fin
    /\ st' = "idle"
    /\ UNCHANGED <<cd, denied, outC>>
    /\ UNCHANGED relayVars /\ UNCHANGED netVars

\* do_resolve: the firewall is asked about the address.
Resolve ==
    /\ st = "resolve"
    /\ \/ /\ denied' = TRUE
          /\ st' = "rejecting"
          /\ Replies(91)
       \/ /\ st' \in {"connect", "idle"}     \* "idle": the name is unknown
          /\ UNCHANGED <<denied, outC, pendC>>
    /\ UNCHANGED <<cd, up, down, cOpen, sOpen, pendS, outS, cause>>
    /\ UNCHANGED netVars

\* Mutant of StartSession: the reply is forgotten.
StartSilently ==
    /\ st' = "session"
    /\ sOpen' = TRUE
    /\ up' = Reading /\ down' = Reading
    /\ UNCHANGED <<outC, pendC>>

\* The reply is written before the session starts.
StartSession ==
    /\ Replies(90)
    /\ st' = "session"
    /\ sOpen' = TRUE
    /\ up' = Reading /\ down' = Reading

\* do_connect
Connect ==
    /\ st = "connect"
    /\ \/ StartSession
       \/ /\ st' = "idle"                     \* refused or timed out
          /\ UNCHANGED <<up, down, sOpen, pendC, outC>>
    /\ UNCHANGED <<cd, denied, cOpen, pendS, outS, cause>>
    /\ UNCHANGED netVars

\* Bind::do_accept: the destination connects to the port, or never does.
BindAccept ==
    /\ st = "bind"
    /\ StartSession
    /\ UNCHANGED <<cd, denied, cOpen, pendS, outS, cause>>
    /\ UNCHANGED netVars

\* The reply of a rejection is written, or failed; and io_context::run
\* returns once there is no operation outstanding.
Exit ==
    /\ \/ st \in {"rejecting", "idle"}
       \/ st = "session" /\ up.st = "stopped" /\ down.st = "stopped"
    /\ st' = "exited"
    /\ UNCHANGED <<cd, denied, outC>>
    /\ UNCHANGED relayVars /\ UNCHANGED netVars

-----------------------------------------------------------------------------
\* Session.  The four handlers below are the two chains client_do_read,
\* server_do_write and server_do_read, client_do_write.

\* What a read returns: some of the tokens that have arrived.
Counts(q) == {n \in 1 .. BufLen : n <= Len(q)}

Drop(q, n) == SubSeq(q, n + 1, Len(q))

client_do_read ==
    /\ st = "session" /\ up.st = "read" /\ cOpen
    /\ \E n \in Counts(c2p) :
          /\ up' = Chain("write", SubSeq(c2p, 1, n))
          /\ c2p' = Drop(c2p, n)
    /\ UNCHANGED <<st, cd, denied, down, cOpen, sOpen, client, server, s2p,
                   pendC, pendS, outC, outS, cause>>

\* Mutant of client_read_end: only this chain ends, not the process.
client_read_stop ==
    /\ st = "session" /\ up.st = "read"
    /\ ~cOpen \/ client.gone \/ (client.fin /\ c2p = <<>>)
    /\ cOpen' = FALSE
    /\ up' = Idle
    /\ UNCHANGED <<st, cd, denied, down, sOpen, client, server, c2p, s2p,
                   pendC, pendS, outC, outS, cause>>

\* End of file or an error: the whole process exits.  A connection that was
\* reset gives an error before what had arrived is read.
client_read_end ==
    /\ st = "session" /\ up.st = "read"
    /\ \/ ~cOpen
       \/ client.fin /\ c2p = <<>>
       \/ client.gone
    /\ cause' = IF cOpen /\ ~client.gone THEN "client_eof" ELSE "error"
    /\ st' = "exited"
    /\ UNCHANGED <<cd, denied, up, down, cOpen, sOpen, client, server, c2p, s2p,
                   pendC, pendS, outC, outS>>

\* Mutant of server_do_read: the chains take turns, as with one buffer.
ServerReadInTurn ==
    /\ st = "session" /\ down.st = "read" /\ sOpen
    /\ up.st # "write"
    /\ \E n \in Counts(s2p) :
          /\ down' = Chain("write", SubSeq(s2p, 1, n))
          /\ s2p' = Drop(s2p, n)
    /\ UNCHANGED <<st, cd, denied, up, cOpen, sOpen, client, server, c2p,
                   pendC, pendS, outC, outS, cause>>

server_do_read ==
    /\ st = "session" /\ down.st = "read" /\ sOpen
    /\ \E n \in Counts(s2p) :
          /\ down' = Chain("write", SubSeq(s2p, 1, n))
          /\ s2p' = Drop(s2p, n)
    /\ UNCHANGED <<st, cd, denied, up, cOpen, sOpen, client, server, c2p,
                   pendC, pendS, outC, outS, cause>>

server_read_end ==
    /\ st = "session" /\ down.st = "read"
    /\ \/ ~sOpen
       \/ server.fin /\ s2p = <<>>
       \/ server.gone
    /\ cause' = IF sOpen /\ ~server.gone THEN "server_eof" ELSE "error"
    /\ st' = "exited"
    /\ UNCHANGED <<cd, denied, up, down, cOpen, sOpen, client, server, c2p, s2p,
                   pendC, pendS, outC, outS>>

\* Mutant of AfterWrite: write_some, the rest of the buffer is forgotten.
AfterSome(chain) == Reading

\* Mutant of AfterWrite: the next read is not started.
AfterAll(chain) == Chain("write", Tail(chain.buf))

\* async_write goes on until the whole buffer is written; then the chain
\* reads again.
AfterWrite(chain) ==
    IF Len(chain.buf) = 1 THEN Reading ELSE Chain("write", Tail(chain.buf))

server_do_write ==
    /\ st = "session" /\ up.st = "write"
    /\ sOpen /\ ~server.gone /\ pendS < Window
    /\ outS' = Append(outS, Head(up.buf))
    /\ pendS' = pendS + 1
    /\ up' = AfterWrite(up)
    /\ UNCHANGED <<st, cd, denied, down, cOpen, sOpen, pendC, outC, cause>>
    /\ UNCHANGED netVars

\* An error on a write closes the other socket and ends this chain only.
server_write_error ==
    /\ st = "session" /\ up.st = "write"
    /\ ~sOpen \/ server.gone
    /\ cOpen' = FALSE
    /\ up' = Idle
    /\ UNCHANGED <<st, cd, denied, down, sOpen, pendC, pendS, outC, outS, cause>>
    /\ UNCHANGED netVars

client_do_write ==
    /\ st = "session" /\ down.st = "write"
    /\ cOpen /\ ~client.gone /\ pendC < Window
    /\ outC' = Append(outC, Head(down.buf))
    /\ pendC' = pendC + 1
    /\ down' = AfterWrite(down)
    /\ UNCHANGED <<st, cd, denied, up, cOpen, sOpen, pendS, outS, cause>>
    /\ UNCHANGED netVars

client_write_error ==
    /\ st = "session" /\ down.st = "write"
    /\ ~cOpen \/ client.gone
    /\ sOpen' = FALSE
    /\ down' = Idle
    /\ UNCHANGED <<st, cd, denied, up, cOpen, pendC, pendS, outC, outS, cause>>
    /\ UNCHANGED netVars

Relay == \/ client_do_read \/ client_read_end \/ server_do_write \/ server_write_error
         \/ server_do_read \/ server_read_end \/ client_do_write \/ client_write_error

-----------------------------------------------------------------------------
\* The peers: send, shut down, vanish, read.
processVars == <<st, cd, denied, up, down, cOpen, sOpen, outC, outS, cause>>

ClientSend ==
    /\ Granted /\ ~client.fin
    /\ client.sent < ClientData /\ Len(c2p) < Window
    /\ client' = [client EXCEPT !.sent = @ + 1]
    /\ c2p' = Append(c2p, Data(client.sent + 1))
    /\ UNCHANGED <<server, s2p, pendC, pendS>> /\ UNCHANGED processVars

ServerSend ==
    /\ st = "session" /\ ~server.fin
    /\ server.sent < ServerData /\ Len(s2p) < Window
    /\ server' = [server EXCEPT !.sent = @ + 1]
    /\ s2p' = Append(s2p, Data(server.sent + 1))
    /\ UNCHANGED <<client, c2p, pendC, pendS>> /\ UNCHANGED processVars

\* gone: the connection is reset, otherwise only its sending side is closed.
ClientClose ==
    /\ ~client.gone
    /\ \E g \in BOOLEAN : client' = [client EXCEPT !.fin = TRUE, !.gone = g]
    /\ UNCHANGED <<server, c2p, s2p, pendC, pendS>> /\ UNCHANGED processVars

ServerClose ==
    /\ st = "session" /\ ~server.gone
    /\ \E g \in BOOLEAN : server' = [server EXCEPT !.fin = TRUE, !.gone = g]
    /\ UNCHANGED <<client, c2p, s2p, pendC, pendS>> /\ UNCHANGED processVars

ClientRead ==
    /\ ~client.gone /\ pendC > 0
    /\ pendC' = pendC - 1
    /\ UNCHANGED <<pendS>> /\ UNCHANGED netVars /\ UNCHANGED processVars

ServerRead ==
    /\ ~server.gone /\ pendS > 0
    /\ pendS' = pendS - 1
    /\ UNCHANGED <<pendC>> /\ UNCHANGED netVars /\ UNCHANGED processVars

Next ==
    \/ \E c \in 1 .. 3 : Route(c)
    \/ RouteError \/ Resolve \/ Connect \/ BindAccept \/ Exit
    \/ Relay
    \/ ClientSend \/ ServerSend \/ ClientClose \/ ServerClose
    \/ ClientRead \/ ServerRead

Spec == Init /\ [][Next]_vars

\* Fairness.  io_context runs every handler whose operation has completed, and
\* the resolver and connect answer.  Nobody has to send a request or data, to
\* read, to close, or to connect to a bound port.
FairSpec ==
    /\ Spec
    /\ WF_vars(RouteError) /\ WF_vars(Resolve) /\ WF_vars(Connect) /\ WF_vars(Exit)
    /\ WF_vars(client_do_read \/ client_read_end \/ server_do_write
               \/ server_write_error)
    /\ WF_vars(server_do_read \/ server_read_end \/ client_do_write
               \/ client_write_error)

-----------------------------------------------------------------------------
(***************************************************************************)
(* Type and safety.                                                        *)
(***************************************************************************)
Streams == Seq([kind : {"reply", "data"}, v : Nat])
Peers == [sent : Nat, fin : BOOLEAN, gone : BOOLEAN]
Chains ==
    {c \in [st : {"read", "write", "stopped"}, buf : Streams] :
        /\ Len(c.buf) <= BufLen
        /\ c.st = "write" <=> c.buf # <<>>}

\* Types of the variables; a chain writes exactly while its buffer, which the
\* next read would overwrite, holds something (71-72, 89-90).
TypeOK ==
    /\ st \in {"route", "resolve", "connect", "bind", "rejecting", "idle",
               "session", "exited"}
    /\ cd \in 0 .. 3 /\ denied \in BOOLEAN
    /\ up \in Chains /\ down \in Chains
    /\ cOpen \in BOOLEAN /\ sOpen \in BOOLEAN
    /\ client \in Peers /\ server \in Peers
    /\ c2p \in Streams /\ s2p \in Streams
    /\ pendC \in Nat /\ pendS \in Nat
    /\ outC \in Streams /\ outS \in Streams
    /\ cause \in {"none", "client_eof", "server_eof", "error"}

\* What the destination receives is what the client sent, in order, with
\* nothing lost, repeated or in between, however reads and writes of the two
\* chains interleave and wherever the session is cut (65-81, 118-133).
UpIntact == \A k \in DOMAIN outS : outS[k] = Data(k)

\* What the client receives is one reply to CONNECT or two to BIND, and then
\* what the destination sent, in order (83-116, 173-187, 272-284).
DownIntact ==
    LET replies == {k \in DOMAIN outC : outC[k].kind = "reply"}
    IN  \E n \in 0 .. 2 :
            /\ replies = 1 .. n
            /\ n = 2 => cd = 2
            /\ n < Len(outC) => n = cd
            /\ \A k \in (n + 1) .. Len(outC) : outC[k] = Data(k - n)

\* A session that ends because a peer closed in good order has passed on all
\* that this peer had sent (74-79, 109-114: exit(0) comes in the place of the
\* next read, when the write before it is complete).
DrainedAtEof ==
    /\ cause = "client_eof" => Len(outS) = client.sent
    /\ cause = "server_eof" => Len(outC) = server.sent + cd

(***************************************************************************)
(* What the log says of a rejected BIND (384-387) and what CONNECT does    *)
(* (289): a client whose request is denied is told so with code 91.        *)
(***************************************************************************)
DeniedIsTold == denied => outC = <<Reply(91)>>

(***************************************************************************)
(* Liveness.                                                               *)
(***************************************************************************)
\* The process of a session does not outlive its client: once the client has
\* closed, the process exits, even if the destination neither sends nor closes,
\* and even if the client had stopped reading; only the destination has to read
\* what the client had sent before (74-79, 92-97, 127-132).
SessionEnds ==
    WF_vars(ServerRead) => ((st = "session" /\ client.fin) ~> st = "exited")

\* While both peers stay, all that one sends reaches the other if that one reads,
\* although each chain reads again only when its write is complete, and although
\* the peer who sends may itself never read, so that the chain in the opposite
\* direction stays in its write for ever (65-72, 83-91, 100-108, 118-126).
Delivered ==
    /\ WF_vars(ServerRead) =>
          \A k \in 1 .. ClientData :
              (st = "session" /\ client.sent >= k)
                  ~> (Len(outS) >= k \/ client.gone \/ server.fin \/ st = "exited")
    /\ WF_vars(ClientRead) =>
          \A k \in 1 .. ServerData :
              (st = "session" /\ server.sent >= k)
                  ~> (Len(outC) >= cd + k \/ server.gone \/ client.fin \/ st = "exited")

=============================================================================
