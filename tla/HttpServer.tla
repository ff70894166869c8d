------------------------------ MODULE HttpServer ------------------------------
(***************************************************************************)
(* http_server of project3 and project4: one event loop, a Session for     *)
(* every connection, one fork and exec for every request.                  *)
(*                                                                         *)
(* A program is started with every socket the server holds at that moment. *)
(* A child whose exec fails goes on in the event loop (line 88): it is a   *)
(* second server, with a copy of every session and of every completion     *)
(* that waits to be run.  Asio tries an operation when it is started, so   *)
(* the operation and its completion handler are two steps.                 *)
(***************************************************************************)
EXTENDS Integers, Sequences, FiniteSetsExt

CONSTANTS
    Conns,      \* connections, one for each client
    Plain,      \* those whose request has no "?"
    LastPid,    \* bound: processes 0 .. LastPid; the server is 0
    Pieces,     \* bound: pieces in which a client's request may arrive
    None

ASSUME HttpAssumption ==
    /\ LastPid \in Nat \ {0} /\ Pieces \in Nat \ {0}
    /\ Plain \subseteq Conns /\ None \notin Conns

Pids == 0 .. LastPid

VARIABLES
    peer,       \* the client: "away", "open", "shut" or "reset"
    left,       \* pieces it has not sent yet
    unread,     \* pieces the kernel holds for the socket
    backlog,    \* connections not accepted yet
    role,       \* "free", "server", "program"; "zombie", "gone" after these
    sess,       \* the socket in a process: the step its session is at, "leaked" in a program
    std,        \* the socket on descriptors 0, 1 and 2, or None
    env,        \* the request that the environment of a process is from
    busy,       \* the session whose handler is in the fork loop, or None
    wire        \* what the client was sent

client == <<peer, left, unread>>
process == <<role, std, env>>
vars == <<client, backlog, process, sess, busy, wire>>

States == {"none", "accepted", "read", "got", "write", "leaked"}

Init ==
    /\ peer = [c \in Conns |-> "away"] /\ left = [c \in Conns |-> Pieces]
    /\ unread = [c \in Conns |-> 0] /\ backlog = <<>>
    /\ role = [p \in Pids |-> IF p = 0 THEN "server" ELSE "free"]
    /\ sess = [p \in Pids |-> [c \in Conns |-> "none"]]
    /\ std = [p \in Pids |-> None] /\ busy = [p \in Pids |-> None]
    /\ env = [p \in Pids |-> [uri |-> None, query |-> None]]
    /\ wire = [c \in Conns |-> <<>>]

\* Mutant of Running: the fork is retried by a timer, not by a loop.
RunningAnyway(p) == role[p] = "server"

\* Process p can run a handler.
Running(p) == role[p] = "server" /\ busy[p] = None

-----------------------------------------------------------------------------
\* The clients.

Connect(c) ==
    /\ peer[c] = "away"
    /\ peer' = [peer EXCEPT ![c] = "open"]
    /\ backlog' = Append(backlog, c)
    /\ UNCHANGED <<left, unread, process, sess, busy, wire>>

Send(c) ==
    /\ peer[c] = "open" /\ left[c] > 0
    /\ left' = [left EXCEPT ![c] = @ - 1]
    /\ unread' = [unread EXCEPT ![c] = @ + 1]
    /\ UNCHANGED <<peer, backlog, process, sess, busy, wire>>

Hangup(c) ==
    /\ \/ peer[c] = "open" /\ peer' = [peer EXCEPT ![c] = "shut"]
       \/ peer[c] \in {"open", "shut"} /\ peer' = [peer EXCEPT ![c] = "reset"]
    /\ UNCHANGED <<left, unread, backlog, process, sess, busy, wire>>

-----------------------------------------------------------------------------
\* The server, and each child whose exec failed.

\* One accept at a time; the next starts in its handler.
Accept(p) ==
    /\ Running(p) /\ backlog # <<>> /\ \A c \in Conns : sess[p][c] # "accepted"
    /\ sess' = [sess EXCEPT ![p][Head(backlog)] = "accepted"]
    /\ backlog' = Tail(backlog)
    /\ UNCHANGED <<client, process, busy, wire>>

do_accept(p, c) ==
    /\ Running(p) /\ sess[p][c] = "accepted"
    /\ sess' = [sess EXCEPT ![p][c] = "read"]
    /\ UNCHANGED <<client, backlog, process, busy, wire>>

\* A read takes one piece; an error ends the session and closes its socket.
do_read(p, c) ==
    /\ Running(p) /\ sess[p][c] = "read"
    /\ \/ /\ unread[c] > 0
          /\ unread' = [unread EXCEPT ![c] = @ - 1]
          /\ sess' = [sess EXCEPT ![p][c] = "got"]
       \/ /\ unread[c] = 0 /\ peer[c] \in {"shut", "reset"}
          /\ sess' = [sess EXCEPT ![p][c] = "none"]
          /\ UNCHANGED unread
    /\ UNCHANGED <<peer, left, backlog, process, busy, wire>>

\* w after text is written to c's socket.
Sent(w, c, text) ==
    IF c = None \/ peer[c] = "reset" THEN w ELSE [w EXCEPT ![c] = Append(@, text)]

do_write(p, c) ==
    /\ Running(p) /\ sess[p][c] = "got"
    /\ wire' = Sent(wire, c, "status")
    /\ sess' = [sess EXCEPT ![p][c] = IF peer[c] = "reset" THEN "none" ELSE "write"]
    /\ UNCHANGED <<client, backlog, process, busy>>

\* Mutant of Setenv: setenv does not overwrite.
SetenvOnce(p, c) == IF env[p].uri = None THEN {[uri |-> c, query |-> c]} ELSE {env[p]}

\* QUERY_STRING is uninitialized unless the URI has a "?": the memory of a
\* session is often that of an earlier one.
Setenv(p, c) ==
    {[uri |-> c, query |-> q] : q \in IF c \in Plain THEN Conns \cup {None} ELSE {c}}

\* The handler of the write, up to the fork.
Written(p, c) ==
    /\ Running(p) /\ sess[p][c] = "write" /\ peer[c] # "reset"
    /\ \E e \in Setenv(p, c) : env' = [env EXCEPT ![p] = e]
    /\ busy' = [busy EXCEPT ![p] = c]
    /\ UNCHANGED <<client, backlog, role, std, sess, wire>>

\* remote_endpoint throws when the client has reset the connection: main
\* returns, and what a failed child left in std::cout is flushed.
Throw(p, c) ==
    /\ Running(p) /\ sess[p][c] = "write" /\ peer[c] = "reset"
    /\ role' = [role EXCEPT ![p] = "gone"]
    /\ sess' = [sess EXCEPT ![p] = [d \in Conns |-> "none"]]
    /\ wire' = Sent(wire, std[p], "fail")
    /\ std' = [std EXCEPT ![p] = None]
    /\ UNCHANGED <<client, backlog, env, busy>>

\* Mutant of Parent: the socket stays open, the session goes on reading.
ParentReads == "read"

\* The session of the parent after the fork: closed, and its read fails.
Parent == "none"

FreePids == {p \in Pids : role[p] = "free"}

\* While there is no process left for it the fork is retried.  Zombies count:
\* nobody waits for them.
Fork(p, run) ==
    /\ role[p] = "server" /\ busy[p] # None /\ FreePids # {}
    /\ LET q == Min(FreePids)
           c == busy[p]
           copy(d) == IF d = c \/ sess[p][d] = "none" THEN "none"
                      ELSE IF run THEN "leaked" ELSE sess[p][d]
       IN  /\ role' = [role EXCEPT ![q] = IF run THEN "program" ELSE "server"]
           /\ std' = [std EXCEPT ![q] = c]
           /\ env' = [env EXCEPT ![q] = env[p]]
           /\ sess' = [sess EXCEPT ![p][c] = Parent, ![q] = [d \in Conns |-> copy(d)]]
    /\ busy' = [busy EXCEPT ![p] = None]
    /\ UNCHANGED <<client, backlog, wire>>

\* A program prints its page and ends.
Program(p) ==
    /\ role[p] = "program"
    /\ wire' = Sent(wire, std[p], "page")
    /\ role' = [role EXCEPT ![p] = "zombie"]
    /\ std' = [std EXCEPT ![p] = None]
    /\ sess' = [sess EXCEPT ![p] = [c \in Conns |-> "none"]]
    /\ UNCHANGED <<client, backlog, env, busy>>

Step(p) ==
    \/ Accept(p) \/ Program(p)
    \/ \E run \in BOOLEAN : Fork(p, run)
    \/ \E c \in Conns :
          \/ do_accept(p, c) \/ do_read(p, c) \/ do_write(p, c)
          \/ Written(p, c) \/ Throw(p, c)

Next ==
    \/ \E c \in Conns : Connect(c) \/ Send(c) \/ Hangup(c)
    \/ \E p \in Pids : Step(p)

\* The event loop runs what is ready in the order it became ready, and the
\* programs end; nothing is asked of the clients.
Fairness ==
    \A p \in Pids :
        /\ WF_vars(Accept(p)) /\ WF_vars(Program(p))
        /\ WF_vars(\E run \in BOOLEAN : Fork(p, run))
        /\ \A c \in Conns :
              /\ WF_vars(do_accept(p, c)) /\ WF_vars(do_read(p, c))
              /\ WF_vars(do_write(p, c)) /\ WF_vars(Written(p, c) \/ Throw(p, c))

Spec == Init /\ [][Next]_vars /\ Fairness

-----------------------------------------------------------------------------
(***************************************************************************)
(* Properties.                                                             *)
(***************************************************************************)
\* The type invariant; a handler in the fork loop has a session in its own
\* process, and descriptors 0 to 2 of a process are those of a connection once
\* it was forked.
TypeOK ==
    /\ peer \in [Conns -> {"away", "open", "shut", "reset"}]
    /\ left \in [Conns -> 0 .. Pieces] /\ unread \in [Conns -> 0 .. Pieces]
    /\ backlog \in Seq(Conns)
    /\ role \in [Pids -> {"free", "server", "program", "zombie", "gone"}]
    /\ sess \in [Pids -> [Conns -> States]]
    /\ std \in [Pids -> Conns \cup {None}] /\ busy \in [Pids -> Conns \cup {None}]
    /\ \A p \in Pids :
          /\ busy[p] # None => role[p] = "server" /\ sess[p][busy[p]] = "write"
          /\ p # 0 /\ role[p] \in {"server", "program"} => std[p] # None

\* An exec has failed.
Failed == \E p \in Pids \ {0} : role[p] \in {"server", "gone"}

\* The client of a connection gets the status line before anything a program
\* prints, in whatever processes its session is (31-36, 79); and as long as
\* every exec succeeded, one status line and one page, even when its request
\* arrives in pieces (84-88).
AnswerInOrder ==
    \A c \in Conns :
        /\ wire[c] # <<>> => Head(wire[c]) = "status"
        /\ ~Failed => wire[c] \in {<<>>, <<"status">>, <<"status", "page">>}

\* A program finds its own client's request in the environment, which the
\* process shares among all sessions (51-60): the URI, and the query string when
\* the request has one.
OwnEnvironment ==
    \A p \in Pids :
        role[p] = "program" =>
            /\ env[p].uri = std[p]
            /\ std[p] \notin Plain => env[p].query = std[p]

\* No process holds the socket: the client sees the end of the page.
Closed(c) ==
    /\ \A k \in DOMAIN backlog : backlog[k] # c
    /\ \A p \in Pids : std[p] # c /\ sess[p][c] = "none"

\* The server is not the one process it was, or cannot fork.
Trouble == Failed \/ role[0] = "gone" \/ FreePids = {}

\* A client that sent something sees the end of its page, although programs of
\* other clients hold its socket for a while (73-77, 85): unless an exec failed,
\* a reset connection ended the server (40), or processes ran out (65).
ResponseEnds ==
    \A c \in Conns : left[c] < Pieces ~> Closed(c) \/ Trouble

=============================================================================
