----------------------------- MODULE Descriptors -----------------------------
(***************************************************************************)
(* The descriptors of np_single_proc.cpp and npshell2.cpp: one process     *)
(* with one descriptor table serves every user, and keeps the numbers of   *)
(* sockets, numbered pipes and user pipes in tables.                       *)
(*                                                                         *)
(* A descriptor number stands for an object, and the lowest free number is *)
(* given out.  The code closes numbers; it cannot see what they stand for. *)
(* Entries of npipe_table and upipe carry, as a history, the pipe p that   *)
(* they were made for.                                                     *)
(*                                                                         *)
(* A line is one program, with |N or >k and with <j, or a builtin;         *)
(* pipelines within a line are in NpShell, the waiting room and the order  *)
(* in which select's answer is served in WaitingRoom.                      *)
(***************************************************************************)
EXTENDS Integers, Sequences, FiniteSets

CONSTANTS
    MaxUser,    \* slots of users (30 in the code)
    MaxFd,      \* bound: descriptors, 1 is the first that accept may give
    Counts,     \* the N of |N
    MaxLines    \* bound: lines typed, by all users together; nothing happens
                \* after a fault, and nobody logs in after the last line

ASSUME DescriptorsAssumption ==
    /\ MaxUser \in Nat \ {0} /\ MaxFd \in Nat /\ MaxLines \in Nat
    /\ Counts \subseteq Nat \ {0}

Users == 1 .. MaxUser
Fds == 1 .. MaxFd

VARIABLES
    pc,         \* "select", or "wait": in the waitpid of a line
    fdt,        \* what each descriptor of the server stands for
    id_table,   \* the socket of each slot, 0: free
    npipe,      \* npipe_table and npipe_clock of each slot
    upipe,      \* the user pipe from i to k
    made,       \* pipes made so far
    kids,       \* the programs, in the order of the forks
    kidpid,     \* the program that waitpid waits for, 0: none
    eof,        \* cin has met an end of file
    left,       \* lines that may still be typed
    fault       \* history: a number was used that stands for something else

vars == <<pc, fdt, id_table, npipe, upipe, made, kids, kidpid, eof, left, fault>>

Free == [t |-> "free", of |-> 0]
Socket(u) == [t |-> "socket", of |-> u]
ReadEnd(p) == [t |-> "read", of |-> p]
WriteEnd(p) == [t |-> "write", of |-> p]
Saved == [t |-> "saved", of |-> 0]      \* stdin_tmp, stdout_tmp, stderr_tmp
NotPiped == [t |-> "none", of |-> 0]    \* a program's user's socket, or /dev/null

NoPipe == [p |-> 0, r |-> 0, w |-> 0]
Gone == [live |-> FALSE, user |-> 0, in |-> NotPiped, out |-> NotPiped, hold |-> {}]

Numbers(e) == {e.r, e.w} \ {0}

-----------------------------------------------------------------------------
\* Descriptor numbers.

FreeNumbers == {d \in Fds : fdt[d] = Free}

\* The n-th free number, in ascending order.
Lowest(n) == LET free == FreeNumbers
             IN  CHOOSE d \in free : Cardinality({f \in free : f < d}) = n - 1

Close(table, numbers) ==
    [d \in Fds |-> IF d \in numbers THEN Free ELSE table[d]]

Init ==
    /\ pc = "select"
    /\ fdt = [d \in Fds |-> Free]
    /\ id_table = [u \in Users |-> 0]
    /\ npipe = [u \in Users |-> <<>>]
    /\ upipe = [c \in Users \X Users |-> NoPipe]
    /\ made = 0
    /\ kids = <<>> /\ kidpid = 0
    /\ eof = FALSE
    /\ left = MaxLines
    /\ fault = "none"

\* accept and set_id.
Login(u) ==
    /\ pc = "select" /\ fault = "none" /\ left > 0
    /\ id_table[u] = 0 /\ \A v \in 1 .. (u - 1) : id_table[v] # 0
    /\ FreeNumbers # {}
    /\ fdt' = [fdt EXCEPT ![Lowest(1)] = Socket(u)]
    /\ id_table' = [id_table EXCEPT ![u] = Lowest(1)]
    /\ UNCHANGED <<pc, npipe, upipe, made, kids, kidpid, eof, left, fault>>

-----------------------------------------------------------------------------
\* A line of a program.  The descriptors 0 to 2 are saved in the three lowest
\* numbers as long as the line lasts.

Served(u) ==
    /\ pc = "select" /\ fault = "none" /\ left > 0
    /\ id_table[u] # 0
    /\ left' = left - 1

Clocked(table, n) == {i \in DOMAIN table : table[i].clock = n}

\* The entry whose clock is n, NoPipe if there is none.
Entry(u, n) ==
    LET found == Clocked(npipe[u], n)
    IN  IF found = {} THEN NoPipe
        ELSE LET e == npipe[u][CHOOSE i \in found : \A k \in found : i <= k]
             IN  [p |-> e.p, r |-> e.r, w |-> e.w]

NewPipe == [p |-> made + 1, r |-> Lowest(4), w |-> Lowest(5)]

Tick(table) == [i \in DOMAIN table |-> [table[i] EXCEPT !.clock = @ - 1]]

\* <j and >k are refused if there is no such user, no pipe from j, or already
\* one to k; the program then gets /dev/null.
Receives(u, j) == j # 0 /\ id_table[j] # 0 /\ upipe[j, u].r # 0
Sends(u, k) == k # 0 /\ id_table[k] # 0 /\ upipe[u, k].r = 0

\* Mutant of OthersLater: the loop over the other users is forgotten.
NoOthers(u) == {}

\* The pipes of the other users that the child closes.
OthersLater(u) ==
    UNION {Numbers(npipe[c[1]][c[2]]) : c \in
        {b \in (Users \ {u}) \X (1 .. MaxLines) :
            b[2] \in DOMAIN npipe[b[1]] /\ npipe[b[1]][b[2]].clock > 0}}

OwnLater(u) ==
    UNION {Numbers(npipe[u][i]) : i \in {m \in DOMAIN npipe[u] : npipe[u][m].clock > 0}}

\* User pipes between two others: their numbers are closed as well.
OthersUser(u) ==
    UNION {Numbers(upipe[c]) : c \in (Users \ {u}) \X (Users \ {u})}

\* Mutant of ParentCloses: the numbered pipe is left to the child.
ParentClosesUser(due, from, to) == Numbers(from) \cup Numbers(to)

\* What the server closes once the child is forked: what it reads, and the
\* user pipe it writes to.
ParentCloses(due, from, to) == Numbers(due) \cup Numbers(from) \cup Numbers(to)

\* Standard input: the user pipe, else the numbered pipe that is due, else the
\* user's socket.  A dup2 from a number that is closed changes nothing.
Input(j, due, from, open) ==
    IF from # NoPipe /\ open[from.r] # Free THEN open[from.r]
    ELSE IF due # NoPipe /\ (j = 0 \/ from # NoPipe) THEN open[due.r]
    ELSE NotPiped

\* cmd, cmd |n, cmd >k, each also with <j.
Program(u, n, j, k) ==
    /\ Served(u) /\ ~eof
    /\ n = 0 \/ k = 0
    /\ Cardinality(FreeNumbers) >= 5
    /\ \E due \in {Entry(u, 0)}, hit \in {IF n = 0 THEN NoPipe ELSE Entry(u, n)} :
       \E to \in {IF Sends(u, k) \/ (n # 0 /\ hit = NoPipe) THEN NewPipe ELSE hit} :
       LET from == IF Receives(u, j) THEN upipe[j, u] ELSE NoPipe
           makes == to # hit
           open == IF makes
                   THEN [fdt EXCEPT ![to.r] = ReadEnd(to.p), ![to.w] = WriteEnd(to.p)]
                   ELSE fdt
           childCloses == UNION {Numbers(due), Numbers(from), Numbers(to), OwnLater(u),
                                 OthersLater(u), OthersUser(u)}
       IN  /\ kids' = Append(kids,
                [live |-> TRUE, user |-> u, in |-> Input(j, due, from, open),
                 out |-> IF to # NoPipe THEN open[to.w] ELSE NotPiped,
                 hold |-> {o \in {open[d] : d \in Fds \ childCloses} :
                              o.t \in {"read", "write"}}])
           /\ fdt' = Close(open, ParentCloses(due, from,
                                              IF Sends(u, k) THEN to ELSE NoPipe))
           /\ npipe' = [npipe EXCEPT ![u] = Tick(
                IF n # 0 /\ makes
                THEN Append(@, [clock |-> n, p |-> to.p, r |-> to.r, w |-> to.w])
                ELSE @)]
           /\ upipe' = [c \in Users \X Users |->
                IF c = <<u, k>> /\ Sends(u, k) THEN to
                ELSE IF c = <<j, u>> /\ from # NoPipe THEN NoPipe
                ELSE upipe[c]]
           /\ made' = IF makes THEN made + 1 ELSE made
           /\ fault' = IF from = NoPipe THEN "none" ELSE "receive"
    /\ IF n = 0 /\ k = 0
       THEN pc' = "wait" /\ kidpid' = Len(kids) + 1
       ELSE UNCHANGED <<pc, kidpid>>
    /\ UNCHANGED <<id_table, eof>>

\* A line that starts no program falls through to waitpid with a kidpid that
\* was never set: the last program's, or none.
Builtin(u) ==
    /\ Served(u) /\ ~eof
    /\ npipe' = [npipe EXCEPT ![u] = Tick(@)]
    /\ kidpid' \in {0, Len(kids)}
    /\ pc' = "wait"
    /\ UNCHANGED <<fdt, id_table, upipe, made, kids, eof, fault>>

\* waitpid returns once the program is gone.
Wait ==
    /\ pc = "wait"
    /\ kidpid # 0 => ~kids[kidpid].live
    /\ pc' = "select"
    /\ kidpid' = 0
    /\ UNCHANGED <<fdt, id_table, npipe, upipe, made, kids, eof, left, fault>>

-----------------------------------------------------------------------------
\* Logout.

OfUser(u) == {c \in Users \X Users : u \in {c[1], c[2]}}

\* Mutant of Entries: the numbered pipes are forgotten.
UserEntries(u) == {upipe[c] : c \in OfUser(u)}

\* The entries whose numbers clear closes, whatever has become of the pipes.
Entries(u) ==
    {[p |-> npipe[u][i].p, r |-> npipe[u][i].r, w |-> npipe[u][i].w] :
        i \in DOMAIN npipe[u]}
    \cup {upipe[c] : c \in OfUser(u)}

\* A number would be closed that stands for something else than the user's pipes.
Strange(u, table) ==
    LET own == {Free} \cup UNION {{ReadEnd(e.p), WriteEnd(e.p)} : e \in Entries(u)}
    IN  \E e \in Entries(u) : \E d \in Numbers(e) : table[d] \notin own

\* close of the socket and clear, from a descriptor table.
Clear(u, table) ==
    LET closed == Close(table, {id_table[u]})
    IN  /\ fdt' = Close(closed, UNION {Numbers(e) : e \in Entries(u)})
        /\ fault' = IF Strange(u, closed) THEN "clear" ELSE fault
        /\ id_table' = [id_table EXCEPT ![u] = 0]
        /\ npipe' = [npipe EXCEPT ![u] = <<>>]
        /\ upipe' = [c \in Users \X Users |->
                        IF c \in OfUser(u) THEN NoPipe ELSE upipe[c]]
        /\ UNCHANGED <<pc, made, kids, kidpid>>

Exit(u) ==
    /\ Served(u) /\ ~eof
    /\ Clear(u, fdt)
    /\ UNCHANGED eof

\* An end of file: npshell returns without closing what it saved, and every
\* later getline fails as well.
Eof(u) ==
    /\ Served(u)
    /\ Cardinality(FreeNumbers) >= 3
    /\ Clear(u, [d \in Fds |-> IF d \in {Lowest(1), Lowest(2), Lowest(3)}
                               THEN Saved ELSE fdt[d]])
    /\ eof' = TRUE

-----------------------------------------------------------------------------
\* The programs.

Live == {i \in DOMAIN kids : kids[i].live}
Opens(i) == kids[i].hold \cup {kids[i].in, kids[i].out}

IsOpen(end) == (\E d \in Fds : fdt[d] = end) \/ \E i \in Live : end \in Opens(i)

\* What program i writes is taken: by a socket, by a program that reads the pipe
\* and is not held up itself, or by nobody, which kills it.
Flows[i \in 1 .. MaxLines] ==
    LET out == kids[i].out
    IN  out.t = "write" =>
            \/ ~IsOpen(ReadEnd(out.of))
            \/ \E k \in Live : k > i /\ kids[k].in = ReadEnd(out.of) /\ Flows[k]

\* Its input has an end.
Ends(i) == kids[i].in.t = "read" => ~IsOpen(WriteEnd(kids[i].in.of))

\* A program may end at any time.
Die(i) ==
    /\ i \in Live /\ fault = "none"
    /\ kids' = [kids EXCEPT ![i] = Gone]
    /\ UNCHANGED <<pc, fdt, id_table, npipe, upipe, made, kidpid, eof, left, fault>>

\* It does end when it has read and written everything.
Finish(i) == i \in Live /\ Ends(i) /\ Flows[i] /\ Die(i)

Next ==
    \/ \E u \in Users :
          \/ Login(u) \/ Builtin(u) \/ Exit(u) \/ Eof(u)
          \/ \E n \in Counts \cup {0}, j, k \in Users \cup {0} : Program(u, n, j, k)
    \/ Wait
    \/ \E i \in DOMAIN kids : Die(i)

\* waitpid returns when it can, and programs with nothing left to do end.
Spec ==
    /\ Init /\ [][Next]_vars
    /\ WF_vars(Wait)
    /\ \A i \in 1 .. MaxLines : WF_vars(Finish(i))

-----------------------------------------------------------------------------
(***************************************************************************)
(* Properties.                                                             *)
(***************************************************************************)
\* As long as no stale number was used, the tables and the open descriptors
\* agree, over any lines, logins and logouts of all users: the number of a slot
\* is its own socket, a numbered pipe that is not due yet is open at the
\* numbers of its entry, is closed at both ends or at none afterwards, and
\* everything else that is open was left by an end of file (477-485, 636-642,
\* 50-56).
Accounted ==
    fault = "none" =>
        /\ \A u \in Users : id_table[u] # 0 => fdt[id_table[u]] = Socket(u)
        /\ \A u \in Users : \A i \in DOMAIN npipe[u] :
              LET e == npipe[u][i]
              IN  /\ e.clock >= 0 => fdt[e.r] = ReadEnd(e.p)
                  /\ fdt[e.r] = ReadEnd(e.p) <=> fdt[e.w] = WriteEnd(e.p)
        /\ \A d \in Fds :
              \/ fdt[d] = Free
              \/ fdt[d] = Saved /\ eof
              \/ \E u \in Users : id_table[u] = d
              \/ \E u \in Users : \E i \in DOMAIN npipe[u] :
                    /\ d \in Numbers(npipe[u][i])
                    /\ fdt[d].of = npipe[u][i].p

\* A program that holds a numbered pipe it has nothing to do with got it when
\* the pipe was due at its owner's next line, or overdue (577-598): of the pipes
\* that wait for a later line no program holds a copy.
OthersDueOnly ==
    fault = "none" =>
        \A i \in Live, u \in Users : \A m \in DOMAIN npipe[u] :
            LET e == npipe[u][m]
            IN  WriteEnd(e.p) \in kids[i].hold =>
                    e.clock <= IF u = kids[i].user THEN -1 ELSE 0

\* A program holds the write end of a pipe that another user's program reads.
HeldByOthers ==
    \E i, k \in Live :
        /\ kids[i].user # kids[k].user
        /\ kids[k].in.t = "read"
        /\ WriteEnd(kids[k].in.of) \in kids[i].hold

\* A builtin waits for a program that writes to a pipe.
WaitsForWriter == kidpid # 0 /\ kids[kidpid].out.t = "write"

\* The server, which serves nobody while it waits, comes back to select after
\* every line (670-675), unless a pipe that is read is held by a program of
\* another user, or a builtin waits for a program that it did not start.
ServerReturns ==
    pc = "wait" ~> pc = "select" \/ HeldByOthers \/ WaitsForWriter \/ fault # "none"

=============================================================================
