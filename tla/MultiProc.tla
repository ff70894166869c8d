------------------------------ MODULE MultiProc ------------------------------
(***************************************************************************)
(* np_multi_proc.cpp and npshell3.cpp: a process for every user, tables in *)
(* shared memory, and a semaphore for every slot of the tables.            *)
(*                                                                         *)
(* Who has something for the user of a slot waits on the slot's semaphore, *)
(* leaves a message or the number of a user pipe, and signals the user's   *)
(* process; the handler there reads it and posts.  A message is sent to    *)
(* everybody by doing this for each slot in turn.  All code of a process,  *)
(* its handler included, uses one global, semory, for the semaphore that   *)
(* it opened last, and the handler can run between any two steps.          *)
(*                                                                         *)
(* A line is the sequence of semaphores it takes, each with its purpose.   *)
(* Programs, numbered pipes, nicknames and the text of messages are left   *)
(* out.  Slots count from 1 here, from 0 in the code; 0 is no slot.        *)
(***************************************************************************)
EXTENDS Naturals, Sequences, FiniteSets

CONSTANTS
    MaxClient,  \* slots (30 in the code)
    MaxUsers,   \* bound: connections
    MaxLines    \* bound: lines typed, by all users together

ASSUME MultiAssumption ==
    MaxClient \in Nat \ {0} /\ MaxUsers \in Nat /\ MaxLines \in Nat

Slots == 1 .. MaxClient
Users == 1 .. MaxUsers      \* user processes, in the order of their logins
Server == MaxUsers + 1
Procs == Users \cup {Server}
Nobody == 0                 \* kidpid 0

VARIABLES
    id, kidpid, mode, upipe,    \* Client_info
    sem,        \* the semaphores
    pc,         \* of a user: "new", "idle" (getline), "wait" (sem_wait), "body",
                \* "fifo" (open), "clearing", "dead"; of the server: "accept", "setpid"
    todo,       \* the semaphores the line still takes, the current one first
    my_id,
    semory,     \* the semaphore opened last
    reg,        \* the one that sem_wait is called with
    sig,        \* SIGUSR1 is pending
    hnd,        \* the handler: "no", "reading" (in open), "opened"
    from,       \* the slot whose pipe it reads
    left,       \* lines that may still be typed
    harm        \* history: what has gone wrong: "race", a semaphore was exchanged by
                \* a handler, "group", everybody was signalled, "gone", a message
                \* was for a dead process, "broken", a broken connection ended a
                \* process with a semaphore taken or a message on its way to it

shared == <<id, kidpid, mode, upipe>>
handler == <<sig, hnd, from>>
vars == <<shared, sem, pc, todo, my_id, semory, reg, handler, left, harm>>

Alive(p) == pc[p] \notin {"new", "dead"}

\* Nothing has happened that can post a semaphore twice.
Sound == "race" \notin harm /\ "group" \notin harm

Init ==
    /\ id = [k \in Slots |-> FALSE] /\ kidpid = [k \in Slots |-> Nobody]
    /\ mode = [k \in Slots |-> 0] /\ upipe = [k \in Slots |-> {}]
    /\ sem = [k \in Slots |-> 1]
    /\ pc = [p \in Procs |-> IF p = Server THEN "accept" ELSE "new"]
    /\ todo = [p \in Procs |-> <<>>]
    /\ my_id = [p \in Procs |-> 1] /\ semory = [p \in Procs |-> 0]
    /\ reg = [p \in Procs |-> 0]
    /\ sig = [p \in Procs |-> FALSE] /\ hnd = [p \in Procs |-> "no"]
    /\ from = [p \in Procs |-> 0]
    /\ left = MaxLines
    /\ harm = {}

-----------------------------------------------------------------------------
\* What a line takes semaphores for.

Each(goal) == [k \in Slots |-> [goal |-> goal, slot |-> k]]
ToAll == Each("all")        \* what was just printed is told to all
Piped == Each("piped")      \* so is a user pipe, once it is open
Probes == Each("probe")
One(goal, k) == <<[goal |-> goal, slot |-> k]>>

\* p goes on with the rest of its line: sem_open of the next semaphore and
\* sem_wait, or the prompt.
GoOn(p, rest) ==
    /\ todo' = [todo EXCEPT ![p] = rest]
    /\ pc' = [pc EXCEPT ![p] = IF rest = <<>> THEN "idle" ELSE "wait"]
    /\ IF rest = <<>> THEN UNCHANGED <<semory, reg>>
       ELSE /\ semory' = [semory EXCEPT ![p] = Head(rest).slot]
            /\ reg' = [reg EXCEPT ![p] = Head(rest).slot]

Post(k) == sem' = [sem EXCEPT ![k] = @ + 1]

\* sem_post(semory), which is to be the semaphore that was waited for.
PostOpened(p) ==
    /\ Post(semory[p])
    /\ harm' = IF semory[p] = reg[p] THEN harm ELSE harm \cup {"race"}

\* kill(kidpid[k], SIGUSR1).  The process 0 is everybody: each user and the server.
Signal(k) ==
    /\ sig' = IF kidpid[k] = Nobody THEN [p \in Procs |-> Alive(p)]
              ELSE [sig EXCEPT ![kidpid[k]] = @ \/ Alive(kidpid[k])]
    /\ harm' = IF kidpid[k] = Nobody THEN harm \cup {"group"}
               ELSE IF Alive(kidpid[k]) THEN harm ELSE harm \cup {"gone"}

-----------------------------------------------------------------------------
\* The server.

\* accept, set_id and fork.  The child's first line tells everybody of the login.
Accept(u) ==
    /\ pc[Server] = "accept" /\ hnd[Server] = "no"
    /\ pc[u] = "new" /\ \A v \in 1 .. (u - 1) : pc[v] # "new"
    /\ \E k \in Slots :
          /\ ~id[k] /\ \A m \in 1 .. (k - 1) : id[m]
          /\ id' = [id EXCEPT ![k] = TRUE]
          /\ my_id' = [my_id EXCEPT ![u] = k, ![Server] = k]
    /\ pc' = [pc EXCEPT ![u] = "wait", ![Server] = "setpid"]
    /\ todo' = [todo EXCEPT ![u] = ToAll, ![Server] = <<u>>]
    /\ semory' = [semory EXCEPT ![u] = 1] /\ reg' = [reg EXCEPT ![u] = 1]
    /\ UNCHANGED <<kidpid, mode, upipe, sem, handler, left, harm>>

\* The parent's branch after fork.
SetPid ==
    /\ pc[Server] = "setpid" /\ hnd[Server] = "no"
    /\ kidpid' = [kidpid EXCEPT ![my_id[Server]] = Head(todo[Server])]
    /\ pc' = [pc EXCEPT ![Server] = "accept"]
    /\ todo' = [todo EXCEPT ![Server] = <<>>]
    /\ UNCHANGED <<id, mode, upipe, sem, my_id, semory, reg, handler, left, harm>>

-----------------------------------------------------------------------------
\* The lines of a user.

Main(u) == hnd[u] = "no"

Typed(u, items) ==
    /\ pc[u] = "idle" /\ Main(u) /\ left > 0 /\ Sound
    /\ left' = left - 1
    /\ GoOn(u, items)
    /\ UNCHANGED <<shared, sem, my_id, handler, harm>>

\* tell looks at id without the semaphore.
Tell(u, k) == id[k] /\ k # my_id[u] /\ Typed(u, One("tell", k))
Yell(u) == Typed(u, ToAll)
Name(u) == Typed(u, Probes)
Pipe(u, k) == Typed(u, One("pipe", k))
Receive(u, j) == Typed(u, One("recv", j))
ReceiveAndPipe(u, j, k) == Typed(u, One("recv", j) \o One("pipe", k))

\* Mutant of Leaving: the slot cleared is counted from 0.
LeavingNext(u) == ToAll \o One("clear", (my_id[u] % MaxClient) + 1)

\* exit: all are told, then client_clear.
Leaving(u) == ToAll \o One("clear", my_id[u])
Exit(u) == Typed(u, Leaving(u))

\* The process ends as it is: nothing that it has taken is given back.
Dies(u) ==
    /\ pc' = [pc EXCEPT ![u] = "dead"]
    /\ todo' = [todo EXCEPT ![u] = <<>>]
    /\ sig' = [sig EXCEPT ![u] = FALSE]
    /\ harm' = IF sig[u] \/ pc[u] = "body" THEN harm \cup {"broken"} ELSE harm
    /\ UNCHANGED <<shared, sem, my_id, semory, reg, hnd, from, left>>

\* getline fails: npshell returns, accept on the closed msock fails, and
\* errexit ends the process.
Eof(u) == pc[u] = "idle" /\ Main(u) /\ Dies(u)

\* What u does next is to write to its socket: the message in its handler, the
\* news or the error of a user pipe while the semaphore is taken, and the
\* welcome, the yell or the new name before the first semaphore is.
Writes(u) ==
    \/ Alive(u) /\ sig[u] /\ hnd[u] = "no" /\ mode[my_id[u]] = 0
    \/ pc[u] = "body" /\ Main(u) /\ Head(todo[u]).goal \in {"pipe", "recv"}
    \/ pc[u] = "wait" /\ Main(u) /\ todo[u] = ToAll

\* The connection is broken: SIGPIPE, which is not ignored, ends the process.
SigPipe(u) == Writes(u) /\ Dies(u)

-----------------------------------------------------------------------------
\* The steps of a line: sem_wait, then the code it protects.

Available(u) == sem[reg[u]] > 0

Wait(u) ==
    /\ pc[u] = "wait" /\ Main(u) /\ Available(u)
    /\ sem' = [sem EXCEPT ![reg[u]] = @ - 1]
    /\ pc' = [pc EXCEPT ![u] = "body"]
    /\ UNCHANGED <<shared, todo, my_id, semory, reg, handler, left, harm>>

Body(u, goal) == pc[u] = "body" /\ Main(u) /\ Head(todo[u]).goal = goal
At(u) == Head(todo[u]).slot
Rest(u) == Tail(todo[u])

\* Leaves the semaphore to the handler of the user it signals.
Send(u, k, m) ==
    /\ mode' = [mode EXCEPT ![k] = m]
    /\ Signal(k)
    /\ UNCHANGED <<id, kidpid, upipe, sem, my_id, hnd, from, left>>

Release(u) ==
    /\ PostOpened(u)
    /\ UNCHANGED <<id, kidpid, mode, my_id, handler, left>>

\* The slots of a message to all that somebody else is in.
ToThem(u, k) == kidpid[k] # Nobody /\ k # my_id[u]

\* One slot of a message to all.
TellAll(u) ==
    /\ Body(u, "all") \/ Body(u, "piped")
    /\ IF ToThem(u, At(u)) THEN Send(u, At(u), 0) ELSE Release(u) /\ UNCHANGED upipe
    /\ GoOn(u, Rest(u))

TellOne(u) ==
    /\ Body(u, "tell")
    /\ Send(u, At(u), 0)
    /\ GoOn(u, Rest(u))

\* A nickname that is taken ends the search; otherwise all are told.
Probe(u) ==
    /\ Body(u, "probe")
    /\ Release(u) /\ UNCHANGED upipe
    /\ \E taken \in BOOLEAN :
          GoOn(u, IF taken THEN <<>> ELSE IF Rest(u) = <<>> THEN ToAll ELSE Rest(u))

\* Mutant of Refuse: the semaphore is kept.
RefuseAndKeep(u) ==
    /\ UNCHANGED <<shared, sem, my_id, handler, left, harm>>
    /\ GoOn(u, Rest(u))

\* The user or the pipe is not there, or the pipe is there already.
Refuse(u) == Release(u) /\ UNCHANGED upipe /\ GoOn(u, Rest(u))

\* >k: refused, or the fifo is made and opened after the other side is told.
PipeTo(u) ==
    /\ Body(u, "pipe")
    /\ IF ~id[At(u)] \/ my_id[u] \in upipe[At(u)]
       THEN Refuse(u)
       ELSE /\ Send(u, At(u), my_id[u])
            /\ pc' = [pc EXCEPT ![u] = "fifo"]
            /\ UNCHANGED <<todo, semory, reg>>

\* <j: refused, or all are told; the pipe is closed once the program is forked.
ReceiveFrom(u) ==
    /\ Body(u, "recv")
    /\ IF kidpid[At(u)] = Nobody \/ At(u) \notin upipe[my_id[u]]
       THEN Refuse(u)
       ELSE /\ Release(u) /\ UNCHANGED upipe
            /\ GoOn(u, ToAll \o Rest(u) \o One("close", At(u)))

ClosePipe(u) ==
    /\ Body(u, "close")
    /\ upipe' = [upipe EXCEPT ![my_id[u]] = @ \ {At(u)}]
    /\ Release(u)
    /\ GoOn(u, Rest(u))

\* client_clear frees the slot before its pipes.
Clear(u) ==
    /\ Body(u, "clear")
    /\ id' = [id EXCEPT ![At(u)] = FALSE]
    /\ kidpid' = [kidpid EXCEPT ![At(u)] = Nobody]
    /\ pc' = [pc EXCEPT ![u] = "clearing"]
    /\ UNCHANGED <<mode, upipe, sem, todo, my_id, semory, reg, handler, left, harm>>

ClearPipes(u) ==
    /\ pc[u] = "clearing" /\ Main(u)
    /\ upipe' = [k \in Slots |-> IF k = At(u) THEN {} ELSE upipe[k] \ {At(u)}]
    /\ PostOpened(u)
    /\ pc' = [pc EXCEPT ![u] = "dead"]
    /\ todo' = [todo EXCEPT ![u] = <<>>]
    /\ sig' = [sig EXCEPT ![u] = FALSE]
    /\ UNCHANGED <<id, kidpid, mode, my_id, semory, reg, hnd, from, left>>

-----------------------------------------------------------------------------
\* client_handler.  If it runs after sem_open and before sem_wait has read
\* semory, sem_wait is called with the user's own semaphore.

\* Mutant of Shown: the semaphore is posted after a user pipe only.
ShownOnly(k) == UNCHANGED sem

Shown(k) == Post(k)

client_handler(p) ==
    /\ Alive(p) /\ sig[p] /\ hnd[p] = "no"
    /\ sig' = [sig EXCEPT ![p] = FALSE]
    /\ semory' = [semory EXCEPT ![p] = my_id[p]]
    /\ \/ UNCHANGED <<reg, harm>>
       \/ /\ pc[p] = "wait" /\ reg[p] # my_id[p]
          /\ reg' = [reg EXCEPT ![p] = my_id[p]]
          /\ harm' = harm \cup {"race"}
    /\ IF mode[my_id[p]] = 0
       THEN Shown(my_id[p]) /\ UNCHANGED <<hnd, from>>
       ELSE /\ hnd' = [hnd EXCEPT ![p] = "reading"]
            /\ from' = [from EXCEPT ![p] = mode[my_id[p]]]
            /\ UNCHANGED sem
    /\ UNCHANGED <<shared, pc, todo, my_id, left>>

\* The two opens of a fifo return together.  A writer in its handler has given
\* up its open for the time.
Rendezvous(p, w) ==
    /\ hnd[p] = "reading"
    /\ pc[w] = "fifo" /\ Main(w) /\ my_id[w] = from[p] /\ At(w) = my_id[p]
    /\ hnd' = [hnd EXCEPT ![p] = "opened"]
    /\ GoOn(w, Piped \o Rest(w))
    /\ UNCHANGED <<shared, sem, my_id, sig, from, left, harm>>

\* The handler reads mode again, an index of the table (0: outside of it).
PipeOpened(p) ==
    /\ hnd[p] = "opened"
    /\ upipe' = [upipe EXCEPT ![my_id[p]] = @ \cup ({mode[my_id[p]]} \ {0})]
    /\ Post(my_id[p])
    /\ hnd' = [hnd EXCEPT ![p] = "no"]
    /\ from' = [from EXCEPT ![p] = 0]
    /\ UNCHANGED <<id, kidpid, mode, pc, todo, my_id, semory, reg, sig, left, harm>>

-----------------------------------------------------------------------------
Command(u) ==
    \/ Yell(u) \/ Name(u) \/ Exit(u) \/ Eof(u)
    \/ \E k \in Slots : Tell(u, k) \/ Pipe(u, k) \/ Receive(u, k)
    \/ \E j, k \in Slots : ReceiveAndPipe(u, j, k)

Step(u) ==
    \/ Wait(u) \/ TellAll(u) \/ TellOne(u) \/ Probe(u) \/ PipeTo(u)
    \/ ReceiveFrom(u) \/ ClosePipe(u) \/ Clear(u) \/ ClearPipes(u)

Next ==
    \/ SetPid \/ \E u \in Users : Accept(u) \/ Command(u) \/ Step(u) \/ SigPipe(u)
    \/ \E p \in Procs : client_handler(p) \/ PipeOpened(p)
    \/ \E p \in Procs, w \in Users : Rendezvous(p, w)

\* Every process runs, and its handler when a signal is pending.
Fairness ==
    /\ WF_vars(SetPid)
    /\ \A u \in Users : WF_vars(Step(u))
    /\ \A p \in Procs :
          /\ WF_vars(client_handler(p)) /\ WF_vars(PipeOpened(p))
          /\ WF_vars(\E w \in Users : Rendezvous(p, w))

Spec == Init /\ [][Next]_vars /\ Fairness

-----------------------------------------------------------------------------
(***************************************************************************)
(* Properties.                                                             *)
(***************************************************************************)
\* A slot is that of one process at a time, whatever the order of logins, exits
\* and broken connections (np_multi_proc.cpp:88, npshell3.cpp:120-122).
SlotsOwned ==
    \A u \in Users : Alive(u) /\ pc[u] # "clearing" =>
        /\ id[my_id[u]]
        /\ \A v \in Users : Alive(v) /\ pc[v] # "clearing" /\ my_id[v] = my_id[u] => v = u

\* Users whose handlers wait for pipes of each other, and no one else.
Crossed ==
    \E S \in SUBSET Users \ {{}} :
        \A u \in S : hnd[u] = "reading" /\ \E w \in S : my_id[w] = from[u]

\* The code at fault; see README.
Trouble == harm # {} \/ Crossed

\* Who is between sem_wait for slot k and the signal or the post, and who has a
\* message there that is not read yet.
Inside(k) == {u \in Users : pc[u] \in {"body", "clearing"} /\ reg[u] = k}
Addressed(k) ==
    {u \in Users : Alive(u) /\ my_id[u] = k /\ (sig[u] \/ hnd[u] # "no")}

\* A semaphore is free or has one holder, also while it is handed over from a
\* sender to the addressee's handler (285, 106, 110): a message is read before
\* the next one is written, and before its slot is freed.  It can be lost with
\* a process whose connection breaks (109, 502, 563), and then has no holder;
\* but it never has two, whatever connections break, unless a handler has
\* exchanged the semaphore or everybody was signalled.
OneHolder ==
    Sound =>
        \A k \in Slots :
            LET holders == sem[k] + Cardinality(Inside(k)) + Cardinality(Addressed(k))
            IN holders <= 1 /\ (harm = {} => holders = 1)

\* Every line of every user, and every login and exit, comes to its end unless
\* one of the known faults happens: the waits for semaphores, for signals and
\* for the other end of a fifo do not block each other in any other way.
LinesReturn ==
    \A u \in Users :
        pc[u] \in {"wait", "body", "fifo", "clearing"} ~>
            pc[u] \in {"idle", "dead"} \/ Trouble

=============================================================================
