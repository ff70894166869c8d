------------------------------- MODULE NpShell -------------------------------
(***************************************************************************)
(* The shell of project1/npshell.cpp, run per client by                    *)
(* project2/np_simple.cpp as npshell1.cpp: pipelines, numbered pipes (|N   *)
(* and !N), the pipes' descriptors and the processes that hold them.       *)
(*                                                                         *)
(* A command line is a record of its kind, its number of stages and the    *)
(* count of the numbered pipe it ends in (0: none).  A pipe is a number,   *)
(* in the order of the pipe() calls, with at most Capacity tokens in it; a *)
(* process is a number, in the order of the fork() calls.  '!' pipes       *)
(* standard error into the same pipe and '>' is a stage that reads its     *)
(* input to the end, so neither needs a line kind of its own.              *)
(***************************************************************************)
EXTENDS Integers, Sequences, FiniteSets

CONSTANTS
    Lines,          \* the command lines that may be typed
    MaxLines,       \* bound: lines typed in a session
    Capacity,       \* bound: tokens a pipe holds
    Output,         \* tokens a program without input writes
    BuiltinWaits    \* TRUE: npshell.cpp, a builtin line falls through to the
                    \* waitpid of line 303; FALSE: npshell1.cpp, it continues

ASSUME LinesAssumption ==
    /\ Lines \subseteq [kind : {"exec", "builtin", "empty", "exit"},
                        stages : Nat, np : Nat]
    /\ \A l \in Lines : /\ l.kind = "exec" => l.stages > 0
                        /\ l.kind # "exec" => l.np = 0

ASSUME BoundsAssumption ==
    /\ MaxLines \in Nat
    /\ Capacity \in Nat \ {0}
    /\ Output \in Nat \ {0}
    /\ BuiltinWaits \in BOOLEAN

VARIABLES
    pc,             \* where main() is
    typed,          \* lines read so far
    now,            \* lines that reached the tick so far
    line,           \* the line being executed
    j,              \* the stage that is forked next, from 1
    pipe_table,     \* the numbered pipes
    pipe_clock,     \* how many lines until each is read
    nptmp,          \* index of the pipe that the line reuses, 0 if none
    curpipes,       \* the pipe made for the stage before, 0 if none
    shfd,           \* the pipes whose two ends the shell has open
    buf,            \* tokens in each pipe, by pipe number
    procs,          \* the processes, by process number
    kidpid,         \* the process waitpid would wait for, 0: no child's pid
    sigchld         \* a SIGCHLD is pending

vars == <<pc, typed, now, line, j, pipe_table, pipe_clock, nptmp, curpipes,
          shfd, buf, procs, kidpid, sigchld>>

shellVars == <<pc, typed, now, line, j, pipe_table, pipe_clock, nptmp,
               curpipes, shfd, kidpid>>

NoLine == [kind |-> "empty", stages |-> 0, np |-> 0]

-----------------------------------------------------------------------------
\* Helpers.

\* Mutant of IndexOf: the search is forgotten.
NoIndex(clocks, n) == 0

\* Mutant of IndexOf: the index is taken once the loop has counted on.
PastIndex(clocks, n) ==
    IF \E k \in DOMAIN clocks : clocks[k] = n
    THEN 1 + CHOOSE k \in DOMAIN clocks :
                clocks[k] = n /\ \A i \in 1 .. (k - 1) : clocks[i] # n
    ELSE 0

\* The first index whose clock is n, 0 if there is none.
IndexOf(clocks, n) ==
    IF \E k \in DOMAIN clocks : clocks[k] = n
    THEN CHOOSE k \in DOMAIN clocks :
            clocks[k] = n /\ \A i \in 1 .. (k - 1) : clocks[i] # n
    ELSE 0

\* A fresh numbered pipe has a clock from the parser but no table entry
\* before the fork of the stage that writes to it.
fin == IF line.np > 0 /\ nptmp = 0 THEN 1 ELSE 0

\* Mutant of LaterPipes: the pipe that the next line reads is not closed.
LaterButNext ==
    {pipe_table[k] : k \in {i \in 1 .. (Len(pipe_clock) - fin) :
                                pipe_clock[i] > 1}}

\* The pipes a child closes both ends of because they wait for later lines.
LaterPipes ==
    {pipe_table[k] : k \in {i \in 1 .. (Len(pipe_clock) - fin) :
                                pipe_clock[i] > 0}}

\* Who has the write (read) end of p open.  A forked child that has not run
\* yet has both ends of all it inherited.
WriteEnd(q, p) == \/ q.st = "forked" /\ p \in q.inherited
                  \/ q.st = "run" /\ (q.out = p \/ p \in q.kept)
ReadEnd(q, p) == \/ q.st = "forked" /\ p \in q.inherited
                 \/ q.st = "run" /\ (q.in = p \/ p \in q.kept)

HasWriter(p) == p \in shfd \/ \E i \in DOMAIN procs : WriteEnd(procs[i], p)
HasReader(p) == p \in shfd \/ \E i \in DOMAIN procs : ReadEnd(procs[i], p)

\* Mutant of Tick: a clock stops at 0.
TickToZero(clocks) ==
    [k \in DOMAIN clocks |-> IF clocks[k] > 0 THEN clocks[k] - 1 ELSE clocks[k]]

Tick(clocks) == [k \in DOMAIN clocks |-> clocks[k] - 1]

-----------------------------------------------------------------------------
Init ==
    /\ pc = "read"
    /\ typed = 0 /\ now = 0
    /\ line = NoLine
    /\ j = 1
    /\ pipe_table = <<>> /\ pipe_clock = <<>>
    /\ nptmp = 0 /\ curpipes = 0
    /\ shfd = {} /\ buf = <<>>
    /\ procs = <<>>
    /\ kidpid = 0
    /\ sigchld = FALSE

\* getline and the parser.  A numbered pipe looks for a clock of the same
\* count, and pushes its own clock when there is none.
ReadExec(l) ==
    /\ l.kind = "exec"
    /\ LET hit == IndexOf(pipe_clock, l.np)
       IN  /\ nptmp' = IF l.np > 0 THEN hit ELSE 0
           /\ pipe_clock' = IF l.np > 0 /\ hit = 0
                            THEN Append(pipe_clock, l.np) ELSE pipe_clock
    /\ pc' = "fork"
    /\ j' = 1
    /\ curpipes' = 0
    /\ UNCHANGED <<kidpid, shfd>>

\* setenv, printenv and a line with an empty first stage start no program.
\* kidpid is a local of the loop body that this path leaves uninitialized:
\* it holds the last child's pid or something that is no child's.
ReadBuiltin(l) ==
    /\ l.kind = "builtin"
    /\ nptmp' = 0
    /\ pc' = "tick"
    /\ kidpid' \in {kidpid, 0}
    /\ UNCHANGED <<j, pipe_clock, curpipes, shfd>>

\* An empty line continues without a tick.
ReadEmpty(l) ==
    /\ l.kind = "empty"
    /\ UNCHANGED <<pc, j, pipe_clock, nptmp, curpipes, kidpid, shfd>>

\* exit, EOF or the end of the input: main returns and its files close.
ReadExit(l) ==
    /\ l.kind = "exit"
    /\ pc' = "done"
    /\ shfd' = {}
    /\ UNCHANGED <<j, pipe_clock, nptmp, curpipes, kidpid>>

ReadLine(l) ==
    /\ pc = "read"
    /\ typed < MaxLines
    /\ typed' = typed + 1
    /\ line' = l
    /\ ReadExec(l) \/ ReadBuiltin(l) \/ ReadEmpty(l) \/ ReadExit(l)
    /\ UNCHANGED <<now, pipe_table, buf, procs, sigchld>>

\* The stage that writes to the numbered pipe of the line.
Numbered == line.np > 0 /\ j = line.stages

\* pipe() is called for a fresh numbered pipe and between two stages.
MakesPipe == IF Numbered THEN nptmp = 0 ELSE j < line.stages

\* The pipe the stage writes to, 0: the terminal.
OutPipe == IF MakesPipe THEN Len(buf) + 1
           ELSE IF Numbered THEN pipe_table[nptmp] ELSE 0

\* Mutant of InPipe: the clocks are read as if they had ticked already.
LatePipe == IF j > 1 THEN curpipes
            ELSE LET due == IndexOf(pipe_clock, -1)
                 IN  IF due = 0 THEN 0 ELSE pipe_table[due]

\* The pipe the stage reads: the one of the stage before or, for the first,
\* the numbered pipe whose clock is 0.
InPipe == IF j > 1 THEN curpipes
          ELSE LET due == IndexOf(pipe_clock, 0)
               IN  IF due = 0 THEN 0 ELSE pipe_table[due]

\* Mutant of ShellCloses: only the numbered pipe is closed.
ShellClosesFirst == IF j > 1 THEN {} ELSE {InPipe}

\* The shell closes both ends of the pipe that the stage reads.
ShellCloses == {InPipe}

\* Mutant of Leaked: the child keeps the descriptors of its own input.
LeakedInput == LET made == IF MakesPipe THEN {Len(buf) + 1} ELSE {}
               IN  (shfd \cup made) \ ({OutPipe} \cup LaterPipes)

\* The pipes whose two ends are open in the child once it executes.
Leaked == LET made == IF MakesPipe THEN {Len(buf) + 1} ELSE {}
          IN  (shfd \cup made) \ ({InPipe, OutPipe} \cup LaterPipes)

\* One iteration of the loop over the stages: pipe, fork and what the shell
\* closes after it.  Shell and child have separate descriptors, so what the
\* child closes is decided here and takes effect when it runs.
Fork ==
    /\ pc = "fork"
    /\ LET open == IF MakesPipe THEN shfd \cup {Len(buf) + 1} ELSE shfd
       IN  /\ shfd' = open \ ShellCloses
           /\ procs' = Append(procs,
                [st |-> "forked", line |-> now, in |-> InPipe, out |-> OutPipe,
                 inherited |-> open, kept |-> Leaked,
                 left |-> IF InPipe = 0 /\ OutPipe # 0 THEN Output ELSE 0])
    /\ buf' = IF MakesPipe THEN Append(buf, 0) ELSE buf
    /\ pipe_table' = IF Numbered /\ nptmp = 0
                     THEN Append(pipe_table, OutPipe) ELSE pipe_table
    /\ curpipes' = OutPipe
    /\ kidpid' = Len(procs) + 1
    /\ j' = j + 1
    /\ pc' = IF j = line.stages THEN "tick" ELSE "fork"
    /\ UNCHANGED <<typed, now, line, pipe_clock, nptmp, sigchld>>

\* The end of the main loop's body: every clock is decremented; a line that
\* ends in a numbered pipe is not waited for.
EndLine ==
    /\ pc = "tick"
    /\ pipe_clock' = Tick(pipe_clock)
    /\ now' = now + 1
    /\ pc' = IF line.np > 0 \/ (line.kind = "builtin" /\ ~BuiltinWaits)
             THEN "read" ELSE "wait"
    /\ UNCHANGED <<typed, line, j, pipe_table, nptmp, curpipes, shfd, buf,
                   procs, kidpid, sigchld>>

\* Mutant of KidDead: waitpid with WNOHANG.
KidPolled == TRUE

\* waitpid(kidpid) returns when that child is dead, and at once with ECHILD
\* when the handler has reaped it already or there is no such child.
KidDead == kidpid # 0 => procs[kidpid].st \in {"zombie", "reaped"}

Wait ==
    /\ pc = "wait"
    /\ KidDead
    /\ pc' = "read"
    /\ procs' = IF kidpid = 0 THEN procs
                ELSE [procs EXCEPT ![kidpid].st = "reaped"]
    /\ UNCHANGED <<typed, now, line, j, pipe_table, pipe_clock, nptmp,
                   curpipes, shfd, buf, kidpid, sigchld>>

\* Mutant of Dead: waitpid is called once, not in a loop.
FirstDead == {i \in DOMAIN procs :
                 /\ procs[i].st = "zombie"
                 /\ \A k \in 1 .. (i - 1) : procs[k].st # "zombie"}

\* The SIGCHLD handler reaps every dead child: one pending signal may stand
\* for several of them.
Dead == {i \in DOMAIN procs : procs[i].st = "zombie"}

signalHandler ==
    /\ pc # "done"
    /\ sigchld
    /\ sigchld' = FALSE
    /\ procs' = [i \in DOMAIN procs |->
                    IF i \in Dead
                    THEN [procs[i] EXCEPT !.st = "reaped"] ELSE procs[i]]
    /\ UNCHANGED <<shellVars, buf>>

-----------------------------------------------------------------------------
\* The children.

\* The child duplicates its pipes to its standard input and output, closes
\* the others and executes its program.
Exec(i) ==
    /\ procs[i].st = "forked"
    /\ procs' = [procs EXCEPT ![i].st = "run", ![i].inherited = {}]
    /\ UNCHANGED <<shellVars, buf, sigchld>>

HasInput(i) == procs[i].in # 0 /\ buf[procs[i].in] > 0

\* A filter (cat, number, removetag, '>') reads one token and, when it
\* writes to a pipe, passes it on before it reads the next.
Read(i) ==
    /\ procs[i].st = "run" /\ procs[i].left = 0
    /\ HasInput(i)
    /\ buf' = [buf EXCEPT ![procs[i].in] = @ - 1]
    /\ procs' = [procs EXCEPT ![i].left = IF procs[i].out = 0 THEN 0 ELSE 1]
    /\ UNCHANGED <<shellVars, sigchld>>

\* A write blocks while the pipe is full and somebody may read it.
Write(i) ==
    /\ procs[i].st = "run" /\ procs[i].left > 0
    /\ buf[procs[i].out] < Capacity
    /\ HasReader(procs[i].out)
    /\ buf' = [buf EXCEPT ![procs[i].out] = @ + 1]
    /\ procs' = [procs EXCEPT ![i].left = @ - 1]
    /\ UNCHANGED <<shellVars, sigchld>>

Die(i) ==
    /\ procs' = [procs EXCEPT ![i].st = "zombie", ![i].left = 0]
    /\ sigchld' = TRUE
    /\ UNCHANGED <<shellVars, buf>>

\* A write to a pipe that nobody can read any more kills the program.
Sigpipe(i) ==
    /\ procs[i].st = "run" /\ procs[i].left > 0
    /\ ~HasReader(procs[i].out)
    /\ Die(i)

\* A program ends when it has read its input to the end and passed it on.
Finish(i) ==
    /\ procs[i].st = "run" /\ procs[i].left = 0
    /\ procs[i].in # 0 => buf[procs[i].in] = 0 /\ ~HasWriter(procs[i].in)
    /\ Die(i)

\* A program may end before that: it does not read its input, fails, or is
\* unknown and only the message of line 275 is written.
Quit(i) ==
    /\ procs[i].st = "run"
    /\ Die(i)

Child(i) ==
    \/ Exec(i) \/ Read(i) \/ Write(i) \/ Sigpipe(i) \/ Finish(i) \/ Quit(i)

Next ==
    \/ \E l \in Lines : ReadLine(l)
    \/ Fork \/ EndLine \/ Wait \/ signalHandler
    \/ \E i \in DOMAIN procs : Child(i)

Spec == Init /\ [][Next]_vars

\* Fairness.  The shell runs whenever it is not blocked, a pending signal is
\* delivered, and so does a child.  Nobody has to type a line, and no program
\* has to end early.
ProcIds == 1 .. (MaxLines * (CHOOSE m \in {l.stages : l \in Lines} :
                                \A l \in Lines : l.stages <= m))

Progress(i) == i \in DOMAIN procs
               /\ (Exec(i) \/ Read(i) \/ Write(i) \/ Sigpipe(i) \/ Finish(i))

FairSpec ==
    /\ Spec
    /\ WF_vars(Fork \/ EndLine \/ Wait)
    /\ WF_vars(signalHandler)
    /\ \A i \in ProcIds : WF_vars(Progress(i))

-----------------------------------------------------------------------------
(***************************************************************************)
(* Type and safety.                                                        *)
(***************************************************************************)
Pipes == 1 .. Len(buf)

ProcRecord == [st : {"forked", "run", "zombie", "reaped"}, line : Nat,
               in : Nat, out : Nat, inherited : SUBSET Nat,
               kept : SUBSET Nat, left : Nat]

ShellTypes ==
    /\ pc \in {"read", "fork", "tick", "wait", "done"}
    /\ typed \in Nat /\ now \in Nat
    /\ line \in Lines \cup {NoLine}
    /\ j \in Nat \ {0}
    /\ nptmp \in Nat /\ curpipes \in Nat
    /\ shfd \in SUBSET Nat

PipeTypes ==
    pipe_table \in Seq(Nat) /\ pipe_clock \in Seq(Int) /\ buf \in Seq(Nat)

ProcTypes == procs \in Seq(ProcRecord) /\ kidpid \in 0 .. Len(procs)

IndexType == nptmp \in 0 .. Len(pipe_clock)

\* Types of the variables; the index that the parser leaves to the fork loop
\* (71, read at 199) is one of the vectors, past whose end it would read what
\* is not there.
TypeOK == /\ ShellTypes /\ PipeTypes /\ ProcTypes /\ sigchld \in BOOLEAN
          /\ IndexType

\* No two numbered pipes wait for the same line (the parser's search of
\* pipe_clock before push_back, 68-76), and pipe_table and pipe_clock, two
\* vectors that are pushed at different moments (75 and 195), have an entry
\* for the same pipes whenever an index of one is used in the other.
ClocksAndTable ==
    /\ \A a, b \in DOMAIN pipe_clock :
          a # b /\ pipe_clock[a] >= 0 => pipe_clock[a] # pipe_clock[b]
    /\ Len(pipe_clock) = Len(pipe_table)
          + (IF pc = "fork" /\ fin = 1 THEN 1 ELSE 0)

\* Nobody but its producers keeps the write end of a pipe that a program is
\* reading: not the shell, and no program started while the pipe was waiting
\* (the closes of 226-259 and 282-293).  One such copy and the reader would
\* never see the end of its input.
EndOfInputVisible ==
    \A r \in DOMAIN procs :
        procs[r].st = "run" /\ procs[r].in # 0 =>
            /\ procs[r].in \notin shfd
            /\ \A q \in DOMAIN procs :
                  procs[q].st = "run" => procs[r].in \notin procs[q].kept

\* A pipe has one reader, so no two lines or stages share an input.
OneReader ==
    \A r, q \in DOMAIN procs :
        r # q /\ procs[r].in # 0 => procs[r].in # procs[q].in

\* At the prompt the shell has every numbered pipe open that waits for a
\* later line (its writers must not get SIGPIPE), and no pipe between two
\* stages and no pipe that a line has read.
ShellDescriptors ==
    pc = "read" =>
        /\ \A k \in DOMAIN pipe_clock :
              pipe_clock[k] >= 0 => pipe_table[k] \in shfd
        /\ \A p \in shfd :
              /\ \E k \in DOMAIN pipe_table : pipe_table[k] = p
              /\ \A r \in DOMAIN procs : procs[r].in # p

\* A dead child is never forgotten: while one is not reaped, a SIGCHLD is
\* pending, although signals of several children merge into one (14-17).
NoLostZombie ==
    pc # "done" /\ (\E i \in DOMAIN procs : procs[i].st = "zombie") => sigchld

(***************************************************************************)
(* Action property: when the shell shows the prompt after a line that ends *)
(* in no numbered pipe, the last program of that line is dead (302-307),   *)
(* whoever reaped it.                                                      *)
(***************************************************************************)
PromptAfterLast ==
    [][pc = "wait" /\ pc' = "read" /\ line.kind = "exec" =>
          \A i \in DOMAIN procs :
              i = Len(procs) => procs[i].st \in {"zombie", "reaped"}]_vars

(***************************************************************************)
(* Liveness.                                                               *)
(***************************************************************************)
\* The shell shows the prompt again after every line of programs, whatever
\* still runs from earlier lines.
LineReturns == (pc = "wait" /\ line.kind = "exec") ~> pc = "read"

\* So it does after every line, where builtins do not wait (npshell1.cpp).
PromptReturns == pc \in {"fork", "tick", "wait"} ~> pc = "read"

\* After the shell has ended no program stays blocked on a pipe.
ChildrenEnd ==
    pc = "done" ~> \A i \in DOMAIN procs : procs[i].st \in {"zombie", "reaped"}

(***************************************************************************)
(* Refinement.  Line p is due to be read as long as it is the writer of a  *)
(* numbered pipe with a clock that is not negative, and was read by the    *)
(* line of the process that has the pipe as its input.  A line counts once *)
(* its tick is done.                                                       *)
(***************************************************************************)
Due == {<<procs[x[1]].line, now + pipe_clock[x[2]]>> :
            x \in {x \in (DOMAIN procs) \X (DOMAIN pipe_table) :
                       /\ procs[x[1]].out = pipe_table[x[2]]
                       /\ procs[x[1]].line < now
                       /\ pipe_clock[x[2]] >= 0}}

Fed == {<<procs[x[1]].line, procs[x[2]].line>> :
            x \in {x \in (DOMAIN procs) \X (DOMAIN procs) :
                       /\ procs[x[2]].in # 0
                       /\ procs[x[1]].out = procs[x[2]].in
                       /\ procs[x[1]].line # procs[x[2]].line
                       /\ procs[x[2]].line < now}}

Abstract == INSTANCE NumberedPipes WITH Counts <- {l.np : l \in Lines},
                                         due <- Due, fed <- Fed

\* npshell implements the numbered pipes.
ImplementsNumberedPipes == Abstract!NPSpec

=============================================================================
