---------------------------- MODULE NpShell_proofs ----------------------------
(***************************************************************************)
(* Proofs about NpShell for every set of command lines and every bound.    *)
(* The first part is about types, tables and children.  The second is      *)
(* about the pipes: a pipe has one reader, which sees the end of its       *)
(* input; the shell keeps the pipes open that later lines read, and no     *)
(* other; and npshell implements the numbered pipes.                       *)
(***************************************************************************)
EXTENDS NpShell, TLAPS, SequenceTheorems, WellFoundedInduction

(***************************************************************************)
(* The invariant that is inductive.  While a line's stages are forked, the *)
(* parser's results still hold: the stage exists, the pipe it reuses is in *)
(* pipe_table, and a clock pushed without a table entry is the last one.   *)
(* Once they are all forked, kidpid is the last child.                     *)
(***************************************************************************)
Forking ==
    pc = "fork" =>
        /\ line \in Lines /\ line.kind = "exec"
        /\ j <= line.stages
        /\ nptmp <= Len(pipe_table)
        /\ fin = 1 => /\ Len(pipe_clock) > 0
                      /\ pipe_clock[Len(pipe_clock)] = line.np

KidIsLast ==
    /\ pc = "fork" /\ j > 1 => kidpid = Len(procs)
    /\ pc \in {"tick", "wait"} /\ line.kind = "exec" =>
          kidpid = Len(procs) /\ kidpid > 0

Rest == ClocksAndTable /\ Forking /\ KidIsLast /\ NoLostZombie

Inv == TypeOK /\ Rest

-----------------------------------------------------------------------------

\* A set of natural numbers has a least element.
LEMMA LeastElement ==
    ASSUME NEW T \in SUBSET Nat, T # {}
    PROVE  \E m \in T : \A k \in T : m <= k
<1> DEFINE R == OpToRel(<, Nat)
<1>1. \A a, b \in Nat : a < b => <<a, b>> \in R
  BY DEF OpToRel
<1>2. PICK m \in T : \A k \in T : ~ (<<k, m>> \in R)
  <2> HIDE DEF R
  <2> QED BY NatLessThanWellFounded, WFMin DEF R
<1> HIDE DEF R
<1>3. \A k \in T : ~ (k < m)
  BY <1>1, <1>2
<1> QED BY <1>3

\* What IndexOf returns: 0, or an index of the count it was asked for.
LEMMA IndexOfRange ==
    ASSUME NEW s \in Seq(Int), NEW n \in Int
    PROVE  /\ IndexOf(s, n) \in 0 .. Len(s)
           /\ IndexOf(s, n) # 0 => s[IndexOf(s, n)] = n
           /\ IndexOf(s, n) = 0 => \A k \in DOMAIN s : s[k] # n
<1>1. CASE \E k \in DOMAIN s : s[k] = n
  <2> DEFINE T == {k \in DOMAIN s : s[k] = n}
  <2>0. T \in SUBSET Nat /\ T # {}
    BY <1>1, LenProperties
  <2>1. PICK m \in T : \A k \in T : m <= k
    <3> HIDE DEF T
    <3> QED BY <2>0, LeastElement
  <2>2. \A i \in 1 .. (m - 1) : s[i] # n
    BY <2>1
  <2> DEFINE Q(k) == s[k] = n /\ \A i \in 1 .. (k - 1) : s[i] # n
  <2>3. \E k \in DOMAIN s : Q(k)
    BY <2>1, <2>2
  <2>4. IndexOf(s, n) = CHOOSE k \in DOMAIN s : Q(k)
    BY <1>1 DEF IndexOf
  <2> HIDE DEF Q
  <2>5. IndexOf(s, n) \in DOMAIN s /\ Q(IndexOf(s, n))
    BY <2>3, <2>4, Zenon
  <2> QED BY <2>5 DEF Q
<1>2. CASE ~ \E k \in DOMAIN s : s[k] = n
  BY <1>2 DEF IndexOf
<1> QED BY <1>1, <1>2

\* A tick keeps the number of clocks and lowers each by one.
LEMMA TickType ==
    ASSUME NEW s \in Seq(Int)
    PROVE  /\ Tick(s) \in Seq(Int)
           /\ Len(Tick(s)) = Len(s)
           /\ \A k \in DOMAIN s : Tick(s)[k] = s[k] - 1
           /\ DOMAIN Tick(s) = DOMAIN s
<1>1. DOMAIN s = 1 .. Len(s) /\ Len(s) \in Nat
  BY LenProperties
<1>2. Tick(s) = [k \in 1 .. Len(s) |-> s[k] - 1]
  BY <1>1 DEF Tick
<1>3. \A k \in 1 .. Len(s) : s[k] - 1 \in Int
  BY ElementOfSeq
<1>4. Tick(s) \in Seq(Int) /\ Len(Tick(s)) = Len(s)
  BY <1>1, <1>2, <1>3
<1> QED BY <1>1, <1>2, <1>4

-----------------------------------------------------------------------------



\* A step that leaves the parser's index and the clocks alone keeps its type.
LEMMA IndexKept ==
    ASSUME TypeOK, nptmp' = nptmp, pipe_clock' = pipe_clock
    PROVE  IndexType'
BY DEF TypeOK, IndexType

\* The shell starts with empty tables and no children.
LEMMA InitType == Init => TypeOK
<1> SUFFICES ASSUME Init PROVE TypeOK
  OBVIOUS
<1>1. ProcTypes
  BY EmptySeq DEF Init, ProcTypes
<1>2. PipeTypes
  BY EmptySeq DEF Init, PipeTypes
<1>3. ShellTypes
  <2>1. /\ pc = "read" /\ typed = 0 /\ now = 0 /\ line = NoLine /\ j = 1
        /\ nptmp = 0 /\ curpipes = 0 /\ shfd = {}
    BY DEF Init
  <2> QED BY <2>1 DEF ShellTypes
<1>4. sigchld \in BOOLEAN
  BY DEF Init
<1>5. IndexType
  BY DEF Init, IndexType
<1> QED BY <1>1, <1>2, <1>3, <1>4, <1>5 DEF TypeOK

\* getline and the parser.
LEMMA ReadKeepsType ==
    ASSUME TypeOK, NEW l \in Lines, ReadLine(l)
    PROVE  TypeOK'
<1>1. l.np \in Nat
  BY LinesAssumption
<1>2. PipeTypes'
  <2>1. /\ pipe_clock \in Seq(Int) /\ pipe_table \in Seq(Nat) /\ buf \in Seq(Nat)
        /\ pipe_table' = pipe_table /\ buf' = buf
    BY DEF TypeOK, PipeTypes, ReadLine
  <2>2. pipe_clock' = pipe_clock \/ pipe_clock' = Append(pipe_clock, l.np)
    BY DEF ReadLine, ReadExec, ReadBuiltin, ReadEmpty, ReadExit
  <2>3. Append(pipe_clock, l.np) \in Seq(Int)
    BY <1>1, <2>1, AppendProperties
  <2>4. pipe_clock' \in Seq(Int)
    BY <2>1, <2>2, <2>3
  <2> QED BY <2>1, <2>4 DEF PipeTypes
<1>3. ShellTypes'
  <2>1. IndexOf(pipe_clock, l.np) \in Nat
    <3>1. pipe_clock \in Seq(Int) /\ l.np \in Int
      BY <1>1 DEF TypeOK, PipeTypes
    <3>2. Len(pipe_clock) \in Nat
      BY <3>1, LenProperties
    <3> QED BY <3>1, <3>2, IndexOfRange
  <2>2. ShellTypes /\ typed' \in Nat /\ line' = l /\ now' = now
    BY DEF TypeOK, ShellTypes, ReadLine
  <2>3. CASE ReadExec(l)
    BY <2>1, <2>2, <2>3 DEF ReadExec, ShellTypes
  <2>4. CASE ReadBuiltin(l) \/ ReadEmpty(l) \/ ReadExit(l)
    <3>1. pc' \in {pc, "tick", "done"} /\ j' = j /\ nptmp' \in {nptmp, 0}
      BY <2>4 DEF ReadBuiltin, ReadEmpty, ReadExit
    <3>2. curpipes' = curpipes /\ shfd' \in {shfd, {}}
      BY <2>4 DEF ReadBuiltin, ReadEmpty, ReadExit
    <3> QED BY <2>2, <3>1, <3>2 DEF ShellTypes
  <2> QED BY <2>3, <2>4 DEF ReadLine
<1>4. ProcTypes'
  BY DEF TypeOK, ProcTypes, ReadLine, ReadExec, ReadBuiltin, ReadEmpty, ReadExit
<1>5. (sigchld \in BOOLEAN)'
  BY DEF TypeOK, ReadLine
<1>6. IndexType'
  <2>1. pipe_clock \in Seq(Int) /\ l.np \in Int /\ Len(pipe_clock) \in Nat
    BY <1>1, LenProperties DEF TypeOK, PipeTypes
  <2>2. IndexOf(pipe_clock, l.np) \in 0 .. Len(pipe_clock)
    BY <2>1, IndexOfRange
  <2>3. Len(Append(pipe_clock, l.np)) = Len(pipe_clock) + 1
    BY <2>1, AppendProperties
  <2>4. CASE ReadExec(l)
    <3>1. CASE l.np > 0 /\ IndexOf(pipe_clock, l.np) = 0
      <4>1. nptmp' = 0 /\ pipe_clock' = Append(pipe_clock, l.np)
        BY <2>4, <3>1 DEF ReadExec
      <4> QED BY <2>1, <2>3, <4>1 DEF IndexType
    <3>2. CASE ~ (l.np > 0 /\ IndexOf(pipe_clock, l.np) = 0)
      <4>1. nptmp' \in {0, IndexOf(pipe_clock, l.np)} /\ pipe_clock' = pipe_clock
        BY <2>4, <3>2 DEF ReadExec
      <4> QED BY <2>1, <2>2, <4>1 DEF IndexType
    <3> QED BY <3>1, <3>2
  <2>5. CASE ReadBuiltin(l) \/ ReadEmpty(l) \/ ReadExit(l)
    <3>1. nptmp' \in {nptmp, 0} /\ pipe_clock' = pipe_clock
      BY <2>5 DEF ReadBuiltin, ReadEmpty, ReadExit
    <3> QED BY <2>1, <3>1 DEF TypeOK, IndexType
  <2> QED BY <2>4, <2>5 DEF ReadLine
<1> QED BY <1>2, <1>3, <1>4, <1>5, <1>6 DEF TypeOK

\* The pipes that a stage reads and writes are pipes: the entry of pipe_table
\* they are taken from exists.
LEMMA StagePipes ==
    ASSUME TypeOK, ClocksAndTable, Forking, pc = "fork"
    PROVE  InPipe \in Nat /\ OutPipe \in Nat
<1>1. /\ pipe_table \in Seq(Nat) /\ pipe_clock \in Seq(Int) /\ buf \in Seq(Nat)
      /\ nptmp \in Nat /\ curpipes \in Nat
  BY DEF TypeOK, PipeTypes, ShellTypes
<1>2. /\ Len(buf) \in Nat /\ Len(pipe_table) \in Nat /\ Len(pipe_clock) \in Nat
      /\ \A k \in 1 .. Len(pipe_table) : pipe_table[k] \in Nat
  BY <1>1, LenProperties, ElementOfSeq
<1>3. OutPipe \in Nat
  BY <1>1, <1>2 DEF OutPipe, MakesPipe, Numbered, Forking
<1>4. CASE j > 1
  BY <1>1, <1>3, <1>4 DEF InPipe
<1>5. CASE ~ (j > 1)
  <2> DEFINE due == IndexOf(pipe_clock, 0)
  <2>1. due \in 0 .. Len(pipe_clock) /\ (due # 0 => pipe_clock[due] = 0)
    BY <1>1, IndexOfRange
  <2>2. due # 0 => due <= Len(pipe_table)
    <3>1. CASE fin = 1
      <4>1. Len(pipe_clock) = Len(pipe_table) + 1
        BY <3>1 DEF ClocksAndTable
      <4>2. pipe_clock[Len(pipe_clock)] # 0
        BY <3>1 DEF Forking, fin
      <4> QED BY <1>2, <2>1, <4>1, <4>2
    <3>2. CASE fin # 1
      BY <1>2, <2>1, <3>2 DEF ClocksAndTable
    <3> QED BY <3>1, <3>2
  <2>3. InPipe = IF due = 0 THEN 0 ELSE pipe_table[due]
    BY <1>5 DEF InPipe
  <2> HIDE DEF due
  <2>4. InPipe \in Nat
    BY <1>2, <2>1, <2>2, <2>3
  <2> QED BY <1>3, <2>4
<1> QED BY <1>4, <1>5

\* A stage is forked.
LEMMA ForkKeepsType ==
    ASSUME TypeOK, ClocksAndTable, Forking, Fork
    PROVE  TypeOK' /\ Len(procs') = Len(procs) + 1 /\ kidpid' = Len(procs')
<1>1. InPipe \in Nat /\ OutPipe \in Nat
  BY StagePipes DEF Fork
<1>2. /\ pipe_table \in Seq(Nat) /\ pipe_clock \in Seq(Int) /\ buf \in Seq(Nat)
      /\ procs \in Seq(ProcRecord) /\ shfd \in SUBSET Nat /\ Len(buf) \in Nat
      /\ now \in Nat /\ Output \in Nat
  BY LenProperties, BoundsAssumption DEF TypeOK, PipeTypes, ProcTypes, ShellTypes
<1> DEFINE open == IF MakesPipe THEN shfd \cup {Len(buf) + 1} ELSE shfd
           child == [st |-> "forked", line |-> now, in |-> InPipe,
                     out |-> OutPipe, inherited |-> open, kept |-> Leaked,
                     left |-> IF InPipe = 0 /\ OutPipe # 0 THEN Output ELSE 0]
<1>3. open \in SUBSET Nat /\ Leaked \in SUBSET Nat
  <2>1. open \in SUBSET Nat
    <3>1. Len(buf) + 1 \in Nat /\ shfd \in SUBSET Nat
      BY <1>2
    <3> QED BY <3>1, Zenon
  <2>2. Leaked \subseteq open
    BY DEF Leaked
  <2> QED BY <2>1, <2>2
<1>4. child \in ProcRecord
  BY <1>1, <1>2, <1>3 DEF ProcRecord
<1>5. procs' = Append(procs, child) /\ kidpid' = Len(procs) + 1
  BY DEF Fork
<1> HIDE DEF child
<1>6. /\ procs' \in Seq(ProcRecord) /\ Len(procs') = Len(procs) + 1
      /\ Len(procs) \in Nat
  BY <1>2, <1>4, <1>5, AppendProperties, LenProperties
<1>7. ProcTypes'
  BY <1>5, <1>6 DEF ProcTypes
<1>8. PipeTypes'
  <2>1. Append(buf, 0) \in Seq(Nat) /\ Append(pipe_table, OutPipe) \in Seq(Nat)
    BY <1>1, <1>2, AppendProperties
  <2>2. /\ buf' \in {buf, Append(buf, 0)} /\ pipe_clock' = pipe_clock
        /\ pipe_table' \in {pipe_table, Append(pipe_table, OutPipe)}
    BY DEF Fork
  <2> QED BY <1>2, <2>1, <2>2 DEF PipeTypes
<1>9. ShellTypes'
  <2>1. /\ pc' \in {"tick", "fork"} /\ typed' = typed /\ now' = now /\ line' = line
        /\ j' = j + 1 /\ nptmp' = nptmp /\ curpipes' = OutPipe
    BY DEF Fork
  <2>2. shfd' = open \ ShellCloses
    BY DEF Fork
  <2>3. shfd' \in SUBSET Nat
    BY <1>3, <2>2
  <2>4. ShellTypes
    BY DEF TypeOK
  <2> QED BY <1>1, <2>1, <2>3, <2>4 DEF ShellTypes
<1>10. sigchld' \in BOOLEAN
  BY DEF Fork, TypeOK
<1>11. IndexType'
  BY IndexKept DEF Fork
<1> QED BY <1>5, <1>6, <1>7, <1>8, <1>9, <1>10, <1>11 DEF TypeOK

\* The tick at the end of a line.
LEMMA EndLineKeepsType ==
    ASSUME TypeOK, EndLine
    PROVE  TypeOK'
<1>1. pipe_clock \in Seq(Int) /\ pipe_table \in Seq(Nat) /\ buf \in Seq(Nat)
  BY DEF TypeOK, PipeTypes
<1>2. Tick(pipe_clock) \in Seq(Int)
  BY <1>1, TickType
<1>3. pipe_clock' = Tick(pipe_clock) /\ pipe_table' = pipe_table /\ buf' = buf
  BY DEF EndLine
<1>4. PipeTypes'
  BY <1>1, <1>2, <1>3 DEF PipeTypes
<1>5. ShellTypes'
  <2>1. /\ pc' \in {"read", "wait"} /\ typed' = typed /\ now' = now + 1 /\ j' = j
        /\ line' = line /\ nptmp' = nptmp /\ curpipes' = curpipes /\ shfd' = shfd
    BY DEF EndLine
  <2> QED BY <2>1 DEF TypeOK, ShellTypes
<1>6. ProcTypes' /\ sigchld' \in BOOLEAN
  BY DEF EndLine, TypeOK, ProcTypes
<1>7. IndexType'
  <2>1. Len(pipe_clock') = Len(pipe_clock) /\ nptmp' = nptmp
    BY <1>1, <1>3, TickType DEF EndLine
  <2> QED BY <2>1 DEF TypeOK, IndexType
<1> QED BY <1>4, <1>5, <1>6, <1>7 DEF TypeOK

\* A step that only changes the fields of processes keeps the types.
LEMMA ProcsKeepType ==
    ASSUME TypeOK, NEW i \in DOMAIN procs, NEW e \in ProcRecord,
           procs' = [procs EXCEPT ![i] = e], kidpid' = kidpid
    PROVE  ProcTypes' /\ Len(procs') = Len(procs) /\ DOMAIN procs' = DOMAIN procs
<1>1. procs \in Seq(ProcRecord) /\ kidpid \in 0 .. Len(procs)
  BY DEF TypeOK, ProcTypes
<1>2. i \in 1 .. Len(procs)
  BY <1>1, LenProperties
<1>3. procs' \in Seq(ProcRecord) /\ Len(procs') = Len(procs)
  BY <1>1, <1>2, ExceptSeq
<1> QED BY <1>1, <1>3, LenProperties DEF ProcTypes

\* waitpid.
LEMMA WaitKeepsType ==
    ASSUME TypeOK, Wait
    PROVE  TypeOK' /\ Len(procs') = Len(procs)
<1>1. ProcTypes' /\ Len(procs') = Len(procs)
  <2>1. procs \in Seq(ProcRecord) /\ kidpid \in 0 .. Len(procs) /\ kidpid' = kidpid
    BY DEF TypeOK, ProcTypes, Wait
  <2>2. CASE kidpid = 0
    BY <2>1, <2>2 DEF Wait, ProcTypes
  <2>3. CASE kidpid # 0
    <3> DEFINE e == [procs[kidpid] EXCEPT !.st = "reaped"]
    <3>1. kidpid \in DOMAIN procs /\ procs[kidpid] \in ProcRecord
      BY <2>1, <2>3, LenProperties, ElementOfSeq
    <3>2. e \in ProcRecord
      BY <3>1 DEF ProcRecord
    <3>3. procs' = [procs EXCEPT ![kidpid] = e]
      BY <2>3 DEF Wait
    <3> HIDE DEF e
    <3> QED BY <2>1, <3>1, <3>2, <3>3, ProcsKeepType
  <2> QED BY <2>2, <2>3
<1>2. PipeTypes' /\ sigchld' \in BOOLEAN
  BY DEF Wait, TypeOK, PipeTypes
<1>3. ShellTypes'
  <2>1. /\ pc' = "read" /\ typed' = typed /\ now' = now /\ j' = j /\ line' = line
        /\ nptmp' = nptmp /\ curpipes' = curpipes /\ shfd' = shfd
    BY DEF Wait
  <2> QED BY <2>1 DEF TypeOK, ShellTypes
<1>4. IndexType'
  BY IndexKept DEF Wait
<1> QED BY <1>1, <1>2, <1>3, <1>4 DEF TypeOK

\* The SIGCHLD handler.
LEMMA HandlerKeepsType ==
    ASSUME TypeOK, signalHandler
    PROVE  TypeOK' /\ Len(procs') = Len(procs)
<1> DEFINE e(k) == IF k \in Dead THEN [procs[k] EXCEPT !.st = "reaped"]
                   ELSE procs[k]
<1>1. procs \in Seq(ProcRecord) /\ kidpid \in 0 .. Len(procs)
  BY DEF TypeOK, ProcTypes
<1>2. DOMAIN procs = 1 .. Len(procs) /\ Len(procs) \in Nat
  BY <1>1, LenProperties
<1>3. \A k \in 1 .. Len(procs) : e(k) \in ProcRecord
  <2> SUFFICES ASSUME NEW k \in 1 .. Len(procs) PROVE e(k) \in ProcRecord
    OBVIOUS
  <2>1. procs[k] \in ProcRecord
    BY <1>1, ElementOfSeq
  <2> QED BY <2>1 DEF ProcRecord
<1>4. procs' = [k \in 1 .. Len(procs) |-> e(k)]
  BY <1>2 DEF signalHandler
<1> HIDE DEF e
<1>5. procs' \in Seq(ProcRecord) /\ Len(procs') = Len(procs)
  BY <1>2, <1>3, <1>4
<1>6. ProcTypes'
  BY <1>1, <1>5 DEF ProcTypes, signalHandler, shellVars
<1>7. PipeTypes' /\ sigchld' \in BOOLEAN
  BY DEF signalHandler, shellVars, TypeOK, PipeTypes
<1>8. ShellTypes'
  BY DEF signalHandler, shellVars, TypeOK, ShellTypes
<1>9. IndexType'
  BY IndexKept DEF signalHandler, shellVars
<1> QED BY <1>5, <1>6, <1>7, <1>8, <1>9 DEF TypeOK

\* Changing an element of a sequence, or nothing outside of its domain.
LEMMA ExceptKeepsSeq ==
    ASSUME NEW s \in Seq(Nat), NEW q, NEW e, q \in DOMAIN s => e \in Nat
    PROVE  [s EXCEPT ![q] = e] \in Seq(Nat)
<1>1. CASE q \in DOMAIN s
  BY <1>1, ExceptSeq, LenProperties
<1>2. CASE q \notin DOMAIN s
  <2>1. s \in [1 .. Len(s) -> Nat] /\ DOMAIN s = 1 .. Len(s)
    BY LenProperties
  <2>2. [s EXCEPT ![q] = e] = s
    BY <1>2, <2>1
  <2> QED BY <2>2
<1> QED BY <1>1, <1>2

\* A child's step changes the fields of one process and, beside them, at most
\* the contents of a pipe; a SIGCHLD is pending when it died.
LEMMA ChildStep ==
    ASSUME TypeOK, NEW i \in DOMAIN procs, Child(i)
    PROVE  /\ UNCHANGED shellVars
           /\ buf' \in Seq(Nat)
           /\ \E e \in ProcRecord :
                 /\ procs' = [procs EXCEPT ![i] = e]
                 /\ sigchld' = TRUE \/ (sigchld' = sigchld /\ e.st = "run")
<1>1. procs \in Seq(ProcRecord) /\ buf \in Seq(Nat)
  BY DEF TypeOK, ProcTypes, PipeTypes
<1>2. procs[i] \in ProcRecord
  BY <1>1, LenProperties, ElementOfSeq
<1>3. UNCHANGED shellVars
  BY DEF Child, Exec, Read, Write, Sigpipe, Finish, Quit, Die
<1>4. CASE Exec(i)
  <2> DEFINE e == [procs[i] EXCEPT !.st = "run", !.inherited = {}]
  <2>1. e \in ProcRecord /\ e.st = "run"
    BY <1>2 DEF ProcRecord
  <2>2. procs' = [procs EXCEPT ![i] = e] /\ buf' = buf /\ sigchld' = sigchld
    BY <1>4 DEF Exec
  <2> HIDE DEF e
  <2> QED BY <1>1, <1>3, <2>1, <2>2
<1>5. CASE Read(i)
  <2> DEFINE e == [procs[i] EXCEPT !.left = IF procs[i].out = 0 THEN 0 ELSE 1]
  <2>1. e \in ProcRecord /\ e.st = "run"
    BY <1>2, <1>5 DEF ProcRecord, Read
  <2>2. /\ procs' = [procs EXCEPT ![i] = e] /\ sigchld' = sigchld
        /\ buf' = [buf EXCEPT ![procs[i].in] = buf[procs[i].in] - 1]
        /\ buf[procs[i].in] > 0
    BY <1>5 DEF Read, HasInput
  <2>3. procs[i].in \in DOMAIN buf => buf[procs[i].in] - 1 \in Nat
    BY <1>1, <2>2, LenProperties, ElementOfSeq
  <2>4. buf' \in Seq(Nat)
    BY <1>1, <2>2, <2>3, ExceptKeepsSeq
  <2> HIDE DEF e
  <2> QED BY <1>3, <2>1, <2>2, <2>4
<1>6. CASE Write(i)
  <2> DEFINE e == [procs[i] EXCEPT !.left = @ - 1]
  <2>1. e \in ProcRecord /\ e.st = "run"
    BY <1>2, <1>6 DEF ProcRecord, Write
  <2>2. /\ procs' = [procs EXCEPT ![i] = e] /\ sigchld' = sigchld
        /\ buf' = [buf EXCEPT ![procs[i].out] = buf[procs[i].out] + 1]
    BY <1>6 DEF Write
  <2>3. procs[i].out \in DOMAIN buf => buf[procs[i].out] + 1 \in Nat
    BY <1>1, <2>2, LenProperties, ElementOfSeq
  <2>4. buf' \in Seq(Nat)
    BY <1>1, <2>2, <2>3, ExceptKeepsSeq
  <2> HIDE DEF e
  <2> QED BY <1>3, <2>1, <2>2, <2>4
<1>7. CASE Sigpipe(i) \/ Finish(i) \/ Quit(i)
  <2> DEFINE e == [procs[i] EXCEPT !.st = "zombie", !.left = 0]
  <2>1. e \in ProcRecord
    BY <1>2 DEF ProcRecord
  <2>2. procs' = [procs EXCEPT ![i] = e] /\ buf' = buf /\ sigchld' = TRUE
    BY <1>7 DEF Sigpipe, Finish, Quit, Die
  <2> HIDE DEF e
  <2> QED BY <1>1, <1>3, <2>1, <2>2
<1> QED BY <1>4, <1>5, <1>6, <1>7 DEF Child

\* A program reads, writes and ends.
LEMMA ChildKeepsType ==
    ASSUME TypeOK, NEW i \in DOMAIN procs, Child(i)
    PROVE  TypeOK' /\ Len(procs') = Len(procs)
<1>1. UNCHANGED shellVars /\ buf' \in Seq(Nat)
  BY ChildStep
<1>2. PICK e \in ProcRecord :
          /\ procs' = [procs EXCEPT ![i] = e]
          /\ sigchld' = TRUE \/ (sigchld' = sigchld /\ e.st = "run")
  BY ChildStep
<1>3. ProcTypes' /\ Len(procs') = Len(procs)
  BY <1>1, <1>2, ProcsKeepType DEF shellVars
<1>4. PipeTypes' /\ ShellTypes'
  BY <1>1 DEF TypeOK, PipeTypes, ShellTypes, shellVars
<1>5. sigchld' \in BOOLEAN
  BY <1>2 DEF TypeOK
<1>6. IndexType'
  BY <1>1, IndexKept DEF shellVars
<1> QED BY <1>3, <1>4, <1>5, <1>6 DEF TypeOK

-----------------------------------------------------------------------------
\* The other parts of the invariant, one lemma per action.
LEMMA ReadKeepsRest ==
    ASSUME TypeOK, Rest, NEW l \in Lines, ReadLine(l)
    PROVE  Rest'
<1>1. /\ pc = "read" /\ line' = l /\ pipe_table' = pipe_table /\ procs' = procs
      /\ sigchld' = sigchld
  BY DEF ReadLine
<1>2. pipe_clock \in Seq(Int) /\ pipe_table \in Seq(Nat) /\ l.np \in Nat
  BY LinesAssumption DEF TypeOK, PipeTypes
<1>3. Len(pipe_clock) \in Nat /\ Len(pipe_clock) = Len(pipe_table)
  BY <1>1, <1>2, LenProperties DEF Rest, ClocksAndTable
<1>4. NoLostZombie'
  BY <1>1 DEF Rest, NoLostZombie
<1>5. CASE ReadExec(l)
  <2> DEFINE hit == IndexOf(pipe_clock, l.np)
  <2>1. /\ hit \in 0 .. Len(pipe_clock)
        /\ hit = 0 => \A k \in DOMAIN pipe_clock : pipe_clock[k] # l.np
    <3>1. pipe_clock \in Seq(Int) /\ l.np \in Int
      BY <1>2
    <3> QED BY <3>1, IndexOfRange
  <2>2. /\ nptmp' = IF l.np > 0 THEN hit ELSE 0
        /\ pipe_clock' = IF l.np > 0 /\ hit = 0
                         THEN Append(pipe_clock, l.np) ELSE pipe_clock
        /\ pc' = "fork" /\ j' = 1 /\ l.kind = "exec"
    BY <1>5 DEF ReadExec
  <2>3. /\ Len(Append(pipe_clock, l.np)) = Len(pipe_clock) + 1
        /\ DOMAIN Append(pipe_clock, l.np) = 1 .. (Len(pipe_clock) + 1)
        /\ DOMAIN pipe_clock = 1 .. Len(pipe_clock)
        /\ \A k \in 1 .. Len(pipe_clock) :
              Append(pipe_clock, l.np)[k] = pipe_clock[k]
        /\ Append(pipe_clock, l.np)[Len(pipe_clock) + 1] = l.np
    BY <1>2, AppendProperties, LenProperties
  <2> HIDE DEF hit
  <2>4. CASE l.np > 0 /\ hit = 0
    <3>1. fin' = 1 /\ pipe_clock' = Append(pipe_clock, l.np) /\ nptmp' = 0
      BY <1>1, <2>2, <2>4 DEF fin
    <3>2. ClocksAndTable'
      BY <1>1, <1>2, <1>3, <2>1, <2>2, <2>3, <2>4, <3>1 DEF Rest, ClocksAndTable
    <3>3. l.stages >= 1
      BY <2>2, LinesAssumption
    <3>4. Forking'
      BY <1>1, <1>2, <1>3, <2>2, <2>3, <3>1, <3>3 DEF Forking
    <3>5. KidIsLast'
      BY <2>2 DEF KidIsLast
    <3> QED BY <1>4, <3>2, <3>4, <3>5 DEF Rest
  <2>5. CASE ~ (l.np > 0 /\ hit = 0)
    <3>1. fin' = 0 /\ pipe_clock' = pipe_clock /\ nptmp' \in 0 .. Len(pipe_clock)
      BY <1>1, <1>2, <1>3, <2>1, <2>2, <2>5 DEF fin
    <3>2. ClocksAndTable'
      BY <1>1, <1>3, <2>2, <3>1 DEF Rest, ClocksAndTable
    <3>3. l.stages >= 1
      BY <2>2, LinesAssumption
    <3>4. Forking'
      BY <1>1, <1>3, <2>2, <3>1, <3>3 DEF Forking
    <3>5. KidIsLast'
      BY <2>2 DEF KidIsLast
    <3> QED BY <1>4, <3>2, <3>4, <3>5 DEF Rest
  <2> QED BY <2>4, <2>5
<1>6. CASE ReadBuiltin(l) \/ ReadEmpty(l) \/ ReadExit(l)
  <2>1. pc' \in {"read", "tick", "done"} /\ pipe_clock' = pipe_clock
    BY <1>1, <1>6 DEF ReadBuiltin, ReadEmpty, ReadExit
  <2>2. pc' = "tick" => l.kind # "exec"
    BY <1>1, <1>6 DEF ReadBuiltin, ReadEmpty, ReadExit
  <2>3. ClocksAndTable'
    BY <1>1, <1>3, <2>1 DEF Rest, ClocksAndTable
  <2>4. Forking' /\ KidIsLast'
    BY <1>1, <2>1, <2>2 DEF Forking, KidIsLast
  <2> QED BY <1>4, <2>3, <2>4 DEF Rest
<1> QED BY <1>5, <1>6 DEF ReadLine

\* A stage is forked: the pids and the tables.
LEMMA ForkKeepsRest ==
    ASSUME TypeOK, Rest, Fork
    PROVE  Rest'
<1>1. /\ pc = "fork" /\ pc' \in {"tick", "fork"} /\ j' = j + 1
      /\ pc' = "tick" <=> j = line.stages
      /\ line' = line /\ pipe_clock' = pipe_clock /\ nptmp' = nptmp
      /\ sigchld' = sigchld
  BY DEF Fork
<1>2. /\ pipe_table \in Seq(Nat) /\ pipe_clock \in Seq(Int)
      /\ procs \in Seq(ProcRecord) /\ j \in Nat /\ nptmp \in Nat
  BY DEF TypeOK, PipeTypes, ProcTypes, ShellTypes
<1>3. /\ TypeOK' /\ Len(procs') = Len(procs) + 1 /\ kidpid' = Len(procs')
      /\ InPipe \in Nat /\ OutPipe \in Nat
  BY ForkKeepsType, StagePipes, <1>1 DEF Rest
<1>4. Len(pipe_table) \in Nat /\ Len(pipe_clock) \in Nat /\ Len(procs) \in Nat
  BY <1>2, LenProperties
<1>5. /\ line \in Lines /\ line.stages \in Nat /\ line.np \in Nat
      /\ j <= line.stages /\ line.kind = "exec"
  BY <1>1, LinesAssumption DEF Rest, Forking
<1>6. fin' = fin /\ fin \in {0, 1}
  BY <1>1 DEF fin
<1>7. Len(pipe_table') = Len(pipe_table)
                         + (IF fin = 1 /\ j = line.stages THEN 1 ELSE 0)
  <2>1. Len(Append(pipe_table, OutPipe)) = Len(pipe_table) + 1
    BY <1>2, <1>3, AppendProperties
  <2>2. CASE Numbered /\ nptmp = 0
    BY <2>1, <2>2, <1>4, <1>5 DEF Fork, Numbered, fin
  <2>3. CASE ~ (Numbered /\ nptmp = 0)
    <3>1. pipe_table' = pipe_table /\ ~ (fin = 1 /\ j = line.stages)
      BY <2>3 DEF Fork, Numbered, fin
    <3> QED BY <3>1, <1>4
  <2> QED BY <2>2, <2>3
<1>8. ClocksAndTable'
  <2>1. Len(pipe_clock) = Len(pipe_table) + (IF fin = 1 THEN 1 ELSE 0)
    BY <1>1 DEF Rest, ClocksAndTable
  <2>2. Len(pipe_clock') = Len(pipe_table')
                           + (IF pc' = "fork" /\ fin' = 1 THEN 1 ELSE 0)
    <3>1. CASE j = line.stages
      BY <1>1, <1>4, <1>6, <1>7, <2>1, <3>1
    <3>2. CASE j # line.stages
      <4>1. pc' = "fork" /\ Len(pipe_table') = Len(pipe_table)
        BY <1>1, <1>4, <1>7, <3>2
      <4> QED BY <1>1, <1>6, <2>1, <4>1
    <3> QED BY <3>1, <3>2
  <2>3. \A a, b \in DOMAIN pipe_clock' :
           a # b /\ pipe_clock'[a] >= 0 => pipe_clock'[a] # pipe_clock'[b]
    BY <1>1 DEF Rest, ClocksAndTable
  <2> QED BY <2>2, <2>3 DEF ClocksAndTable
<1>9. Forking'
  <2>1. nptmp <= Len(pipe_table')
    BY <1>1, <1>2, <1>4, <1>7 DEF Rest, Forking
  <2>2. pc' = "fork" => j' <= line'.stages
    BY <1>1, <1>2, <1>5
  <2> QED BY <1>1, <1>5, <1>6, <2>1, <2>2 DEF Rest, Forking
<1>10. KidIsLast'
  BY <1>1, <1>3, <1>4 DEF KidIsLast
<1>11. NoLostZombie'
  <2>1. \A k \in DOMAIN procs' : procs'[k].st = "zombie" =>
            k \in DOMAIN procs /\ procs[k].st = "zombie"
    <3> DEFINE child ==
            [st |-> "forked", line |-> now, in |-> InPipe, out |-> OutPipe,
             inherited |-> IF MakesPipe THEN shfd \cup {Len(buf) + 1} ELSE shfd,
             kept |-> Leaked,
             left |-> IF InPipe = 0 /\ OutPipe # 0 THEN Output ELSE 0]
    <3>1. procs' = Append(procs, child) /\ child.st = "forked"
      BY DEF Fork
    <3> HIDE DEF child
    <3>2. procs \in Seq(ProcRecord \cup {child})
      BY <1>2
    <3>3. /\ DOMAIN procs = 1 .. Len(procs)
          /\ DOMAIN procs' = 1 .. (Len(procs) + 1)
          /\ \A k \in 1 .. Len(procs) : procs'[k] = procs[k]
          /\ procs'[Len(procs) + 1] = child
      BY <3>1, <3>2, AppendProperties, LenProperties
    <3> QED BY <1>4, <3>1, <3>3
  <2> QED BY <1>1, <2>1 DEF Rest, NoLostZombie
<1> QED BY <1>8, <1>9, <1>10, <1>11 DEF Rest

\* The tick at the end of a line: the pids and the tables.
LEMMA EndLineKeepsRest ==
    ASSUME TypeOK, Rest, EndLine
    PROVE  Rest'
<1>1. /\ pc = "tick" /\ pc' \in {"read", "wait"}
      /\ pipe_clock' = Tick(pipe_clock) /\ pipe_table' = pipe_table
      /\ line' = line /\ procs' = procs /\ kidpid' = kidpid /\ sigchld' = sigchld
  BY DEF EndLine
<1>2. pipe_clock \in Seq(Int) /\ pipe_table \in Seq(Nat)
  BY DEF TypeOK, PipeTypes
<1>3. /\ Len(pipe_clock') = Len(pipe_clock)
      /\ DOMAIN pipe_clock' = DOMAIN pipe_clock
      /\ \A k \in DOMAIN pipe_clock : pipe_clock'[k] = pipe_clock[k] - 1
      /\ \A k \in DOMAIN pipe_clock : pipe_clock[k] \in Int
  BY <1>1, <1>2, TickType, LenProperties, ElementOfSeq
<1>4. ClocksAndTable'
  <2>1. Len(pipe_clock) = Len(pipe_table) /\ Len(pipe_table) \in Nat
    BY <1>1, <1>2, LenProperties DEF Rest, ClocksAndTable
  <2>2. ASSUME NEW a \in DOMAIN pipe_clock, NEW b \in DOMAIN pipe_clock,
               a # b, pipe_clock'[a] >= 0
        PROVE  pipe_clock'[a] # pipe_clock'[b]
    <3>1. pipe_clock[a] >= 0 => pipe_clock[a] # pipe_clock[b]
      BY <2>2 DEF Rest, ClocksAndTable
    <3> QED BY <1>3, <2>2, <3>1
  <2> QED BY <1>1, <1>3, <2>1, <2>2 DEF ClocksAndTable
<1>5. Forking' /\ KidIsLast' /\ NoLostZombie'
  BY <1>1 DEF Rest, Forking, KidIsLast, NoLostZombie
<1> QED BY <1>4, <1>5 DEF Rest

\* Steps that leave the shell's tables alone.
LEMMA TablesUnchanged ==
    ASSUME Rest, UNCHANGED <<line, j, pipe_table, pipe_clock, nptmp, kidpid>>,
           pc' = pc \/ (pc = "wait" /\ pc' = "read"), Len(procs') = Len(procs)
    PROVE  ClocksAndTable' /\ Forking' /\ KidIsLast'
<1>1. fin' = fin
  BY DEF fin
<1>2. ClocksAndTable'
  BY <1>1 DEF Rest, ClocksAndTable
<1>3. Forking' /\ KidIsLast'
  BY <1>1 DEF Rest, Forking, KidIsLast
<1> QED BY <1>2, <1>3

\* waitpid: the pids and the tables.
LEMMA WaitKeepsRest ==
    ASSUME TypeOK, Rest, Wait
    PROVE  Rest'
<1>1. /\ pc = "wait" /\ pc' = "read" /\ sigchld' = sigchld
      /\ UNCHANGED <<line, j, pipe_table, pipe_clock, nptmp, kidpid>>
  BY DEF Wait
<1>2. Len(procs') = Len(procs)
  BY WaitKeepsType
<1>3. \A k \in DOMAIN procs' : procs'[k].st = "zombie" =>
          k \in DOMAIN procs /\ procs[k].st = "zombie"
  BY DEF Wait
<1>4. NoLostZombie'
  BY <1>1, <1>3 DEF Rest, NoLostZombie
<1> QED BY <1>1, <1>2, <1>4, TablesUnchanged DEF Rest

\* The SIGCHLD handler: the pids and the tables.
LEMMA HandlerKeepsRest ==
    ASSUME TypeOK, Rest, signalHandler
    PROVE  Rest'
<1>1. Len(procs') = Len(procs)
  BY HandlerKeepsType
<1>2. \A k \in DOMAIN procs' : procs'[k].st # "zombie"
  BY DEF signalHandler, Dead
<1>3. NoLostZombie'
  BY <1>2 DEF NoLostZombie
<1>4. /\ UNCHANGED <<line, j, pipe_table, pipe_clock, nptmp, kidpid>>
      /\ pc' = pc
  BY DEF signalHandler, shellVars
<1> QED BY <1>1, <1>3, <1>4, TablesUnchanged DEF Rest

\* A program's step: the pids and the tables.
LEMMA ChildKeepsRest ==
    ASSUME TypeOK, Rest, NEW i \in DOMAIN procs, Child(i)
    PROVE  Rest'
<1>1. Len(procs') = Len(procs)
  BY ChildKeepsType
<1>2. PICK e \in ProcRecord :
          /\ procs' = [procs EXCEPT ![i] = e]
          /\ sigchld' = TRUE \/ (sigchld' = sigchld /\ e.st = "run")
  BY ChildStep
<1>3. /\ UNCHANGED <<line, j, pipe_table, pipe_clock, nptmp, kidpid>>
      /\ pc' = pc
  BY ChildStep DEF shellVars
<1>4. NoLostZombie'
  <2>1. CASE sigchld' = TRUE
    BY <2>1 DEF NoLostZombie
  <2>2. CASE sigchld' = sigchld /\ e.st = "run"
    <3>1. \A k \in DOMAIN procs' : procs'[k].st = "zombie" =>
              k \in DOMAIN procs /\ procs[k].st = "zombie"
      BY <1>2, <2>2
    <3> QED BY <1>3, <2>2, <3>1 DEF Rest, NoLostZombie
  <2> QED BY <1>2, <2>1, <2>2
<1> QED BY <1>1, <1>3, <1>4, TablesUnchanged DEF Rest

-----------------------------------------------------------------------------
\* The shell's first state satisfies the invariant.
LEMMA InitInv == Init => Inv
<1> SUFFICES ASSUME Init PROVE Inv
  OBVIOUS
<1>1. TypeOK
  BY InitType
<1>2. pc = "read" /\ pipe_table = <<>> /\ pipe_clock = <<>> /\ procs = <<>>
  BY DEF Init
<1>3. Rest
  BY <1>2 DEF Rest, ClocksAndTable, Forking, KidIsLast, NoLostZombie
<1> QED BY <1>1, <1>3 DEF Inv

\* No step of the shell, its handler or its children breaks it.
LEMMA NextInv == Inv /\ [Next]_vars => Inv'
<1> SUFFICES ASSUME TypeOK, Rest, [Next]_vars PROVE TypeOK' /\ Rest'
  BY DEF Inv
<1>1. ASSUME NEW l \in Lines, ReadLine(l) PROVE TypeOK' /\ Rest'
  BY <1>1, ReadKeepsType, ReadKeepsRest
<1>2. CASE Fork
  BY <1>2, ForkKeepsType, ForkKeepsRest DEF Rest
<1>3. CASE EndLine
  BY <1>3, EndLineKeepsType, EndLineKeepsRest
<1>4. CASE Wait
  BY <1>4, WaitKeepsType, WaitKeepsRest
<1>5. CASE signalHandler
  BY <1>5, HandlerKeepsType, HandlerKeepsRest
<1>6. ASSUME NEW i \in DOMAIN procs, Child(i) PROVE TypeOK' /\ Rest'
  BY <1>6, ChildKeepsType, ChildKeepsRest
<1>7. CASE UNCHANGED vars
  <2>1. PipeTypes' /\ ShellTypes' /\ ProcTypes' /\ sigchld' \in BOOLEAN
    BY <1>7 DEF TypeOK, PipeTypes, ShellTypes, ProcTypes, vars
  <2>2. Rest'
    BY <1>7 DEF Rest, ClocksAndTable, Forking, KidIsLast, NoLostZombie, fin, vars
  <2>3. IndexType'
    BY <1>7, IndexKept DEF vars
  <2> QED BY <2>1, <2>2, <2>3 DEF TypeOK
<1> QED BY <1>1, <1>2, <1>3, <1>4, <1>5, <1>6, <1>7 DEF Next

\* The invariant holds in every state that npshell reaches.
THEOREM Invariance == Spec => []Inv
  BY InitInv, NextInv, PTL DEF Spec

\* Type correctness: the variables of npshell keep their types.
THEOREM TypeCorrect == Spec => []TypeOK
<1>1. Inv => TypeOK
  BY DEF Inv
<1> QED BY <1>1, Invariance, PTL

\* No two numbered pipes wait for the same line, and pipe_table is aligned
\* with pipe_clock (65-77, 190-202), however many lines are typed.
THEOREM ClocksAndTableCorrect == Spec => []ClocksAndTable
<1>1. Inv => ClocksAndTable
  BY DEF Inv, Rest
<1> QED BY <1>1, Invariance, PTL

\* A dead child is reaped or a SIGCHLD is pending (14-17), for any number of
\* children that die in any order.
THEOREM NoZombieLost == Spec => []NoLostZombie
<1>1. Inv => NoLostZombie
  BY DEF Inv, Rest
<1> QED BY <1>1, Invariance, PTL

\* The prompt does not come back before the last program of the line is dead
\* (302-307): waitpid is called for that child and for no other.
THEOREM PromptAfterLastCorrect == Spec => PromptAfterLast
<1> DEFINE A == pc = "wait" /\ pc' = "read" /\ line.kind = "exec" =>
                   \A i \in DOMAIN procs :
                      i = Len(procs) => procs[i].st \in {"zombie", "reaped"}
<1>1. Inv /\ [Next]_vars => [A]_vars
  <2> SUFFICES ASSUME Inv, Next, pc = "wait", pc' = "read", line.kind = "exec"
               PROVE  A
    OBVIOUS
  <2>1. kidpid = Len(procs) /\ kidpid > 0
    BY DEF Inv, Rest, KidIsLast
  <2>2. Wait
    BY DEF Next, ReadLine, Fork, EndLine, signalHandler, Child, Exec, Read,
           Write, Sigpipe, Finish, Quit, Die, shellVars
  <2>3. procs[kidpid].st \in {"zombie", "reaped"}
    BY <2>1, <2>2 DEF Wait, KidDead
  <2> QED BY <2>1, <2>3
<1> QED BY <1>1, Invariance, PTL DEF Spec, PromptAfterLast

-----------------------------------------------------------------------------
(***************************************************************************)
(* The pipes' part of the inductive invariant.                             *)
(***************************************************************************)
Unread(p) == \A r \in DOMAIN procs : procs[r].in # p

\* The first stage of the line has been forked: it reads the pipe that was due.
Served == (pc = "fork" /\ j > 1) \/ (pc = "tick" /\ line.kind = "exec")

\* Entry k of pipe_table still waits to be read.
Waits(k) == pipe_clock[k] > 0 \/ (pipe_clock[k] = 0 /\ ~Served)

\* Entry k was due at a line that started no program: it stays open for good.
Missed(p) == \E k \in DOMAIN pipe_table : pipe_table[k] = p /\ pipe_clock[k] < 0

\* Pipes are numbered in the order of the pipe() calls, and the entries of
\* pipe_table are different pipes.
PipeNumbers ==
    /\ \A k \in DOMAIN pipe_table : pipe_table[k] \in Pipes
    /\ \A a, b \in DOMAIN pipe_table : pipe_table[a] = pipe_table[b] => a = b
    /\ \A r \in DOMAIN procs : procs[r].in \in Pipes \cup {0}
    /\ shfd \subseteq Pipes

\* The pipe between the last stage forked and the next one.
Between(p) == pc = "fork" /\ j > 1 /\ p = curpipes

\* What the shell has open, and for whom.
Opened ==
    /\ \A p \in shfd :
          /\ Unread(p)
          /\ \/ Between(p)
             \/ \E k \in DOMAIN pipe_table :
                   pipe_table[k] = p /\ (Waits(k) \/ pipe_clock[k] < 0)
    /\ pc # "done" =>
          \A k \in DOMAIN pipe_table : Waits(k) => pipe_table[k] \in shfd
    /\ pc = "fork" /\ j > 1 =>
          curpipes \in shfd /\ \A k \in DOMAIN pipe_table : pipe_table[k] # curpipes

\* What a child keeps beside its input and output nobody will ever read.
Kept ==
    \A q \in DOMAIN procs : \A p \in procs[q].kept : Unread(p) /\ Missed(p)

PipeInv == PipeNumbers /\ Opened /\ Kept /\ OneReader

(***************************************************************************)
(* The lines' part: who writes to and reads from the pipes of the line     *)
(* that is being executed, for the refinement of NumberedPipes.            *)
(***************************************************************************)
\* The line reuses the pipe of an earlier line with the same count left.
Reused == pc = "fork" /\ nptmp > 0 => line.np > 0 /\ pipe_clock[nptmp] = line.np

Writers ==
    /\ \A r \in DOMAIN procs : procs[r].out \in Pipes \cup {0} /\ procs[r].line <= now
    /\ \A r \in DOMAIN procs : procs[r].line = now => Served
    /\ pc = "fork" /\ j > 1 =>
          \A r \in DOMAIN procs : procs[r].out = curpipes => procs[r].line = now
    /\ \A r \in DOMAIN procs, k \in DOMAIN pipe_table :
          procs[r].line = now /\ procs[r].out = pipe_table[k] =>
              pc = "tick" /\ line.np > 0 /\ pipe_clock[k] = line.np
    /\ pc = "tick" /\ line.kind = "exec" /\ line.np > 0 =>
          \E r \in DOMAIN procs, k \in DOMAIN pipe_table :
              procs[r].line = now /\ procs[r].out = pipe_table[k] /\ pipe_clock[k] = line.np

Readers ==
    /\ \A r \in DOMAIN procs : procs[r].line = now /\ procs[r].in # 0 =>
          \/ \E k \in DOMAIN pipe_table : pipe_table[k] = procs[r].in /\ pipe_clock[k] = 0
          \/ \A w \in DOMAIN procs : procs[w].out = procs[r].in => procs[w].line = now
    /\ Served =>
          \A k \in DOMAIN pipe_table : pipe_clock[k] = 0 =>
              \E r \in DOMAIN procs : procs[r].line = now /\ procs[r].in = pipe_table[k]

LineInv == Reused /\ Writers /\ Readers

-----------------------------------------------------------------------------
(***************************************************************************)
(* Lemmas.                                                                 *)
(***************************************************************************)
\* The domains and elements of the tables.
LEMMA TableFacts ==
    ASSUME TypeOK, ClocksAndTable
    PROVE  /\ Len(pipe_table) \in Nat /\ DOMAIN pipe_table = 1 .. Len(pipe_table)
           /\ Len(pipe_clock) \in Nat /\ DOMAIN pipe_clock = 1 .. Len(pipe_clock)
           /\ DOMAIN pipe_table \subseteq DOMAIN pipe_clock
           /\ \A k \in DOMAIN pipe_clock : pipe_clock[k] \in Int
           /\ \A k \in DOMAIN pipe_table : pipe_table[k] \in Nat
           /\ Len(procs) \in Nat /\ DOMAIN procs = 1 .. Len(procs)
           /\ \A r \in DOMAIN procs : procs[r] \in ProcRecord
           /\ Len(buf) \in Nat /\ DOMAIN buf = 1 .. Len(buf)
           /\ now \in Nat /\ j \in Nat /\ j > 0
<1>1. /\ pipe_table \in Seq(Nat) /\ pipe_clock \in Seq(Int) /\ buf \in Seq(Nat)
      /\ procs \in Seq(ProcRecord) /\ now \in Nat /\ j \in Nat /\ j > 0
  BY DEF TypeOK, PipeTypes, ProcTypes, ShellTypes
<1>2. /\ Len(pipe_table) \in Nat /\ DOMAIN pipe_table = 1 .. Len(pipe_table)
      /\ Len(pipe_clock) \in Nat /\ DOMAIN pipe_clock = 1 .. Len(pipe_clock)
      /\ Len(procs) \in Nat /\ DOMAIN procs = 1 .. Len(procs)
      /\ Len(buf) \in Nat /\ DOMAIN buf = 1 .. Len(buf)
  BY <1>1, LenProperties
<1>3. /\ \A k \in DOMAIN pipe_clock : pipe_clock[k] \in Int
      /\ \A k \in DOMAIN pipe_table : pipe_table[k] \in Nat
      /\ \A r \in DOMAIN procs : procs[r] \in ProcRecord
  BY <1>1, <1>2, ElementOfSeq
<1>4. Len(pipe_table) <= Len(pipe_clock)
  <2>1. PICK a \in Nat, b \in Nat : a = Len(pipe_table) /\ b = Len(pipe_clock)
    BY <1>2
  <2>2. b = a + 1 \/ b = a
    BY <2>1 DEF ClocksAndTable
  <2> QED BY <2>1, <2>2
<1> QED BY <1>1, <1>2, <1>3, <1>4

\* Steps that leave the pipes' ends and the shell's tables alone.
Quiet ==
    /\ UNCHANGED <<now, line, j, pipe_table, pipe_clock, nptmp, curpipes, shfd>>
    /\ Len(buf') = Len(buf)
    /\ pc' = pc \/ (pc = "wait" /\ pc' = "read")
    /\ DOMAIN procs' = DOMAIN procs
    /\ \A r \in DOMAIN procs :
          /\ procs'[r].in = procs[r].in /\ procs'[r].out = procs[r].out
          /\ procs'[r].line = procs[r].line /\ procs'[r].kept = procs[r].kept

\* waitpid, the SIGCHLD handler and the programs.
LEMMA QuietSteps ==
    ASSUME TypeOK, ClocksAndTable,
           Wait \/ signalHandler \/ (\E i \in DOMAIN procs : Child(i)) \/ UNCHANGED vars
    PROVE  Quiet
<1>1. /\ DOMAIN buf = 1 .. Len(buf) /\ Len(buf) \in Nat
      /\ \A r \in DOMAIN procs : procs[r] \in ProcRecord
  BY TableFacts
<1>2. CASE Wait
  <2>1. /\ UNCHANGED <<now, line, j, pipe_table, pipe_clock, nptmp, curpipes, shfd, buf>>
        /\ pc = "wait" /\ pc' = "read"
        /\ procs' = IF kidpid = 0 THEN procs ELSE [procs EXCEPT ![kidpid].st = "reaped"]
    BY <1>2 DEF Wait
  <2>2. /\ DOMAIN procs' = DOMAIN procs
        /\ \A r \in DOMAIN procs :
              /\ procs'[r].in = procs[r].in /\ procs'[r].out = procs[r].out
              /\ procs'[r].line = procs[r].line /\ procs'[r].kept = procs[r].kept
    BY <1>1, <2>1 DEF ProcRecord
  <2> QED BY <2>1, <2>2 DEF Quiet
<1>3. CASE signalHandler
  <2>1. /\ UNCHANGED <<now, line, j, pipe_table, pipe_clock, nptmp, curpipes, shfd, buf, pc>>
        /\ procs' = [i \in DOMAIN procs |->
                        IF i \in Dead THEN [procs[i] EXCEPT !.st = "reaped"] ELSE procs[i]]
    BY <1>3 DEF signalHandler, shellVars
  <2>2. /\ DOMAIN procs' = DOMAIN procs
        /\ \A r \in DOMAIN procs :
              /\ procs'[r].in = procs[r].in /\ procs'[r].out = procs[r].out
              /\ procs'[r].line = procs[r].line /\ procs'[r].kept = procs[r].kept
    BY <1>1, <2>1 DEF ProcRecord
  <2> QED BY <2>1, <2>2 DEF Quiet
<1>4. ASSUME NEW i \in DOMAIN procs, Child(i)
      PROVE  Quiet
  <2>1. UNCHANGED shellVars /\ buf' \in Seq(Nat)
    BY <1>4, ChildStep
  <2>2. DOMAIN buf' = DOMAIN buf
    BY <1>4 DEF Child, Exec, Read, Write, Sigpipe, Finish, Quit, Die
  <2>3. Len(buf') = Len(buf)
    <3>1. Len(buf') \in Nat /\ 1 .. Len(buf') = 1 .. Len(buf)
      BY <1>1, <2>1, <2>2, LenProperties
    <3> QED BY <1>1, <3>1
  <2>4. /\ DOMAIN procs' = DOMAIN procs
        /\ \A r \in DOMAIN procs :
              /\ procs'[r].in = procs[r].in /\ procs'[r].out = procs[r].out
              /\ procs'[r].line = procs[r].line /\ procs'[r].kept = procs[r].kept
    <3>1. CASE Exec(i)
      BY <1>1, <3>1 DEF Exec, ProcRecord
    <3>2. CASE Read(i)
      BY <1>1, <3>2 DEF Read, ProcRecord
    <3>3. CASE Write(i)
      BY <1>1, <3>3 DEF Write, ProcRecord
    <3>4. CASE Sigpipe(i) \/ Finish(i) \/ Quit(i)
      <4>1. procs' = [procs EXCEPT ![i].st = "zombie", ![i].left = 0]
        BY <3>4 DEF Sigpipe, Finish, Quit, Die
      <4> QED BY <1>1, <4>1 DEF ProcRecord
    <3> QED BY <1>4, <3>1, <3>2, <3>3, <3>4 DEF Child
  <2> QED BY <2>1, <2>3, <2>4 DEF Quiet, shellVars
<1>5. CASE UNCHANGED vars
  BY <1>5 DEF Quiet, vars
<1> QED BY <1>2, <1>3, <1>4, <1>5

\* Such a step disturbs neither part of the invariant.
LEMMA QuietKeeps ==
    ASSUME PipeInv, LineInv, Quiet
    PROVE  PipeInv' /\ LineInv'
<1>1. /\ UNCHANGED <<now, line, j, pipe_table, pipe_clock, nptmp, curpipes, shfd>>
      /\ Len(buf') = Len(buf)
      /\ pc' = pc \/ (pc = "wait" /\ pc' = "read")
      /\ DOMAIN procs' = DOMAIN procs
      /\ \A r \in DOMAIN procs :
            /\ procs'[r].in = procs[r].in /\ procs'[r].out = procs[r].out
            /\ procs'[r].line = procs[r].line /\ procs'[r].kept = procs[r].kept
  BY DEF Quiet
<1>2. (Served' <=> Served) /\ (pc' = "fork" <=> pc = "fork") /\ (pc' = "tick" <=> pc = "tick")
      /\ (pc' = "done" <=> pc = "done")
  BY <1>1 DEF Served
<1>3. \A p : (Unread(p)' <=> Unread(p)) /\ (Missed(p)' <=> Missed(p)) /\ (Between(p)' <=> Between(p))
  BY <1>1, <1>2 DEF Unread, Missed, Between
<1>4. \A k : Waits(k)' <=> Waits(k)
  BY <1>1, <1>2 DEF Waits
<1>5. PipeNumbers' /\ OneReader'
  BY <1>1 DEF PipeInv, PipeNumbers, Pipes, OneReader
<1>6. Opened'
  BY <1>1, <1>2, <1>3, <1>4 DEF PipeInv, Opened
<1>7. Kept'
  BY <1>1, <1>3 DEF PipeInv, Kept
<1>8. Reused'
  BY <1>1, <1>2 DEF LineInv, Reused
<1>9. Writers'
  BY <1>1, <1>2 DEF LineInv, Writers, Pipes
<1>10. Readers'
  BY <1>1, <1>2 DEF LineInv, Readers
<1> QED BY <1>5, <1>6, <1>7, <1>8, <1>9, <1>10 DEF PipeInv, LineInv

\* getline and the parser: no line is being executed before it or just after it.
LEMMA ReadKeepsPipes ==
    ASSUME Inv, PipeInv, LineInv, NEW l \in Lines, ReadLine(l)
    PROVE  PipeInv' /\ LineInv'
<1>1. pc = "read" /\ UNCHANGED <<now, pipe_table, buf, procs>>
  BY DEF ReadLine
<1>2. /\ DOMAIN pipe_table \subseteq DOMAIN pipe_clock /\ DOMAIN pipe_table = 1 .. Len(pipe_table)
      /\ DOMAIN pipe_clock = 1 .. Len(pipe_clock) /\ pipe_clock \in Seq(Int)
      /\ Len(pipe_clock) \in Nat
  BY TableFacts DEF Inv, Rest, TypeOK, PipeTypes
<1>3. /\ pc' = "fork" => j' = 1
      /\ pc' = "tick" => l.kind = "builtin"
      /\ pc' \in {"fork", "tick", "read", "done"}
      /\ line' = l
      /\ shfd' = shfd \/ (shfd' = {} /\ pc' = "done")
  BY <1>1 DEF ReadLine, ReadExec, ReadBuiltin, ReadEmpty, ReadExit
<1>4. ~Served /\ ~Served'
  BY <1>1, <1>3 DEF Served
<1>5. /\ \A k \in DOMAIN pipe_table : pipe_clock'[k] = pipe_clock[k]
      /\ pc' = "fork" /\ nptmp' > 0 => l.np > 0 /\ pipe_clock'[nptmp'] = l.np
  <2>1. CASE ReadExec(l)
    <3> DEFINE hit == IndexOf(pipe_clock, l.np)
    <3>1. /\ nptmp' = IF l.np > 0 THEN hit ELSE 0
          /\ pipe_clock' = IF l.np > 0 /\ hit = 0 THEN Append(pipe_clock, l.np) ELSE pipe_clock
      BY <2>1 DEF ReadExec
    <3>2. l.np \in Nat /\ l.np \in Int
      BY LinesAssumption
    <3>3. hit # 0 => pipe_clock[hit] = l.np
      BY <1>2, <3>2, IndexOfRange
    <3> HIDE DEF hit
    <3>4. /\ nptmp' > 0 => l.np > 0 /\ hit # 0 /\ nptmp' = hit
          /\ hit # 0 => pipe_clock' = pipe_clock
      BY <3>1
    <3>5. \A k \in DOMAIN pipe_clock : Append(pipe_clock, l.np)[k] = pipe_clock[k]
      BY <1>2, <3>2, AppendProperties
    <3> QED BY <1>2, <3>1, <3>3, <3>4, <3>5
  <2>2. CASE ReadBuiltin(l) \/ ReadEmpty(l) \/ ReadExit(l)
    <3>1. pipe_clock' = pipe_clock /\ pc' # "fork"
      BY <1>1, <2>2 DEF ReadBuiltin, ReadEmpty, ReadExit
    <3> QED BY <3>1
  <2> QED BY <2>1, <2>2 DEF ReadLine
<1>6. \A p : (Unread(p)' <=> Unread(p)) /\ (Missed(p)' <=> Missed(p)) /\ ~Between(p)
  BY <1>1, <1>5 DEF Unread, Missed, Between
<1>7. \A k \in DOMAIN pipe_table : Waits(k)' <=> Waits(k)
  BY <1>4, <1>5 DEF Waits
<1>8. PipeNumbers' /\ OneReader' /\ Kept'
  <2>1. shfd' \subseteq shfd
    BY <1>3
  <2> QED BY <1>1, <1>6, <2>1 DEF PipeInv, PipeNumbers, Pipes, OneReader, Kept
<1>9. Opened'
  <2>1. ASSUME NEW p \in shfd'
        PROVE  Unread(p)' /\ \E k \in DOMAIN pipe_table' :
                                pipe_table'[k] = p /\ (Waits(k)' \/ pipe_clock'[k] < 0)
    <3>1. p \in shfd
      BY <1>3, <2>1
    <3> QED BY <1>1, <1>5, <1>6, <1>7, <3>1 DEF PipeInv, Opened
  <2>2. pc' # "done" => \A k \in DOMAIN pipe_table' : Waits(k)' => pipe_table'[k] \in shfd'
    BY <1>1, <1>3, <1>7 DEF PipeInv, Opened
  <2>3. ~(pc' = "fork" /\ j' > 1)
    BY <1>3
  <2> QED BY <2>1, <2>2, <2>3 DEF Opened
<1>10. Reused'
  BY <1>3, <1>5 DEF Reused
<1>11. \A r \in DOMAIN procs : procs[r].line # now
  BY <1>4 DEF LineInv, Writers
<1>12. Writers'
  <2>1. ~(pc' = "fork" /\ j' > 1) /\ ~(pc' = "tick" /\ line'.kind = "exec")
    BY <1>4 DEF Served
  <2> QED BY <1>1, <1>11, <2>1 DEF LineInv, Writers, Pipes
<1>13. Readers'
  BY <1>1, <1>4, <1>11 DEF Readers
<1> QED BY <1>8, <1>9, <1>10, <1>12, <1>13 DEF PipeInv, LineInv

\* The tick: what was due has been read, or is missed.
LEMMA EndLineKeepsPipes ==
    ASSUME Inv, PipeInv, LineInv, EndLine
    PROVE  PipeInv' /\ LineInv'
<1>1. /\ pc = "tick" /\ pc' \in {"read", "wait"} /\ now' = now + 1
      /\ pipe_clock' = Tick(pipe_clock)
      /\ UNCHANGED <<line, j, pipe_table, nptmp, curpipes, shfd, buf, procs>>
  BY DEF EndLine
<1>2. /\ DOMAIN pipe_table \subseteq DOMAIN pipe_clock /\ pipe_clock \in Seq(Int)
      /\ \A k \in DOMAIN pipe_clock : pipe_clock[k] \in Int
      /\ now \in Nat
      /\ \A r \in DOMAIN procs : procs[r].line \in Nat
  BY TableFacts DEF Inv, Rest, TypeOK, PipeTypes, ProcRecord
<1>3. \A k \in DOMAIN pipe_table : pipe_clock[k] \in Int /\ pipe_clock'[k] = pipe_clock[k] - 1
  BY <1>1, <1>2, TickType
<1>4. ~Served' /\ pc' # "fork" /\ pc' # "tick" /\ pc' # "done"
  BY <1>1 DEF Served
<1>5. \A p : (Unread(p)' <=> Unread(p)) /\ ~Between(p)
  BY <1>1 DEF Unread, Between
<1>6. \A p : Missed(p) => Missed(p)'
  BY <1>1, <1>3 DEF Missed
<1>7. \A k \in DOMAIN pipe_table : /\ Waits(k)' => Waits(k)
                                   /\ Waits(k) => Waits(k)' \/ pipe_clock'[k] < 0
                                   /\ pipe_clock[k] < 0 => pipe_clock'[k] < 0
  BY <1>3, <1>4 DEF Waits
<1>8. PipeNumbers' /\ OneReader' /\ Kept'
  BY <1>1, <1>5, <1>6 DEF PipeInv, PipeNumbers, Pipes, OneReader, Kept
<1>9. Opened'
  <2>1. ASSUME NEW p \in shfd'
        PROVE  Unread(p)' /\ \E k \in DOMAIN pipe_table' :
                                pipe_table'[k] = p /\ (Waits(k)' \/ pipe_clock'[k] < 0)
    BY <1>1, <1>5, <1>7 DEF PipeInv, Opened
  <2>2. \A k \in DOMAIN pipe_table' : Waits(k)' => pipe_table'[k] \in shfd'
    BY <1>1, <1>7 DEF PipeInv, Opened
  <2> QED BY <1>4, <2>1, <2>2 DEF Opened
<1>10. Reused'
  BY <1>4 DEF Reused
<1>11. \A r \in DOMAIN procs : procs[r].line <= now /\ procs[r].line < now + 1
  BY <1>2 DEF LineInv, Writers
<1>12. \A r \in DOMAIN procs' : procs'[r].line <= now' /\ procs'[r].line # now'
  BY <1>1, <1>2, <1>11
<1>13. Writers'
  BY <1>1, <1>4, <1>12 DEF LineInv, Writers, Pipes
<1>14. Readers'
  BY <1>4, <1>12 DEF Readers
<1> QED BY <1>8, <1>9, <1>10, <1>13, <1>14 DEF PipeInv, LineInv

-----------------------------------------------------------------------------
(***************************************************************************)
(* The fork of a stage.                                                    *)
(***************************************************************************)
\* What one iteration of the loop changes; child is the process forked, entry
\* the place of a fresh numbered pipe in pipe_table.
Forked(child, entry) ==
    /\ j' = j + 1 /\ curpipes' = OutPipe
    /\ UNCHANGED <<now, line, pipe_clock, nptmp>>
    /\ pc' = IF j = line.stages THEN "tick" ELSE "fork"
    /\ child \notin DOMAIN procs /\ DOMAIN procs' = DOMAIN procs \cup {child}
    /\ \A r \in DOMAIN procs : procs'[r] = procs[r]
    /\ procs'[child].in = InPipe /\ procs'[child].out = OutPipe
    /\ procs'[child].line = now /\ procs'[child].kept = Leaked
    /\ Len(buf') = IF MakesPipe THEN Len(buf) + 1 ELSE Len(buf)
    /\ shfd' = (IF MakesPipe THEN shfd \cup {OutPipe} ELSE shfd) \ {InPipe}
    /\ ~(Numbered /\ nptmp = 0) => pipe_table' = pipe_table
    /\ Numbered /\ nptmp = 0 =>
          /\ entry \notin DOMAIN pipe_table
          /\ DOMAIN pipe_table' = DOMAIN pipe_table \cup {entry}
          /\ \A k \in DOMAIN pipe_table : pipe_table'[k] = pipe_table[k]
          /\ pipe_table'[entry] = OutPipe /\ pipe_clock[entry] = line.np

\* A fork, described by what it does to the tables, the shell's pipes and the
\* children.
LEMMA ForkFacts ==
    ASSUME Inv, Fork
    PROVE  \E child, entry : Forked(child, entry)
<1>1. /\ pc = "fork" /\ TypeOK /\ ClocksAndTable /\ Forking
      /\ pipe_table \in Seq(Nat) /\ buf \in Seq(Nat) /\ procs \in Seq(ProcRecord)
      /\ Len(pipe_table) \in Nat /\ DOMAIN pipe_table = 1 .. Len(pipe_table)
      /\ Len(procs) \in Nat /\ DOMAIN procs = 1 .. Len(procs) /\ Len(buf) \in Nat
  BY TableFacts DEF Inv, Rest, TypeOK, PipeTypes, ProcTypes, Fork
<1>2. InPipe \in Nat /\ OutPipe \in Nat
  BY <1>1, StagePipes
<1> DEFINE rec == [st |-> "forked", line |-> now, in |-> InPipe, out |-> OutPipe,
                   inherited |-> IF MakesPipe THEN shfd \cup {Len(buf) + 1} ELSE shfd,
                   kept |-> Leaked,
                   left |-> IF InPipe = 0 /\ OutPipe # 0 THEN Output ELSE 0]
           child == Len(procs) + 1
           entry == Len(pipe_table) + 1
<1>3. procs' = Append(procs, rec)
  BY DEF Fork
<1>4. rec.in = InPipe /\ rec.out = OutPipe /\ rec.line = now /\ rec.kept = Leaked
  OBVIOUS
<1> HIDE DEF rec
<1>5. /\ DOMAIN procs' = 1 .. (Len(procs) + 1) /\ procs'[Len(procs) + 1] = rec
      /\ \A r \in 1 .. Len(procs) : procs'[r] = procs[r]
  <2>1. procs \in Seq(ProcRecord \cup {rec})
    BY <1>1
  <2> QED BY <1>3, <2>1, AppendProperties, LenProperties
<1>6. /\ child \notin DOMAIN procs /\ DOMAIN procs' = DOMAIN procs \cup {child}
      /\ \A r \in DOMAIN procs : procs'[r] = procs[r] /\ procs'[child] = rec
  BY <1>1, <1>5
<1>7. Len(buf') = IF MakesPipe THEN Len(buf) + 1 ELSE Len(buf)
  BY <1>1, AppendProperties DEF Fork
<1>8. shfd' = (IF MakesPipe THEN shfd \cup {OutPipe} ELSE shfd) \ {InPipe}
  BY DEF Fork, ShellCloses, OutPipe
<1>9. ASSUME Numbered, nptmp = 0
      PROVE  /\ entry \notin DOMAIN pipe_table
             /\ DOMAIN pipe_table' = DOMAIN pipe_table \cup {entry}
             /\ \A k \in DOMAIN pipe_table : pipe_table'[k] = pipe_table[k]
             /\ pipe_table'[entry] = OutPipe /\ pipe_clock[entry] = line.np
  <2>1. pipe_table' = Append(pipe_table, OutPipe)
    BY <1>9 DEF Fork
  <2>2. /\ DOMAIN pipe_table' = 1 .. (Len(pipe_table) + 1)
        /\ pipe_table'[Len(pipe_table) + 1] = OutPipe
        /\ \A k \in 1 .. Len(pipe_table) : pipe_table'[k] = pipe_table[k]
    BY <1>1, <1>2, <2>1, AppendProperties, LenProperties
  <2>3. fin = 1
    BY <1>9 DEF Numbered, fin
  <2>4. Len(pipe_clock) = entry /\ pipe_clock[Len(pipe_clock)] = line.np
    BY <1>1, <2>3 DEF ClocksAndTable, Forking
  <2>5. /\ entry \notin DOMAIN pipe_table
        /\ DOMAIN pipe_table' = DOMAIN pipe_table \cup {entry}
    BY <1>1, <2>2
  <2> QED BY <1>1, <2>2, <2>4, <2>5
<1>10. ~(Numbered /\ nptmp = 0) => pipe_table' = pipe_table
  BY DEF Fork
<1>11. /\ j' = j + 1 /\ curpipes' = OutPipe /\ UNCHANGED <<now, line, pipe_clock, nptmp>>
       /\ pc' = IF j = line.stages THEN "tick" ELSE "fork"
  BY DEF Fork
<1>12. /\ procs'[child].in = InPipe /\ procs'[child].out = OutPipe
       /\ procs'[child].line = now /\ procs'[child].kept = Leaked
  BY <1>4, <1>5
<1> HIDE DEF child, entry
<1>13. Forked(child, entry)
  BY <1>6, <1>7, <1>8, <1>9, <1>10, <1>11, <1>12 DEF Forked
<1> QED BY <1>13

\* The pipe that the stage reads: the one of the stage before or the numbered
\* pipe that is due.  The shell has it open, and nobody reads it yet.
LEMMA InputFacts ==
    ASSUME Inv, PipeInv, pc = "fork"
    PROVE  /\ j > 1 => InPipe = curpipes
           /\ ~(j > 1) /\ InPipe = 0 => \A k \in DOMAIN pipe_table : pipe_clock[k] # 0
           /\ ~(j > 1) /\ InPipe # 0 =>
                 \E k \in DOMAIN pipe_table : pipe_table[k] = InPipe /\ pipe_clock[k] = 0
           /\ InPipe # 0 => InPipe \in shfd
           /\ InPipe \in Pipes \cup {0}
<1>1. /\ TypeOK /\ ClocksAndTable /\ Forking /\ pipe_clock \in Seq(Int)
      /\ Len(pipe_table) \in Nat /\ DOMAIN pipe_table = 1 .. Len(pipe_table)
      /\ Len(pipe_clock) \in Nat /\ DOMAIN pipe_clock = 1 .. Len(pipe_clock)
      /\ DOMAIN pipe_table \subseteq DOMAIN pipe_clock
  BY TableFacts DEF Inv, Rest, TypeOK, PipeTypes
<1>2. j > 1 => InPipe = curpipes
  BY DEF InPipe
<1>3. ASSUME ~(j > 1)
      PROVE  \/ InPipe = 0 /\ \A k \in DOMAIN pipe_table : pipe_clock[k] # 0
             \/ \E k \in DOMAIN pipe_table : pipe_table[k] = InPipe /\ pipe_clock[k] = 0
  <2> DEFINE due == IndexOf(pipe_clock, 0)
  <2>0. 0 \in Int
    OBVIOUS
  <2>1. /\ due \in 0 .. Len(pipe_clock) /\ (due # 0 => pipe_clock[due] = 0)
        /\ due = 0 => \A k \in DOMAIN pipe_clock : pipe_clock[k] # 0
    BY <1>1, <2>0, IndexOfRange, Zenon
  <2>2. InPipe = IF due = 0 THEN 0 ELSE pipe_table[due]
    BY <1>3 DEF InPipe
  <2> HIDE DEF due
  <2>3. due # 0 => due \in DOMAIN pipe_table
    <3>1. CASE fin = 1
      <4>1. Len(pipe_clock) = Len(pipe_table) + 1
        BY <1>1, <3>1 DEF ClocksAndTable
      <4>2. pipe_clock[Len(pipe_clock)] # 0
        BY <1>1, <3>1 DEF Forking, fin
      <4> QED BY <1>1, <2>1, <4>1, <4>2
    <3>2. CASE fin # 1
      <4>1. Len(pipe_clock) = Len(pipe_table)
        BY <1>1, <3>2 DEF ClocksAndTable
      <4> QED BY <1>1, <2>1, <4>1
    <3> QED BY <3>1, <3>2
  <2>4. CASE due = 0
    BY <1>1, <2>1, <2>2, <2>4
  <2>5. CASE due # 0
    BY <2>1, <2>2, <2>3, <2>5
  <2> QED BY <2>4, <2>5
<1>4. ASSUME InPipe # 0
      PROVE  InPipe \in shfd
  <2>1. CASE j > 1
    BY <1>2, <2>1 DEF PipeInv, Opened
  <2>2. CASE ~(j > 1)
    <3>1. PICK k \in DOMAIN pipe_table : pipe_table[k] = InPipe /\ pipe_clock[k] = 0
      BY <1>3, <1>4, <2>2
    <3>2. Waits(k)
      BY <2>2, <3>1 DEF Waits, Served
    <3> QED BY <3>1, <3>2 DEF PipeInv, Opened
  <2> QED BY <2>1, <2>2
<1>5. ~(j > 1) /\ InPipe # 0 =>
         \E k \in DOMAIN pipe_table : pipe_table[k] = InPipe /\ pipe_clock[k] = 0
  BY <1>3
<1>6. ~(j > 1) /\ InPipe = 0 => \A k \in DOMAIN pipe_table : pipe_clock[k] # 0
  <2>1. \A k \in DOMAIN pipe_table : pipe_table[k] # 0
    <3>1. 0 \notin Pipes
      BY DEF Pipes
    <3> QED BY <3>1 DEF PipeInv, PipeNumbers
  <2> QED BY <1>3, <2>1
<1>7. shfd \subseteq Pipes
  BY DEF PipeInv, PipeNumbers
<1> QED BY <1>2, <1>4, <1>5, <1>6, <1>7

\* The pipe that the stage writes to: a fresh one, or the numbered pipe that the
\* line reuses, or none.
LEMMA OutputFacts ==
    ASSUME Inv, PipeInv, LineInv, pc = "fork"
    PROVE  /\ MakesPipe => OutPipe = Len(buf) + 1 /\ OutPipe \notin Pipes /\ OutPipe # 0
           /\ MakesPipe /\ ~Numbered => j # line.stages
           /\ Numbered => j = line.stages /\ line.np > 0
           /\ MakesPipe /\ Numbered => nptmp = 0
           /\ ~MakesPipe /\ ~Numbered => OutPipe = 0 /\ j = line.stages
           /\ ~MakesPipe /\ Numbered =>
                 /\ nptmp # 0 /\ nptmp \in DOMAIN pipe_table /\ OutPipe = pipe_table[nptmp]
                 /\ pipe_clock[nptmp] = line.np
<1>1. /\ Len(buf) \in Nat /\ nptmp \in Nat /\ nptmp <= Len(pipe_table)
      /\ Len(pipe_table) \in Nat /\ DOMAIN pipe_table = 1 .. Len(pipe_table)
      /\ line.np \in Nat /\ line.stages \in Nat /\ j \in Nat /\ j <= line.stages
  BY TableFacts, LinesAssumption DEF Inv, Rest, TypeOK, ShellTypes, Forking
<1>2. MakesPipe => OutPipe = Len(buf) + 1 /\ OutPipe \notin Pipes /\ OutPipe # 0
  BY <1>1 DEF OutPipe, Pipes
<1>3. /\ MakesPipe /\ ~Numbered => j # line.stages
      /\ Numbered => j = line.stages /\ line.np > 0
      /\ MakesPipe /\ Numbered => nptmp = 0
      /\ ~MakesPipe /\ ~Numbered => OutPipe = 0 /\ j = line.stages
      /\ ~MakesPipe /\ Numbered => nptmp # 0 /\ OutPipe = pipe_table[nptmp]
  BY <1>1 DEF OutPipe, MakesPipe, Numbered
<1>4. nptmp # 0 => nptmp > 0 /\ nptmp \in DOMAIN pipe_table
  BY <1>1
<1> QED BY <1>2, <1>3, <1>4 DEF LineInv, Reused

\* The numbered pipes that are due after the fork were read by the first stage.
LEMMA ForkServes ==
    ASSUME Inv, NEW child, NEW entry, Forked(child, entry), pc = "fork"
    PROVE  /\ Served' /\ line \in Lines /\ line.kind = "exec" /\ j \in Nat /\ j' > 1
           /\ \A k \in DOMAIN pipe_table : k \in DOMAIN pipe_table' /\ pipe_table'[k] = pipe_table[k]
           /\ \A k \in DOMAIN pipe_table' : pipe_clock[k] \in Int
           /\ \A k \in DOMAIN pipe_table' :
                 k \in DOMAIN pipe_table \/ (Numbered /\ nptmp = 0 /\ k = entry)
<1>1. /\ line \in Lines /\ line.kind = "exec" /\ j \in Nat /\ j > 0 /\ line.np \in Nat
      /\ \A k \in DOMAIN pipe_table : pipe_clock[k] \in Int
  BY TableFacts, LinesAssumption DEF Inv, Rest, Forking
<1>2. j' > 1
  BY <1>1 DEF Forked
<1>3. Served'
  BY <1>1, <1>2 DEF Forked, Served
<1>4. /\ \A k \in DOMAIN pipe_table : k \in DOMAIN pipe_table' /\ pipe_table'[k] = pipe_table[k]
      /\ \A k \in DOMAIN pipe_table' :
            k \in DOMAIN pipe_table \/ (Numbered /\ nptmp = 0 /\ k = entry)
  BY DEF Forked
<1>5. \A k \in DOMAIN pipe_table' : pipe_clock[k] \in Int
  <2>1. Numbered /\ nptmp = 0 => pipe_clock[entry] \in Int
    BY <1>1 DEF Forked
  <2> QED BY <1>1, <1>4, <2>1
<1> QED BY <1>1, <1>2, <1>3, <1>4, <1>5

\* No pipe that the child keeps or that stays open in the shell is the input of
\* the stage; an entry with a clock of 0 is.
LEMMA DueIsInput ==
    ASSUME Inv, PipeInv, pc = "fork", NEW k \in DOMAIN pipe_table, ~(j > 1), pipe_clock[k] = 0
    PROVE  pipe_table[k] = InPipe
<1>1. InPipe # 0
  BY InputFacts
<1>2. PICK m \in DOMAIN pipe_table : pipe_table[m] = InPipe /\ pipe_clock[m] = 0
  BY <1>1, InputFacts
<1>3. k \in DOMAIN pipe_clock /\ m \in DOMAIN pipe_clock
  BY TableFacts DEF Inv, Rest
<1>4. k = m
  BY <1>2, <1>3 DEF Inv, Rest, ClocksAndTable
<1> QED BY <1>2, <1>4

\* A stage of a line is forked: the pipes' part.
LEMMA ForkKeepsPipes ==
    ASSUME Inv, PipeInv, LineInv, Fork
    PROVE  PipeInv'
<1>1. pc = "fork"
  BY DEF Fork
<1>2. PICK child, entry : Forked(child, entry)
  BY ForkFacts
<1>3. /\ j > 1 => InPipe = curpipes
      /\ ~(j > 1) /\ InPipe # 0 =>
            \E k \in DOMAIN pipe_table : pipe_table[k] = InPipe /\ pipe_clock[k] = 0
      /\ InPipe # 0 => InPipe \in shfd
      /\ InPipe \in Pipes \cup {0}
  BY <1>1, InputFacts
<1>4. /\ MakesPipe => OutPipe = Len(buf) + 1 /\ OutPipe \notin Pipes /\ OutPipe # 0
      /\ MakesPipe /\ ~Numbered => j # line.stages
      /\ Numbered => j = line.stages /\ line.np > 0
      /\ MakesPipe /\ Numbered => nptmp = 0
      /\ ~MakesPipe /\ ~Numbered => OutPipe = 0 /\ j = line.stages
      /\ ~MakesPipe /\ Numbered => nptmp # 0
  BY <1>1, OutputFacts
<1>5. /\ Served' /\ j' > 1
      /\ \A k \in DOMAIN pipe_table : k \in DOMAIN pipe_table' /\ pipe_table'[k] = pipe_table[k]
      /\ \A k \in DOMAIN pipe_table' : pipe_clock[k] \in Int
      /\ \A k \in DOMAIN pipe_table' :
            k \in DOMAIN pipe_table \/ (Numbered /\ nptmp = 0 /\ k = entry)
  BY <1>1, <1>2, ForkServes
<1>6. Numbered /\ nptmp = 0 =>
         MakesPipe /\ entry \notin DOMAIN pipe_table /\ entry \in DOMAIN pipe_table'
         /\ pipe_table'[entry] = OutPipe /\ pipe_clock[entry] = line.np
  BY <1>2 DEF Forked, MakesPipe
<1>7. /\ child \notin DOMAIN procs /\ DOMAIN procs' = DOMAIN procs \cup {child}
      /\ \A r \in DOMAIN procs : procs'[r] = procs[r]
      /\ procs'[child].in = InPipe /\ procs'[child].kept = Leaked
      /\ pipe_clock' = pipe_clock /\ curpipes' = OutPipe
      /\ pc' = IF j = line.stages THEN "tick" ELSE "fork"
      /\ shfd' = (IF MakesPipe THEN shfd \cup {OutPipe} ELSE shfd) \ {InPipe}
  BY <1>2 DEF Forked
<1>8. Len(buf) \in Nat /\ Pipes \subseteq Pipes' /\ 0 \notin Pipes /\ (MakesPipe => OutPipe \in Pipes')
  <2>1. Len(buf) \in Nat
    BY TableFacts DEF Inv, Rest
  <2>2. Len(buf') = IF MakesPipe THEN Len(buf) + 1 ELSE Len(buf)
    BY <1>2 DEF Forked
  <2>3. PICK b \in Nat : b = Len(buf)
    BY <2>1
  <2>4. CASE MakesPipe
    <3>1. Pipes = 1 .. b /\ Pipes' = 1 .. (b + 1) /\ OutPipe = b + 1
      BY <1>4, <2>2, <2>3, <2>4 DEF Pipes
    <3> QED BY <2>1, <3>1
  <2>5. CASE ~MakesPipe
    <3>1. Pipes = 1 .. b /\ Pipes' = 1 .. b
      BY <2>2, <2>3, <2>5 DEF Pipes
    <3> QED BY <2>1, <2>5, <3>1
  <2> QED BY <2>4, <2>5
<1>9. \A p : Unread(p)' <=> Unread(p) /\ p # InPipe
  BY <1>7 DEF Unread
<1>10. \A p : Missed(p) => Missed(p)'
  BY <1>5, <1>7 DEF Missed
<1>11. /\ \A k \in DOMAIN pipe_table : pipe_table[k] \in Pipes
       /\ \A a, b \in DOMAIN pipe_table : pipe_table[a] = pipe_table[b] => a = b
       /\ shfd \subseteq Pipes
       /\ \A r \in DOMAIN procs : procs[r].in \in Pipes \cup {0}
  BY DEF PipeInv, PipeNumbers
\* What the shell has open and the stage does not read belongs to a later line,
\* or was missed.
<1>12. ASSUME NEW p \in shfd, p # InPipe
       PROVE  \E k \in DOMAIN pipe_table :
                 pipe_table[k] = p /\ (pipe_clock[k] > 0 \/ pipe_clock[k] < 0)
  <2>1. ~Between(p)
    BY <1>3, <1>12 DEF Between
  <2>2. PICK k \in DOMAIN pipe_table : pipe_table[k] = p /\ (Waits(k) \/ pipe_clock[k] < 0)
    BY <2>1 DEF PipeInv, Opened
  <2>3. ~(pipe_clock[k] = 0 /\ ~Served)
    <3>1. ASSUME pipe_clock[k] = 0, ~Served
          PROVE  FALSE
      <4>1. ~(j > 1)
        BY <1>1, <3>1 DEF Served
      <4> QED BY <1>1, <1>12, <2>2, <3>1, <4>1, DueIsInput
    <3> QED BY <3>1
  <2> QED BY <2>2, <2>3 DEF Waits
<1>13. MakesPipe => Unread(OutPipe) /\ OutPipe # InPipe
  BY <1>3, <1>4, <1>11 DEF Unread
\* The input is no entry of another line.
<1>14. \A k \in DOMAIN pipe_table : pipe_table[k] = InPipe => pipe_clock[k] = 0
  <2>1. ASSUME NEW k \in DOMAIN pipe_table, pipe_table[k] = InPipe
        PROVE  pipe_clock[k] = 0
    <3>1. InPipe # 0
      BY <1>8, <1>11, <2>1
    <3>2. ~(j > 1)
      BY <1>1, <1>3, <2>1 DEF PipeInv, Opened
    <3>3. PICK m \in DOMAIN pipe_table : pipe_table[m] = InPipe /\ pipe_clock[m] = 0
      BY <1>3, <3>1, <3>2
    <3> QED BY <1>11, <2>1, <3>3
  <2> QED BY <2>1
<1>15. PipeNumbers'
  <2>1. \A k \in DOMAIN pipe_table' : pipe_table'[k] \in Pipes'
    BY <1>5, <1>6, <1>8, <1>11
  <2>2. ASSUME NEW a \in DOMAIN pipe_table', NEW b \in DOMAIN pipe_table',
               pipe_table'[a] = pipe_table'[b]
        PROVE  a = b
    <3>1. CASE a \in DOMAIN pipe_table /\ b \in DOMAIN pipe_table
      BY <1>5, <1>11, <2>2, <3>1
    <3>2. CASE a \in DOMAIN pipe_table /\ b \notin DOMAIN pipe_table
      <4>1. pipe_table'[a] \in Pipes /\ pipe_table'[b] \notin Pipes
        BY <1>4, <1>5, <1>6, <1>11, <3>2
      <4> QED BY <2>2, <4>1
    <3>3. CASE a \notin DOMAIN pipe_table /\ b \in DOMAIN pipe_table
      <4>1. pipe_table'[b] \in Pipes /\ pipe_table'[a] \notin Pipes
        BY <1>4, <1>5, <1>6, <1>11, <3>3
      <4> QED BY <2>2, <4>1
    <3>4. CASE a \notin DOMAIN pipe_table /\ b \notin DOMAIN pipe_table
      BY <1>5, <3>4
    <3> QED BY <3>1, <3>2, <3>3, <3>4
  <2>3. \A r \in DOMAIN procs' : procs'[r].in \in Pipes' \cup {0}
    BY <1>3, <1>7, <1>8, <1>11
  <2>4. shfd' \subseteq Pipes'
    BY <1>7, <1>8, <1>11
  <2> QED BY <2>1, <2>2, <2>3, <2>4 DEF PipeNumbers
<1>16. Opened'
  <2>1. ASSUME NEW p \in shfd'
        PROVE  /\ Unread(p)'
               /\ \/ Between(p)'
                  \/ \E k \in DOMAIN pipe_table' :
                        pipe_table'[k] = p /\ (Waits(k)' \/ pipe_clock'[k] < 0)
    <3>1. p # InPipe /\ (p \in shfd \/ (MakesPipe /\ p = OutPipe))
      BY <1>7, <2>1
    <3>2. CASE p \in shfd
      <4>1. Unread(p)'
        BY <1>9, <3>1, <3>2 DEF PipeInv, Opened
      <4>2. PICK k \in DOMAIN pipe_table :
               pipe_table[k] = p /\ (pipe_clock[k] > 0 \/ pipe_clock[k] < 0)
        BY <1>12, <3>1, <3>2
      <4>3. k \in DOMAIN pipe_table' /\ pipe_table'[k] = p
            /\ (Waits(k)' \/ pipe_clock'[k] < 0)
        BY <1>5, <1>7, <4>2 DEF Waits
      <4> QED BY <4>1, <4>3
    <3>3. CASE MakesPipe /\ p = OutPipe
      <4>1. Unread(p)'
        BY <1>9, <1>13, <3>3
      <4>2. CASE Numbered
        <5>1. entry \in DOMAIN pipe_table' /\ pipe_table'[entry] = p /\ pipe_clock'[entry] > 0
          BY <1>4, <1>6, <1>7, <3>3, <4>2
        <5>2. Waits(entry)'
          BY <5>1 DEF Waits
        <5> QED BY <4>1, <5>1, <5>2
      <4>3. CASE ~Numbered
        <5>1. Between(p)'
          BY <1>4, <1>5, <1>7, <3>3, <4>3 DEF Between
        <5> QED BY <4>1, <5>1
      <4> QED BY <4>2, <4>3
    <3> QED BY <3>1, <3>2, <3>3
  <2>2. ASSUME NEW k \in DOMAIN pipe_table', Waits(k)'
        PROVE  pipe_table'[k] \in shfd'
    <3>1. pipe_clock[k] > 0
      BY <1>5, <1>7, <2>2 DEF Waits
    <3>2. CASE k \in DOMAIN pipe_table
      <4>1. pipe_table[k] \in shfd
        BY <1>1, <3>1, <3>2 DEF PipeInv, Opened, Waits
      <4>2. pipe_table[k] # InPipe
        <5>1. pipe_clock[k] # 0
          BY <1>5, <2>2, <3>1
        <5> QED BY <1>14, <3>2, <5>1
      <4> QED BY <1>5, <1>7, <3>2, <4>1, <4>2
    <3>3. CASE k \notin DOMAIN pipe_table
      <4>1. k = entry /\ MakesPipe /\ pipe_table'[k] = OutPipe
        BY <1>5, <1>6, <2>2, <3>3
      <4> QED BY <1>7, <1>13, <4>1
    <3> QED BY <3>2, <3>3
  <2>3. ASSUME pc' = "fork"
        PROVE  curpipes' \in shfd' /\ \A k \in DOMAIN pipe_table' : pipe_table'[k] # curpipes'
    <3>1. ~Numbered /\ MakesPipe
      BY <1>4, <1>7, <2>3
    <3>2. OutPipe \in shfd'
      BY <1>7, <1>13, <3>1
    <3>3. \A k \in DOMAIN pipe_table' : pipe_table'[k] # OutPipe
      BY <1>4, <1>5, <1>11, <3>1
    <3> QED BY <1>7, <3>2, <3>3
  <2> QED BY <2>1, <2>2, <2>3 DEF Opened
<1>17. Kept'
  <2>1. ASSUME NEW r \in DOMAIN procs, NEW p \in procs[r].kept
        PROVE  Unread(p)' /\ Missed(p)'
    <3>1. Unread(p) /\ Missed(p)
      BY <2>1 DEF PipeInv, Kept
    <3>2. p # InPipe
      <4>1. PICK k \in DOMAIN pipe_table : pipe_table[k] = p /\ pipe_clock[k] < 0
        BY <3>1 DEF Missed
      <4>2. pipe_clock[k] # 0
        BY <1>5, <4>1
      <4> QED BY <1>14, <4>1, <4>2
    <3> QED BY <1>9, <1>10, <3>1, <3>2
  <2>2. ASSUME NEW p \in Leaked
        PROVE  Unread(p)' /\ Missed(p)'
    <3>1. p \in shfd /\ p # InPipe /\ p \notin LaterPipes
      BY <1>4, <2>2 DEF Leaked
    <3>2. PICK k \in DOMAIN pipe_table :
             pipe_table[k] = p /\ (pipe_clock[k] > 0 \/ pipe_clock[k] < 0)
      BY <1>12, <3>1
    <3>3. ~(pipe_clock[k] > 0)
      <4>1. k \in 1 .. (Len(pipe_clock) - fin)
        <5>1. /\ Len(pipe_table) \in Nat /\ DOMAIN pipe_table = 1 .. Len(pipe_table)
              /\ Len(pipe_clock) = Len(pipe_table) + (IF fin = 1 THEN 1 ELSE 0)
          BY <1>1, TableFacts DEF Inv, Rest, ClocksAndTable
        <5>2. fin \in {0, 1}
          BY DEF fin
        <5>3. Len(pipe_clock) - fin = Len(pipe_table)
          BY <5>1, <5>2
        <5> QED BY <5>1, <5>3
      <4> QED BY <3>1, <3>2, <4>1 DEF LaterPipes
    <3>4. Missed(p)
      BY <3>2, <3>3 DEF Missed
    <3>5. Unread(p)
      BY <3>1 DEF PipeInv, Opened
    <3> QED BY <1>9, <1>10, <3>1, <3>4, <3>5
  <2> QED BY <1>7, <2>1, <2>2 DEF Kept
<1>18. OneReader'
  <2>1. InPipe # 0 => Unread(InPipe)
    BY <1>3 DEF PipeInv, Opened
  <2> QED BY <1>7, <2>1 DEF PipeInv, OneReader, Unread
<1> QED BY <1>15, <1>16, <1>17, <1>18 DEF PipeInv

\* The same: the lines' part.
LEMMA ForkKeepsLines ==
    ASSUME Inv, PipeInv, LineInv, Fork
    PROVE  LineInv'
<1>1. pc = "fork"
  BY DEF Fork
<1>2. PICK child, entry : Forked(child, entry)
  BY ForkFacts
<1>3. /\ MakesPipe => OutPipe \notin Pipes /\ OutPipe # 0
      /\ MakesPipe /\ ~Numbered => j # line.stages
      /\ Numbered => j = line.stages /\ line.np > 0
      /\ MakesPipe /\ Numbered => nptmp = 0
      /\ ~MakesPipe /\ ~Numbered => OutPipe = 0 /\ j = line.stages
      /\ ~MakesPipe /\ Numbered =>
            /\ nptmp # 0 /\ nptmp \in DOMAIN pipe_table /\ OutPipe = pipe_table[nptmp]
            /\ pipe_clock[nptmp] = line.np
  BY <1>1, OutputFacts
<1>4. /\ Served' /\ j' > 1 /\ line.kind = "exec"
      /\ \A k \in DOMAIN pipe_table : k \in DOMAIN pipe_table' /\ pipe_table'[k] = pipe_table[k]
      /\ \A k \in DOMAIN pipe_table' :
            k \in DOMAIN pipe_table \/ (Numbered /\ nptmp = 0 /\ k = entry)
  BY <1>1, <1>2, ForkServes
<1>5. Numbered /\ nptmp = 0 =>
         MakesPipe /\ entry \in DOMAIN pipe_table'
         /\ pipe_table'[entry] = OutPipe /\ pipe_clock[entry] = line.np
  BY <1>2 DEF Forked, MakesPipe
<1>6. /\ child \notin DOMAIN procs /\ DOMAIN procs' = DOMAIN procs \cup {child}
      /\ \A r \in DOMAIN procs : procs'[r] = procs[r]
      /\ procs'[child].in = InPipe /\ procs'[child].out = OutPipe /\ procs'[child].line = now
      /\ curpipes' = OutPipe /\ UNCHANGED <<now, line, pipe_clock, nptmp>>
      /\ pc' = IF j = line.stages THEN "tick" ELSE "fork"
      /\ Len(buf') = IF MakesPipe THEN Len(buf) + 1 ELSE Len(buf)
  BY <1>2 DEF Forked
<1>7. Len(buf) \in Nat /\ now \in Nat /\ line.np \in Nat
  BY <1>1, TableFacts, LinesAssumption DEF Inv, Rest, Forking
<1>8. Pipes \subseteq Pipes' /\ 0 \notin Pipes /\ OutPipe \in Pipes' \cup {0}
  <2>1. PICK b \in Nat : b = Len(buf)
    BY <1>7
  <2>2. CASE MakesPipe
    <3>1. Pipes = 1 .. b /\ Pipes' = 1 .. (b + 1) /\ OutPipe = b + 1
      BY <1>6, <2>1, <2>2 DEF Pipes, OutPipe
    <3> QED BY <2>1, <3>1
  <2>3. CASE ~MakesPipe
    <3>1. Pipes = 1 .. b /\ Pipes' = 1 .. b
      BY <1>6, <2>1, <2>3 DEF Pipes
    <3>2. OutPipe \in Pipes \cup {0}
      BY <1>3, <2>3 DEF PipeInv, PipeNumbers
    <3> QED BY <2>1, <3>1, <3>2
  <2> QED BY <2>2, <2>3
<1>9. /\ \A r \in DOMAIN procs : procs[r].out \in Pipes \cup {0} /\ procs[r].line <= now
      /\ j > 1 => \A r \in DOMAIN procs : procs[r].out = curpipes => procs[r].line = now
      /\ \A r \in DOMAIN procs, k \in DOMAIN pipe_table :
            procs[r].line = now => procs[r].out # pipe_table[k]
      /\ \A k \in DOMAIN pipe_table : pipe_table[k] \in Pipes
  BY <1>1 DEF LineInv, Writers, PipeInv, PipeNumbers
<1>10. Reused'
  BY <1>1, <1>6 DEF LineInv, Reused
<1>11. Writers'
  <2>1. \A r \in DOMAIN procs' : procs'[r].out \in Pipes' \cup {0} /\ procs'[r].line <= now'
    BY <1>6, <1>7, <1>8, <1>9
  <2>2. ASSUME pc' = "fork", NEW r \in DOMAIN procs', procs'[r].out = curpipes'
        PROVE  procs'[r].line = now'
    <3>1. OutPipe \notin Pipes /\ OutPipe # 0
      BY <1>3, <1>6, <2>2
    <3>2. r \notin DOMAIN procs
      BY <1>6, <1>9, <2>2, <3>1
    <3> QED BY <1>6, <3>2
  <2>3. ASSUME NEW r \in DOMAIN procs', NEW k \in DOMAIN pipe_table',
               procs'[r].line = now', procs'[r].out = pipe_table'[k]
        PROVE  pc' = "tick" /\ line'.np > 0 /\ pipe_clock'[k] = line'.np
    <3>1. CASE r \in DOMAIN procs
      <4>1. k \notin DOMAIN pipe_table
        BY <1>4, <1>6, <1>9, <2>3, <3>1
      <4>2. MakesPipe /\ pipe_table'[k] = OutPipe
        BY <1>4, <1>5, <4>1
      <4>3. procs[r].out = OutPipe
        BY <1>6, <2>3, <3>1, <4>2
      <4> QED BY <1>3, <1>9, <3>1, <4>2, <4>3
    <3>2. CASE r \notin DOMAIN procs
      <4>1. procs'[r].out = OutPipe
        BY <1>6, <3>2
      <4>2. CASE k \in DOMAIN pipe_table
        <5>1. OutPipe = pipe_table[k] /\ OutPipe \in Pipes
          BY <1>4, <1>9, <2>3, <4>1, <4>2
        <5>2. ~MakesPipe /\ Numbered
          BY <1>3, <1>8, <5>1
        <5>3. k = nptmp
          BY <1>3, <4>2, <5>1, <5>2 DEF PipeInv, PipeNumbers
        <5> QED BY <1>3, <1>6, <5>2, <5>3
      <4>3. CASE k \notin DOMAIN pipe_table
        BY <1>3, <1>4, <1>5, <1>6, <4>3
      <4> QED BY <4>2, <4>3
    <3> QED BY <3>1, <3>2
  <2>4. ASSUME pc' = "tick", line'.np > 0
        PROVE  \E r \in DOMAIN procs', k \in DOMAIN pipe_table' :
                  procs'[r].line = now' /\ procs'[r].out = pipe_table'[k] /\ pipe_clock'[k] = line'.np
    <3>1. Numbered
      BY <1>6, <2>4 DEF Numbered
    <3>2. CASE nptmp = 0
      BY <1>5, <1>6, <3>1, <3>2
    <3>3. CASE nptmp # 0
      <4>1. ~MakesPipe
        BY <1>3, <3>1, <3>3
      <4> QED BY <1>3, <1>4, <1>6, <3>1, <4>1
    <3> QED BY <3>2, <3>3
  <2> QED BY <1>4, <2>1, <2>2, <2>3, <2>4 DEF Writers
<1>12. Readers'
  <2>1. ASSUME NEW r \in DOMAIN procs', procs'[r].line = now', procs'[r].in # 0
        PROVE  \/ \E k \in DOMAIN pipe_table' : pipe_table'[k] = procs'[r].in /\ pipe_clock'[k] = 0
               \/ \A w \in DOMAIN procs' : procs'[w].out = procs'[r].in => procs'[w].line = now'
    <3>1. \/ \E k \in DOMAIN pipe_table : pipe_table[k] = procs'[r].in /\ pipe_clock[k] = 0
          \/ \A w \in DOMAIN procs : procs[w].out = procs'[r].in => procs[w].line = now
      <4>1. CASE r \in DOMAIN procs
        BY <1>6, <2>1, <4>1 DEF LineInv, Readers
      <4>2. CASE r \notin DOMAIN procs
        <5>1. procs'[r].in = InPipe
          BY <1>6, <4>2
        <5>2. CASE j > 1
          BY <1>1, <1>9, <5>1, <5>2, InputFacts
        <5>3. CASE ~(j > 1)
          BY <1>1, <2>1, <5>1, <5>3, InputFacts
        <5> QED BY <5>2, <5>3
      <4> QED BY <4>1, <4>2
    <3> QED BY <1>4, <1>6, <3>1
  <2>2. ASSUME NEW k \in DOMAIN pipe_table', pipe_clock'[k] = 0
        PROVE  \E r \in DOMAIN procs' : procs'[r].line = now' /\ procs'[r].in = pipe_table'[k]
    <3>1. k \in DOMAIN pipe_table /\ pipe_clock[k] = 0
      <4>1. ~(Numbered /\ nptmp = 0 /\ k = entry)
        BY <1>3, <1>5, <1>6, <2>2
      <4> QED BY <1>4, <1>6, <2>2, <4>1
    <3>2. CASE j > 1
      <4>1. Served
        BY <1>1, <3>2 DEF Served
      <4>2. PICK r \in DOMAIN procs : procs[r].line = now /\ procs[r].in = pipe_table[k]
        BY <3>1, <4>1 DEF LineInv, Readers
      <4> QED BY <1>4, <1>6, <3>1, <4>2
    <3>3. CASE ~(j > 1)
      <4>1. pipe_table[k] = InPipe
        BY <1>1, <3>1, <3>3, DueIsInput
      <4> QED BY <1>4, <1>6, <3>1, <4>1
    <3> QED BY <3>2, <3>3
  <2> QED BY <2>1, <2>2 DEF Readers
<1> QED BY <1>10, <1>11, <1>12 DEF LineInv

-----------------------------------------------------------------------------
(***************************************************************************)
(* The theorems about the pipes.                                           *)
(***************************************************************************)
PipesInv == Inv /\ PipeInv /\ LineInv

\* The shell starts with no pipes and no children.
LEMMA PipesInit == Init => PipesInv
<1> SUFFICES ASSUME Init PROVE PipesInv
  OBVIOUS
<1>1. Inv
  BY InitInv
<1>2. /\ pc = "read" /\ pipe_table = <<>> /\ pipe_clock = <<>> /\ procs = <<>> /\ shfd = {}
  BY DEF Init
<1>3. PipeInv
  BY <1>2 DEF PipeInv, PipeNumbers, Opened, Kept, OneReader
<1>4. LineInv
  <2>1. ~Served
    BY <1>2 DEF Served
  <2> QED BY <1>2, <2>1 DEF LineInv, Reused, Writers, Readers
<1> QED BY <1>1, <1>3, <1>4 DEF PipesInv

\* No step of the shell, its handler or its children breaks the invariant.
LEMMA PipesNext == PipesInv /\ [Next]_vars => PipesInv'
<1> SUFFICES ASSUME PipesInv, [Next]_vars PROVE PipeInv' /\ LineInv'
  BY NextInv DEF PipesInv
<1>1. Inv /\ PipeInv /\ LineInv /\ TypeOK /\ ClocksAndTable
  BY DEF PipesInv, Inv, Rest
<1>2. ASSUME NEW l \in Lines, ReadLine(l) PROVE PipeInv' /\ LineInv'
  BY <1>1, <1>2, ReadKeepsPipes
<1>3. CASE Fork
  BY <1>1, <1>3, ForkKeepsPipes, ForkKeepsLines
<1>4. CASE EndLine
  BY <1>1, <1>4, EndLineKeepsPipes
<1>5. CASE Wait \/ signalHandler \/ (\E i \in DOMAIN procs : Child(i)) \/ UNCHANGED vars
  <2>1. Quiet
    BY <1>1, <1>5, QuietSteps
  <2> QED BY <1>1, <2>1, QuietKeeps
<1> QED BY <1>2, <1>3, <1>4, <1>5 DEF Next

\* Every state of the shell's descriptors and of its children's.
THEOREM PipesInvariance == Spec => []PipesInv
  BY PipesInit, PipesNext, PTL DEF Spec

\* A pipe has one reader, whatever lines are typed: the first stage takes the
\* one that is due, and the shell closes it before the next fork (229-238,
\* 286-293).
THEOREM OneReaderCorrect == Spec => []OneReader
<1>1. PipesInv => OneReader
  BY DEF PipesInv, PipeInv
<1> QED BY <1>1, PipesInvariance, PTL

\* No shell and no program keeps the write end of a pipe that a program reads
\* (226-259, 282-293), so every reader sees the end of its input.
THEOREM EndOfInputCorrect == Spec => []EndOfInputVisible
<1>1. PipesInv => EndOfInputVisible
  <2> SUFFICES ASSUME PipesInv, NEW r \in DOMAIN procs, procs[r].in # 0
               PROVE  /\ procs[r].in \notin shfd
                      /\ \A q \in DOMAIN procs : procs[r].in \notin procs[q].kept
    BY DEF EndOfInputVisible
  <2>1. ~Unread(procs[r].in)
    BY DEF Unread
  <2> QED BY <2>1 DEF PipesInv, PipeInv, Opened, Kept
<1> QED BY <1>1, PipesInvariance, PTL

\* At the prompt the shell has the numbered pipes open that later lines read,
\* and no pipe that was read or that is between two stages (282-293).
THEOREM DescriptorsCorrect == Spec => []ShellDescriptors
<1>1. PipesInv => ShellDescriptors
  <2> SUFFICES ASSUME PipesInv, pc = "read"
               PROVE  /\ \A k \in DOMAIN pipe_clock :
                            pipe_clock[k] >= 0 => pipe_table[k] \in shfd
                      /\ \A p \in shfd :
                            /\ \E k \in DOMAIN pipe_table : pipe_table[k] = p
                            /\ \A r \in DOMAIN procs : procs[r].in # p
    BY DEF ShellDescriptors
  <2>1. /\ DOMAIN pipe_clock = DOMAIN pipe_table
        /\ \A k \in DOMAIN pipe_clock : pipe_clock[k] \in Int
    <3>1. /\ DOMAIN pipe_table = 1 .. Len(pipe_table) /\ DOMAIN pipe_clock = 1 .. Len(pipe_clock)
          /\ \A k \in DOMAIN pipe_clock : pipe_clock[k] \in Int
      BY TableFacts DEF PipesInv, Inv, Rest
    <3>2. Len(pipe_clock) = Len(pipe_table) + 0
      BY DEF PipesInv, Inv, Rest, ClocksAndTable
    <3>3. Len(pipe_table) \in Nat
      BY TableFacts DEF PipesInv, Inv, Rest
    <3> QED BY <3>1, <3>2, <3>3
  <2>2. ~Served /\ \A p : ~Between(p)
    BY DEF Served, Between
  <2>3. \A k \in DOMAIN pipe_table : pipe_clock[k] >= 0 => Waits(k)
    BY <2>1, <2>2 DEF Waits
  <2>4. \A k \in DOMAIN pipe_table : Waits(k) => pipe_table[k] \in shfd
    BY DEF PipesInv, PipeInv, Opened
  <2>5. \A p \in shfd : Unread(p) /\ \E k \in DOMAIN pipe_table : pipe_table[k] = p
    BY <2>2 DEF PipesInv, PipeInv, Opened
  <2> QED BY <2>1, <2>3, <2>4, <2>5 DEF Unread
<1> QED BY <1>1, PipesInvariance, PTL

-----------------------------------------------------------------------------
(***************************************************************************)
(* npshell implements NumberedPipes: only a tick is a step of it.          *)
(***************************************************************************)
\* The members of Due and Fed.
IsDue(d) ==
    \E r \in DOMAIN procs, k \in DOMAIN pipe_table :
        /\ d = <<procs[r].line, now + pipe_clock[k]>>
        /\ procs[r].out = pipe_table[k] /\ procs[r].line < now /\ pipe_clock[k] >= 0

IsFed(d) ==
    \E w, r \in DOMAIN procs :
        /\ d = <<procs[w].line, procs[r].line>>
        /\ procs[r].in # 0 /\ procs[w].out = procs[r].in
        /\ procs[w].line # procs[r].line /\ procs[r].line < now

Elements ==
    /\ \A d : d \in Due <=> IsDue(d)
    /\ \A d : d \in Fed <=> IsFed(d)

\* The two sets of the refinement and the conditions that name their elements.
LEMMA DueAndFed == Elements
<1>1. ASSUME NEW d
      PROVE  d \in Due <=> IsDue(d)
  <2>1. ASSUME d \in Due
        PROVE  IsDue(d)
    BY <2>1 DEF Due, IsDue
  <2>2. ASSUME NEW r \in DOMAIN procs, NEW k \in DOMAIN pipe_table,
               d = <<procs[r].line, now + pipe_clock[k]>>, procs[r].out = pipe_table[k],
               procs[r].line < now, pipe_clock[k] >= 0
        PROVE  d \in Due
    <3> DEFINE x == <<r, k>>
    <3>1. x \in (DOMAIN procs) \X (DOMAIN pipe_table) /\ x[1] = r /\ x[2] = k
      OBVIOUS
    <3> QED BY <2>2, <3>1 DEF Due
  <2> QED BY <2>1, <2>2 DEF IsDue
<1>2. ASSUME NEW d
      PROVE  d \in Fed <=> IsFed(d)
  <2>1. ASSUME d \in Fed
        PROVE  IsFed(d)
    BY <2>1 DEF Fed, IsFed
  <2>2. ASSUME NEW w \in DOMAIN procs, NEW r \in DOMAIN procs,
               d = <<procs[w].line, procs[r].line>>, procs[r].in # 0,
               procs[w].out = procs[r].in, procs[w].line # procs[r].line, procs[r].line < now
        PROVE  d \in Fed
    <3> DEFINE x == <<w, r>>
    <3>1. x \in (DOMAIN procs) \X (DOMAIN procs) /\ x[1] = w /\ x[2] = r
      OBVIOUS
    <3> QED BY <2>2, <3>1 DEF Fed
  <2> QED BY <2>1, <2>2 DEF IsFed
<1> QED BY <1>1, <1>2 DEF Elements

\* The same in the next state.
LEMMA ElementsNext == TRUE => Elements'
BY DueAndFed, PTL

\* A step that changes neither is a stutter.
LEMMA SameElements ==
    ASSUME now' = now, \A d : IsDue(d)' <=> IsDue(d), \A d : IsFed(d)' <=> IsFed(d)
    PROVE  UNCHANGED Abstract!npVars
<1>1. Elements /\ Elements'
  BY DueAndFed, ElementsNext
<1>2. Due' = Due
  BY <1>1 DEF Elements
<1>3. Fed' = Fed
  BY <1>1 DEF Elements
<1> QED BY <1>2, <1>3 DEF Abstract!npVars

\* waitpid, the SIGCHLD handler and the programs neither write nor read a
\* numbered pipe anew.
LEMMA QuietStutters ==
    ASSUME Quiet
    PROVE  UNCHANGED Abstract!npVars
<1>1. /\ UNCHANGED <<now, pipe_table, pipe_clock>> /\ DOMAIN procs' = DOMAIN procs
      /\ \A r \in DOMAIN procs :
            /\ procs'[r].in = procs[r].in /\ procs'[r].out = procs[r].out
            /\ procs'[r].line = procs[r].line
  BY DEF Quiet
<1>2. \A d : IsDue(d)' <=> IsDue(d)
  BY <1>1 DEF IsDue
<1>3. \A d : IsFed(d)' <=> IsFed(d)
  BY <1>1 DEF IsFed
<1> QED BY <1>1, <1>2, <1>3, SameElements

\* The parser's new clock has no entry in pipe_table yet.
LEMMA ReadStutters ==
    ASSUME Inv, NEW l \in Lines, ReadLine(l)
    PROVE  UNCHANGED Abstract!npVars
<1>1. UNCHANGED <<now, pipe_table, procs>>
  BY DEF ReadLine
<1>2. DOMAIN pipe_table \subseteq DOMAIN pipe_clock /\ DOMAIN pipe_clock = 1 .. Len(pipe_clock)
      /\ pipe_clock \in Seq(Int)
  BY TableFacts DEF Inv, Rest, TypeOK, PipeTypes
<1>3. \A k \in DOMAIN pipe_table : pipe_clock'[k] = pipe_clock[k]
  <2>1. pipe_clock' = pipe_clock \/ pipe_clock' = Append(pipe_clock, l.np)
    BY DEF ReadLine, ReadExec, ReadBuiltin, ReadEmpty, ReadExit
  <2>2. l.np \in Int
    BY LinesAssumption
  <2>3. \A k \in DOMAIN pipe_clock : Append(pipe_clock, l.np)[k] = pipe_clock[k]
    BY <1>2, <2>2, AppendProperties
  <2> QED BY <1>2, <2>1, <2>3
<1>4. \A d : IsDue(d)' <=> IsDue(d)
  BY <1>1, <1>3 DEF IsDue
<1>5. \A d : IsFed(d)' <=> IsFed(d)
  BY <1>1 DEF IsFed
<1> QED BY <1>1, <1>4, <1>5, SameElements

\* The line that is being executed does not count yet, and what its stages write
\* to is read by no earlier line.
LEMMA ForkStutters ==
    ASSUME PipesInv, Fork
    PROVE  UNCHANGED Abstract!npVars
<1> USE DEF PipesInv
<1>1. pc = "fork" /\ now \in Nat
  BY TableFacts DEF Fork, Inv, Rest
<1>2. PICK child, entry : Forked(child, entry)
  BY ForkFacts
<1>3. /\ child \notin DOMAIN procs /\ DOMAIN procs' = DOMAIN procs \cup {child}
      /\ \A r \in DOMAIN procs : procs'[r] = procs[r]
      /\ procs'[child].out = OutPipe /\ procs'[child].line = now
      /\ UNCHANGED <<now, pipe_clock>>
  BY <1>2 DEF Forked
<1>4. /\ \A k \in DOMAIN pipe_table : k \in DOMAIN pipe_table' /\ pipe_table'[k] = pipe_table[k]
      /\ \A k \in DOMAIN pipe_table' :
            k \in DOMAIN pipe_table \/ (Numbered /\ nptmp = 0 /\ k = entry)
  BY <1>1, <1>2, ForkServes
<1>5. \A k \in DOMAIN pipe_table' : k \notin DOMAIN pipe_table =>
         pipe_table'[k] = OutPipe /\ OutPipe \notin Pipes \cup {0}
  <2>1. Numbered /\ nptmp = 0 => MakesPipe /\ pipe_table'[entry] = OutPipe
    BY <1>2 DEF Forked, MakesPipe
  <2> QED BY <1>1, <1>4, <2>1, OutputFacts
<1>6. \A r \in DOMAIN procs : procs[r].out \in Pipes \cup {0} /\ procs[r].in \in Pipes \cup {0}
  BY DEF LineInv, Writers, PipeInv, PipeNumbers
<1>7. ASSUME NEW r \in DOMAIN procs, procs[r].in # 0
      PROVE  procs[r].in # OutPipe
  <2>1. CASE MakesPipe
    BY <1>1, <1>6, <1>7, <2>1, OutputFacts
  <2>2. CASE ~MakesPipe /\ Numbered
    <3>1. nptmp \in DOMAIN pipe_table /\ OutPipe = pipe_table[nptmp] /\ pipe_clock[nptmp] > 0
      BY <1>1, <2>2, OutputFacts
    <3>2. Waits(nptmp)
      BY <3>1 DEF Waits
    <3>3. OutPipe \in shfd
      BY <1>1, <3>1, <3>2 DEF PipeInv, Opened
    <3> QED BY <3>3 DEF PipeInv, Opened, Unread
  <2>3. CASE ~MakesPipe /\ ~Numbered
    BY <1>1, <1>7, <2>3, OutputFacts
  <2> QED BY <2>1, <2>2, <2>3
<1>8. ASSUME NEW d
      PROVE  IsDue(d)' <=> IsDue(d)
  <2>1. ASSUME NEW r \in DOMAIN procs', NEW k \in DOMAIN pipe_table',
               d = <<procs'[r].line, now' + pipe_clock'[k]>>, procs'[r].out = pipe_table'[k],
               procs'[r].line < now', pipe_clock'[k] >= 0
        PROVE  IsDue(d)
    <3>1. r \in DOMAIN procs
      BY <1>1, <1>3, <2>1
    <3>2. k \in DOMAIN pipe_table
      BY <1>3, <1>5, <1>6, <2>1, <3>1
    <3> QED BY <1>3, <1>4, <2>1, <3>1, <3>2 DEF IsDue
  <2>2. IsDue(d) => IsDue(d)'
    BY <1>3, <1>4 DEF IsDue
  <2> QED BY <2>1, <2>2 DEF IsDue
<1>9. ASSUME NEW d
      PROVE  IsFed(d)' <=> IsFed(d)
  <2>1. ASSUME NEW w \in DOMAIN procs', NEW r \in DOMAIN procs',
               d = <<procs'[w].line, procs'[r].line>>, procs'[r].in # 0,
               procs'[w].out = procs'[r].in, procs'[w].line # procs'[r].line,
               procs'[r].line < now'
        PROVE  IsFed(d)
    <3>1. r \in DOMAIN procs
      BY <1>1, <1>3, <2>1
    <3>2. w \in DOMAIN procs
      BY <1>3, <1>7, <2>1, <3>1
    <3> QED BY <1>3, <2>1, <3>1, <3>2 DEF IsFed
  <2>2. IsFed(d) => IsFed(d)'
    BY <1>3 DEF IsFed
  <2> QED BY <2>1, <2>2 DEF IsFed
<1> QED BY <1>3, <1>8, <1>9, SameElements

\* The end of a line: a line that starts programs reads what is due to it.
LEMMA TickStep ==
    ASSUME PipesInv, EndLine
    PROVE  Abstract!NPNext
<1> USE DEF PipesInv
<1>1. /\ pc = "tick" /\ now' = now + 1 /\ pipe_clock' = Tick(pipe_clock)
      /\ UNCHANGED <<line, pipe_table, procs>>
  BY DEF EndLine
<1>2. /\ DOMAIN pipe_table \subseteq DOMAIN pipe_clock /\ pipe_clock \in Seq(Int)
      /\ \A k \in DOMAIN pipe_clock : pipe_clock[k] \in Int
      /\ now \in Nat
      /\ \A r \in DOMAIN procs : procs[r].line \in Nat
  BY TableFacts DEF Inv, Rest, TypeOK, PipeTypes, ProcRecord
<1>3. \A k \in DOMAIN pipe_table : pipe_clock[k] \in Int /\ pipe_clock'[k] = pipe_clock[k] - 1
  BY <1>1, <1>2, TickType
<1>4. \A r \in DOMAIN procs : procs[r].line <= now
  BY DEF LineInv, Writers
<1>5. line.kind = "exec" => line \in Lines /\ line.np \in Nat
  BY LinesAssumption DEF Inv, TypeOK, ShellTypes, NoLine
<1>6. Served <=> line.kind = "exec"
  BY <1>1 DEF Served
<1>7. \A r \in DOMAIN procs : procs[r].line = now => line.kind = "exec"
  BY <1>6 DEF LineInv, Writers
<1> DEFINE New == line.kind = "exec" /\ line.np > 0
\* What is due after the tick.
<1>8. ASSUME NEW d
      PROVE  IsDue(d)' <=> \/ IsDue(d) /\ d[2] # now
                           \/ New /\ d = <<now, now + line.np>>
  <2>1. ASSUME NEW r \in DOMAIN procs, NEW k \in DOMAIN pipe_table,
               d = <<procs[r].line, (now + 1) + (pipe_clock[k] - 1)>>,
               procs[r].out = pipe_table[k], procs[r].line < now + 1, pipe_clock[k] - 1 >= 0
        PROVE  \/ IsDue(d) /\ d[2] # now
               \/ New /\ d = <<now, now + line.np>>
    <3>1. PICK c \in Int, m \in Nat : c = pipe_clock[k] /\ m = procs[r].line
      BY <1>2, <1>3
    <3>2. d = <<m, now + c>> /\ c > 0 /\ (m < now \/ m = now)
      <4>1. (now + 1) + (c - 1) = now + c /\ c > 0 /\ (m < now \/ m = now)
        BY <1>2, <2>1, <3>1
      <4> QED BY <2>1, <3>1, <4>1
    <3>3. d[2] # now
      BY <1>2, <3>1, <3>2
    <3>4. CASE m < now
      <4>1. IsDue(d)
        BY <2>1, <3>1, <3>2, <3>4 DEF IsDue
      <4> QED BY <3>3, <4>1
    <3>5. CASE m = now
      <4>1. line.np > 0 /\ c = line.np
        BY <2>1, <3>1, <3>5 DEF LineInv, Writers
      <4> QED BY <1>7, <3>1, <3>2, <3>5, <4>1
    <3> QED BY <3>2, <3>4, <3>5
  <2>2. IsDue(d)' => \/ IsDue(d) /\ d[2] # now
                     \/ New /\ d = <<now, now + line.np>>
    <3>1. ASSUME IsDue(d)'
          PROVE  \E r \in DOMAIN procs, k \in DOMAIN pipe_table :
                    /\ d = <<procs[r].line, (now + 1) + (pipe_clock[k] - 1)>>
                    /\ procs[r].out = pipe_table[k] /\ procs[r].line < now + 1
                    /\ pipe_clock[k] - 1 >= 0
      <4>1. PICK r \in DOMAIN procs', k \in DOMAIN pipe_table' :
               /\ d = <<procs'[r].line, now' + pipe_clock'[k]>>
               /\ procs'[r].out = pipe_table'[k] /\ procs'[r].line < now' /\ pipe_clock'[k] >= 0
        BY <3>1 DEF IsDue
      <4> QED BY <1>1, <1>3, <4>1
    <3> QED BY <2>1, <3>1
  <2>3. ASSUME NEW r \in DOMAIN procs, NEW k \in DOMAIN pipe_table, NEW c \in Int, NEW m \in Nat,
               c = pipe_clock[k], m = procs[r].line, d = <<m, now + c>>,
               procs[r].out = pipe_table[k], m <= now, c > 0
        PROVE  IsDue(d)'
    <3>1. now' + pipe_clock'[k] = now + c /\ m < now' /\ pipe_clock'[k] >= 0
      BY <1>1, <1>2, <1>3, <2>3
    <3> QED BY <1>1, <2>3, <3>1 DEF IsDue
  <2>4. ASSUME IsDue(d), d[2] # now
        PROVE  IsDue(d)'
    <3>1. PICK r \in DOMAIN procs, k \in DOMAIN pipe_table :
             /\ d = <<procs[r].line, now + pipe_clock[k]>>
             /\ procs[r].out = pipe_table[k] /\ procs[r].line < now /\ pipe_clock[k] >= 0
      BY <2>4 DEF IsDue
    <3>2. PICK c \in Int, m \in Nat : c = pipe_clock[k] /\ m = procs[r].line
      BY <1>2, <1>3
    <3>3. d[2] = now + c
      BY <3>1, <3>2
    <3>4. c > 0 /\ m <= now
      BY <1>2, <2>4, <3>1, <3>2, <3>3
    <3> QED BY <2>3, <3>1, <3>2, <3>4
  <2>5. ASSUME New, d = <<now, now + line.np>>
        PROVE  IsDue(d)'
    <3>1. PICK r \in DOMAIN procs, k \in DOMAIN pipe_table :
             procs[r].line = now /\ procs[r].out = pipe_table[k] /\ pipe_clock[k] = line.np
      BY <1>1, <2>5 DEF LineInv, Writers
    <3>2. PICK c \in Int, m \in Nat : c = pipe_clock[k] /\ m = procs[r].line
      BY <1>2, <1>3
    <3>3. d = <<m, now + c>> /\ c > 0 /\ m <= now
      BY <1>2, <2>5, <3>1, <3>2
    <3> QED BY <2>3, <3>1, <3>2, <3>3
  <2> QED BY <2>2, <2>4, <2>5
\* What has been read.
<1>9. ASSUME NEW d
      PROVE  IsFed(d)' <=> \/ IsFed(d)
                           \/ line.kind = "exec" /\ IsDue(d) /\ d[2] = now
  <2>1. ASSUME NEW w \in DOMAIN procs, NEW r \in DOMAIN procs,
               d = <<procs[w].line, procs[r].line>>, procs[r].in # 0,
               procs[w].out = procs[r].in, procs[w].line # procs[r].line,
               procs[r].line < now + 1
        PROVE  \/ IsFed(d)
               \/ line.kind = "exec" /\ IsDue(d) /\ d[2] = now
    <3>1. PICK m \in Nat, n \in Nat : m = procs[w].line /\ n = procs[r].line
      BY <1>2
    <3>2. CASE n < now
      BY <2>1, <3>1, <3>2 DEF IsFed
    <3>3. CASE ~(n < now)
      <4>1. n = now /\ m < now
        BY <1>2, <1>4, <2>1, <3>1, <3>3
      <4>2. PICK k \in DOMAIN pipe_table : pipe_table[k] = procs[r].in /\ pipe_clock[k] = 0
        BY <2>1, <3>1, <4>1 DEF LineInv, Readers
      <4>3. d = <<m, now>> /\ now + pipe_clock[k] = now
        BY <1>2, <2>1, <3>1, <4>1, <4>2
      <4>4. IsDue(d)
        BY <2>1, <3>1, <4>1, <4>2, <4>3 DEF IsDue
      <4> QED BY <1>7, <3>1, <4>1, <4>3, <4>4
    <3> QED BY <3>2, <3>3
  <2>2. ASSUME IsFed(d)'
        PROVE  \/ IsFed(d)
               \/ line.kind = "exec" /\ IsDue(d) /\ d[2] = now
    <3>1. PICK w \in DOMAIN procs', r \in DOMAIN procs' :
             /\ d = <<procs'[w].line, procs'[r].line>>
             /\ procs'[r].in # 0 /\ procs'[w].out = procs'[r].in
             /\ procs'[w].line # procs'[r].line /\ procs'[r].line < now'
      BY <2>2 DEF IsFed
    <3> QED BY <1>1, <2>1, <3>1
  <2>3. ASSUME IsFed(d)
        PROVE  IsFed(d)'
    <3>1. PICK w \in DOMAIN procs, r \in DOMAIN procs :
             /\ d = <<procs[w].line, procs[r].line>>
             /\ procs[r].in # 0 /\ procs[w].out = procs[r].in
             /\ procs[w].line # procs[r].line /\ procs[r].line < now
      BY <2>3 DEF IsFed
    <3>2. procs[r].line < now'
      BY <1>1, <1>2, <3>1
    <3> QED BY <1>1, <3>1, <3>2 DEF IsFed
  <2>4. ASSUME line.kind = "exec", IsDue(d), d[2] = now
        PROVE  IsFed(d)'
    <3>1. PICK w \in DOMAIN procs, k \in DOMAIN pipe_table :
             /\ d = <<procs[w].line, now + pipe_clock[k]>>
             /\ procs[w].out = pipe_table[k] /\ procs[w].line < now /\ pipe_clock[k] >= 0
      BY <2>4 DEF IsDue
    <3>2. PICK c \in Int : c = pipe_clock[k]
      BY <1>3
    <3>3. now + c = now
      BY <2>4, <3>1, <3>2
    <3>4. pipe_clock[k] = 0
      BY <1>2, <3>2, <3>3
    <3>5. PICK r \in DOMAIN procs : procs[r].line = now /\ procs[r].in = pipe_table[k]
      BY <1>6, <2>4, <3>4 DEF LineInv, Readers
    <3>6. pipe_table[k] # 0
      BY DEF PipeInv, PipeNumbers, Pipes
    <3>7. procs[r].line < now' /\ procs[w].line # procs[r].line
      BY <1>1, <1>2, <3>1, <3>5
    <3>8. d = <<procs[w].line, procs[r].line>>
      BY <3>1, <3>2, <3>3, <3>5
    <3> QED BY <1>1, <3>1, <3>5, <3>6, <3>7, <3>8 DEF IsFed
  <2> QED BY <2>2, <2>3, <2>4
<1>10. Elements /\ Elements'
  BY DueAndFed, ElementsNext
<1>11. \A d : d \in Abstract!Arriving <=> IsDue(d) /\ d[2] = now
  BY <1>10 DEF Elements, Abstract!Arriving
<1>12. CASE line.kind = "exec"
  <2>1. Fed' = Fed \cup Abstract!Arriving
    BY <1>9, <1>10, <1>11, <1>12 DEF Elements
  <2>2. Due' = (Due \ Abstract!Arriving)
               \cup (IF line.np = 0 THEN {} ELSE {<<now, now + line.np>>})
    <3>1. line.np = 0 \/ line.np > 0
      BY <1>5, <1>12
    <3>2. ~(line.np = 0 /\ line.np > 0)
      OBVIOUS
    <3>3. CASE line.np = 0
      BY <1>8, <1>10, <1>11, <1>12, <3>2, <3>3 DEF Elements
    <3>4. CASE line.np > 0
      BY <1>8, <1>10, <1>11, <1>12, <3>2, <3>4 DEF Elements
    <3> QED BY <3>1, <3>3, <3>4
  <2>3. Abstract!ExecLine(line.np)
    BY <1>1, <2>1, <2>2 DEF Abstract!ExecLine
  <2> QED BY <1>5, <1>12, <2>3 DEF Abstract!NPNext
<1>13. CASE line.kind # "exec"
  <2>1. Fed' = Fed
    BY <1>9, <1>10, <1>13 DEF Elements
  <2>2. Due' = Due \ Abstract!Arriving
    BY <1>8, <1>10, <1>11, <1>13 DEF Elements
  <2> QED BY <1>1, <2>1, <2>2 DEF Abstract!NPNext, Abstract!BuiltinLine
<1> QED BY <1>12, <1>13

\* At the start nothing is due.
LEMMA NumberedInit == Init => Abstract!NPInit
<1> SUFFICES ASSUME Init PROVE Abstract!NPInit
  OBVIOUS
<1>1. now = 0 /\ procs = <<>>
  BY DEF Init
<1>2. \A d : ~IsDue(d) /\ ~IsFed(d)
  BY <1>1 DEF IsDue, IsFed
<1>3. Due = {} /\ Fed = {}
  BY <1>2, DueAndFed DEF Elements
<1> QED BY <1>1, <1>3 DEF Abstract!NPInit

\* Every step is one of NumberedPipes or a stutter.
LEMMA NumberedNext ==
    ASSUME PipesInv, [Next]_vars
    PROVE  [Abstract!NPNext]_(Abstract!npVars)
<1>1. Inv /\ TypeOK /\ ClocksAndTable
  BY DEF PipesInv, Inv, Rest
<1>2. ASSUME NEW l \in Lines, ReadLine(l)
      PROVE  UNCHANGED Abstract!npVars
  BY <1>1, <1>2, ReadStutters
<1>3. CASE Fork
  BY <1>3, ForkStutters
<1>4. CASE EndLine
  BY <1>4, TickStep
<1>5. CASE Wait \/ signalHandler \/ (\E i \in DOMAIN procs : Child(i)) \/ UNCHANGED vars
  BY <1>1, <1>5, QuietSteps, QuietStutters
<1> QED BY <1>2, <1>3, <1>4, <1>5 DEF Next

\* npshell implements the numbered pipes: whatever the lines between them do, a
\* line reads all the lines that are due to it and no other.
THEOREM NumberedPipesCorrect == Spec => ImplementsNumberedPipes
BY NumberedInit, NumberedNext, PipesInvariance, PTL
   DEF Spec, ImplementsNumberedPipes, Abstract!NPSpec

=============================================================================
