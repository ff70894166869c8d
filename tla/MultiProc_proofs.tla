--------------------------- MODULE MultiProc_proofs ---------------------------
(***************************************************************************)
(* Proofs about MultiProc for every number of slots, users and lines: a    *)
(* slot is that of one process, and a semaphore has one holder at a time,  *)
(* or none at all once a broken connection has ended its holder.           *)
(***************************************************************************)
EXTENDS MultiProc, TLAPS, FiniteSetTheorems, SequenceTheorems

-----------------------------------------------------------------------------
(***************************************************************************)
(* The inductive invariant.                                                *)
(***************************************************************************)
Goals == {"all", "piped", "probe", "tell", "pipe", "recv", "close", "clear"}

\* What the line of the user of slot k takes semaphores for: it clears no slot
\* but its own.
Items(k) == {i \in [goal : Goals, slot : Slots] : i.goal = "clear" => i.slot = k}

Types ==
    /\ id \in [Slots -> BOOLEAN] /\ kidpid \in [Slots -> Users \cup {Nobody}]
    /\ sem \in [Slots -> Nat]
    /\ pc \in [Procs -> {"new", "idle", "wait", "body", "fifo", "clearing", "dead",
                         "accept", "setpid"}]
    /\ DOMAIN todo = Procs
    /\ my_id \in [Procs -> Slots]
    /\ semory \in [Procs -> Slots \cup {0}] /\ reg \in [Procs -> Slots \cup {0}]
    /\ sig \in [Procs -> BOOLEAN] /\ hnd \in [Procs -> {"no", "reading", "opened"}]
    /\ pc[Server] \in {"accept", "setpid"}
    /\ \A u \in Users : pc[u] \notin {"accept", "setpid"}

Working(u) == pc[u] \in {"wait", "body", "fifo", "clearing"}

\* A line that goes on has something left to do.
Lines ==
    \A u \in Users :
        /\ todo[u] \in Seq(Items(my_id[u]))
        /\ Working(u) => todo[u] # <<>>
        /\ pc[u] = "clearing" => Head(todo[u]).goal = "clear"
        /\ pc[u] # "new" => semory[u] \in Slots /\ reg[u] \in Slots

\* The process id that the server is about to write down.
Login ==
    pc[Server] = "setpid" =>
        \E u \in Users : todo[Server] = <<u>> /\ my_id[Server] = my_id[u] /\ pc[u] # "new"

\* The process id of a slot is that of a process whose slot it is, or was.
Owner ==
    \A k \in Slots : kidpid[k] # Nobody =>
        my_id[kidpid[k]] = k /\ pc[kidpid[k]] # "new"

Signals ==
    \A p \in Procs : (~Alive(p) => ~sig[p]) /\ (hnd[p] # "no" => Alive(p))

\* The server is sent no signal, a handler that reads a fifo is not sent another,
\* and sem_wait is called with the semaphore opened for it.
Calm ==
    Sound =>
        /\ ~sig[Server] /\ hnd[Server] = "no"
        /\ \A u \in Users :
              /\ hnd[u] # "no" => ~sig[u]
              /\ pc[u] \in {"wait", "body", "clearing"} => reg[u] = At(u)

\* u is a member of Inside(k), of Addressed(k).
Holds(u, k) == pc[u] \in {"body", "clearing"} /\ reg[u] = k
Due(v, k) == Alive(v) /\ my_id[v] = k /\ (sig[v] \/ hnd[v] # "no")

\* The semaphore of slot k is free, or one process holds it, or it is one
\* handler's to post.
Turn(k) ==
    \/ sem[k] = 1 /\ \A u \in Users : ~Holds(u, k) /\ ~Due(u, k)
    \/ sem[k] = 0 /\ \E x \in Users : \A u \in Users : (Holds(u, k) <=> u = x) /\ ~Due(u, k)
    \/ sem[k] = 0 /\ \E x \in Users : \A u \in Users : (Due(u, k) <=> u = x) /\ ~Holds(u, k)

\* It was lost with a process that ended.
Lost(k) == sem[k] = 0 /\ \A u \in Users : ~Holds(u, k) /\ ~Due(u, k)

Kept(k) == Turn(k) \/ (harm # {} /\ Lost(k))
Turns == Sound => \A k \in Slots : Kept(k)

Inv == Types /\ Lines /\ Login /\ Owner /\ Signals /\ Calm /\ Turns /\ SlotsOwned

-----------------------------------------------------------------------------
(***************************************************************************)
(* Lemmas.                                                                 *)
(***************************************************************************)
\* The server is not a user, and nobody's number is not a process.
LEMMA ProcFacts ==
    /\ Users \subseteq Procs /\ Server \in Procs /\ Server \notin Users /\ 0 \notin Procs
    /\ \A p \in Procs : p \in Users \/ p = Server
    /\ 0 \notin Slots /\ 1 \in Slots /\ Slots \subseteq Nat /\ Users \subseteq Nat
BY MultiAssumption DEF Users, Server, Procs, Slots

\* What the lines are made of.
LEMMA LineFacts ==
    ASSUME NEW k \in Slots
    PROVE  /\ ToAll \in Seq(Items(k)) /\ Probes \in Seq(Items(k)) /\ Piped \in Seq(Items(k))
           /\ ToAll # <<>> /\ Probes # <<>> /\ Head(ToAll).slot = 1
           /\ \A goal \in Goals, m \in Slots : goal # "clear" \/ m = k =>
                 One(goal, m) \in Seq(Items(k)) /\ One(goal, m) # <<>>
<1>1. /\ ToAll \in [1 .. MaxClient -> Items(k)] /\ Probes \in [1 .. MaxClient -> Items(k)]
      /\ Piped \in [1 .. MaxClient -> Items(k)]
  BY DEF ToAll, Probes, Piped, Each, Items, Goals, Slots
<1>2. MaxClient \in Nat /\ MaxClient > 0
  BY MultiAssumption
<1>3. ToAll \in Seq(Items(k)) /\ Probes \in Seq(Items(k)) /\ Piped \in Seq(Items(k))
  BY <1>1, <1>2, SeqDef
<1>4. Len(ToAll) = MaxClient /\ Len(Probes) = MaxClient
  BY <1>1, <1>2, <1>3, LenProperties
<1>5. ToAll # <<>> /\ Probes # <<>>
  BY <1>2, <1>4, EmptySeq
<1>6. Head(ToAll).slot = 1
  <2>1. Head(ToAll) = ToAll[1]
    BY <1>3, <1>5, HeadTailProperties
  <2> QED BY <2>1, ProcFacts DEF ToAll, Each
<1>7. ASSUME NEW goal \in Goals, NEW m \in Slots, goal # "clear" \/ m = k
      PROVE  One(goal, m) \in Seq(Items(k)) /\ One(goal, m) # <<>>
  <2> DEFINE i == [goal |-> goal, slot |-> m]
  <2>1. i \in Items(k)
    BY <1>7 DEF Items
  <2> HIDE DEF i
  <2>2. <<i>> \in Seq(Items(k)) /\ <<i>> # <<>>
    BY <2>1
  <2> QED BY <2>2 DEF One, i
<1> QED BY <1>3, <1>5, <1>6, <1>7

\* A semaphore has one holder when it is free, held or handed over.
LEMMA TurnCount ==
    ASSUME NEW k \in Slots, Turn(k), sem[k] \in Nat
    PROVE  sem[k] + Cardinality(Inside(k)) + Cardinality(Addressed(k)) = 1
<1>1. Inside(k) = {u \in Users : Holds(u, k)} /\ Addressed(k) = {u \in Users : Due(u, k)}
  BY DEF Inside, Addressed, Holds, Due
<1>2. Cardinality({}) = 0 /\ \A x : Cardinality({x}) = 1
  BY FS_EmptySet, FS_Singleton
<1>3. CASE sem[k] = 1 /\ \A u \in Users : ~Holds(u, k) /\ ~Due(u, k)
  <2>1. Inside(k) = {} /\ Addressed(k) = {}
    BY <1>1, <1>3
  <2> QED BY <1>2, <1>3, <2>1
<1>4. ASSUME sem[k] = 0, NEW x \in Users,
             \A u \in Users : (Holds(u, k) <=> u = x) /\ ~Due(u, k)
      PROVE  sem[k] + Cardinality(Inside(k)) + Cardinality(Addressed(k)) = 1
  <2>1. Inside(k) = {x} /\ Addressed(k) = {}
    BY <1>1, <1>4
  <2>2. Cardinality(Inside(k)) = 1 /\ Cardinality(Addressed(k)) = 0
    BY <1>2, <2>1, Zenon
  <2> QED BY <1>4, <2>2
<1>5. ASSUME sem[k] = 0, NEW x \in Users,
             \A u \in Users : (Due(u, k) <=> u = x) /\ ~Holds(u, k)
      PROVE  sem[k] + Cardinality(Inside(k)) + Cardinality(Addressed(k)) = 1
  <2>1. Inside(k) = {} /\ Addressed(k) = {x}
    BY <1>1, <1>5
  <2>2. Cardinality(Inside(k)) = 0 /\ Cardinality(Addressed(k)) = 1
    BY <1>2, <2>1, Zenon
  <2> QED BY <1>5, <2>2
<1> QED BY <1>3, <1>4, <1>5 DEF Turn

\* A semaphore that was lost has no holder.
LEMMA LostCount ==
    ASSUME NEW k \in Slots, Lost(k)
    PROVE  sem[k] + Cardinality(Inside(k)) + Cardinality(Addressed(k)) = 0
<1>1. Inside(k) = {} /\ Addressed(k) = {}
  BY DEF Inside, Addressed, Holds, Due, Lost
<1>2. Cardinality(Inside(k)) = 0 /\ Cardinality(Addressed(k)) = 0
  BY <1>1, FS_EmptySet, Zenon
<1> QED BY <1>2 DEF Lost

\* How the turn at a semaphore changes: not at all, taken, given back, passed
\* to a handler, and posted by it.
SameTurn(k) ==
    /\ sem'[k] = sem[k]
    /\ \A u \in Users : (Holds(u, k)' <=> Holds(u, k)) /\ (Due(u, k)' <=> Due(u, k))

\* A turn is not lost.
LEMMA TurnNotLost ==
    ASSUME NEW k \in Slots, Kept(k),
           sem[k] > 0 \/ \E u \in Users : Holds(u, k) \/ Due(u, k)
    PROVE  Turn(k)
BY DEF Kept, Lost

\* A step that leaves the semaphore, its holder and its signals alone.
LEMMA TurnSame ==
    ASSUME NEW k \in Slots, Kept(k), SameTurn(k), harm # {} => harm' # {}
    PROVE  Kept(k)'
BY DEF Kept, Lost, Turn, SameTurn

\* sem_wait.
LEMMA TurnTaken ==
    ASSUME NEW k \in Slots, Kept(k), NEW x \in Users, sem[k] > 0, sem'[k] = sem[k] - 1,
           Holds(x, k)', \A u \in Users : u # x => (Holds(u, k)' <=> Holds(u, k)),
           \A u \in Users : Due(u, k)' <=> Due(u, k)
    PROVE  Kept(k)'
BY TurnNotLost DEF Turn, Kept

\* sem_post by the holder.
LEMMA TurnGiven ==
    ASSUME NEW k \in Slots, Kept(k), NEW x \in Users, sem'[k] = sem[k] + 1,
           Holds(x, k), ~Holds(x, k)',
           \A u \in Users : u # x => (Holds(u, k)' <=> Holds(u, k)),
           \A u \in Users : Due(u, k)' <=> Due(u, k)
    PROVE  Kept(k)'
BY TurnNotLost DEF Turn, Kept

\* The signal to v.
LEMMA TurnPassed ==
    ASSUME NEW k \in Slots, Kept(k), NEW x \in Users, NEW v \in Users, sem'[k] = sem[k],
           Holds(x, k), ~Holds(x, k)', Due(v, k)',
           \A u \in Users : u # x => (Holds(u, k)' <=> Holds(u, k)),
           \A u \in Users : u # v => (Due(u, k)' <=> Due(u, k))
    PROVE  Kept(k)'
BY TurnNotLost DEF Turn, Kept

\* sem_post by the handler.
LEMMA TurnPosted ==
    ASSUME NEW k \in Slots, Kept(k), NEW v \in Users, sem'[k] = sem[k] + 1,
           Due(v, k), ~Due(v, k)',
           \A u \in Users : Holds(u, k)' <=> Holds(u, k),
           \A u \in Users : u # v => (Due(u, k)' <=> Due(u, k))
    PROVE  Kept(k)'
BY TurnNotLost DEF Turn, Kept

\* The process whose turn it is ends, or its signal goes to one that has ended.
LEMMA TurnLost ==
    ASSUME NEW k \in Slots, Kept(k), NEW x \in Users, sem'[k] = sem[k], harm' # {},
           ~Holds(x, k)', ~Due(x, k)',
           \A u \in Users : u # x => (Holds(u, k)' <=> Holds(u, k)) /\ (Due(u, k)' <=> Due(u, k))
    PROVE  Kept(k)'
BY DEF Turn, Kept, Lost

-----------------------------------------------------------------------------
(***************************************************************************)
(* What most steps share.                                                  *)
(***************************************************************************)
\* Nobody has connected.
LEMMA InvInit == Init => Inv
<1> SUFFICES ASSUME Init PROVE Inv
  OBVIOUS
<1> USE ProcFacts DEF Init
<1>1. Types
  <2>1. pc \in [Procs -> {"new", "accept"}]
    OBVIOUS
  <2>2. pc[Server] = "accept" /\ \A u \in Users : pc[u] = "new"
    OBVIOUS
  <2>3. sem \in [Slots -> Nat]
    OBVIOUS
  <2> QED BY <2>1, <2>2, <2>3 DEF Types, Nobody
<1>2. \A u \in Users : pc[u] = "new" /\ todo[u] = <<>> /\ reg[u] = 0 /\ ~sig[u] /\ hnd[u] = "no"
  OBVIOUS
<1>3. Lines
  BY <1>2, EmptySeq DEF Lines, Working
<1>4. Login /\ Owner /\ Signals
  BY <1>2 DEF Login, Owner, Signals, Nobody
<1>5. Calm /\ SlotsOwned
  BY <1>2 DEF Calm, SlotsOwned, Alive
<1>6. Turns
  BY <1>2 DEF Turns, Kept, Turn, Holds, Due, Alive
<1> QED BY <1>1, <1>3, <1>4, <1>5, <1>6 DEF Inv

\* u goes on with its line, or is at the prompt again.
Onward(u) ==
    /\ \A q \in Procs : q # u => /\ pc'[q] = pc[q] /\ todo'[q] = todo[q]
                                 /\ reg'[q] = reg[q] /\ semory'[q] = semory[q]
    /\ pc'[u] \in {"idle", "wait", "fifo"}
    /\ todo'[u] \in Seq(Items(my_id[u]))
    /\ pc'[u] # "idle" => todo'[u] # <<>>
    /\ pc'[u] = "wait" => reg'[u] = Head(todo'[u]).slot
    /\ reg'[u] \in Slots /\ semory'[u] \in Slots
    /\ pc' \in [Procs -> {"new", "idle", "wait", "body", "fifo", "clearing", "dead",
                          "accept", "setpid"}]
    /\ semory' \in [Procs -> Slots \cup {0}] /\ reg' \in [Procs -> Slots \cup {0}]
    /\ DOMAIN todo' = Procs

\* The next semaphore of a line.
LEMMA GoOnOnward ==
    ASSUME Types, Lines, NEW u \in Users, pc[u] # "new",
           NEW rest \in Seq(Items(my_id[u])), GoOn(u, rest)
    PROVE  Onward(u)
<1> USE DEF Types
<1>1. u \in Procs /\ reg[u] \in Slots /\ semory[u] \in Slots
  BY ProcFacts DEF Lines
<1>2. /\ todo' = [todo EXCEPT ![u] = rest]
      /\ pc' = [pc EXCEPT ![u] = IF rest = <<>> THEN "idle" ELSE "wait"]
  BY DEF GoOn
<1>3. /\ pc' \in [Procs -> {"new", "idle", "wait", "body", "fifo", "clearing", "dead",
                            "accept", "setpid"}]
      /\ pc'[u] = IF rest = <<>> THEN "idle" ELSE "wait"
      /\ \A q \in Procs : q # u => pc'[q] = pc[q]
  BY <1>1, <1>2
<1>4. /\ DOMAIN todo' = Procs /\ todo'[u] = rest
      /\ \A q \in Procs : q # u => todo'[q] = todo[q]
  BY <1>1, <1>2
<1>5. CASE rest = <<>>
  <2>1. UNCHANGED <<semory, reg>>
    BY <1>5 DEF GoOn
  <2> QED BY <1>1, <1>3, <1>4, <1>5, <2>1 DEF Onward
<1>6. CASE rest # <<>>
  <2>1. Head(rest) \in Items(my_id[u])
    BY <1>6, HeadTailProperties
  <2>2. Head(rest).slot \in Slots
    BY <2>1 DEF Items
  <2>3. /\ semory' = [semory EXCEPT ![u] = Head(rest).slot]
        /\ reg' = [reg EXCEPT ![u] = Head(rest).slot]
    BY <1>6 DEF GoOn
  <2>4. PICK k \in Slots : k = Head(rest).slot
    BY <2>2
  <2>5. /\ semory' \in [Procs -> Slots \cup {0}] /\ reg' \in [Procs -> Slots \cup {0}]
        /\ semory'[u] = k /\ reg'[u] = k
        /\ \A q \in Procs : q # u => reg'[q] = reg[q] /\ semory'[q] = semory[q]
    BY <1>1, <2>3, <2>4
  <2> QED BY <1>3, <1>4, <1>6, <2>4, <2>5 DEF Onward
<1> QED BY <1>5, <1>6

\* A user's step that frees no slot and takes none.
LEMMA KeepsUsers ==
    ASSUME Inv, UNCHANGED <<id, kidpid, my_id>>,
           pc'[Server] = pc[Server], todo'[Server] = todo[Server],
           \A v \in Users : pc[v] # "new" => pc'[v] # "new",
           \A v \in Users : pc'[v] \notin {"new", "dead", "clearing"} =>
                               pc[v] \notin {"new", "dead", "clearing"}
    PROVE  Login' /\ Owner' /\ SlotsOwned'
<1> USE DEF Inv
<1>1. Login'
  BY DEF Login
<1>2. Owner'
  <2>1. ASSUME NEW k \in Slots, kidpid'[k] # Nobody
        PROVE  my_id'[kidpid'[k]] = k /\ pc'[kidpid'[k]] # "new"
    <3>1. PICK v \in Users : v = kidpid[k]
      BY <2>1 DEF Types
    <3>2. my_id[v] = k /\ pc[v] # "new"
      BY <2>1, <3>1 DEF Owner
    <3>3. pc'[v] # "new"
      BY <3>2
    <3> QED BY <3>1, <3>2, <3>3
  <2> QED BY <2>1 DEF Owner
<1>3. SlotsOwned'
  BY DEF SlotsOwned, Alive
<1> QED BY <1>1, <1>2, <1>3

\* What going on keeps.
LEMMA OnwardKeeps ==
    ASSUME Inv, NEW u \in Users, pc[u] \notin {"new", "dead", "clearing"}, Onward(u),
           UNCHANGED <<id, kidpid, my_id>>
    PROVE  /\ Lines' /\ Login' /\ Owner' /\ SlotsOwned'
           /\ \A q \in Procs : Alive(q)' <=> Alive(q)
           /\ pc'[Server] \in {"accept", "setpid"}
           /\ \A v \in Users : pc'[v] \notin {"accept", "setpid"}
           /\ \A v \in Users, k \in Slots : v # u => (Holds(v, k)' <=> Holds(v, k))
           /\ \A k \in Slots : ~Holds(u, k)'
<1> USE ProcFacts DEF Inv
<1>1. /\ \A q \in Procs : q # u => /\ pc'[q] = pc[q] /\ todo'[q] = todo[q]
                                   /\ reg'[q] = reg[q] /\ semory'[q] = semory[q]
      /\ pc'[u] \in {"idle", "wait", "fifo"}
      /\ todo'[u] \in Seq(Items(my_id[u]))
      /\ pc'[u] # "idle" => todo'[u] # <<>>
      /\ reg'[u] \in Slots /\ semory'[u] \in Slots
  BY DEF Onward
<1>2. Lines'
  <2>1. ASSUME NEW v \in Users, v # u
        PROVE  /\ todo'[v] \in Seq(Items(my_id'[v]))
               /\ Working(v)' => todo'[v] # <<>>
               /\ pc'[v] = "clearing" => Head(todo'[v]).goal = "clear"
               /\ pc'[v] # "new" => semory'[v] \in Slots /\ reg'[v] \in Slots
    BY <1>1, <2>1 DEF Lines, Working
  <2>2. /\ todo'[u] \in Seq(Items(my_id'[u]))
        /\ Working(u)' => todo'[u] # <<>>
        /\ pc'[u] = "clearing" => Head(todo'[u]).goal = "clear"
        /\ pc'[u] # "new" => semory'[u] \in Slots /\ reg'[u] \in Slots
    BY <1>1 DEF Working
  <2> QED BY <2>1, <2>2 DEF Lines
<1>3. Login' /\ Owner' /\ SlotsOwned'
  <2>1. \A v \in Users : pc[v] # "new" => pc'[v] # "new"
    BY <1>1
  <2>2. \A v \in Users : pc'[v] \notin {"new", "dead", "clearing"} =>
                            pc[v] \notin {"new", "dead", "clearing"}
    BY <1>1
  <2>3. pc'[Server] = pc[Server] /\ todo'[Server] = todo[Server]
    BY <1>1
  <2> QED BY <2>1, <2>2, <2>3, KeepsUsers
<1>4. \A q \in Procs : Alive(q)' <=> Alive(q)
  BY <1>1 DEF Alive
<1>5. pc'[Server] \in {"accept", "setpid"} /\ \A v \in Users : pc'[v] \notin {"accept", "setpid"}
  BY <1>1 DEF Types
<1>6. \A v \in Users, k \in Slots : v # u => (Holds(v, k)' <=> Holds(v, k))
  BY <1>1 DEF Holds
<1>7. \A k \in Slots : ~Holds(u, k)'
  BY <1>1 DEF Holds
<1> QED BY <1>2, <1>3, <1>4, <1>5, <1>6, <1>7

\* Where a line's next semaphore is opened, sem_wait is called with it.
LEMMA OnwardCalm ==
    ASSUME Inv, NEW u \in Users, Onward(u), UNCHANGED my_id,
           Sound' => Sound,
           Sound' => ~sig'[Server] /\ hnd'[Server] = "no"
                         /\ \A v \in Users : hnd'[v] # "no" => ~sig'[v]
    PROVE  Calm'
<1>1. ASSUME Sound', NEW v \in Users, pc'[v] \in {"wait", "body", "clearing"}
      PROVE  reg'[v] = At(v)'
  <2>1. CASE v = u
    BY <1>1, <2>1 DEF Onward, At
  <2>2. CASE v # u
    <3>1. pc'[v] = pc[v] /\ todo'[v] = todo[v] /\ reg'[v] = reg[v]
      BY <2>2, ProcFacts DEF Onward
    <3> QED BY <1>1, <3>1 DEF Inv, Calm, At
  <2> QED BY <2>1, <2>2
<1> QED BY <1>1 DEF Calm

-----------------------------------------------------------------------------
(***************************************************************************)
(* One lemma for each kind of step.                                        *)
(***************************************************************************)
\* A line is typed.
LEMMA TypedInv ==
    ASSUME Inv, NEW u \in Users, NEW items \in Seq(Items(my_id[u])), Typed(u, items)
    PROVE  Inv'
<1> USE ProcFacts DEF Inv
<1>1. /\ pc[u] = "idle" /\ GoOn(u, items)
      /\ UNCHANGED <<id, kidpid, sem, my_id, sig, hnd, harm>>
  BY DEF Typed, shared, handler
<1>0. (Sound' => Sound) /\ (harm # {} => harm' # {})
  BY <1>1 DEF Sound
<1>2. Onward(u)
  BY <1>1, GoOnOnward
<1>3. /\ Lines' /\ Login' /\ Owner' /\ SlotsOwned'
      /\ \A q \in Procs : Alive(q)' <=> Alive(q)
      /\ pc'[Server] \in {"accept", "setpid"}
      /\ \A v \in Users : pc'[v] \notin {"accept", "setpid"}
      /\ \A v \in Users, k \in Slots : v # u => (Holds(v, k)' <=> Holds(v, k))
      /\ \A k \in Slots : ~Holds(u, k)'
  BY <1>1, <1>2, OnwardKeeps
<1>4. Types'
  BY <1>1, <1>2, <1>3 DEF Types, Onward
<1>5. Signals'
  BY <1>1, <1>3 DEF Signals
<1>6. Calm'
  <2>1. Sound' => ~sig'[Server] /\ hnd'[Server] = "no"
                      /\ \A v \in Users : hnd'[v] # "no" => ~sig'[v]
    BY <1>0, <1>1 DEF Calm
  <2> QED BY <1>0, <1>1, <1>2, <2>1, OnwardCalm
<1>7. Turns'
  <2>1. ASSUME Sound', NEW k \in Slots
        PROVE  Kept(k)'
    <3>1. Kept(k)
      BY <1>0, <1>1, <2>1 DEF Turns
    <3>2. ~Holds(u, k)
      BY <1>1 DEF Holds
    <3>3. SameTurn(k)
      BY <1>1, <1>3, <3>2 DEF SameTurn, Due
    <3> QED BY <1>0, <3>1, <3>3, TurnSame
  <2> QED BY <1>0, <2>1 DEF Turns
<1> QED BY <1>3, <1>4, <1>5, <1>6, <1>7

\* sem_wait.
LEMMA WaitInv ==
    ASSUME Inv, NEW u \in Users, Wait(u)
    PROVE  Inv'
<1> USE ProcFacts DEF Inv
<1>1. /\ pc[u] = "wait" /\ sem[reg[u]] > 0 /\ reg[u] \in Slots
      /\ sem' = [sem EXCEPT ![reg[u]] = @ - 1] /\ pc' = [pc EXCEPT ![u] = "body"]
      /\ UNCHANGED <<id, kidpid, todo, my_id, semory, reg, sig, hnd, harm>>
  BY DEF Wait, Available, shared, handler, Lines
<1>0. (Sound' => Sound) /\ (harm # {} => harm' # {})
  BY <1>1 DEF Sound
<1>2. pc'[u] = "body" /\ \A q \in Procs : q # u => pc'[q] = pc[q]
  BY <1>1 DEF Types
<1>3. PICK n \in Slots : n = reg[u]
  BY <1>1
<1>4. sem'[n] = sem[n] - 1 /\ sem[n] > 0 /\ \A k \in Slots : k # n => sem'[k] = sem[k]
  BY <1>1, <1>3 DEF Types
<1>5. Types'
  <2>1. sem' \in [Slots -> Nat]
    <3>1. sem' = [sem EXCEPT ![n] = sem[n] - 1] /\ sem[n] \in Nat /\ sem[n] > 0
      BY <1>1, <1>3 DEF Types
    <3>2. sem[n] - 1 \in Nat
      BY <3>1
    <3> QED BY <3>1, <3>2 DEF Types
  <2>2. pc' \in [Procs -> {"new", "idle", "wait", "body", "fifo", "clearing", "dead",
                           "accept", "setpid"}]
    BY <1>1 DEF Types
  <2> QED BY <1>1, <1>2, <2>1, <2>2 DEF Types
<1>6. Lines'
  BY <1>1, <1>2 DEF Lines, Working
<1>7. Login' /\ Owner' /\ SlotsOwned'
  <2>1. \A v \in Users : pc[v] # "new" => pc'[v] # "new"
    BY <1>2
  <2>2. \A v \in Users : pc'[v] \notin {"new", "dead", "clearing"} =>
                            pc[v] \notin {"new", "dead", "clearing"}
    BY <1>1, <1>2
  <2>3. pc'[Server] = pc[Server] /\ todo'[Server] = todo[Server]
    BY <1>1, <1>2
  <2> QED BY <1>1, <2>1, <2>2, <2>3, KeepsUsers
<1>8. \A q \in Procs : Alive(q)' <=> Alive(q)
  BY <1>1, <1>2 DEF Alive
<1>9. Signals'
  BY <1>1, <1>8 DEF Signals
<1>10. Calm'
  BY <1>0, <1>1, <1>2 DEF Calm, At
<1>11. Turns'
  <2>1. ASSUME Sound', NEW k \in Slots
        PROVE  Kept(k)'
    <3>1. Kept(k)
      BY <1>0, <1>1, <2>1 DEF Turns
    <3>2. \A v \in Users : Due(v, k)' <=> Due(v, k)
      BY <1>1, <1>8 DEF Due
    <3>3. \A v \in Users : v # u => (Holds(v, k)' <=> Holds(v, k))
      BY <1>1, <1>2 DEF Holds
    <3>4. CASE k = n
      <4>1. Holds(u, k)'
        BY <1>1, <1>2, <1>3, <3>4 DEF Holds
      <4> QED BY <1>4, <3>1, <3>2, <3>3, <3>4, <4>1, TurnTaken
    <3>5. CASE k # n
      <4>1. ~Holds(u, k) /\ ~Holds(u, k)'
        BY <1>1, <1>3, <3>5 DEF Holds
      <4>2. SameTurn(k)
        BY <1>4, <3>2, <3>3, <3>5, <4>1 DEF SameTurn
      <4> QED BY <1>0, <3>1, <4>2, TurnSame
    <3> QED BY <3>4, <3>5
  <2> QED BY <1>0, <2>1 DEF Turns
<1> QED BY <1>5, <1>6, <1>7, <1>9, <1>10, <1>11

\* The end of what a semaphore protects: sem_post.
Released(u) ==
    /\ pc[u] = "body" /\ PostOpened(u) /\ Onward(u)
    /\ UNCHANGED <<id, kidpid, my_id, sig, hnd>>

\* sem_post gives the turn back, and nothing else.
LEMMA ReleasedInv ==
    ASSUME Inv, NEW u \in Users, Released(u)
    PROVE  Inv'
<1> USE ProcFacts DEF Inv
<1>1. /\ pc[u] = "body" /\ Onward(u) /\ UNCHANGED <<id, kidpid, my_id, sig, hnd>>
      /\ sem' = [sem EXCEPT ![semory[u]] = @ + 1] /\ semory[u] \in Slots /\ reg[u] \in Slots
      /\ harm' = IF semory[u] = reg[u] THEN harm ELSE harm \cup {"race"}
  BY DEF Released, PostOpened, Post, Lines
<1>0. (Sound' => Sound) /\ (harm # {} => harm' # {})
  BY <1>1 DEF Sound
<1>2. /\ Lines' /\ Login' /\ Owner' /\ SlotsOwned'
      /\ \A q \in Procs : Alive(q)' <=> Alive(q)
      /\ pc'[Server] \in {"accept", "setpid"}
      /\ \A v \in Users : pc'[v] \notin {"accept", "setpid"}
      /\ \A v \in Users, k \in Slots : v # u => (Holds(v, k)' <=> Holds(v, k))
      /\ \A k \in Slots : ~Holds(u, k)'
  BY <1>1, OnwardKeeps
<1>3. Sound' => Sound /\ semory[u] = reg[u]
  BY <1>1 DEF Sound
<1>4. PICK n \in Slots : n = semory[u]
  BY <1>1
<1>5. /\ sem' \in [Slots -> Nat] /\ sem'[n] = sem[n] + 1
      /\ \A k \in Slots : k # n => sem'[k] = sem[k]
  BY <1>1, <1>4 DEF Types
<1>6. Types'
  BY <1>1, <1>2, <1>5 DEF Types, Onward
<1>7. Signals'
  BY <1>1, <1>2 DEF Signals
<1>8. Calm'
  <2>1. Sound' => ~sig'[Server] /\ hnd'[Server] = "no"
                      /\ \A v \in Users : hnd'[v] # "no" => ~sig'[v]
    BY <1>0, <1>1, <1>3 DEF Calm
  <2> QED BY <1>0, <1>1, <1>3, <2>1, OnwardCalm
<1>9. Turns'
  <2>1. ASSUME Sound', NEW k \in Slots
        PROVE  Kept(k)'
    <3>1. Kept(k) /\ n = reg[u]
      BY <1>0, <1>3, <1>4, <2>1 DEF Turns
    <3>2. \A v \in Users : Due(v, k)' <=> Due(v, k)
      BY <1>1, <1>2 DEF Due
    <3>3. CASE k = n
      <4>1. Holds(u, k)
        BY <1>1, <3>1, <3>3 DEF Holds
      <4> QED BY <1>2, <1>5, <3>1, <3>2, <3>3, <4>1, TurnGiven
    <3>4. CASE k # n
      <4>1. ~Holds(u, k)
        BY <3>1, <3>4 DEF Holds
      <4>2. SameTurn(k)
        BY <1>2, <1>5, <3>2, <3>4, <4>1 DEF SameTurn
      <4> QED BY <1>0, <3>1, <4>2, TurnSame
    <3> QED BY <3>3, <3>4
  <2> QED BY <1>0, <2>1 DEF Turns
<1> QED BY <1>2, <1>6, <1>7, <1>8, <1>9

\* A message or a user pipe for the user of the slot: mode, and the signal.
Sends(u) ==
    /\ pc[u] = "body" /\ Signal(At(u)) /\ Onward(u)
    /\ UNCHANGED <<id, kidpid, my_id, hnd, sem>>

\* A signal passes the turn to the handler of the user it is for.
LEMMA SendsInv ==
    ASSUME Inv, NEW u \in Users, At(u) \in Slots, Sends(u)
    PROVE  Inv'
<1> USE ProcFacts DEF Inv
<1>1. PICK n \in Slots : n = At(u)
  OBVIOUS
<1>2. /\ pc[u] = "body" /\ Onward(u) /\ UNCHANGED <<id, kidpid, my_id, hnd, sem>>
      /\ sig' = IF kidpid[n] = Nobody THEN [p \in Procs |-> Alive(p)]
                ELSE [sig EXCEPT ![kidpid[n]] = @ \/ Alive(kidpid[n])]
      /\ harm' = IF kidpid[n] = Nobody THEN harm \cup {"group"}
                 ELSE IF Alive(kidpid[n]) THEN harm ELSE harm \cup {"gone"}
  BY <1>1 DEF Sends, Signal
<1>0. (Sound' => Sound) /\ (harm # {} => harm' # {})
  BY <1>2 DEF Sound
<1>3. /\ Lines' /\ Login' /\ Owner' /\ SlotsOwned'
      /\ \A q \in Procs : Alive(q)' <=> Alive(q)
      /\ pc'[Server] \in {"accept", "setpid"}
      /\ \A v \in Users : pc'[v] \notin {"accept", "setpid"}
      /\ \A v \in Users, k \in Slots : v # u => (Holds(v, k)' <=> Holds(v, k))
      /\ \A k \in Slots : ~Holds(u, k)'
  BY <1>2, OnwardKeeps
<1>4. Sound' => Sound /\ kidpid[n] # Nobody
  BY <1>2 DEF Sound
<1>5. \A p \in Procs : Alive(p) \in BOOLEAN
  BY DEF Alive
<1>6. sig' \in [Procs -> BOOLEAN]
  <2>1. CASE kidpid[n] = Nobody
    <3>1. sig' = [p \in Procs |-> Alive(p)]
      BY <1>2, <2>1
    <3> QED BY <1>5, <3>1
  <2>2. CASE kidpid[n] # Nobody
    <3>1. PICK v \in Procs : v = kidpid[n]
      BY <2>2 DEF Types
    <3>2. sig' = [sig EXCEPT ![v] = sig[v] \/ Alive(v)]
      BY <1>2, <2>2, <3>1
    <3>3. (sig[v] \/ Alive(v)) \in BOOLEAN
      BY Zenon
    <3> QED BY <3>2, <3>3 DEF Types
  <2> QED BY <2>1, <2>2
<1>7. Types'
  BY <1>2, <1>3, <1>6 DEF Types, Onward
<1>8. Signals'
  <2>1. ASSUME NEW p \in Procs, ~Alive(p)
        PROVE  ~sig'[p]
    <3>1. CASE kidpid[n] = Nobody
      BY <1>2, <2>1, <3>1
    <3>2. CASE kidpid[n] # Nobody
      <4>1. PICK v \in Procs : v = kidpid[n]
        BY <3>2 DEF Types
      <4>2. sig' = [sig EXCEPT ![v] = sig[v] \/ Alive(v)]
        BY <1>2, <3>2, <4>1
      <4>3. ~sig[p]
        BY <2>1 DEF Signals
      <4>4. p # v => sig'[p] = sig[p]
        BY <4>2 DEF Types
      <4>5. sig'[v] = (sig[v] \/ Alive(v))
        BY <4>2 DEF Types
      <4> QED BY <2>1, <4>3, <4>4, <4>5
    <3> QED BY <3>1, <3>2
  <2> QED BY <1>2, <1>3, <2>1 DEF Signals
\* The user of the slot gets the signal, unless the process has ended.
<1>9. ASSUME Sound'
      PROVE  \E v \in Users : /\ my_id[v] = n /\ \A p \in Procs : p # v => sig'[p] = sig[p]
                              /\ sig'[v] <=> sig[v] \/ Alive(v)
                              /\ Alive(v) \/ harm' # {}
  <2>1. PICK v \in Users : v = kidpid[n]
    BY <1>4, <1>9 DEF Types
  <2>2. my_id[v] = n
    BY <1>4, <1>9, <2>1 DEF Owner
  <2>3. sig' = [sig EXCEPT ![v] = sig[v] \/ Alive(v)]
    BY <1>2, <1>4, <1>9, <2>1
  <2>4. (sig'[v] <=> sig[v] \/ Alive(v)) /\ \A p \in Procs : p # v => sig'[p] = sig[p]
    BY <2>1, <2>3 DEF Types
  <2>5. Alive(v) \/ harm' # {}
    BY <1>2, <1>4, <1>9, <2>1
  <2> QED BY <2>2, <2>4, <2>5
<1>10. ASSUME Sound'
       PROVE  Kept(n) /\ Holds(u, n) /\ \A v \in Users : ~Due(v, n)
  <2>1. Kept(n) /\ reg[u] = n
    BY <1>1, <1>2, <1>4, <1>10 DEF Turns, Calm
  <2>2. Holds(u, n)
    BY <1>2, <2>1 DEF Holds
  <2>3. Turn(n)
    BY <2>1, <2>2, TurnNotLost
  <2> QED BY <2>1, <2>2, <2>3 DEF Turn
<1>11. Calm'
  <2>1. ASSUME Sound'
        PROVE  ~sig'[Server] /\ hnd'[Server] = "no" /\ \A v \in Users : hnd'[v] # "no" => ~sig'[v]
    <3>1. PICK v \in Users : /\ my_id[v] = n /\ \A p \in Procs : p # v => sig'[p] = sig[p]
                             /\ sig'[v] <=> sig[v] \/ Alive(v)
      BY <1>9, <2>1
    <3>2. Alive(v) => hnd[v] = "no"
      BY <1>10, <2>1, <3>1 DEF Due
    <3>3. ~Alive(v) => ~sig'[v]
      BY <3>1 DEF Signals
    <3> QED BY <1>2, <1>4, <2>1, <3>1, <3>2, <3>3 DEF Calm
  <2> QED BY <1>2, <1>4, <2>1, OnwardCalm
<1>12. Turns'
  <2>1. ASSUME Sound', NEW k \in Slots
        PROVE  Kept(k)'
    <3>1. PICK v \in Users : /\ my_id[v] = n /\ \A p \in Procs : p # v => sig'[p] = sig[p]
                             /\ sig'[v] <=> sig[v] \/ Alive(v)
                             /\ Alive(v) \/ harm' # {}
      BY <1>9, <2>1
    <3>2. Kept(k) /\ Kept(n) /\ Holds(u, n)
      BY <1>4, <1>10, <2>1 DEF Turns
    <3>3. \A w \in Users : w # v => (Due(w, k)' <=> Due(w, k))
      BY <1>2, <1>3, <3>1 DEF Due
    <3>4. ~Alive(v) => ~Due(v, k) /\ ~Due(v, k)'
      BY <1>3 DEF Due
    <3>5. sem'[k] = sem[k] /\ ~Holds(u, k)'
      BY <1>2, <1>3
    <3>6. CASE k = n /\ Alive(v)
      <4>1. Due(v, k)'
        BY <1>2, <1>3, <3>1, <3>6 DEF Due
      <4> QED BY <1>3, <3>2, <3>3, <3>5, <3>6, <4>1, TurnPassed
    <3>7. CASE k = n /\ ~Alive(v)
      <4>1. \A w \in Users : Due(w, k)' <=> Due(w, k)
        BY <3>3, <3>4, <3>7
      <4>2. ~Due(u, k)'
        BY <1>10, <2>1, <3>7, <4>1
      <4> QED BY <1>3, <3>1, <3>2, <3>5, <3>7, <4>1, <4>2, TurnLost
    <3>8. CASE k # n
      <4>1. ~Due(v, k) /\ ~Due(v, k)'
        BY <1>2, <3>1, <3>8 DEF Due
      <4>2. ~Holds(u, k)
        BY <3>2, <3>8 DEF Holds
      <4>3. SameTurn(k)
        BY <1>3, <3>3, <3>5, <4>1, <4>2 DEF SameTurn
      <4> QED BY <1>0, <3>2, <4>3, TurnSame
    <3> QED BY <3>6, <3>7, <3>8
  <2> QED BY <2>1 DEF Turns
<1> QED BY <1>3, <1>7, <1>8, <1>11, <1>12

\* client_clear, first part: the slot is free.
LEMMA ClearInv ==
    ASSUME Inv, NEW u \in Users, Clear(u)
    PROVE  Inv'
<1> USE ProcFacts DEF Inv
<1>1. /\ pc[u] = "body" /\ Head(todo[u]).goal = "clear"
      /\ id' = [id EXCEPT ![At(u)] = FALSE] /\ kidpid' = [kidpid EXCEPT ![At(u)] = Nobody]
      /\ pc' = [pc EXCEPT ![u] = "clearing"]
      /\ UNCHANGED <<sem, todo, my_id, semory, reg, sig, hnd, harm>>
  BY DEF Clear, Body, handler
<1>0. (Sound' => Sound) /\ (harm # {} => harm' # {})
  BY <1>1 DEF Sound
<1>2. At(u) = my_id[u] /\ my_id[u] \in Slots
  <2>1. Head(todo[u]) \in Items(my_id[u])
    BY <1>1, HeadTailProperties DEF Lines, Working
  <2> QED BY <1>1, <2>1 DEF Items, At, Types
<1>3. PICK n \in Slots : n = my_id[u]
  BY <1>2
<1>4. pc'[u] = "clearing" /\ \A q \in Procs : q # u => pc'[q] = pc[q]
  BY <1>1 DEF Types
<1>5. /\ id'[n] = FALSE /\ \A k \in Slots : k # n => id'[k] = id[k]
      /\ kidpid'[n] = Nobody /\ \A k \in Slots : k # n => kidpid'[k] = kidpid[k]
      /\ id' \in [Slots -> BOOLEAN] /\ kidpid' \in [Slots -> Users \cup {Nobody}]
  BY <1>1, <1>2, <1>3 DEF Types
<1>6. Types'
  <2>1. pc' \in [Procs -> {"new", "idle", "wait", "body", "fifo", "clearing", "dead",
                           "accept", "setpid"}]
    BY <1>1 DEF Types
  <2>2. pc'[Server] \in {"accept", "setpid"} /\ \A v \in Users : pc'[v] \notin {"accept", "setpid"}
    BY <1>4 DEF Types
  <2> QED BY <1>1, <1>5, <2>1, <2>2 DEF Types
<1>7. Lines'
  BY <1>1, <1>4 DEF Lines, Working
<1>8. Login'
  BY <1>1, <1>4 DEF Login
<1>9. Owner'
  <2>1. ASSUME NEW k \in Slots, kidpid'[k] # Nobody
        PROVE  my_id'[kidpid'[k]] = k /\ pc'[kidpid'[k]] # "new"
    <3>1. k # n /\ kidpid'[k] = kidpid[k]
      BY <1>5, <2>1
    <3>2. PICK v \in Users : v = kidpid[k]
      BY <2>1, <3>1 DEF Types
    <3>3. my_id[v] = k /\ pc[v] # "new"
      BY <2>1, <3>1, <3>2 DEF Owner
    <3>4. pc'[v] # "new"
      BY <1>4, <3>3
    <3> QED BY <1>1, <3>1, <3>2, <3>3, <3>4
  <2> QED BY <2>1 DEF Owner
<1>10. SlotsOwned'
  <2>1. ASSUME NEW v \in Users, pc'[v] \notin {"new", "dead", "clearing"}
        PROVE  v # u /\ pc[v] = pc'[v] /\ my_id[v] # n
    <3>1. v # u /\ pc[v] = pc'[v]
      BY <1>4, <2>1
    <3>2. my_id[v] # my_id[u]
      BY <1>1, <2>1, <3>1 DEF SlotsOwned, Alive
    <3> QED BY <1>3, <3>1, <3>2
  <2>2. ASSUME NEW v \in Users, pc'[v] \notin {"new", "dead", "clearing"}
        PROVE  /\ id'[my_id'[v]]
               /\ \A w \in Users : pc'[w] \notin {"new", "dead", "clearing"} /\ my_id'[w] = my_id'[v]
                     => w = v
    <3>1. id[my_id[v]] /\ my_id[v] \in Slots /\ my_id[v] # n
      BY <2>1, <2>2 DEF SlotsOwned, Alive, Types
    <3>2. ASSUME NEW w \in Users, pc'[w] \notin {"new", "dead", "clearing"}, my_id'[w] = my_id'[v]
          PROVE  w = v
      <4>1. pc[w] \notin {"new", "dead", "clearing"} /\ pc[v] \notin {"new", "dead", "clearing"}
        BY <2>1, <2>2, <3>2
      <4> QED BY <1>1, <3>2, <4>1 DEF SlotsOwned, Alive
    <3> QED BY <1>1, <1>5, <3>1, <3>2
  <2> QED BY <2>2 DEF SlotsOwned, Alive
<1>11. \A q \in Procs : Alive(q)' <=> Alive(q)
  BY <1>1, <1>4 DEF Alive
<1>12. Signals'
  BY <1>1, <1>11 DEF Signals
<1>13. Calm'
  BY <1>0, <1>1, <1>4 DEF Calm, At
<1>14. Turns'
  <2>1. \A k \in Slots : SameTurn(k)
    BY <1>1, <1>4, <1>11 DEF SameTurn, Holds, Due
  <2> QED BY <1>0, <1>1, <2>1, TurnSame DEF Turns
<1> QED BY <1>6, <1>7, <1>8, <1>9, <1>10, <1>12, <1>13, <1>14

\* client_clear, second part: the pipes, the semaphore, and the process ends.
LEMMA ClearPipesInv ==
    ASSUME Inv, NEW u \in Users, ClearPipes(u)
    PROVE  Inv'
<1> USE ProcFacts DEF Inv
<1>1. /\ pc[u] = "clearing" /\ hnd[u] = "no" /\ semory[u] \in Slots /\ reg[u] \in Slots
      /\ sem' = [sem EXCEPT ![semory[u]] = @ + 1]
      /\ harm' = IF semory[u] = reg[u] THEN harm ELSE harm \cup {"race"}
      /\ pc' = [pc EXCEPT ![u] = "dead"] /\ todo' = [todo EXCEPT ![u] = <<>>]
      /\ sig' = [sig EXCEPT ![u] = FALSE]
      /\ UNCHANGED <<id, kidpid, my_id, semory, reg, hnd>>
  BY DEF ClearPipes, Main, PostOpened, Post, Lines
<1>0. (Sound' => Sound) /\ (harm # {} => harm' # {})
  BY <1>1 DEF Sound
<1>2. At(u) = my_id[u]
  <2>1. Head(todo[u]) \in Items(my_id[u]) /\ Head(todo[u]).goal = "clear"
    BY <1>1, HeadTailProperties DEF Lines, Working
  <2> QED BY <2>1 DEF Items, At
<1>3. PICK n \in Slots : n = semory[u]
  BY <1>1
<1>4. /\ pc'[u] = "dead" /\ \A q \in Procs : q # u => pc'[q] = pc[q]
      /\ todo'[u] = <<>> /\ \A q \in Procs : q # u => todo'[q] = todo[q]
      /\ DOMAIN todo' = Procs
  BY <1>1 DEF Types
<1>5. ~sig'[u] /\ \A q \in Procs : q # u => sig'[q] = sig[q]
  BY <1>1 DEF Types
<1>6. /\ sem' \in [Slots -> Nat] /\ sem'[n] = sem[n] + 1
      /\ \A k \in Slots : k # n => sem'[k] = sem[k]
  BY <1>1, <1>3 DEF Types
<1>7. Sound' => Sound /\ semory[u] = reg[u]
  BY <1>1 DEF Sound
<1>8. Types'
  <2>1. pc' \in [Procs -> {"new", "idle", "wait", "body", "fifo", "clearing", "dead",
                           "accept", "setpid"}]
    BY <1>1 DEF Types
  <2>2. pc'[Server] \in {"accept", "setpid"} /\ \A v \in Users : pc'[v] \notin {"accept", "setpid"}
    BY <1>4 DEF Types
  <2>3. sig' \in [Procs -> BOOLEAN]
    BY <1>1 DEF Types
  <2> QED BY <1>1, <1>4, <1>6, <2>1, <2>2, <2>3 DEF Types
<1>9. Lines'
  <2>1. \A S : <<>> \in Seq(S)
    BY EmptySeq
  <2>2. todo'[u] \in Seq(Items(my_id'[u]))
    BY <1>4, <2>1
  <2> QED BY <1>1, <1>4, <2>2 DEF Lines, Working
<1>10. Login' /\ Owner' /\ SlotsOwned'
  <2>1. \A v \in Users : pc[v] # "new" => pc'[v] # "new"
    BY <1>4
  <2>2. \A v \in Users : pc'[v] \notin {"new", "dead", "clearing"} =>
                            pc[v] \notin {"new", "dead", "clearing"}
    BY <1>4
  <2>3. pc'[Server] = pc[Server] /\ todo'[Server] = todo[Server]
    BY <1>4
  <2> QED BY <1>1, <2>1, <2>2, <2>3, KeepsUsers
<1>11. ~Alive(u)' /\ \A q \in Procs : q # u => (Alive(q)' <=> Alive(q))
  BY <1>4 DEF Alive
<1>12. Signals'
  BY <1>1, <1>5, <1>11 DEF Signals
<1>13. Calm'
  BY <1>0, <1>1, <1>4, <1>5, <1>7 DEF Calm, At
<1>14. Turns'
  <2>1. ASSUME Sound', NEW k \in Slots
        PROVE  Kept(k)'
    <3>1. Kept(k) /\ Kept(n) /\ n = reg[u] /\ n = my_id[u]
      BY <1>0, <1>1, <1>2, <1>3, <1>7, <2>1 DEF Turns, Calm
    <3>2. Holds(u, n)
      BY <1>1, <3>1 DEF Holds
    <3>3. ~Due(u, n)
      BY <3>1, <3>2, TurnNotLost DEF Turn
    <3>4. ~Due(u, k) /\ ~Due(u, k)'
      BY <1>11, <3>1, <3>3 DEF Due
    <3>5. \A v \in Users : v # u => (Due(v, k)' <=> Due(v, k))
      BY <1>1, <1>5, <1>11 DEF Due
    <3>6. \A v \in Users : Due(v, k)' <=> Due(v, k)
      BY <3>4, <3>5
    <3>7. ~Holds(u, k)' /\ \A v \in Users : v # u => (Holds(v, k)' <=> Holds(v, k))
      BY <1>1, <1>4 DEF Holds
    <3>8. CASE k = n
      BY <1>6, <3>1, <3>2, <3>6, <3>7, <3>8, TurnGiven
    <3>9. CASE k # n
      <4>1. ~Holds(u, k)
        BY <3>1, <3>9 DEF Holds
      <4>2. SameTurn(k)
        BY <1>6, <3>6, <3>7, <3>9, <4>1 DEF SameTurn
      <4> QED BY <1>0, <3>1, <4>2, TurnSame
    <3> QED BY <3>8, <3>9
  <2> QED BY <1>0, <2>1 DEF Turns
<1> QED BY <1>8, <1>9, <1>10, <1>12, <1>13, <1>14

\* A process ends, at the prompt or by writing to a broken connection.
LEMMA DiesInv ==
    ASSUME Inv, NEW u \in Users, pc[u] \in {"idle", "wait", "body", "fifo", "clearing"},
           pc[u] = "clearing" => sig[u], hnd[u] = "no", Dies(u)
    PROVE  Inv'
<1> USE ProcFacts DEF Inv
<1>1. /\ pc' = [pc EXCEPT ![u] = "dead"] /\ todo' = [todo EXCEPT ![u] = <<>>]
      /\ sig' = [sig EXCEPT ![u] = FALSE]
      /\ harm' = IF sig[u] \/ pc[u] = "body" THEN harm \cup {"broken"} ELSE harm
      /\ UNCHANGED <<id, kidpid, sem, my_id, semory, reg, hnd>>
  BY DEF Dies, shared
<1>2. /\ pc'[u] = "dead" /\ \A q \in Procs : q # u => pc'[q] = pc[q]
      /\ todo'[u] = <<>> /\ \A q \in Procs : q # u => todo'[q] = todo[q]
      /\ DOMAIN todo' = Procs
  BY <1>1 DEF Types
<1>3. ~sig'[u] /\ \A q \in Procs : q # u => sig'[q] = sig[q]
  BY <1>1 DEF Types
<1>4. /\ Sound' => Sound
      /\ harm # {} => harm' # {}
      /\ harm' = {} => ~sig[u] /\ pc[u] # "body" /\ pc[u] # "clearing"
  BY <1>1 DEF Sound
<1>5. Types'
  <2>1. pc' \in [Procs -> {"new", "idle", "wait", "body", "fifo", "clearing", "dead",
                           "accept", "setpid"}]
    BY <1>1 DEF Types
  <2>2. pc'[Server] \in {"accept", "setpid"} /\ \A v \in Users : pc'[v] \notin {"accept", "setpid"}
    BY <1>2 DEF Types
  <2>3. sig' \in [Procs -> BOOLEAN]
    BY <1>1 DEF Types
  <2> QED BY <1>1, <1>2, <2>1, <2>2, <2>3 DEF Types
<1>6. Lines'
  <2>1. \A S : <<>> \in Seq(S)
    BY EmptySeq
  <2>2. todo'[u] \in Seq(Items(my_id'[u]))
    BY <1>2, <2>1
  <2> QED BY <1>1, <1>2, <2>2 DEF Lines, Working
<1>7. Login' /\ Owner' /\ SlotsOwned'
  <2>1. \A v \in Users : pc[v] # "new" => pc'[v] # "new"
    BY <1>2
  <2>2. \A v \in Users : pc'[v] \notin {"new", "dead", "clearing"} =>
                            pc[v] \notin {"new", "dead", "clearing"}
    BY <1>2
  <2>3. pc'[Server] = pc[Server] /\ todo'[Server] = todo[Server]
    BY <1>2
  <2> QED BY <1>1, <2>1, <2>2, <2>3, KeepsUsers
<1>8. ~Alive(u)' /\ \A q \in Procs : q # u => (Alive(q)' <=> Alive(q))
  BY <1>2 DEF Alive
<1>9. Signals'
  BY <1>1, <1>3, <1>8 DEF Signals
<1>10. Calm'
  BY <1>1, <1>2, <1>3, <1>4 DEF Calm, At
<1>11. Turns'
  <2>1. ASSUME Sound', NEW k \in Slots
        PROVE  Kept(k)'
    <3>1. Kept(k)
      BY <1>4, <2>1 DEF Turns
    <3>2. ~Due(u, k)' /\ ~Holds(u, k)'
      BY <1>2, <1>8 DEF Due, Holds
    <3>3. \A v \in Users : v # u => (Holds(v, k)' <=> Holds(v, k)) /\ (Due(v, k)' <=> Due(v, k))
      BY <1>1, <1>2, <1>3, <1>8 DEF Due, Holds
    <3>4. CASE harm' # {}
      BY <1>1, <3>1, <3>2, <3>3, <3>4, TurnLost
    <3>5. CASE harm' = {}
      <4>1. ~Due(u, k) /\ ~Holds(u, k)
        BY <1>4, <3>5 DEF Due, Holds
      <4>2. SameTurn(k)
        BY <1>1, <3>2, <3>3, <4>1 DEF SameTurn
      <4> QED BY <1>4, <3>1, <4>2, TurnSame
    <3> QED BY <3>4, <3>5
  <2> QED BY <2>1 DEF Turns
<1> QED BY <1>5, <1>6, <1>7, <1>9, <1>10, <1>11

\* SIGPIPE.
LEMMA SigPipeInv ==
    ASSUME Inv, NEW u \in Users, SigPipe(u)
    PROVE  Inv'
<1>1. pc[u] \in {"idle", "wait", "body", "fifo", "clearing"}
  BY ProcFacts DEF SigPipe, Writes, Alive, Inv, Types
<1>2. (pc[u] = "clearing" => sig[u]) /\ hnd[u] = "no" /\ Dies(u)
  BY DEF SigPipe, Writes, Main
<1> QED BY <1>1, <1>2, DiesInv

-----------------------------------------------------------------------------
(***************************************************************************)
(* The handler and the server.                                             *)
(***************************************************************************)
\* client_handler, up to the post or to the open of the fifo.
LEMMA HandlerInv ==
    ASSUME Inv, NEW p \in Procs, client_handler(p)
    PROVE  Inv'
<1> USE ProcFacts DEF Inv
<1>1. /\ Alive(p) /\ sig[p] /\ hnd[p] = "no"
      /\ sig' = [sig EXCEPT ![p] = FALSE] /\ semory' = [semory EXCEPT ![p] = my_id[p]]
      /\ UNCHANGED <<id, kidpid, pc, todo, my_id>>
  BY DEF client_handler, shared
<1>2. PICK n \in Slots : n = my_id[p]
  BY DEF Types
<1>3. \/ reg' = reg /\ harm' = harm
      \/ reg' = [reg EXCEPT ![p] = n] /\ harm' = harm \cup {"race"}
  BY <1>2 DEF client_handler
<1>0. (Sound' => Sound) /\ (harm # {} => harm' # {})
  BY <1>3 DEF Sound
<1>4. \/ sem' = [sem EXCEPT ![n] = @ + 1] /\ hnd' = hnd
      \/ sem' = sem /\ hnd' = [hnd EXCEPT ![p] = "reading"]
  BY <1>2 DEF client_handler, Shown, Post
<1>5. ~sig'[p] /\ (\A q \in Procs : q # p => sig'[q] = sig[q]) /\ sig' \in [Procs -> BOOLEAN]
  BY <1>1 DEF Types
<1>6. /\ semory'[p] = n /\ \A q \in Procs : q # p => semory'[q] = semory[q]
      /\ semory' \in [Procs -> Slots \cup {0}]
  BY <1>1, <1>2 DEF Types
<1>7. /\ reg'[p] \in {reg[p], n} /\ \A q \in Procs : q # p => reg'[q] = reg[q]
      /\ reg' \in [Procs -> Slots \cup {0}]
  BY <1>2, <1>3 DEF Types
<1>8. /\ \A q \in Procs : q # p => hnd'[q] = hnd[q]
      /\ hnd' \in [Procs -> {"no", "reading", "opened"}]
  BY <1>4 DEF Types
<1>9. sem' \in [Slots -> Nat] /\ \A k \in Slots : k # n => sem'[k] = sem[k]
  BY <1>4 DEF Types
<1>10. Sound' => Sound /\ reg' = reg
  BY <1>3 DEF Sound
<1>11. Types'
  BY <1>1, <1>5, <1>6, <1>7, <1>8, <1>9 DEF Types
<1>12. Lines'
  <2>1. ASSUME NEW v \in Users, pc[v] # "new"
        PROVE  semory'[v] \in Slots /\ reg'[v] \in Slots
    <3>1. semory[v] \in Slots /\ reg[v] \in Slots
      BY <2>1 DEF Lines
    <3> QED BY <1>6, <1>7, <3>1
  <2> QED BY <1>1, <2>1 DEF Lines, Working
<1>13. Login' /\ Owner' /\ SlotsOwned'
  BY <1>1 DEF Login, Owner, SlotsOwned, Alive
<1>14. \A q \in Procs : Alive(q)' <=> Alive(q)
  BY <1>1 DEF Alive
<1>15. Signals'
  BY <1>1, <1>5, <1>8, <1>14 DEF Signals
<1>16. Calm'
  <2>1. ASSUME Sound'
        PROVE  p # Server
    BY <1>0, <1>1, <1>10, <2>1 DEF Calm
  <2>2. ASSUME Sound', NEW v \in Users
        PROVE  /\ hnd'[v] # "no" => ~sig'[v]
               /\ pc'[v] \in {"wait", "body", "clearing"} => reg'[v] = At(v)'
    <3>1. hnd[v] # "no" => ~sig[v]
      BY <1>0, <1>10, <2>2 DEF Calm
    <3>2. hnd'[v] # "no" => ~sig'[v]
      BY <1>5, <1>8, <3>1
    <3>3. pc'[v] \in {"wait", "body", "clearing"} => reg'[v] = At(v)'
      BY <1>0, <1>1, <1>10, <2>2 DEF Calm, At
    <3> QED BY <3>2, <3>3
  <2>3. Sound' => ~sig'[Server] /\ hnd'[Server] = "no"
    BY <1>0, <1>5, <1>8, <1>10, <2>1 DEF Calm
  <2> QED BY <1>0, <2>2, <2>3 DEF Calm
<1>17. Turns'
  <2>1. ASSUME Sound', NEW k \in Slots
        PROVE  Kept(k)'
    <3>1. Kept(k) /\ p \in Users
      BY <1>0, <1>1, <1>10, <2>1 DEF Turns, Calm
    <3>2. \A v \in Users : Holds(v, k)' <=> Holds(v, k)
      BY <1>1, <1>10, <2>1 DEF Holds
    <3>3. \A v \in Users : v # p => (Due(v, k)' <=> Due(v, k))
      BY <1>1, <1>5, <1>8, <1>14 DEF Due
    <3>4. k # n => ~Due(p, k) /\ ~Due(p, k)'
      BY <1>1, <1>2 DEF Due
    <3>5. CASE k # n
      <4>1. SameTurn(k)
        BY <1>9, <3>2, <3>3, <3>4, <3>5 DEF SameTurn
      <4> QED BY <1>0, <3>1, <4>1, TurnSame
    <3>6. CASE k = n /\ sem' = [sem EXCEPT ![n] = @ + 1] /\ hnd' = hnd
      <4>1. sem'[k] = sem[k] + 1
        BY <3>6 DEF Types
      <4>2. Due(p, k) /\ ~Due(p, k)'
        BY <1>1, <1>2, <1>5, <3>6 DEF Due
      <4> QED BY <3>1, <3>2, <3>3, <4>1, <4>2, TurnPosted
    <3>7. CASE k = n /\ sem' = sem /\ hnd' = [hnd EXCEPT ![p] = "reading"]
      <4>1. hnd'[p] = "reading"
        BY <3>7 DEF Types
      <4>2. Due(p, k) /\ Due(p, k)'
        BY <1>1, <1>2, <1>14, <3>7, <4>1 DEF Due
      <4>3. SameTurn(k)
        BY <3>2, <3>3, <3>7, <4>2 DEF SameTurn
      <4> QED BY <1>0, <3>1, <4>3, TurnSame
    <3> QED BY <1>4, <3>5, <3>6, <3>7
  <2> QED BY <1>0, <2>1 DEF Turns
<1> QED BY <1>11, <1>12, <1>13, <1>15, <1>16, <1>17

\* What is left of a line that goes on.
LEMMA RestTyped ==
    ASSUME Lines, NEW u \in Users, Working(u)
    PROVE  /\ Rest(u) \in Seq(Items(my_id[u])) /\ ToAll \o Rest(u) \in Seq(Items(my_id[u]))
           /\ Piped \o Rest(u) \in Seq(Items(my_id[u]))
           /\ Head(todo[u]) \in Items(my_id[u]) /\ At(u) \in Slots
           /\ Head(todo[u]).goal = "clear" => At(u) = my_id[u]
<1>1. todo[u] \in Seq(Items(my_id[u])) /\ todo[u] # <<>>
  BY DEF Lines
<1>2. Rest(u) \in Seq(Items(my_id[u])) /\ Head(todo[u]) \in Items(my_id[u])
  BY <1>1, HeadTailProperties DEF Rest
<1>3. ToAll \in Seq(Items(my_id[u])) /\ Piped \in Seq(Items(my_id[u]))
  <2>1. /\ ToAll \in [1 .. MaxClient -> Items(my_id[u])] /\ MaxClient \in Nat
        /\ Piped \in [1 .. MaxClient -> Items(my_id[u])]
    BY MultiAssumption DEF ToAll, Piped, Each, Items, Goals, Slots
  <2> QED BY <2>1, SeqDef
<1>4. ToAll \o Rest(u) \in Seq(Items(my_id[u])) /\ Piped \o Rest(u) \in Seq(Items(my_id[u]))
  BY <1>2, <1>3, ConcatProperties
<1> QED BY <1>2, <1>4 DEF Items, At

\* The reader's handler and the writer have opened the fifo.
LEMMA RendezvousInv ==
    ASSUME Inv, NEW p \in Procs, NEW w \in Users, Rendezvous(p, w)
    PROVE  Inv'
<1> USE ProcFacts DEF Inv
<1>1. /\ hnd[p] = "reading" /\ pc[w] = "fifo" /\ hnd' = [hnd EXCEPT ![p] = "opened"]
      /\ GoOn(w, Piped \o Rest(w)) /\ UNCHANGED <<id, kidpid, sem, my_id, sig, harm>>
  BY DEF Rendezvous, shared
<1>0. (Sound' => Sound) /\ (harm # {} => harm' # {})
  BY <1>1 DEF Sound
<1>2. Onward(w)
  <2>1. Piped \o Rest(w) \in Seq(Items(my_id[w]))
    BY <1>1, RestTyped DEF Working
  <2> QED BY <1>1, <2>1, GoOnOnward
<1>3. /\ Lines' /\ Login' /\ Owner' /\ SlotsOwned'
      /\ \A q \in Procs : Alive(q)' <=> Alive(q)
      /\ pc'[Server] \in {"accept", "setpid"}
      /\ \A v \in Users : pc'[v] \notin {"accept", "setpid"}
      /\ \A v \in Users, k \in Slots : v # w => (Holds(v, k)' <=> Holds(v, k))
      /\ \A k \in Slots : ~Holds(w, k)'
  BY <1>1, <1>2, OnwardKeeps
<1>4. /\ hnd' \in [Procs -> {"no", "reading", "opened"}]
      /\ \A q \in Procs : hnd'[q] = "no" <=> hnd[q] = "no"
  BY <1>1 DEF Types
<1>5. Types'
  BY <1>1, <1>2, <1>3, <1>4 DEF Types, Onward
<1>6. Signals'
  BY <1>1, <1>3, <1>4 DEF Signals
<1>7. Calm'
  <2>1. Sound' => ~sig'[Server] /\ hnd'[Server] = "no"
                      /\ \A v \in Users : hnd'[v] # "no" => ~sig'[v]
    BY <1>0, <1>1, <1>4 DEF Calm
  <2> QED BY <1>0, <1>1, <1>2, <2>1, OnwardCalm
<1>8. Turns'
  <2>1. ASSUME Sound', NEW k \in Slots
        PROVE  Kept(k)'
    <3>1. Kept(k)
      BY <1>0, <1>1, <2>1 DEF Turns
    <3>2. ~Holds(w, k)
      BY <1>1 DEF Holds
    <3>3. \A v \in Users : Due(v, k)' <=> Due(v, k)
      BY <1>1, <1>3, <1>4 DEF Due
    <3>4. SameTurn(k)
      BY <1>1, <1>3, <3>2, <3>3 DEF SameTurn
    <3> QED BY <1>0, <3>1, <3>4, TurnSame
  <2> QED BY <1>0, <2>1 DEF Turns
<1> QED BY <1>3, <1>5, <1>6, <1>7, <1>8

\* client_handler, after the open.
LEMMA PipeOpenedInv ==
    ASSUME Inv, NEW p \in Procs, PipeOpened(p)
    PROVE  Inv'
<1> USE ProcFacts DEF Inv
<1>1. /\ hnd[p] = "opened" /\ sem' = [sem EXCEPT ![my_id[p]] = @ + 1]
      /\ hnd' = [hnd EXCEPT ![p] = "no"]
      /\ UNCHANGED <<id, kidpid, pc, todo, my_id, semory, reg, sig, harm>>
  BY DEF PipeOpened, Post
<1>0. (Sound' => Sound) /\ (harm # {} => harm' # {})
  BY <1>1 DEF Sound
<1>2. PICK n \in Slots : n = my_id[p]
  BY DEF Types
<1>3. /\ sem' \in [Slots -> Nat] /\ sem'[n] = sem[n] + 1
      /\ \A k \in Slots : k # n => sem'[k] = sem[k]
  BY <1>1, <1>2 DEF Types
<1>4. /\ hnd' \in [Procs -> {"no", "reading", "opened"}] /\ hnd'[p] = "no"
      /\ \A q \in Procs : q # p => hnd'[q] = hnd[q]
  BY <1>1 DEF Types
<1>5. Types'
  BY <1>1, <1>3, <1>4 DEF Types
<1>6. Lines' /\ Login' /\ Owner' /\ SlotsOwned'
  BY <1>1 DEF Lines, Working, Login, Owner, SlotsOwned, Alive
<1>7. \A q \in Procs : Alive(q)' <=> Alive(q)
  BY <1>1 DEF Alive
<1>8. Signals'
  BY <1>1, <1>4, <1>7 DEF Signals
<1>9. Calm'
  BY <1>0, <1>1, <1>4 DEF Calm, At
<1>10. Turns'
  <2>1. ASSUME Sound', NEW k \in Slots
        PROVE  Kept(k)'
    <3>1. Kept(k) /\ p \in Users
      BY <1>0, <1>1, <2>1 DEF Turns, Calm
    <3>2. ~sig[p] /\ Alive(p)
      BY <1>0, <1>1, <2>1, <3>1 DEF Calm, Signals
    <3>3. \A v \in Users : Holds(v, k)' <=> Holds(v, k)
      BY <1>1 DEF Holds
    <3>4. \A v \in Users : v # p => (Due(v, k)' <=> Due(v, k))
      BY <1>1, <1>4, <1>7 DEF Due
    <3>5. CASE k = n
      <4>1. Due(p, k) /\ ~Due(p, k)'
        BY <1>1, <1>2, <1>4, <3>2, <3>5 DEF Due
      <4> QED BY <1>3, <3>1, <3>3, <3>4, <3>5, <4>1, TurnPosted
    <3>6. CASE k # n
      <4>1. ~Due(p, k) /\ ~Due(p, k)'
        BY <1>1, <1>2, <3>6 DEF Due
      <4>2. SameTurn(k)
        BY <1>3, <3>3, <3>4, <3>6, <4>1 DEF SameTurn
      <4> QED BY <1>0, <3>1, <4>2, TurnSame
    <3> QED BY <3>5, <3>6
  <2> QED BY <1>0, <2>1 DEF Turns
<1> QED BY <1>5, <1>6, <1>8, <1>9, <1>10

\* accept, set_id and fork: the child is sent nothing before the server writes
\* its process id down.
LEMMA AcceptInv ==
    ASSUME Inv, NEW u \in Users, Accept(u)
    PROVE  Inv'
<1> USE ProcFacts DEF Inv
<1>1. PICK k \in Slots : /\ ~id[k] /\ id' = [id EXCEPT ![k] = TRUE]
                         /\ my_id' = [my_id EXCEPT ![u] = k, ![Server] = k]
  BY DEF Accept
<1>2. /\ pc[Server] = "accept" /\ pc[u] = "new"
      /\ pc' = [pc EXCEPT ![u] = "wait", ![Server] = "setpid"]
      /\ todo' = [todo EXCEPT ![u] = ToAll, ![Server] = <<u>>]
      /\ semory' = [semory EXCEPT ![u] = 1] /\ reg' = [reg EXCEPT ![u] = 1]
      /\ UNCHANGED <<kidpid, sem, sig, hnd, harm>>
  BY DEF Accept, handler
<1>0. (Sound' => Sound) /\ (harm # {} => harm' # {})
  BY <1>2 DEF Sound
<1>3. ToAll \in Seq(Items(k)) /\ ToAll # <<>> /\ Head(ToAll).slot = 1
  BY LineFacts
<1>4. u # Server
  OBVIOUS
<1>5. /\ pc'[u] = "wait" /\ pc'[Server] = "setpid"
      /\ \A q \in Procs : q # u /\ q # Server => pc'[q] = pc[q]
      /\ pc' \in [Procs -> {"new", "idle", "wait", "body", "fifo", "clearing", "dead",
                            "accept", "setpid"}]
  BY <1>2, <1>4 DEF Types
<1>6. /\ todo'[u] = ToAll /\ todo'[Server] = <<u>> /\ DOMAIN todo' = Procs
      /\ \A q \in Procs : q # u /\ q # Server => todo'[q] = todo[q]
  BY <1>2, <1>4 DEF Types
<1>7. /\ my_id'[u] = k /\ my_id'[Server] = k /\ my_id' \in [Procs -> Slots]
      /\ \A q \in Procs : q # u /\ q # Server => my_id'[q] = my_id[q]
  BY <1>1, <1>4 DEF Types
<1>8. /\ reg'[u] = 1 /\ semory'[u] = 1
      /\ \A q \in Procs : q # u => reg'[q] = reg[q] /\ semory'[q] = semory[q]
      /\ reg' \in [Procs -> Slots \cup {0}] /\ semory' \in [Procs -> Slots \cup {0}]
  BY <1>2 DEF Types
<1>9. /\ id' \in [Slots -> BOOLEAN] /\ id'[k]
      /\ \A m \in Slots : id[m] => id'[m]
  BY <1>1 DEF Types
<1>10. \A v \in Users : v # u => /\ pc'[v] = pc[v] /\ todo'[v] = todo[v]
                                 /\ my_id'[v] = my_id[v] /\ reg'[v] = reg[v]
                                 /\ semory'[v] = semory[v]
  BY <1>5, <1>6, <1>7, <1>8
<1>11. Types'
  <2>1. \A v \in Users : pc'[v] \notin {"accept", "setpid"}
    BY <1>5, <1>10 DEF Types
  <2> QED BY <1>2, <1>5, <1>6, <1>7, <1>8, <1>9, <2>1 DEF Types
<1>12. Lines'
  <2>1. ASSUME NEW v \in Users, v # u
        PROVE  /\ todo'[v] \in Seq(Items(my_id'[v]))
               /\ Working(v)' => todo'[v] # <<>>
               /\ pc'[v] = "clearing" => Head(todo'[v]).goal = "clear"
               /\ pc'[v] # "new" => semory'[v] \in Slots /\ reg'[v] \in Slots
    BY <1>10, <2>1 DEF Lines, Working
  <2>2. /\ todo'[u] \in Seq(Items(my_id'[u]))
        /\ Working(u)' => todo'[u] # <<>>
        /\ pc'[u] = "clearing" => Head(todo'[u]).goal = "clear"
        /\ pc'[u] # "new" => semory'[u] \in Slots /\ reg'[u] \in Slots
    BY <1>3, <1>5, <1>6, <1>7, <1>8 DEF Working
  <2> QED BY <2>1, <2>2 DEF Lines
<1>13. Login'
  BY <1>5, <1>6, <1>7 DEF Login
<1>14. Owner'
  <2>1. ASSUME NEW m \in Slots, kidpid'[m] # Nobody
        PROVE  my_id'[kidpid'[m]] = m /\ pc'[kidpid'[m]] # "new"
    <3>1. PICK v \in Users : v = kidpid[m]
      BY <1>2, <2>1 DEF Types
    <3>2. my_id[v] = m /\ pc[v] # "new"
      BY <1>2, <2>1, <3>1 DEF Owner
    <3> QED BY <1>2, <1>10, <3>1, <3>2
  <2> QED BY <2>1 DEF Owner
<1>15. SlotsOwned'
  <2>1. ASSUME NEW v \in Users, v # u, pc'[v] \notin {"new", "dead", "clearing"}
        PROVE  id[my_id[v]] /\ my_id'[v] = my_id[v] /\ my_id[v] # k /\ my_id[v] \in Slots
               /\ pc[v] \notin {"new", "dead", "clearing"}
    <3>1. pc[v] \notin {"new", "dead", "clearing"} /\ my_id'[v] = my_id[v]
      BY <1>10, <2>1
    <3>2. id[my_id[v]] /\ my_id[v] \in Slots
      BY <3>1 DEF SlotsOwned, Alive, Types
    <3> QED BY <1>1, <3>1, <3>2
  <2>2. ASSUME NEW v \in Users, pc'[v] \notin {"new", "dead", "clearing"}
        PROVE  id'[my_id'[v]]
    <3>1. CASE v = u
      BY <1>7, <1>9, <3>1
    <3>2. CASE v # u
      BY <1>9, <2>1, <2>2, <3>2
    <3> QED BY <3>1, <3>2
  <2>3. ASSUME NEW v \in Users, pc'[v] \notin {"new", "dead", "clearing"},
               NEW w \in Users, pc'[w] \notin {"new", "dead", "clearing"}, my_id'[w] = my_id'[v]
        PROVE  w = v
    <3>1. CASE v = u /\ w # u
      BY <1>7, <2>1, <2>3, <3>1
    <3>2. CASE w = u /\ v # u
      BY <1>7, <2>1, <2>3, <3>2
    <3>3. CASE v # u /\ w # u
      <4>1. my_id[w] = my_id[v] /\ pc[w] \notin {"new", "dead", "clearing"}
            /\ pc[v] \notin {"new", "dead", "clearing"}
        BY <2>1, <2>3, <3>3
      <4> QED BY <4>1 DEF SlotsOwned, Alive
    <3> QED BY <3>1, <3>2, <3>3
  <2> QED BY <2>2, <2>3 DEF SlotsOwned, Alive
<1>16. /\ ~Alive(u) /\ Alive(u)' /\ \A q \in Procs : q # u => (Alive(q)' <=> Alive(q))
  BY <1>2, <1>5 DEF Alive
<1>17. ~sig[u] /\ hnd[u] = "no"
  BY <1>16 DEF Signals
<1>18. Signals'
  BY <1>2, <1>16, <1>17 DEF Signals
<1>19. Calm'
  <2>1. ASSUME Sound', NEW v \in Users, pc'[v] \in {"wait", "body", "clearing"}
        PROVE  reg'[v] = At(v)'
    <3>1. CASE v = u
      BY <1>3, <1>6, <1>8, <3>1 DEF At
    <3>2. CASE v # u
      BY <1>0, <1>2, <1>10, <2>1, <3>2 DEF Calm, At
    <3> QED BY <3>1, <3>2
  <2>2. Sound' => ~sig'[Server] /\ hnd'[Server] = "no"
                      /\ \A v \in Users : hnd'[v] # "no" => ~sig'[v]
    BY <1>0, <1>2 DEF Calm
  <2> QED BY <1>0, <2>1, <2>2 DEF Calm
<1>20. Turns'
  <2>1. ASSUME Sound', NEW m \in Slots
        PROVE  Kept(m)'
    <3>1. Kept(m)
      BY <1>0, <1>2, <2>1 DEF Turns
    <3>2. ~Holds(u, m) /\ ~Holds(u, m)' /\ ~Due(u, m) /\ ~Due(u, m)'
      BY <1>2, <1>5, <1>17 DEF Holds, Due
    <3>3. ASSUME NEW v \in Users, v # u
          PROVE  (Holds(v, m)' <=> Holds(v, m)) /\ (Due(v, m)' <=> Due(v, m))
      BY <1>2, <1>10, <1>16, <3>3 DEF Holds, Due
    <3>4. SameTurn(m)
      BY <1>2, <3>2, <3>3 DEF SameTurn
    <3> QED BY <1>0, <3>1, <3>4, TurnSame
  <2> QED BY <1>0, <2>1 DEF Turns
<1> QED BY <1>11, <1>12, <1>13, <1>14, <1>15, <1>18, <1>19, <1>20

\* The parent's branch after fork: the process id of the child, in its slot.
LEMMA SetPidInv ==
    ASSUME Inv, SetPid
    PROVE  Inv'
<1> USE ProcFacts DEF Inv
<1>1. /\ pc[Server] = "setpid" /\ pc' = [pc EXCEPT ![Server] = "accept"]
      /\ kidpid' = [kidpid EXCEPT ![my_id[Server]] = Head(todo[Server])]
      /\ todo' = [todo EXCEPT ![Server] = <<>>]
      /\ UNCHANGED <<id, sem, my_id, semory, reg, sig, hnd, harm>>
  BY DEF SetPid, handler
<1>0. (Sound' => Sound) /\ (harm # {} => harm' # {})
  BY <1>1 DEF Sound
<1>2. PICK u \in Users : todo[Server] = <<u>> /\ my_id[Server] = my_id[u] /\ pc[u] # "new"
  BY <1>1 DEF Login
<1>3. PICK n \in Slots : n = my_id[Server]
  BY DEF Types
<1>4. kidpid' = [kidpid EXCEPT ![n] = u]
  <2>1. Head(<<u>>) = u
    OBVIOUS
  <2> QED BY <1>1, <1>2, <1>3, <2>1
<1>5. /\ kidpid' \in [Slots -> Users \cup {Nobody}] /\ kidpid'[n] = u
      /\ \A k \in Slots : k # n => kidpid'[k] = kidpid[k]
  BY <1>4 DEF Types
<1>6. /\ pc'[Server] = "accept" /\ \A q \in Procs : q # Server => pc'[q] = pc[q]
      /\ pc' \in [Procs -> {"new", "idle", "wait", "body", "fifo", "clearing", "dead",
                            "accept", "setpid"}]
  BY <1>1 DEF Types
<1>7. DOMAIN todo' = Procs /\ \A q \in Procs : q # Server => todo'[q] = todo[q]
  BY <1>1 DEF Types
<1>8. \A v \in Users : pc'[v] = pc[v] /\ todo'[v] = todo[v]
  BY <1>6, <1>7
<1>9. Types'
  <2>1. \A v \in Users : pc'[v] \notin {"accept", "setpid"}
    BY <1>8 DEF Types
  <2> QED BY <1>1, <1>5, <1>6, <1>7, <2>1 DEF Types
<1>10. Lines' /\ Login' /\ SlotsOwned'
  BY <1>1, <1>6, <1>8 DEF Lines, Working, Login, SlotsOwned, Alive
<1>11. Owner'
  <2>1. ASSUME NEW k \in Slots, kidpid'[k] # Nobody
        PROVE  my_id'[kidpid'[k]] = k /\ pc'[kidpid'[k]] # "new"
    <3>1. CASE k = n
      BY <1>1, <1>2, <1>3, <1>5, <1>8, <3>1
    <3>2. CASE k # n
      <4>1. PICK v \in Users : v = kidpid[k]
        BY <1>5, <2>1, <3>2 DEF Types
      <4>2. my_id[v] = k /\ pc[v] # "new"
        BY <1>5, <2>1, <3>2, <4>1 DEF Owner
      <4> QED BY <1>1, <1>5, <1>8, <3>2, <4>1, <4>2
    <3> QED BY <3>1, <3>2
  <2> QED BY <2>1 DEF Owner
<1>12. \A q \in Procs : Alive(q)' <=> Alive(q)
  BY <1>1, <1>6 DEF Alive
<1>13. Signals'
  BY <1>1, <1>12 DEF Signals
<1>14. Calm'
  BY <1>0, <1>1, <1>8 DEF Calm, At
<1>15. Turns'
  <2>1. \A k \in Slots : SameTurn(k)
    BY <1>1, <1>8, <1>12 DEF SameTurn, Holds, Due
  <2> QED BY <1>0, <1>1, <2>1, TurnSame DEF Turns
<1> QED BY <1>9, <1>10, <1>11, <1>13, <1>14, <1>15

-----------------------------------------------------------------------------
(***************************************************************************)
(* The steps of a user.                                                    *)
(***************************************************************************)
\* Every line that can be typed, and the end of the connection.
LEMMA CommandInv ==
    ASSUME Inv, NEW u \in Users, Command(u)
    PROVE  Inv'
<1> DEFINE K == my_id[u]
<1>1. K \in Slots
  BY ProcFacts DEF Inv, Types
<1>2. \A goal \in Goals, m \in Slots : goal # "clear" \/ m = K =>
         One(goal, m) \in Seq(Items(K))
  BY <1>1, LineFacts
<1>3. ToAll \in Seq(Items(K)) /\ Probes \in Seq(Items(K))
  BY <1>1, LineFacts
<1>4. Leaving(u) \in Seq(Items(K))
  <2>1. One("clear", K) \in Seq(Items(K))
    BY <1>1, <1>2 DEF Goals
  <2> QED BY <1>3, <2>1, ConcatProperties DEF Leaving
<1>5. ASSUME NEW k \in Slots
      PROVE  /\ One("tell", k) \in Seq(Items(K)) /\ One("pipe", k) \in Seq(Items(K))
             /\ One("recv", k) \in Seq(Items(K))
  BY <1>2 DEF Goals
<1>6. ASSUME NEW j \in Slots, NEW k \in Slots
      PROVE  One("recv", j) \o One("pipe", k) \in Seq(Items(K))
  BY <1>5, ConcatProperties
<1>7. CASE Yell(u)
  BY <1>3, <1>7, TypedInv DEF Yell
<1>8. CASE Name(u)
  BY <1>3, <1>8, TypedInv DEF Name
<1>9. CASE Exit(u)
  BY <1>4, <1>9, TypedInv DEF Exit
<1>10. CASE Eof(u)
  BY <1>10, DiesInv DEF Eof, Main
<1>11. ASSUME NEW k \in Slots, Tell(u, k) \/ Pipe(u, k) \/ Receive(u, k)
       PROVE  Inv'
  <2>1. CASE Tell(u, k)
    BY <1>5, <2>1, TypedInv DEF Tell
  <2>2. CASE Pipe(u, k)
    BY <1>5, <2>2, TypedInv DEF Pipe
  <2>3. CASE Receive(u, k)
    BY <1>5, <2>3, TypedInv DEF Receive
  <2> QED BY <1>11, <2>1, <2>2, <2>3
<1>12. ASSUME NEW j \in Slots, NEW k \in Slots, ReceiveAndPipe(u, j, k)
       PROVE  Inv'
  BY <1>6, <1>12, TypedInv DEF ReceiveAndPipe
<1> QED BY <1>7, <1>8, <1>9, <1>10, <1>11, <1>12 DEF Command

\* A step of the line that opens the next semaphore.
LEMMA GoOnBody ==
    ASSUME Inv, NEW u \in Users, pc[u] = "body",
           NEW rest \in Seq(Items(my_id[u])), GoOn(u, rest)
    PROVE  /\ Release(u) => Released(u)
           /\ \A m : Send(u, At(u), m) => Sends(u)
<1>1. Onward(u)
  BY GoOnOnward DEF Inv
<1> QED BY <1>1 DEF Release, Released, Send, Sends, handler

\* sem_wait, the code that each semaphore protects, and client_clear.
LEMMA StepInv ==
    ASSUME Inv, NEW u \in Users, Step(u)
    PROVE  Inv'
<1> USE DEF Inv
<1>1. ASSUME pc[u] = "body"
      PROVE  /\ Rest(u) \in Seq(Items(my_id[u])) /\ At(u) \in Slots /\ my_id[u] \in Slots
             /\ pc[u] \notin {"new", "dead", "clearing"}
  BY <1>1, RestTyped, ProcFacts DEF Working, Types
<1>2. CASE Wait(u)
  BY <1>2, WaitInv
<1>3. CASE TellAll(u)
  <2>1. pc[u] = "body" /\ GoOn(u, Rest(u)) /\ (Send(u, At(u), 0) \/ Release(u))
    BY <1>3 DEF TellAll, Body
  <2>2. Sends(u) \/ Released(u)
    BY <1>1, <2>1, GoOnBody
  <2> QED BY <1>1, <2>1, <2>2, SendsInv, ReleasedInv
<1>4. CASE TellOne(u)
  <2>1. pc[u] = "body" /\ GoOn(u, Rest(u)) /\ Send(u, At(u), 0)
    BY <1>4 DEF TellOne, Body
  <2>2. Sends(u)
    BY <1>1, <2>1, GoOnBody
  <2> QED BY <1>1, <2>1, <2>2, SendsInv
<1>5. CASE Probe(u)
  <2>1. pc[u] = "body" /\ Release(u)
    BY <1>5 DEF Probe, Body
  <2>2. PICK taken \in BOOLEAN :
           GoOn(u, IF taken THEN <<>> ELSE IF Rest(u) = <<>> THEN ToAll ELSE Rest(u))
    BY <1>5 DEF Probe
  <2> DEFINE next == IF taken THEN <<>> ELSE IF Rest(u) = <<>> THEN ToAll ELSE Rest(u)
  <2>3. ToAll \in Seq(Items(my_id[u])) /\ Rest(u) \in Seq(Items(my_id[u]))
    BY <1>1, <2>1, LineFacts
  <2>4. <<>> \in Seq(Items(my_id[u]))
    BY EmptySeq
  <2>5. next \in Seq(Items(my_id[u]))
    BY <2>3, <2>4
  <2>6. Released(u)
    BY <2>1, <2>2, <2>5, GoOnBody
  <2> QED BY <2>6, ReleasedInv
<1>6. ASSUME pc[u] = "body", Refuse(u)
      PROVE  Inv'
  <2>1. Released(u)
    BY <1>1, <1>6, GoOnBody DEF Refuse
  <2> QED BY <2>1, ReleasedInv
<1>7. CASE PipeTo(u)
  <2>1. pc[u] = "body"
    BY <1>7 DEF PipeTo, Body
  <2>2. CASE Refuse(u)
    BY <1>6, <2>1, <2>2
  <2>3. CASE /\ Send(u, At(u), my_id[u]) /\ pc' = [pc EXCEPT ![u] = "fifo"]
             /\ UNCHANGED <<todo, semory, reg>>
    <3>1. /\ pc'[u] = "fifo" /\ \A q \in Procs : q # u => pc'[q] = pc[q]
          /\ pc' \in [Procs -> {"new", "idle", "wait", "body", "fifo", "clearing", "dead",
                                "accept", "setpid"}]
      BY <2>3, ProcFacts DEF Types
    <3>2. todo[u] \in Seq(Items(my_id[u])) /\ todo[u] # <<>> /\ semory[u] \in Slots /\ reg[u] \in Slots
      BY <2>1 DEF Lines, Working
    <3>3. Onward(u)
      BY <2>3, <3>1, <3>2 DEF Onward, Types
    <3>4. Sends(u)
      BY <2>1, <2>3, <3>3 DEF Send, Sends
    <3> QED BY <1>1, <2>1, <3>4, SendsInv
  <2> QED BY <1>7, <2>2, <2>3 DEF PipeTo
<1>8. CASE ReceiveFrom(u)
  <2>1. pc[u] = "body"
    BY <1>8 DEF ReceiveFrom, Body
  <2>2. CASE Refuse(u)
    BY <1>6, <2>1, <2>2
  <2>3. CASE Release(u) /\ GoOn(u, ToAll \o Rest(u) \o One("close", At(u)))
    <3>1. ToAll \o Rest(u) \in Seq(Items(my_id[u]))
      BY <2>1, RestTyped DEF Working
    <3>2. One("close", At(u)) \in Seq(Items(my_id[u]))
      BY <1>1, <2>1, LineFacts DEF Goals
    <3>3. ToAll \o Rest(u) \o One("close", At(u)) \in Seq(Items(my_id[u]))
      BY <3>1, <3>2, ConcatProperties
    <3>4. Released(u)
      BY <2>1, <2>3, <3>3, GoOnBody
    <3> QED BY <3>4, ReleasedInv
  <2> QED BY <1>8, <2>2, <2>3 DEF ReceiveFrom
<1>9. CASE ClosePipe(u)
  <2>1. pc[u] = "body" /\ Release(u) /\ GoOn(u, Rest(u))
    BY <1>9 DEF ClosePipe, Body
  <2>2. Released(u)
    BY <1>1, <2>1, GoOnBody
  <2> QED BY <2>2, ReleasedInv
<1>10. CASE Clear(u)
  BY <1>10, ClearInv
<1>11. CASE ClearPipes(u)
  BY <1>11, ClearPipesInv
<1> QED BY <1>2, <1>3, <1>4, <1>5, <1>7, <1>8, <1>9, <1>10, <1>11 DEF Step

\* Every step of every process.
LEMMA InvNext ==
    ASSUME Inv, [Next]_vars
    PROVE  Inv'
<1>1. CASE SetPid
  BY <1>1, SetPidInv
<1>2. ASSUME NEW u \in Users, Accept(u) \/ Command(u) \/ Step(u) \/ SigPipe(u)
      PROVE  Inv'
  BY <1>2, AcceptInv, CommandInv, StepInv, SigPipeInv
<1>3. ASSUME NEW p \in Procs, client_handler(p) \/ PipeOpened(p)
      PROVE  Inv'
  BY <1>3, HandlerInv, PipeOpenedInv
<1>4. ASSUME NEW p \in Procs, NEW w \in Users, Rendezvous(p, w)
      PROVE  Inv'
  BY <1>4, RendezvousInv
<1>5. CASE UNCHANGED vars
  <2>1. UNCHANGED <<id, kidpid, sem, pc, todo, my_id, semory, reg, sig, hnd, harm>>
    BY <1>5 DEF vars, shared, handler
  <2>2. Types' /\ Lines' /\ Login' /\ Owner'
    BY <2>1 DEF Inv, Types, Lines, Working, Login, Owner
  <2>3. Signals' /\ Calm' /\ SlotsOwned'
    BY <2>1 DEF Inv, Signals, Calm, Sound, SlotsOwned, Alive, At
  <2>4. Turns'
    BY <2>1 DEF Inv, Turns, Sound, Kept, Lost, Turn, Holds, Due, Alive
  <2> QED BY <2>2, <2>3, <2>4 DEF Inv
<1> QED BY <1>1, <1>2, <1>3, <1>4, <1>5 DEF Next

-----------------------------------------------------------------------------
(***************************************************************************)
(* The theorems.                                                           *)
(***************************************************************************)
\* Every reachable state of the processes, their tables and semaphores.
THEOREM Invariance == Spec => []Inv
BY InvInit, InvNext, PTL DEF Spec

\* A slot is that of one process at a time (np_multi_proc.cpp:88,
\* npshell3.cpp:120-122), whatever goes wrong with the semaphores.
THEOREM SlotsCorrect == Spec => []SlotsOwned
<1>1. Inv => SlotsOwned
  BY DEF Inv
<1> QED BY <1>1, Invariance, PTL

\* A semaphore never has two holders, also while it is handed from a sender to a
\* handler (npshell3.cpp:285, 106, 110) and whatever connections break, and has
\* one, or is free, until one is lost; for every number of slots, users and lines.
THEOREM HolderCorrect == Spec => []OneHolder
<1>1. ASSUME Inv, Sound, NEW k \in Slots
      PROVE  LET holders == sem[k] + Cardinality(Inside(k)) + Cardinality(Addressed(k))
             IN holders <= 1 /\ (harm = {} => holders = 1)
  <2>1. Kept(k) /\ sem[k] \in Nat
    BY <1>1 DEF Inv, Turns, Types
  <2>2. CASE Turn(k)
    BY <2>1, <2>2, TurnCount
  <2>3. CASE harm # {} /\ Lost(k)
    BY <2>3, LostCount
  <2> QED BY <2>1, <2>2, <2>3 DEF Kept
<1>2. Inv => OneHolder
  BY <1>1 DEF OneHolder
<1> QED BY <1>2, Invariance, PTL

=============================================================================
