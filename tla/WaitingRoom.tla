----------------------------- MODULE WaitingRoom -----------------------------
(***************************************************************************)
(* The main loop of project2/np_single_proc.cpp: one process serves all    *)
(* the users with select.  The first Active (30) slots of id_table are the *)
(* users logged in; the later ones are clients that were accepted and wait *)
(* for a slot.  Slots are counted from 1 here, from 0 in the code, and 0   *)
(* is a free slot in both.                                                 *)
(*                                                                         *)
(* npshell (npshell2.cpp) is modelled by what it does to this state: it    *)
(* serves a line, renames its user, or returns 0.  Pipes are left out, and *)
(* with them the descriptors that clear() closes a second time.            *)
(***************************************************************************)
EXTENDS Naturals, Sequences, FiniteSets

CONSTANTS
    Clients,    \* those who may connect
    Active,     \* slots of users logged in (30 in the code)
    MaxFd,      \* descriptors of accepted sockets are 1 .. MaxFd
    Names,      \* what a user may be called
    NoName,     \* "(no name)"
    JunkIds,    \* what an id that nobody wrote may be
    NoClient

\* id_table has FD_SETSIZE slots, and no descriptor is beyond FD_SETSIZE: a
\* client that was accepted finds a free slot.
Slots == 1 .. MaxFd

ASSUME RoomAssumption ==
    /\ MaxFd \in Nat /\ Active \in 1 .. MaxFd
    /\ NoClient \notin Clients /\ NoName \notin Names
    /\ JunkIds # {}

Fds == 1 .. MaxFd
Logged == 1 .. Active
Waiting == (Active + 1) .. MaxFd

VARIABLES
    pc,         \* "select", "accept", "loop" (over the descriptors), "exited"
    sock,       \* whose socket an open descriptor is, NoClient: closed
    id_table,   \* the descriptor of each slot, 0: free
    user_info,  \* nickname and id of each slot, with the client they are of
    afds,       \* the descriptors select looks at
    rfds,       \* those it found readable and the loop has not come to yet
    eof         \* cin has met an end of file

vars == <<pc, sock, id_table, user_info, afds, rfds, eof>>

Connected(c) == \E fd \in Fds : sock[fd] = c

\* A User_info that nobody initialized (npshell2.cpp:57): its id and nickname
\* are what was on the stack.
Garbage == [id : JunkIds, nickname : Names \cup {NoName}, who : {NoClient}]

Least(S) == CHOOSE m \in S : \A k \in S : m <= k

-----------------------------------------------------------------------------
\* set_id takes the first free slot, find_id returns the first slot of a
\* descriptor.
FreeSlot(table) == Least({i \in Slots : table[i] = 0})
find_id(table, fd) == Least({i \in Slots : table[i] = fd})

Init ==
    /\ pc = "select"
    /\ sock = [fd \in Fds |-> NoClient]
    /\ id_table = [i \in Slots |-> 0]
    /\ \E g \in Garbage : user_info = [i \in Slots |-> g]
    /\ afds = {} /\ rfds = {}
    /\ eof = FALSE

\* select returns: some of the descriptors are readable, msock may be one.
Select ==
    /\ pc = "select"
    /\ rfds' \in SUBSET afds
    /\ \/ pc' = "accept" /\ \E c \in Clients : ~Connected(c)
       \/ pc' = "loop" /\ rfds' # {}
    /\ UNCHANGED <<sock, id_table, user_info, afds, eof>>

\* accept fails when every descriptor is in use, and ends the server (122).
AcceptFails ==
    /\ pc = "accept"
    /\ \A fd \in Fds : sock[fd] # NoClient
    /\ pc' = "exited"
    /\ UNCHANGED <<sock, id_table, user_info, afds, rfds, eof>>

\* What the server writes next, a welcome or the news of a login (155), or for a
\* line of a user, goes to a socket whose other side is gone: SIGPIPE is not
\* ignored, and ends the server.
SigPipe ==
    /\ pc = "loop" \/ (pc = "accept" /\ \E fd \in Fds : sock[fd] = NoClient)
    /\ pc' = "exited"
    /\ UNCHANGED <<sock, id_table, user_info, afds, rfds, eof>>

\* accept: the client gets the lowest descriptor and the first free slot, and
\* is watched by select from now on if the slot is one of a user logged in.
Accept(c) ==
    /\ pc = "accept"
    /\ ~Connected(c)
    /\ \E fd \in Fds : sock[fd] = NoClient
    /\ LET ssock == Least({fd \in Fds : sock[fd] = NoClient})
           my_id == FreeSlot(id_table)
       IN  /\ sock' = [sock EXCEPT ![ssock] = c]
           /\ id_table' = [id_table EXCEPT ![my_id] = ssock]
           /\ user_info' = [user_info EXCEPT ![my_id] =
                               [id |-> my_id, nickname |-> NoName, who |-> c]]
           /\ afds' = IF my_id <= Active THEN afds \cup {ssock} ELSE afds
    /\ pc' = IF rfds = {} THEN "select" ELSE "loop"
    /\ UNCHANGED <<rfds, eof>>

\* The descriptor the loop comes to next.
Current == Least(rfds)

\* Mutant of LoopTo: the loop does not advance.
LoopAgain == UNCHANGED <<rfds, pc>>

LoopTo == /\ rfds' = rfds \ {Current}
          /\ pc' = IF rfds = {Current} THEN "select" ELSE "loop"

\* The user's line is served and npshell returns 1.
Line ==
    /\ pc = "loop"
    /\ ~eof
    /\ LoopTo
    /\ UNCHANGED <<sock, id_table, user_info, afds, eof>>

\* Mutant of Taken: the last slot is not looked at.
TakenButLast(n) == \E i \in 1 .. (Active - 1) : user_info[i].nickname = n

\* name: refused when one of the slots of users has the nickname, free slots
\* with what is left in them included.
Taken(n) == \E i \in Logged : user_info[i].nickname = n

Name(n) ==
    /\ pc = "loop"
    /\ ~eof
    /\ ~Taken(n)
    /\ user_info' = [user_info EXCEPT ![find_id(id_table, Current)].nickname = n]
    /\ LoopTo
    /\ UNCHANGED <<sock, id_table, afds, eof>>

\* Mutant of Preid: the first slot of the waiting room, taken or not.
PreidUnchecked(table) == IF Waiting = {} THEN 0 ELSE Least(Waiting)

\* Mutant of Preid: the loop does not break.
PreidLast(table) == LET ids == {i \in Waiting : table[i] # 0}
                    IN  IF ids = {} THEN 0
                        ELSE CHOOSE m \in ids : \A k \in ids : m >= k

\* The first waiting client, 0 if there is none.
Preid(table) == LET ids == {i \in Waiting : table[i] # 0}
                IN  IF ids = {} THEN 0 ELSE Least(ids)

\* Mutant of Seated: the id of the waiting room is kept.
SeatedAsIs(info, new_id) == info

\* The information of a client that gets the slot new_id.
Seated(info, new_id) == [info EXCEPT !.id = new_id]

\* Mutant of MoveUp: nobody moves.
StayPut(f, table, free) == f

\* Mutant of MoveUp: the slot an entry leaves is not freed.
MoveAndKeep(f, table, free) ==
    [i \in Slots |-> IF i + 1 \in Waiting /\ table[i + 1] # 0 THEN f[i + 1] ELSE f[i]]

\* The clients behind the one that left the waiting room move up by a slot.
\* The loop goes up from the first waiting slot and moves each entry it
\* finds, so an entry moves once.
MoveUp(f, table, free) ==
    [i \in Slots |->
        IF i + 1 \in Waiting /\ table[i + 1] # 0 THEN f[i + 1]
        ELSE IF i \in Waiting THEN free ELSE f[i]]

\* npshell returned 0: the user typed exit, or getline failed.  A failed
\* getline leaves cin's eofbit set, and every later one fails too.
\* The slot is cleared, its socket closed, and the first waiting client
\* takes the first free slot, is welcomed and watched by select.
Logout(ends) ==
    /\ pc = "loop"
    /\ eof => ends
    /\ eof' = ends
    /\ LET close_id == find_id(id_table, Current)
           cleared == [id_table EXCEPT ![close_id] = 0]
           preid == Preid(cleared)
       IN  /\ sock' = [sock EXCEPT ![Current] = NoClient]
           /\ \E g \in Garbage :
                 LET info == [user_info EXCEPT ![close_id] = g]
                 IN  IF preid = 0
                     THEN /\ id_table' = cleared
                          /\ user_info' = info
                          /\ afds' = afds \ {Current}
                     ELSE LET fd == cleared[preid]
                              new_id == FreeSlot(cleared)
                              seated == [cleared EXCEPT ![new_id] = fd,
                                                        ![preid] = 0]
                              named == [info EXCEPT
                                           ![new_id] = Seated(info[preid], new_id),
                                           ![preid] = g]
                          IN  /\ id_table' = MoveUp(seated, seated, 0)
                              /\ user_info' = [i \in Slots |->
                                    LET moved == MoveUp(named, seated, g)[i]
                                    IN  IF i + 1 \in Waiting /\ seated[i + 1] # 0
                                        THEN [moved EXCEPT !.id = i + 1]
                                        ELSE moved]
                              /\ afds' = (afds \ {Current}) \cup {fd}
    /\ LoopTo

Next ==
    \/ Select
    \/ AcceptFails
    \/ SigPipe
    \/ \E c \in Clients : Accept(c)
    \/ Line
    \/ \E n \in Names : Name(n)
    \/ \E ends \in BOOLEAN : Logout(ends)

Spec == Init /\ [][Next]_vars

-----------------------------------------------------------------------------
(***************************************************************************)
(* Type and safety.                                                        *)
(***************************************************************************)
\* Types of the variables: the descriptors that select is given, and those in
\* id_table, are those of sockets (147, 167, 209), never the 0 of a free slot,
\* and an id is a slot's number or one that nobody wrote.
TypeOK ==
    /\ pc \in {"select", "accept", "loop", "exited"}
    /\ sock \in [Fds -> Clients \cup {NoClient}]
    /\ id_table \in [Slots -> Fds \cup {0}]
    /\ user_info \in [Slots -> [id : Slots \cup JunkIds, nickname : Names \cup {NoName},
                                who : Clients \cup {NoClient}]]
    /\ afds \in SUBSET Fds /\ rfds \in SUBSET Fds
    /\ eof \in BOOLEAN

\* id_table, the open sockets and the set that select watches agree after
\* any sequence of logins, logouts and promotions (134-163, 169-229): a
\* descriptor has one slot, an open socket has a slot, and exactly the users
\* logged in are watched.
TablesAgree ==
    /\ \A i, k \in Slots : i # k /\ id_table[i] # 0 => id_table[i] # id_table[k]
    /\ \A fd \in Fds : sock[fd] # NoClient <=> \E i \in Slots : id_table[i] = fd
    /\ afds = {id_table[i] : i \in Logged} \ {0}

\* Nobody waits while a slot of users is free, and the waiting room has no
\* gap: the shift (220-229) goes up by one slot only, and set_id would seat
\* a newcomer in a gap, before those who came earlier.
NoGap ==
    \A i \in Waiting : id_table[i] # 0 => \A k \in 1 .. (i - 1) : id_table[k] # 0

\* A descriptor that select found readable is that of a user logged in when
\* the loop comes to it, whoever else logged out in this round: find_id has
\* an answer (npshell2.cpp:87 returns an uninitialized my_id if not) that is
\* a user and not somebody in the waiting room.
ServedAreLogged ==
    \A fd \in rfds : \E i \in Logged : id_table[i] = fd

\* The information of a slot is that of the client in it, and a user's id is
\* the number of the slot, although the id written while waiting is not (224).
InfoMatches ==
    \A i \in Slots : id_table[i] # 0 =>
        /\ user_info[i].who = sock[id_table[i]]
        /\ i \in Logged => user_info[i].id = i

\* No two users have the same nickname.
NamesUnique ==
    \A i, k \in Logged :
        i # k /\ id_table[i] # 0 /\ id_table[k] # 0
              /\ user_info[i].nickname = user_info[k].nickname
        => user_info[i].nickname = NoName

(***************************************************************************)
(* Refinement: the slots of users are the members, the waiting room is the *)
(* queue.                                                                  *)
(***************************************************************************)
Members == {sock[id_table[i]] : i \in {k \in Logged : id_table[k] # 0}}

Queue == [k \in 1 .. Cardinality({i \in Waiting : id_table[i] # 0}) |->
             sock[id_table[Active + k]]]

Abstract == INSTANCE Admission WITH members <- Members, queue <- Queue

\* The main loop implements first-come-first-served admission.
ImplementsAdmission == Abstract!AdmSpec

=============================================================================
