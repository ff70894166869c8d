-------------------------- MODULE WaitingRoom_proofs --------------------------
(***************************************************************************)
(* Proofs about WaitingRoom for every number of slots, clients and names:  *)
(* the tables of the main loop of np_single_proc agree, those who wait are *)
(* served in order, and the loop implements Admission.                     *)
(***************************************************************************)
EXTENDS WaitingRoom, TLAPS, FiniteSetTheorems, SequenceTheorems, WellFoundedInduction

-----------------------------------------------------------------------------
(***************************************************************************)
(* The inductive invariant.                                                *)
(***************************************************************************)
\* The loop over the descriptors goes on while one is left.
Rounds == pc = "loop" => rfds # {}

\* A client has one socket.
OneSocket == \A a, b \in Fds : sock[a] = sock[b] /\ sock[a] # NoClient => a = b

\* Only users are served, so nobody in the waiting room has a name.
WaitingUnnamed == \A i \in Waiting : id_table[i] # 0 => user_info[i].nickname = NoName

Inv ==
    /\ TypeOK /\ Rounds /\ OneSocket
    /\ TablesAgree /\ NoGap /\ ServedAreLogged
    /\ InfoMatches /\ NamesUnique /\ WaitingUnnamed

-----------------------------------------------------------------------------
(***************************************************************************)
(* Lemmas.                                                                 *)
(***************************************************************************)
\* A set of natural numbers has a least element.
LEMMA LeastElement ==
    ASSUME NEW T \in SUBSET Nat, T # {}
    PROVE  Least(T) \in T /\ \A k \in T : Least(T) <= k
<1> DEFINE R == OpToRel(<, Nat)
<1>1. \A a, b \in Nat : a < b => <<a, b>> \in R
  BY DEF OpToRel
<1>2. PICK m \in T : \A k \in T : ~ (<<k, m>> \in R)
  <2> HIDE DEF R
  <2> QED BY NatLessThanWellFounded, WFMin DEF R
<1> HIDE DEF R
<1>3. \A k \in T : ~ (k < m)
  BY <1>1, <1>2
<1>4. \A k \in T : m <= k
  BY <1>3
<1> QED BY <1>4 DEF Least

\* The slots of users come before those of the waiting room.
LEMMA Places ==
    /\ Slots = 1 .. MaxFd /\ Fds = Slots /\ Slots \in SUBSET Nat /\ 0 \notin Slots
    /\ Active \in Nat /\ Active >= 1 /\ MaxFd \in Nat
    /\ \A i \in Slots : i \in Logged \/ i \in Waiting
    /\ \A i \in Logged : i \in Slots /\ i \in Nat /\ i >= 1 /\ i <= Active
    /\ \A i \in Waiting : i \in Slots /\ i \in Nat /\ i > Active /\ i <= MaxFd
    /\ \A i \in Slots : i <= Active <=> i \in Logged
    /\ Logged \cap Waiting = {}
BY RoomAssumption DEF Slots, Fds, Logged, Waiting

\* A client that was accepted finds a slot: there are as many slots as
\* descriptors, and one descriptor was free.
LEMMA RoomForOne ==
    ASSUME TypeOK, TablesAgree, NEW fd \in Fds, sock[fd] = NoClient
    PROVE  \E i \in Slots : id_table[i] = 0
<1> SUFFICES ASSUME \A i \in Slots : id_table[i] # 0 PROVE FALSE
  OBVIOUS
<1> DEFINE others == Fds \ {fd}
<1>1. IsFiniteSet(Slots) /\ Cardinality(Slots) = MaxFd
  BY FS_Interval, RoomAssumption DEF Slots
<1>2. IsFiniteSet(Fds) /\ Cardinality(Fds) = MaxFd
  BY <1>1 DEF Slots, Fds
<1>3. IsFiniteSet(others) /\ Cardinality(others) = MaxFd - 1
  BY <1>2, FS_RemoveElement
<1>4. \A i \in Slots : id_table[i] # fd
  BY DEF TablesAgree
<1>5. id_table \in [Slots -> others]
  BY <1>4 DEF TypeOK
<1>6. Cardinality(others) < Cardinality(Slots)
  BY <1>1, <1>3, RoomAssumption
<1> HIDE DEF others
<1>7. \E x, y \in Slots : x # y /\ id_table[x] = id_table[y]
  BY <1>1, <1>3, <1>5, <1>6, FS_PigeonHole
<1> QED BY <1>7 DEF TablesAgree

\* The slot of the descriptor that the loop has come to.
LEMMA CurrentSlot ==
    ASSUME Inv, pc = "loop"
    PROVE  /\ Current \in rfds /\ Current \in Fds
           /\ find_id(id_table, Current) \in Logged
           /\ id_table[find_id(id_table, Current)] = Current
<1>1. rfds # {} /\ rfds \in SUBSET Nat /\ rfds \subseteq Fds
  BY Places DEF Inv, Rounds, TypeOK
<1>2. Current \in rfds
  BY <1>1, LeastElement DEF Current
<1>3. PICK s \in Logged : id_table[s] = Current
  BY <1>2 DEF Inv, ServedAreLogged
<1> DEFINE T == {i \in Slots : id_table[i] = Current}
<1>4. T # {} /\ T \in SUBSET Nat
  BY <1>3, Places
<1>5. find_id(id_table, Current) = Least(T)
  BY DEF find_id
<1>6. Least(T) \in T
  <2> HIDE DEF T
  <2> QED BY <1>4, LeastElement
<1>7. Current # 0
  BY <1>1, <1>2, Places
<1>8. Least(T) = s
  BY <1>3, <1>6, <1>7, Places DEF Inv, TablesAgree
<1> QED BY <1>1, <1>2, <1>3, <1>5, <1>8

-----------------------------------------------------------------------------
(***************************************************************************)
(* What the steps that move clients do.                                    *)
(***************************************************************************)
\* Client c gets descriptor fd and slot s, the first that is free.
Arrives(c, fd, s) ==
    /\ ~Connected(c) /\ sock[fd] = NoClient
    /\ id_table[s] = 0 /\ \A k \in Slots : id_table[k] = 0 => s <= k
    /\ sock' = [sock EXCEPT ![fd] = c]
    /\ id_table' = [id_table EXCEPT ![s] = fd]
    /\ user_info' = [user_info EXCEPT ![s] = [id |-> s, nickname |-> NoName, who |-> c]]
    /\ afds' = IF s <= Active THEN afds \cup {fd} ELSE afds
    /\ pc' = IF rfds = {} THEN "select" ELSE "loop"
    /\ UNCHANGED <<rfds, eof>>

\* accept finds a slot.
LEMMA AcceptStep ==
    ASSUME Inv, NEW c \in Clients, Accept(c)
    PROVE  \E fd \in Fds, s \in Slots : Arrives(c, fd, s)
<1> DEFINE F == {f \in Fds : sock[f] = NoClient}
           T == {i \in Slots : id_table[i] = 0}
<1>1. F # {} /\ F \in SUBSET Nat
  BY Places DEF Accept
<1>2. T # {} /\ T \in SUBSET Nat
  BY <1>1, RoomForOne, Places DEF Inv
<1>3. PICK fd \in F : fd = Least(F)
  BY <1>1, LeastElement
<1>4. PICK s \in T : s = Least(T) /\ \A k \in T : s <= k
  BY <1>2, LeastElement
<1>5. fd = Least({f \in Fds : sock[f] = NoClient}) /\ s = FreeSlot(id_table)
  BY <1>3, <1>4 DEF FreeSlot
<1>6. fd \in Fds /\ s \in Slots /\ sock[fd] = NoClient /\ id_table[s] = 0
      /\ \A k \in Slots : id_table[k] = 0 => s <= k
  BY <1>4
<1> HIDE DEF F, T
<1>7. Arrives(c, fd, s)
  BY <1>5, <1>6 DEF Accept, Arrives
<1> QED BY <1>6, <1>7

\* The user of descriptor fd leaves slot s and nobody waits.
Leaves(fd, s) ==
    /\ fd \in rfds /\ id_table[s] = fd
    /\ \A i \in Waiting : id_table[i] = 0
    /\ sock' = [sock EXCEPT ![fd] = NoClient]
    /\ id_table' = [id_table EXCEPT ![s] = 0]
    /\ \E g \in Garbage : user_info' = [user_info EXCEPT ![s] = g]
    /\ afds' = afds \ {fd} /\ rfds' = rfds \ {fd}

\* The user of descriptor fd leaves slot s and the first who waits takes it.
Promotes(fd, s) ==
    /\ fd \in rfds /\ id_table[s] = fd
    /\ Active + 1 \in Waiting /\ id_table[Active + 1] # 0
    /\ sock' = [sock EXCEPT ![fd] = NoClient]
    /\ id_table' \in [Slots -> Fds \cup {0}]
    /\ id_table'[s] = id_table[Active + 1]
    /\ \A i \in Logged : i # s => id_table'[i] = id_table[i] /\ user_info'[i] = user_info[i]
    /\ \A i \in Waiting : id_table'[i] = IF i + 1 \in Waiting THEN id_table[i + 1] ELSE 0
    /\ user_info' \in [Slots -> [id : Slots \cup JunkIds, nickname : Names \cup {NoName},
                                 who : Clients \cup {NoClient}]]
    /\ user_info'[s] = [user_info[Active + 1] EXCEPT !.id = s]
    /\ \A i \in Waiting : i + 1 \in Waiting /\ id_table[i + 1] # 0 =>
          user_info'[i] = [user_info[i + 1] EXCEPT !.id = i + 1]
    /\ afds' = (afds \ {fd}) \cup {id_table[Active + 1]} /\ rfds' = rfds \ {fd}

\* Who waits, waits in the first slots of the waiting room.
LEMMA FirstWaits ==
    ASSUME Inv, NEW s \in Logged, NEW cleared, cleared = [id_table EXCEPT ![s] = 0],
           id_table[s] # 0
    PROVE  /\ cleared \in [Slots -> Fds \cup {0}] /\ cleared[s] = 0
           /\ \A i \in Slots : i # s => cleared[i] = id_table[i]
           /\ Preid(cleared) = 0 <=> \A i \in Waiting : id_table[i] = 0
           /\ Preid(cleared) # 0 =>
                 /\ Preid(cleared) = Active + 1 /\ Active + 1 \in Waiting
                 /\ id_table[Active + 1] # 0 /\ FreeSlot(cleared) = s
<1> USE DEF Inv
<1>1. /\ cleared \in [Slots -> Fds \cup {0}] /\ cleared[s] = 0
      /\ \A i \in Slots : i # s => cleared[i] = id_table[i]
  BY Places DEF TypeOK
<1>2. \A i \in Waiting : cleared[i] = id_table[i]
  BY <1>1, Places
<1> DEFINE ids == {i \in Waiting : cleared[i] # 0}
           zeros == {i \in Slots : cleared[i] = 0}
<1>3. Preid(cleared) = IF ids = {} THEN 0 ELSE Least(ids)
  BY DEF Preid
<1>4. FreeSlot(cleared) = Least(zeros)
  BY DEF FreeSlot
<1>5. ids \in SUBSET Nat /\ zeros \in SUBSET Nat /\ s \in zeros
  BY <1>1, Places
<1>6. ids # {} => Least(ids) \in ids /\ \A k \in ids : Least(ids) <= k
  BY <1>5, LeastElement
<1>7. Least(zeros) \in zeros /\ \A k \in zeros : Least(zeros) <= k
  BY <1>5, LeastElement
<1>8. ids # {} => Least(ids) # 0
  BY <1>6, Places
<1>9. Preid(cleared) = 0 <=> \A i \in Waiting : id_table[i] = 0
  BY <1>2, <1>3, <1>8
<1>10. ASSUME ids # {}
       PROVE  /\ Least(ids) = Active + 1 /\ Active + 1 \in Waiting
              /\ id_table[Active + 1] # 0 /\ Least(zeros) = s
  <2>1. PICK m \in Waiting : m = Least(ids) /\ id_table[m] # 0 /\ \A k \in ids : m <= k
    BY <1>2, <1>6, <1>10
  <2>2. m \in Nat /\ m > Active /\ m <= MaxFd /\ Active \in Nat /\ MaxFd \in Nat
    BY Places
  <2>3. \A k \in 1 .. (m - 1) : id_table[k] # 0
    BY <2>1 DEF NoGap
  <2>4. Active + 1 \in Waiting
    BY <2>2 DEF Waiting
  <2>5. Active + 1 = m \/ Active + 1 \in 1 .. (m - 1)
    BY <2>2
  <2>6. id_table[Active + 1] # 0
    BY <2>1, <2>3, <2>5
  <2>7. Active + 1 \in ids
    BY <1>2, <2>4, <2>6
  <2>8. m = Active + 1
    BY <2>1, <2>2, <2>7
  <2>9. \A k \in Logged : id_table[k] # 0
    <3>1. \A k \in Logged : k \in 1 .. (m - 1)
      BY <2>2, Places
    <3> QED BY <2>3, <3>1
  <2>10. \A k \in zeros : k \in Logged => k = s
    BY <1>1, <2>9
  <2>11. \A k \in zeros : k \notin Logged => k > s
    BY Places
  <2>12. Least(zeros) <= s
    BY <1>5, <1>7
  <2>13. Least(zeros) = s
    <3>1. PICK z \in zeros : z = Least(zeros)
      BY <1>7
    <3>2. z <= s /\ z \in Nat /\ s \in Nat
      BY <2>12, <3>1, Places
    <3>3. z > s => FALSE
      BY <3>2
    <3> HIDE DEF zeros
    <3> QED BY <2>10, <2>11, <3>1, <3>3
  <2> QED BY <2>1, <2>4, <2>6, <2>8, <2>13
<1> HIDE DEF ids, zeros
<1>11. Preid(cleared) # 0 =>
         /\ Preid(cleared) = Active + 1 /\ Active + 1 \in Waiting
         /\ id_table[Active + 1] # 0 /\ FreeSlot(cleared) = s
  BY <1>3, <1>4, <1>10
<1> QED BY <1>1, <1>9, <1>11

\* exit, or a failed getline: the slot becomes free or the first who waits
\* takes it.
LEMMA LogoutStep ==
    ASSUME Inv, NEW ends \in BOOLEAN, Logout(ends)
    PROVE  \E fd \in Fds, s \in Logged : Leaves(fd, s) \/ Promotes(fd, s)
<1> DEFINE fd == Current
           s == find_id(id_table, Current)
           cleared == [id_table EXCEPT ![s] = 0]
           info(g) == [user_info EXCEPT ![s] = g]
           first == cleared[Preid(cleared)]
           new == FreeSlot(cleared)
           seated == [cleared EXCEPT ![new] = first, ![Preid(cleared)] = 0]
           named(g) == [info(g) EXCEPT ![new] = Seated(info(g)[Preid(cleared)], new),
                                       ![Preid(cleared)] = g]
           moved(g) == [i \in Slots |->
                          IF i + 1 \in Waiting /\ seated[i + 1] # 0
                          THEN [MoveUp(named(g), seated, g)[i] EXCEPT !.id = i + 1]
                          ELSE MoveUp(named(g), seated, g)[i]]
<1>1. /\ fd \in rfds /\ fd \in Fds /\ s \in Logged /\ id_table[s] = fd /\ s \in Slots
  BY CurrentSlot, Places DEF Logout
<1>2. /\ sock' = [sock EXCEPT ![fd] = NoClient] /\ rfds' = rfds \ {fd}
  BY DEF Logout, LoopTo
<1>3. PICK g \in Garbage :
        IF Preid(cleared) = 0
        THEN id_table' = cleared /\ user_info' = info(g) /\ afds' = afds \ {fd}
        ELSE /\ id_table' = MoveUp(seated, seated, 0)
             /\ user_info' = moved(g)
             /\ afds' = (afds \ {fd}) \cup {first}
  BY DEF Logout
<1>4. fd # 0
  BY <1>1, Places
<1>5. /\ cleared \in [Slots -> Fds \cup {0}] /\ cleared[s] = 0
      /\ \A i \in Slots : i # s => cleared[i] = id_table[i]
      /\ Preid(cleared) = 0 <=> \A i \in Waiting : id_table[i] = 0
      /\ Preid(cleared) # 0 =>
            /\ Preid(cleared) = Active + 1 /\ Active + 1 \in Waiting
            /\ id_table[Active + 1] # 0 /\ new = s
  BY <1>1, <1>4, FirstWaits
<1> HIDE DEF fd
<1>6. CASE Preid(cleared) = 0
  <2>1. id_table' = [id_table EXCEPT ![s] = 0] /\ user_info' = [user_info EXCEPT ![s] = g]
        /\ afds' = afds \ {fd}
    BY <1>3, <1>6
  <2> HIDE DEF s, cleared
  <2>2. Leaves(fd, s)
    BY <1>1, <1>2, <1>5, <1>6, <2>1 DEF Leaves
  <2> QED BY <1>1, <2>2
<1>7. CASE Preid(cleared) # 0
  <2>1. PICK a \in Waiting : a = Active + 1 /\ Preid(cleared) = a /\ id_table[a] # 0
    BY <1>5, <1>7
  <2>2. new = s /\ a # s /\ a \in Slots /\ s \in Slots
    BY <1>1, <1>5, <1>7, <2>1, Places
  <2>3. first = id_table[a] /\ first \in Fds
    BY <1>5, <2>1, <2>2
  <2>4. seated = [cleared EXCEPT ![s] = id_table[a], ![a] = 0]
    BY <2>1, <2>2, <2>3
  <2>5. /\ id_table' = MoveUp(seated, seated, 0) /\ user_info' = moved(g)
        /\ afds' = (afds \ {fd}) \cup {id_table[a]}
    BY <1>3, <1>7, <2>3
  <2> HIDE DEF new, first
  <2>6. /\ seated \in [Slots -> Fds \cup {0}]
        /\ seated[s] = id_table[a] /\ seated[a] = 0
        /\ \A i \in Slots : i # s /\ i # a => seated[i] = id_table[i]
    <3> HIDE DEF cleared, seated
    <3>1. id_table[a] \in Fds \cup {0}
      BY <2>2 DEF Inv, TypeOK
    <3> QED BY <1>5, <2>2, <2>4, <3>1
  <2> DEFINE INFO == [id : Slots \cup JunkIds, nickname : Names \cup {NoName},
                      who : Clients \cup {NoClient}]
  <2>7. g \in INFO /\ user_info \in [Slots -> INFO]
    BY DEF Garbage, Inv, TypeOK
  <2>8. info(g) \in [Slots -> INFO] /\ \A i \in Slots : i # s => info(g)[i] = user_info[i]
    <3> HIDE DEF INFO
    <3> QED BY <1>1, <2>7
  <2>9. Seated(info(g)[a], s) = [user_info[a] EXCEPT !.id = s]
    BY <2>2, <2>8 DEF Seated
  <2>10. [user_info[a] EXCEPT !.id = s] \in INFO
    BY <2>2, <2>7
  <2>11. named(g) = [info(g) EXCEPT ![s] = [user_info[a] EXCEPT !.id = s], ![a] = g]
    BY <2>1, <2>2, <2>9
  <2> HIDE DEF cleared, info
  <2>12. /\ named(g) \in [Slots -> INFO]
         /\ named(g)[s] = [user_info[a] EXCEPT !.id = s]
         /\ \A i \in Slots : i # s /\ i # a => named(g)[i] = user_info[i]
    <3> HIDE DEF INFO, named
    <3> DEFINE r == [user_info[a] EXCEPT !.id = s]
    <3>1. r \in INFO /\ named(g) = [info(g) EXCEPT ![s] = r, ![a] = g]
      BY <2>10, <2>11
    <3> HIDE DEF r
    <3>2. /\ named(g) \in [Slots -> INFO] /\ named(g)[s] = r
          /\ \A i \in Slots : i # s /\ i # a => named(g)[i] = user_info[i]
      BY <2>2, <2>7, <2>8, <3>1
    <3> QED BY <3>2 DEF r
  <2> HIDE DEF seated, named, s
  <2>13. \A i \in Logged : i + 1 \in Waiting => i + 1 = a
    BY <2>1, Places
  <2>14. /\ \A i \in Logged : ~(i + 1 \in Waiting /\ seated[i + 1] # 0) /\ i \notin Waiting
         /\ \A i \in Waiting : i + 1 \in Waiting =>
               i + 1 \in Slots /\ i + 1 # s /\ i + 1 # a /\ seated[i + 1] = id_table[i + 1]
    <3>1. ASSUME NEW i \in Waiting, i + 1 \in Waiting
          PROVE  i + 1 \in Slots /\ i + 1 # s /\ i + 1 # a
      BY <1>1, <2>1, <3>1, Places
    <3> QED BY <2>6, <2>13, <3>1, Places
  <2>15. \A i \in Slots : id_table'[i] = IF i + 1 \in Waiting /\ seated[i + 1] # 0
                                         THEN seated[i + 1]
                                         ELSE IF i \in Waiting THEN 0 ELSE seated[i]
    BY <2>5 DEF MoveUp
  <2>16. DOMAIN id_table' = Slots /\ id_table' = [i \in Slots |-> id_table'[i]]
    BY <2>5 DEF MoveUp
  <2>17. \A i \in Waiting : id_table'[i] = IF i + 1 \in Waiting THEN id_table[i + 1] ELSE 0
    BY <2>14, <2>15, Places
  <2>18. \A i \in Logged : id_table'[i] = seated[i]
    BY <2>14, <2>15, Places
  <2>19. /\ id_table'[s] = id_table[a]
         /\ \A i \in Logged : i # s => id_table'[i] = id_table[i]
    BY <1>1, <2>6, <2>18, Places
  <2>20. id_table' \in [Slots -> Fds \cup {0}]
    <3>1. \A i \in Slots : id_table'[i] \in Fds \cup {0}
      BY <2>6, <2>15, Places
    <3> QED BY <2>16, <3>1
  <2>21. \A i \in Slots : user_info'[i] =
            IF i + 1 \in Waiting /\ seated[i + 1] # 0 THEN [named(g)[i + 1] EXCEPT !.id = i + 1]
            ELSE IF i \in Waiting THEN g ELSE named(g)[i]
    BY <2>5 DEF MoveUp
  <2>22. \A i \in Logged : user_info'[i] = named(g)[i]
    BY <2>14, <2>21, Places
  <2>23. \A i \in Waiting : i + 1 \in Waiting /\ id_table[i + 1] # 0 =>
            user_info'[i] = [user_info[i + 1] EXCEPT !.id = i + 1]
    <3>1. ASSUME NEW i \in Waiting, i + 1 \in Waiting, id_table[i + 1] # 0
          PROVE  user_info'[i] = [user_info[i + 1] EXCEPT !.id = i + 1]
      <4>1. /\ i \in Slots /\ i + 1 \in Slots /\ i + 1 # s /\ i + 1 # a
            /\ seated[i + 1] # 0
        BY <2>14, <3>1, Places
      <4>2. named(g)[i + 1] = user_info[i + 1]
        BY <2>12, <4>1
      <4>3. user_info'[i] = [named(g)[i + 1] EXCEPT !.id = i + 1]
        BY <2>21, <3>1, <4>1
      <4> QED BY <4>2, <4>3
    <3> QED BY <3>1
  <2>24. user_info' \in [Slots -> INFO]
    <3>1. DOMAIN user_info' = Slots /\ user_info' = [i \in Slots |-> user_info'[i]]
      BY <2>5 DEF moved
    <3>2. ASSUME NEW i \in Slots
          PROVE  user_info'[i] \in INFO
      <4>1. CASE i + 1 \in Waiting /\ seated[i + 1] # 0
        <5>1. i + 1 \in Slots /\ named(g)[i + 1] \in INFO
          BY <2>12, <4>1, Places
        <5>2. [named(g)[i + 1] EXCEPT !.id = i + 1] \in INFO
          BY <5>1
        <5> QED BY <2>21, <4>1, <5>2
      <4>2. CASE ~(i + 1 \in Waiting /\ seated[i + 1] # 0)
        <5> HIDE DEF INFO
        <5> QED BY <2>7, <2>12, <2>21, <4>2
      <4> QED BY <4>1, <4>2
    <3> HIDE DEF INFO
    <3> QED BY <3>1, <3>2
  <2>25. /\ user_info'[s] = [user_info[a] EXCEPT !.id = s]
         /\ \A i \in Logged : i # s => user_info'[i] = user_info[i]
    <3>1. \A i \in Logged : i # a /\ i \in Slots
      BY <2>1, Places
    <3> QED BY <1>1, <2>12, <2>22, <3>1
  <2> HIDE DEF moved
  <2>26. Promotes(fd, s)
    <3>1. /\ user_info' \in [Slots -> [id : Slots \cup JunkIds, nickname : Names \cup {NoName},
                                       who : Clients \cup {NoClient}]]
      BY <2>24
    <3> HIDE DEF INFO
    <3> QED BY <1>1, <1>2, <2>1, <2>5, <2>17, <2>19, <2>20, <2>23, <2>25, <3>1, Zenon DEF Promotes
  <2> QED BY <1>1, <2>26
<1> QED BY <1>6, <1>7

-----------------------------------------------------------------------------
(***************************************************************************)
(* The invariant.                                                          *)
(***************************************************************************)
\* Nobody is connected.
LEMMA InvInit == Init => Inv
<1> SUFFICES ASSUME Init PROVE Inv
  OBVIOUS
<1> USE Places, RoomAssumption DEF Init
<1>1. TypeOK
  <2>1. PICK g \in Garbage : user_info = [i \in Slots |-> g]
    OBVIOUS
  <2>2. g \in [id : Slots \cup JunkIds, nickname : Names \cup {NoName},
               who : Clients \cup {NoClient}]
    BY DEF Garbage
  <2> QED BY <2>1, <2>2 DEF TypeOK
<1>2. TablesAgree /\ NoGap /\ ServedAreLogged
  <2>1. {id_table[i] : i \in Logged} \ {0} = {}
    OBVIOUS
  <2> QED BY <2>1 DEF TablesAgree, NoGap, ServedAreLogged
<1>3. Rounds /\ OneSocket /\ InfoMatches /\ NamesUnique /\ WaitingUnnamed
  BY DEF Rounds, OneSocket, InfoMatches, NamesUnique, WaitingUnnamed
<1> QED BY <1>1, <1>2, <1>3 DEF Inv

\* The loop goes on while a descriptor is left.
LEMMA LoopRounds ==
    ASSUME Inv, pc = "loop", LoopTo
    PROVE  /\ pc' \in {"select", "loop"} /\ rfds' \in SUBSET Fds /\ Rounds'
           /\ rfds' \in SUBSET rfds
<1>1. Current \in rfds
  BY CurrentSlot
<1> QED BY <1>1 DEF LoopTo, Rounds, Inv, TypeOK

\* Steps that move no client: select, a failed accept, a line.
LEMMA QuietInv ==
    ASSUME Inv, UNCHANGED <<sock, id_table, user_info, afds>>,
           pc' \in {"select", "accept", "loop", "exited"}, eof' \in BOOLEAN, Rounds',
           rfds' \in SUBSET afds \/ rfds' \in SUBSET rfds
    PROVE  Inv'
<1> USE DEF Inv
<1>1. TypeOK'
  BY DEF TypeOK
<1>2. TablesAgree' /\ NoGap' /\ InfoMatches' /\ NamesUnique' /\ WaitingUnnamed' /\ OneSocket'
  BY DEF TablesAgree, NoGap, InfoMatches, NamesUnique, WaitingUnnamed, OneSocket
<1>3. ServedAreLogged'
  <2>1. \A fd \in afds : \E i \in Logged : id_table[i] = fd
    BY DEF TablesAgree
  <2> QED BY <2>1 DEF ServedAreLogged
<1> QED BY <1>1, <1>2, <1>3

\* A user takes a name that nobody has.
LEMMA NameInv ==
    ASSUME Inv, NEW n \in Names, Name(n)
    PROVE  Inv'
<1> USE DEF Inv
<1> DEFINE s == find_id(id_table, Current)
<1>1. s \in Logged /\ s \in Slots
  BY CurrentSlot, Places DEF Name
<1>2. /\ user_info' = [user_info EXCEPT ![s].nickname = n]
      /\ UNCHANGED <<sock, id_table, afds, eof>>
      /\ \A i \in Logged : user_info[i].nickname # n
  BY DEF Name, Taken
<1>3. pc' \in {"select", "loop"} /\ rfds' \in SUBSET Fds /\ Rounds' /\ rfds' \in SUBSET rfds
  BY LoopRounds DEF Name
<1> HIDE DEF s
<1> DEFINE INFO == [id : Slots \cup JunkIds, nickname : Names \cup {NoName},
                    who : Clients \cup {NoClient}]
<1>4. /\ user_info' \in [Slots -> INFO]
      /\ user_info'[s].nickname = n /\ user_info'[s].id = user_info[s].id
      /\ user_info'[s].who = user_info[s].who
      /\ \A i \in Slots : i # s => user_info'[i] = user_info[i]
  BY <1>1, <1>2 DEF TypeOK
<1>5. TypeOK'
  BY <1>2, <1>3, <1>4 DEF TypeOK
<1>6. TablesAgree' /\ NoGap' /\ OneSocket'
  BY <1>2 DEF TablesAgree, NoGap, OneSocket
<1>7. ServedAreLogged'
  BY <1>2, <1>3 DEF ServedAreLogged
<1>8. InfoMatches'
  BY <1>1, <1>2, <1>4 DEF InfoMatches
<1>9. NamesUnique'
  BY <1>1, <1>2, <1>4, Places DEF NamesUnique
<1>10. WaitingUnnamed'
  BY <1>1, <1>2, <1>4, Places DEF WaitingUnnamed
<1> QED BY <1>3, <1>5, <1>6, <1>7, <1>8, <1>9, <1>10

\* A client arrives.
LEMMA ArrivesInv ==
    ASSUME Inv, NEW c \in Clients, NEW fd \in Fds, NEW s \in Slots, Arrives(c, fd, s)
    PROVE  Inv'
<1> USE DEF Inv
<1>1. /\ ~Connected(c) /\ sock[fd] = NoClient
      /\ id_table[s] = 0 /\ \A k \in Slots : id_table[k] = 0 => s <= k
      /\ sock' = [sock EXCEPT ![fd] = c]
      /\ id_table' = [id_table EXCEPT ![s] = fd]
      /\ user_info' = [user_info EXCEPT ![s] = [id |-> s, nickname |-> NoName, who |-> c]]
      /\ afds' = IF s <= Active THEN afds \cup {fd} ELSE afds
      /\ pc' = IF rfds = {} THEN "select" ELSE "loop"
      /\ rfds' = rfds /\ eof' = eof
  BY DEF Arrives
<1>2. /\ id_table'[s] = fd /\ \A i \in Slots : i # s => id_table'[i] = id_table[i]
      /\ sock'[fd] = c /\ \A f \in Fds : f # fd => sock'[f] = sock[f]
      /\ fd # 0 /\ c # NoClient
  BY <1>1, Places, RoomAssumption DEF TypeOK
<1>3. /\ user_info'[s] = [id |-> s, nickname |-> NoName, who |-> c]
      /\ \A i \in Slots : i # s => user_info'[i] = user_info[i]
  BY <1>1 DEF TypeOK
<1>4. TypeOK' /\ Rounds'
  <2>1. afds' \in SUBSET Fds
    BY <1>1 DEF TypeOK
  <2>2. id_table' \in [Slots -> Fds \cup {0}] /\ sock' \in [Fds -> Clients \cup {NoClient}]
    BY <1>1 DEF TypeOK
  <2>3. user_info' \in [Slots -> [id : Slots \cup JunkIds, nickname : Names \cup {NoName},
                                  who : Clients \cup {NoClient}]]
    BY <1>1 DEF TypeOK
  <2> QED BY <1>1, <2>1, <2>2, <2>3 DEF TypeOK, Rounds
<1>5. \A i \in Slots : id_table[i] # fd
  BY <1>1 DEF TablesAgree
<1>6. TablesAgree'
  <2>1. \A i, k \in Slots : i # k /\ id_table'[i] # 0 => id_table'[i] # id_table'[k]
    BY <1>2, <1>5 DEF TablesAgree
  <2>2. \A f \in Fds : sock'[f] # NoClient <=> \E i \in Slots : id_table'[i] = f
    BY <1>1, <1>2, <1>5, Places DEF TablesAgree
  <2>3. afds' = {id_table'[i] : i \in Logged} \ {0}
    <3>1. CASE s <= Active
      <4>1. s \in Logged
        BY <3>1, Places
      <4>2. {id_table'[i] : i \in Logged} \ {0} = ({id_table[i] : i \in Logged} \ {0}) \cup {fd}
        BY <1>1, <1>2, <4>1, Places
      <4> QED BY <1>1, <3>1, <4>2 DEF TablesAgree
    <3>2. CASE ~(s <= Active)
      <4>1. \A i \in Logged : id_table'[i] = id_table[i]
        BY <1>2, <3>2, Places
      <4> QED BY <1>1, <3>2, <4>1 DEF TablesAgree
    <3> QED BY <3>1, <3>2
  <2> QED BY <2>1, <2>2, <2>3 DEF TablesAgree
<1>7. NoGap'
  <2>1. ASSUME NEW i \in Waiting, id_table'[i] # 0, NEW k \in 1 .. (i - 1)
        PROVE  id_table'[k] # 0
    <3>1. i \in Slots /\ k \in Slots /\ k < i /\ i \in Nat /\ k \in Nat /\ s \in Nat
      BY Places
    <3>2. CASE k = s
      BY <1>2, <3>2
    <3>3. CASE k # s
      <4>1. CASE i = s
        BY <1>1, <1>2, <3>1, <3>3, <4>1
      <4>2. CASE i # s
        BY <1>2, <2>1, <3>1, <3>3, <4>2 DEF NoGap
      <4> QED BY <4>1, <4>2
    <3> QED BY <3>2, <3>3
  <2> QED BY <2>1 DEF NoGap
<1>8. ServedAreLogged'
  BY <1>1, <1>2, Places DEF ServedAreLogged, TypeOK
<1>9. InfoMatches'
  BY <1>2, <1>3, <1>5 DEF InfoMatches, TypeOK
<1>10. NamesUnique'
  <2>1. user_info'[s].nickname = NoName
    BY <1>3
  <2>2. \A i \in Logged : i # s => user_info'[i] = user_info[i] /\ id_table'[i] = id_table[i]
    BY <1>2, <1>3, Places
  <2> QED BY <2>1, <2>2 DEF NamesUnique
<1>11. WaitingUnnamed'
  BY <1>2, <1>3, Places DEF WaitingUnnamed
<1>12. OneSocket'
  BY <1>1, <1>2 DEF OneSocket, Connected
<1> QED BY <1>4, <1>6, <1>7, <1>8, <1>9, <1>10, <1>11, <1>12

\* A user leaves and nobody waits.
LEMMA LeavesInv ==
    ASSUME Inv, NEW ends \in BOOLEAN, Logout(ends), NEW fd \in Fds, NEW s \in Logged,
           Leaves(fd, s)
    PROVE  Inv'
<1> USE DEF Inv
<1>1. /\ fd \in rfds /\ id_table[s] = fd /\ fd # 0 /\ s \in Slots
      /\ \A i \in Waiting : id_table[i] = 0
      /\ sock' = [sock EXCEPT ![fd] = NoClient]
      /\ id_table' = [id_table EXCEPT ![s] = 0]
      /\ afds' = afds \ {fd} /\ rfds' = rfds \ {fd}
  BY Places DEF Leaves
<1>2. PICK g \in Garbage : user_info' = [user_info EXCEPT ![s] = g]
  BY DEF Leaves
<1>3. /\ id_table'[s] = 0 /\ \A i \in Slots : i # s => id_table'[i] = id_table[i]
      /\ sock'[fd] = NoClient /\ \A f \in Fds : f # fd => sock'[f] = sock[f]
      /\ \A i \in Slots : i # s => user_info'[i] = user_info[i]
  BY <1>1, <1>2 DEF TypeOK
<1>4. TypeOK' /\ Rounds'
  <2>1. pc' \in {"select", "loop"} /\ Rounds' /\ eof' = ends
    BY LoopRounds DEF Logout
  <2>2. id_table' \in [Slots -> Fds \cup {0}] /\ sock' \in [Fds -> Clients \cup {NoClient}]
    BY <1>1 DEF TypeOK
  <2>3. user_info' \in [Slots -> [id : Slots \cup JunkIds, nickname : Names \cup {NoName},
                                  who : Clients \cup {NoClient}]]
    BY <1>1, <1>2 DEF TypeOK, Garbage
  <2> QED BY <1>1, <2>1, <2>2, <2>3 DEF TypeOK
<1>5. \A i \in Slots : i # s => id_table[i] # fd
  BY <1>1 DEF TablesAgree
<1>6. TablesAgree'
  <2>1. \A i, k \in Slots : i # k /\ id_table'[i] # 0 => id_table'[i] # id_table'[k]
    BY <1>3 DEF TablesAgree
  <2>2. \A f \in Fds : sock'[f] # NoClient <=> \E i \in Slots : id_table'[i] = f
    BY <1>1, <1>3, <1>5, Places DEF TablesAgree
  <2>3. afds' = {id_table'[i] : i \in Logged} \ {0}
    <3>1. {id_table'[i] : i \in Logged} \ {0} = ({id_table[i] : i \in Logged} \ {0}) \ {fd}
      BY <1>1, <1>3, <1>5, Places
    <3> QED BY <1>1, <3>1 DEF TablesAgree
  <2> QED BY <2>1, <2>2, <2>3 DEF TablesAgree
<1>7. NoGap' /\ WaitingUnnamed'
  <2>1. \A i \in Waiting : id_table'[i] = 0
    BY <1>1, <1>3, Places
  <2> QED BY <2>1 DEF NoGap, WaitingUnnamed
<1>8. ServedAreLogged'
  <2>1. ASSUME NEW f \in rfds'
        PROVE  \E i \in Logged : id_table'[i] = f
    <3>1. PICK i \in Logged : id_table[i] = f
      BY <1>1, <2>1 DEF ServedAreLogged
    <3>2. i # s /\ i \in Slots
      BY <1>1, <2>1, <3>1, Places
    <3> QED BY <1>3, <3>1, <3>2
  <2> QED BY <2>1 DEF ServedAreLogged
<1>9. InfoMatches'
  BY <1>3, <1>5 DEF InfoMatches, TypeOK
<1>10. NamesUnique'
  BY <1>3, Places DEF NamesUnique
<1>11. OneSocket'
  BY <1>3 DEF OneSocket
<1> QED BY <1>4, <1>6, <1>7, <1>8, <1>9, <1>10, <1>11

\* A user leaves and the first who waits takes the slot.
LEMMA PromotesInv ==
    ASSUME Inv, NEW ends \in BOOLEAN, Logout(ends), NEW fd \in Fds, NEW s \in Logged,
           Promotes(fd, s)
    PROVE  Inv'
<1> USE DEF Inv
<1>1. PICK a \in Waiting : a = Active + 1
  BY DEF Promotes
<1> DEFINE from == [i \in Slots |-> IF i = s THEN a ELSE IF i \in Logged THEN i ELSE i + 1]
<1>2. /\ fd \in rfds /\ id_table[s] = fd /\ fd # 0 /\ s \in Slots /\ a \in Slots /\ a # s
      /\ id_table[a] # 0
      /\ sock' = [sock EXCEPT ![fd] = NoClient]
      /\ afds' = (afds \ {fd}) \cup {id_table[a]} /\ rfds' = rfds \ {fd}
  BY <1>1, Places DEF Promotes
<1>3. /\ id_table'[s] = id_table[a]
      /\ \A i \in Logged : i # s => id_table'[i] = id_table[i] /\ user_info'[i] = user_info[i]
      /\ \A i \in Waiting : id_table'[i] = IF i + 1 \in Waiting THEN id_table[i + 1] ELSE 0
      /\ user_info'[s] = [user_info[a] EXCEPT !.id = s]
      /\ \A i \in Waiting : i + 1 \in Waiting /\ id_table[i + 1] # 0 =>
            user_info'[i] = [user_info[i + 1] EXCEPT !.id = i + 1]
  BY <1>1 DEF Promotes
<1>4. /\ sock'[fd] = NoClient /\ \A f \in Fds : f # fd => sock'[f] = sock[f]
  BY <1>2 DEF TypeOK
<1>5. TypeOK' /\ Rounds'
  <2>1. pc' \in {"select", "loop"} /\ Rounds' /\ eof' = ends
    BY LoopRounds DEF Logout
  <2>2. sock' \in [Fds -> Clients \cup {NoClient}] /\ afds' \in SUBSET Fds
    BY <1>2 DEF TypeOK
  <2>3. /\ id_table' \in [Slots -> Fds \cup {0}]
        /\ user_info' \in [Slots -> [id : Slots \cup JunkIds, nickname : Names \cup {NoName},
                                     who : Clients \cup {NoClient}]]
    BY DEF Promotes
  <2> QED BY <1>2, <2>1, <2>2, <2>3 DEF TypeOK
<1>6. /\ from[s] = a /\ \A i \in Logged : i # s => from[i] = i
      /\ \A i \in Waiting : from[i] = i + 1
  BY <1>2, Places
<1> HIDE DEF from
\* An entry comes from a slot of its own, and none from s.
<1>7. \A i, k \in Slots : i # k => from[i] # from[k]
  <2>1. \A i \in Slots : i = s \/ (i \in Logged /\ i # s) \/ i \in Waiting
    BY Places
  <2>2. \A i \in Waiting : from[i] > a
    BY <1>1, <1>6, Places
  <2>3. \A i \in Logged : i # s => from[i] < a
    BY <1>1, <1>6, Places
  <2>4. ASSUME NEW i \in Slots, NEW k \in Slots, i # k
        PROVE  from[i] # from[k]
    <3>1. CASE i \in Waiting /\ k \in Waiting
      BY <1>6, <2>4, <3>1, Places
    <3>2. CASE i \in Waiting /\ k \notin Waiting
      <4>1. from[k] <= a /\ from[i] > a /\ from[i] \in Nat /\ from[k] \in Nat /\ a \in Nat
        BY <1>6, <2>1, <2>2, <2>3, <3>2, <1>1, Places
      <4> QED BY <4>1
    <3>3. CASE k \in Waiting /\ i \notin Waiting
      <4>1. from[i] <= a /\ from[k] > a /\ from[i] \in Nat /\ from[k] \in Nat /\ a \in Nat
        BY <1>6, <2>1, <2>2, <2>3, <3>3, <1>1, Places
      <4> QED BY <4>1
    <3>4. CASE i \notin Waiting /\ k \notin Waiting
      <4>1. \A j \in Logged : j # a
        BY <1>1, Places
      <4> QED BY <1>6, <2>1, <2>4, <3>4, <4>1
    <3> QED BY <3>1, <3>2, <3>3, <3>4
  <2> QED BY <2>4
<1>8. \A i \in Slots : from[i] # s
  BY <1>2, <1>6, Places
<1>9. \A j \in Slots : j # s => \E i \in Slots : from[i] = j
  <2>1. ASSUME NEW j \in Waiting, j # a
        PROVE  \E i \in Slots : from[i] = j
    <3>1. PICK i \in Waiting : i = j - 1
      BY <1>1, <2>1, Places DEF Waiting
    <3>2. from[i] = j /\ i \in Slots
      BY <1>6, <3>1, Places
    <3> QED BY <3>2
  <2> QED BY <1>2, <1>6, <2>1, Places
<1>10. \A i \in Slots :
          /\ from[i] \in Slots => id_table'[i] = id_table[from[i]]
          /\ from[i] \notin Slots => id_table'[i] = 0
  <2>1. \A i \in Waiting : i + 1 \in Slots <=> i + 1 \in Waiting
    BY Places DEF Waiting, Slots
  <2> QED BY <1>2, <1>3, <1>6, <2>1, Places
<1>11. \A i \in Slots : id_table'[i] # 0 =>
          /\ from[i] \in Slots /\ id_table'[i] = id_table[from[i]] /\ id_table'[i] # fd
          /\ user_info'[i].who = user_info[from[i]].who
          /\ user_info'[i].nickname = user_info[from[i]].nickname
  <2>1. ASSUME NEW i \in Slots, id_table'[i] # 0
        PROVE  from[i] \in Slots /\ id_table'[i] = id_table[from[i]] /\ id_table'[i] # fd
    <3>1. from[i] \in Slots /\ id_table'[i] = id_table[from[i]]
      BY <1>10, <2>1
    <3> QED BY <1>2, <1>8, <2>1, <3>1 DEF TablesAgree
  <2>2. ASSUME NEW i \in Slots, id_table'[i] # 0
        PROVE  /\ user_info'[i].who = user_info[from[i]].who
               /\ user_info'[i].nickname = user_info[from[i]].nickname
    <3>1. CASE i = s
      BY <1>2, <1>3, <1>6, <3>1 DEF TypeOK
    <3>2. CASE i \in Logged /\ i # s
      BY <1>3, <1>6, <3>2
    <3>3. CASE i \in Waiting
      <4>1. i + 1 \in Waiting /\ id_table[i + 1] # 0
        BY <1>3, <2>2, <3>3
      <4>2. user_info'[i] = [user_info[i + 1] EXCEPT !.id = i + 1] /\ i + 1 \in Slots
        BY <1>3, <3>3, <4>1, Places
      <4> QED BY <1>6, <3>3, <4>2 DEF TypeOK
    <3> QED BY <3>1, <3>2, <3>3, Places
  <2> QED BY <2>1, <2>2
<1>12. TablesAgree'
  <2>1. ASSUME NEW i \in Slots, NEW k \in Slots, i # k, id_table'[i] # 0
        PROVE  id_table'[i] # id_table'[k]
    <3>1. from[i] \in Slots /\ id_table'[i] = id_table[from[i]]
      BY <1>11, <2>1
    <3>2. CASE id_table'[k] = 0
      BY <2>1, <3>2
    <3>3. CASE id_table'[k] # 0
      <4>1. from[k] \in Slots /\ id_table'[k] = id_table[from[k]] /\ from[i] # from[k]
        BY <1>7, <1>11, <2>1, <3>3
      <4> QED BY <2>1, <3>1, <4>1 DEF TablesAgree
    <3> QED BY <3>2, <3>3
  <2>2. ASSUME NEW f \in Fds
        PROVE  sock'[f] # NoClient <=> \E i \in Slots : id_table'[i] = f
    <3>1. f # 0
      BY Places
    <3>2. ASSUME NEW i \in Slots, id_table'[i] = f
          PROVE  sock'[f] # NoClient
      <4>1. from[i] \in Slots /\ f = id_table[from[i]] /\ f # fd
        BY <1>11, <3>1, <3>2
      <4> QED BY <1>4, <4>1 DEF TablesAgree
    <3>3. ASSUME sock'[f] # NoClient
          PROVE  \E i \in Slots : id_table'[i] = f
      <4>1. f # fd /\ sock[f] # NoClient
        BY <1>4, <3>3
      <4>2. PICK j \in Slots : id_table[j] = f
        BY <4>1 DEF TablesAgree
      <4>3. j # s
        BY <1>2, <4>1, <4>2
      <4>4. PICK i \in Slots : from[i] = j
        BY <1>9, <4>3
      <4> QED BY <1>10, <4>2, <4>4
    <3> QED BY <3>2, <3>3
  <2>3. afds' = {id_table'[i] : i \in Logged} \ {0}
    <3>1. \A i \in Logged : i # s => id_table[i] # fd
      BY <1>2, Places DEF TablesAgree
    <3>2. {id_table'[i] : i \in Logged} \ {0}
            = (({id_table[i] : i \in Logged} \ {0}) \ {fd}) \cup {id_table[a]}
      BY <1>2, <1>3, <3>1
    <3> QED BY <1>2, <3>2 DEF TablesAgree
  <2> QED BY <2>1, <2>2, <2>3 DEF TablesAgree
<1>13. NoGap'
  <2>1. ASSUME NEW i \in Waiting, id_table'[i] # 0, NEW k \in 1 .. (i - 1)
        PROVE  id_table'[k] # 0
    <3>1. i + 1 \in Waiting /\ id_table[i + 1] # 0
      BY <1>3, <2>1
    <3>2. \A j \in 1 .. i : id_table[j] # 0
      BY <3>1, Places DEF NoGap
    <3>3. k \in Slots /\ k \in 1 .. i /\ k + 1 \in 1 .. i
      BY Places
    <3>4. CASE k \in Logged
      BY <1>2, <1>3, <3>2, <3>3, <3>4
    <3>5. CASE k \in Waiting
      <4>1. k + 1 \in Waiting
        BY <3>1, <3>3, <3>5, Places DEF Waiting
      <4> QED BY <1>3, <3>2, <3>3, <3>5, <4>1
    <3> QED BY <3>3, <3>4, <3>5, Places
  <2> QED BY <2>1 DEF NoGap
<1>14. ServedAreLogged'
  <2>1. ASSUME NEW f \in rfds'
        PROVE  \E i \in Logged : id_table'[i] = f
    <3>1. PICK i \in Logged : id_table[i] = f
      BY <1>2, <2>1 DEF ServedAreLogged
    <3>2. i # s
      BY <1>2, <2>1, <3>1
    <3> QED BY <1>3, <3>1, <3>2
  <2> QED BY <2>1 DEF ServedAreLogged
<1>15. InfoMatches'
  <2>1. ASSUME NEW i \in Slots, id_table'[i] # 0
        PROVE  user_info'[i].who = sock'[id_table'[i]]
    <3>1. /\ from[i] \in Slots /\ id_table'[i] = id_table[from[i]] /\ id_table'[i] # fd
          /\ user_info'[i].who = user_info[from[i]].who
      BY <1>11, <2>1
    <3>2. id_table[from[i]] \in Fds
      BY <2>1, <3>1 DEF TypeOK
    <3> QED BY <1>4, <2>1, <3>1, <3>2 DEF InfoMatches
  <2>2. ASSUME NEW i \in Logged, id_table'[i] # 0
        PROVE  user_info'[i].id = i
    <3>1. CASE i = s
      BY <1>2, <1>3, <3>1 DEF TypeOK
    <3>2. CASE i # s
      BY <1>3, <2>2, <3>2, Places DEF InfoMatches
    <3> QED BY <3>1, <3>2
  <2> QED BY <2>1, <2>2 DEF InfoMatches
<1>16. user_info'[s].nickname = NoName
  BY <1>1, <1>2, <1>3 DEF WaitingUnnamed, TypeOK
<1>17. NamesUnique'
  <2>1. ASSUME NEW i \in Logged, NEW k \in Logged, i # k, id_table'[i] # 0, id_table'[k] # 0,
               user_info'[i].nickname = user_info'[k].nickname
        PROVE  user_info'[i].nickname = NoName
    <3>1. CASE i = s \/ k = s
      BY <1>16, <2>1, <3>1
    <3>2. CASE i # s /\ k # s
      <4>1. /\ id_table'[i] = id_table[i] /\ user_info'[i] = user_info[i]
            /\ id_table'[k] = id_table[k] /\ user_info'[k] = user_info[k]
        BY <1>3, <3>2
      <4> QED BY <2>1, <4>1 DEF NamesUnique
    <3> QED BY <3>1, <3>2
  <2> QED BY <2>1 DEF NamesUnique
<1>18. WaitingUnnamed'
  <2>1. ASSUME NEW i \in Waiting, id_table'[i] # 0
        PROVE  user_info'[i].nickname = NoName
    <3>1. i + 1 \in Waiting /\ id_table[i + 1] # 0
      BY <1>3, <2>1
    <3>2. user_info'[i].nickname = user_info[i + 1].nickname
      BY <1>6, <1>11, <2>1, Places
    <3> QED BY <3>1, <3>2 DEF WaitingUnnamed
  <2> QED BY <2>1 DEF WaitingUnnamed
<1>19. OneSocket'
  BY <1>4 DEF OneSocket
<1> QED BY <1>5, <1>12, <1>13, <1>14, <1>15, <1>17, <1>18, <1>19

\* Every step keeps the invariant.
LEMMA InvNext == Inv /\ [Next]_vars => Inv'
<1> SUFFICES ASSUME Inv, [Next]_vars PROVE Inv'
  OBVIOUS
<1>1. CASE Select
  <2>1. Rounds'
    BY <1>1 DEF Select, Rounds
  <2>2. UNCHANGED <<sock, id_table, user_info, afds, eof>> /\ rfds' \in SUBSET afds
        /\ pc' \in {"accept", "loop"} /\ eof \in BOOLEAN
    BY <1>1 DEF Select, Inv, TypeOK
  <2> QED BY <2>1, <2>2, QuietInv
<1>2. CASE AcceptFails \/ SigPipe
  <2>1. /\ UNCHANGED <<sock, id_table, user_info, afds, eof, rfds>> /\ pc' = "exited"
        /\ eof \in BOOLEAN
    BY <1>2 DEF AcceptFails, SigPipe, Inv, TypeOK
  <2>2. Rounds'
    BY <2>1 DEF Rounds
  <2> QED BY <2>1, <2>2, QuietInv
<1>3. ASSUME NEW c \in Clients, Accept(c)
      PROVE  Inv'
  BY <1>3, AcceptStep, ArrivesInv
<1>4. CASE Line
  <2>1. /\ pc = "loop" /\ LoopTo /\ UNCHANGED <<sock, id_table, user_info, afds, eof>>
        /\ eof \in BOOLEAN
    BY <1>4 DEF Line, Inv, TypeOK
  <2>2. pc' \in {"select", "loop"} /\ Rounds' /\ rfds' \in SUBSET rfds
    BY <2>1, LoopRounds
  <2> QED BY <2>1, <2>2, QuietInv
<1>5. ASSUME NEW n \in Names, Name(n)
      PROVE  Inv'
  BY <1>5, NameInv
<1>6. ASSUME NEW ends \in BOOLEAN, Logout(ends)
      PROVE  Inv'
  <2>1. PICK fd \in Fds, s \in Logged : Leaves(fd, s) \/ Promotes(fd, s)
    BY <1>6, LogoutStep
  <2> QED BY <1>6, <2>1, LeavesInv, PromotesInv
<1>7. CASE UNCHANGED vars
  <2>1. UNCHANGED <<pc, sock, id_table, user_info, afds, eof, rfds>>
    BY <1>7 DEF vars
  <2>2. Rounds'
    BY <2>1 DEF Rounds, Inv
  <2>3. eof \in BOOLEAN /\ pc \in {"select", "accept", "loop", "exited"}
    BY DEF Inv, TypeOK
  <2> QED BY <2>1, <2>2, <2>3, QuietInv
<1> QED BY <1>1, <1>2, <1>3, <1>4, <1>5, <1>6, <1>7 DEF Next

-----------------------------------------------------------------------------
(***************************************************************************)
(* The refinement of Admission.                                            *)
(***************************************************************************)
\* The number of clients who wait.
Waiters == Cardinality({i \in Waiting : id_table[i] # 0})

QueueShape ==
    /\ Waiters \in Nat /\ Active + Waiters <= MaxFd
    /\ \A i \in Waiting : id_table[i] # 0 <=> i <= Active + Waiters
    /\ Queue = [k \in 1 .. Waiters |-> sock[id_table[Active + k]]]
    /\ Queue \in Seq(Clients) /\ Len(Queue) = Waiters

MembersShape ==
    /\ (\E k \in Logged : id_table[k] = 0) <=> Cardinality(Members) < Active
    /\ \A c : c \in Members <=> \E i \in Logged : id_table[i] # 0 /\ sock[id_table[i]] = c

\* Cardinality is the same in Admission.
LEMMA SameCardinality ==
    ASSUME NEW S
    PROVE  Abstract!Cardinality(S) = Cardinality(S)
BY DEF Abstract!Cardinality, Cardinality

\* Those who wait have the first slots of the waiting room.
LEMMA QueueFacts == Inv => QueueShape
<1> SUFFICES ASSUME Inv PROVE QueueShape
  OBVIOUS
<1> USE DEF Inv
<1> DEFINE W == {i \in Waiting : id_table[i] # 0}
           ends == {i \in (Active + 1) .. (MaxFd + 1) : i = MaxFd + 1 \/ id_table[i] = 0}
<1>1. Active \in Nat /\ MaxFd \in Nat /\ Active <= MaxFd
  BY RoomAssumption
<1>2. MaxFd + 1 \in ends /\ ends \in SUBSET Nat
  BY <1>1
<1>3. PICK e \in ends : \A k \in ends : e <= k
  <2> HIDE DEF ends
  <2> QED BY <1>2, LeastElement
<1>4. e \in Nat /\ e >= Active + 1 /\ e <= MaxFd + 1
  BY <1>1
<1>5. \A i \in Waiting : i < e => id_table[i] # 0
  BY <1>1, <1>3, <1>4, Places DEF Waiting
<1>6. \A i \in Waiting : i >= e => id_table[i] = 0
  <2>1. ASSUME NEW i \in Waiting, i >= e, id_table[i] # 0
        PROVE  FALSE
    <3>1. e \in Waiting /\ id_table[e] = 0
      BY <1>1, <1>3, <1>4, <2>1, Places DEF Waiting
    <3>2. e # i
      BY <2>1, <3>1
    <3>3. e \in 1 .. (i - 1)
      BY <1>1, <1>4, <2>1, <3>2, Places
    <3> QED BY <2>1, <3>1, <3>3 DEF NoGap
  <2> QED BY <2>1
<1>7. W = (Active + 1) .. (e - 1)
  BY <1>1, <1>4, <1>5, <1>6 DEF Waiting
<1>8. PICK n \in Nat : e = Active + 1 + n
  BY <1>1, <1>4
<1>9. Active + 1 \in Int /\ e - 1 \in Int
  BY <1>1, <1>4
<1>10. Cardinality((Active + 1) .. (e - 1)) =
          IF Active + 1 > e - 1 THEN 0 ELSE (e - 1) - (Active + 1) + 1
  BY <1>9, FS_Interval
<1>11. Waiters = n
  <2>1. Waiters = IF Active + 1 > e - 1 THEN 0 ELSE (e - 1) - (Active + 1) + 1
    BY <1>7, <1>10 DEF Waiters
  <2>2. e - 1 = Active + n
    BY <1>1, <1>8
  <2> QED BY <1>1, <1>8, <2>1, <2>2
<1>12. \A i \in Waiting : id_table[i] # 0 <=> i <= Active + n
  BY <1>1, <1>4, <1>5, <1>6, <1>8, Places
<1>13. Queue = [k \in 1 .. n |-> sock[id_table[Active + k]]]
  BY <1>11 DEF Queue, Waiters
<1>14. Active + n <= MaxFd
  BY <1>1, <1>4, <1>8
<1>15. \A k \in 1 .. n : sock[id_table[Active + k]] \in Clients
  <2>1. ASSUME NEW k \in 1 .. n
        PROVE  sock[id_table[Active + k]] \in Clients
    <3>1. PICK i \in Waiting : i = Active + k /\ id_table[i] # 0
      BY <1>1, <1>12, <1>14 DEF Waiting
    <3>2. id_table[i] \in Fds /\ sock[id_table[i]] # NoClient
      BY <3>1, Places DEF TypeOK, TablesAgree
    <3> QED BY <3>1, <3>2 DEF TypeOK
  <2> QED BY <2>1
<1>16. Queue \in Seq(Clients) /\ Len(Queue) = n
  <2>1. Queue \in [1 .. n -> Clients]
    BY <1>13, <1>15
  <2> QED BY <2>1, SeqDef, LenProperties
<1> QED BY <1>11, <1>12, <1>13, <1>14, <1>16 DEF QueueShape

\* There is a slot for a user exactly when fewer than Active are members.
LEMMA MembersFacts == Inv => MembersShape
<1> SUFFICES ASSUME Inv PROVE MembersShape
  OBVIOUS
<1> USE DEF Inv
<1>1. IsFiniteSet(Logged) /\ Cardinality(Logged) = Active /\ Active \in Nat
  BY FS_Interval, RoomAssumption DEF Logged
<1> DEFINE seats == {k \in Logged : id_table[k] # 0}
           f == [i \in seats |-> sock[id_table[i]]]
<1>2. IsFiniteSet(seats) /\ Cardinality(seats) <= Active
      /\ (Cardinality(seats) = Active => seats = Logged)
  <2>1. seats \in SUBSET Logged
    OBVIOUS
  <2> HIDE DEF seats
  <2> QED BY <1>1, <2>1, FS_Subset
<1>3. \A i \in seats : i \in Slots /\ id_table[i] \in Fds /\ sock[id_table[i]] # NoClient
  BY Places DEF TypeOK, TablesAgree
<1>4. \A i, k \in seats : f[i] = f[k] => i = k
  BY <1>3 DEF OneSocket, TablesAgree
<1>5. Members = {sock[id_table[i]] : i \in seats}
  BY DEF Members
<1>6. f \in Bijection(seats, Members)
  <2>1. f \in [seats -> Members]
    BY <1>5
  <2>2. \A c \in Members : \E i \in seats : f[i] = c
    BY <1>5
  <2> HIDE DEF f, seats
  <2>3. f \in Injection(seats, Members)
    BY <1>4, <2>1 DEF Injection, IsInjective
  <2>4. f \in Surjection(seats, Members)
    BY <2>1, <2>2 DEF Surjection
  <2> QED BY <2>3, <2>4 DEF Bijection
<1>7. Cardinality(Members) = Cardinality(seats)
  <2> HIDE DEF f, seats
  <2> QED BY <1>2, <1>6, FS_Bijection DEF ExistsBijection
<1>8. (\E k \in Logged : id_table[k] = 0) <=> seats # Logged
  OBVIOUS
<1>9. Cardinality(seats) \in Nat
  BY <1>2, FS_CardinalityType
<1>10. seats = Logged => Cardinality(seats) = Active
  BY <1>1
<1> HIDE DEF seats
<1>11. (\E k \in Logged : id_table[k] = 0) <=> Cardinality(Members) < Active
  BY <1>1, <1>2, <1>7, <1>8, <1>9, <1>10
<1>12. \A c : c \in Members <=> \E i \in Logged : id_table[i] # 0 /\ sock[id_table[i]] = c
  BY DEF Members
<1> QED BY <1>11, <1>12 DEF MembersShape

\* Nobody is a member in the beginning.
LEMMA AdmissionInit == Init => Abstract!AdmInit
<1> SUFFICES ASSUME Init PROVE Abstract!AdmInit
  OBVIOUS
<1>1. \A i \in Slots : id_table[i] = 0
  BY DEF Init
<1>2. Members = {}
  BY <1>1, Places DEF Members
<1>3. {i \in Waiting : id_table[i] # 0} = {}
  BY <1>1, Places
<1>4. Waiters = 0
  BY <1>3, FS_EmptySet DEF Waiters
<1>5. 1 .. 0 = {}
  OBVIOUS
<1>6. Queue = [k \in {} |-> sock[id_table[Active + k]]]
  BY <1>4, <1>5 DEF Queue, Waiters
<1>7. [k \in {} |-> sock[id_table[Active + k]]] = <<>>
  OBVIOUS
<1> QED BY <1>2, <1>6, <1>7 DEF Abstract!AdmInit

\* Accepting a client is the arrival of Admission.
LEMMA ArriveStep ==
    ASSUME Inv, NEW c \in Clients, NEW fd \in Fds, NEW s \in Slots, Arrives(c, fd, s)
    PROVE  Abstract!Arrive(c)
<1> USE DEF Inv
<1>1. /\ ~Connected(c) /\ id_table[s] = 0 /\ \A k \in Slots : id_table[k] = 0 => s <= k
      /\ sock' = [sock EXCEPT ![fd] = c] /\ id_table' = [id_table EXCEPT ![s] = fd]
      /\ sock[fd] = NoClient
  BY DEF Arrives
<1>2. QueueShape /\ MembersShape /\ QueueShape' /\ MembersShape'
  <2>1. Inv => QueueShape /\ MembersShape
    BY QueueFacts, MembersFacts
  <2>2. Inv' => QueueShape' /\ MembersShape'
    BY QueueFacts, MembersFacts, PTL
  <2> QED BY ArrivesInv, <2>1, <2>2
<1>3. PICK n \in Nat : n = Waiters
  BY <1>2 DEF QueueShape
<1>4. PICK m \in Nat : m = Waiters'
  BY <1>2 DEF QueueShape
<1>5. /\ Active + n <= MaxFd /\ Active + m <= MaxFd /\ Active \in Nat /\ MaxFd \in Nat
      /\ \A i \in Waiting : id_table[i] # 0 <=> i <= Active + n
      /\ \A i \in Waiting : id_table'[i] # 0 <=> i <= Active + m
  <2>1. Active \in Nat /\ MaxFd \in Nat
    BY RoomAssumption
  <2>2. Active + n <= MaxFd /\ \A i \in Waiting : id_table[i] # 0 <=> i <= Active + n
    BY <1>2, <1>3 DEF QueueShape
  <2>3. Active + m <= MaxFd /\ \A i \in Waiting : id_table'[i] # 0 <=> i <= Active + m
    BY <1>2, <1>4 DEF QueueShape
  <2> QED BY <2>1, <2>2, <2>3
<1>6. /\ Queue = [k \in 1 .. n |-> sock[id_table[Active + k]]]
      /\ Queue' = [k \in 1 .. m |-> sock'[id_table'[Active + k]]]
  BY <1>2, <1>3, <1>4 DEF QueueShape
<1>7. /\ id_table'[s] = fd /\ \A i \in Slots : i # s => id_table'[i] = id_table[i]
      /\ sock'[fd] = c /\ \A f \in Fds : f # fd => sock'[f] = sock[f]
      /\ fd # 0 /\ c # NoClient
      /\ \A i \in Slots : id_table[i] # fd
  BY <1>1, Places, RoomAssumption DEF TypeOK, TablesAgree
<1>8. \A k \in 1 .. n : Active + k \in Waiting /\ Active + k \in Slots
  BY <1>5, Places DEF Waiting
<1>9. \A i \in Slots : id_table[i] # 0 => id_table[i] \in Fds /\ sock[id_table[i]] # c
  BY <1>1 DEF TypeOK, Connected
<1>10. ~Abstract!Present(c)
  <2>1. c \notin Members
    BY <1>2, <1>9, Places DEF MembersShape
  <2>2. DOMAIN Queue = 1 .. n /\ \A k \in 1 .. n : Queue[k] = sock[id_table[Active + k]]
    BY <1>6
  <2>3. \A k \in 1 .. n : id_table[Active + k] # 0
    BY <1>5, <1>8, Places
  <2>4. \A k \in DOMAIN Queue : Queue[k] # c
    BY <1>8, <1>9, <2>2, <2>3
  <2> QED BY <2>1, <2>4 DEF Abstract!Present
<1>11. CASE s \in Logged
  <2>1. Cardinality(Members) < Active
    BY <1>2, <1>1, <1>11 DEF MembersShape
  <2>2. \A i \in Waiting : id_table'[i] = id_table[i]
    BY <1>7, <1>11, Places
  <2>3. {i \in Waiting : id_table'[i] # 0} = {i \in Waiting : id_table[i] # 0}
    BY <2>2
  <2>4. m = n
    BY <1>3, <1>4, <2>3 DEF Waiters
  <2>5. \A k \in 1 .. n : sock'[id_table'[Active + k]] = sock[id_table[Active + k]]
    BY <1>5, <1>7, <1>8, <2>2 DEF TypeOK
  <2>6. Queue' = Queue
    BY <1>6, <2>4, <2>5
  <2>7. Members' = Members \cup {c}
    <3>1. ASSUME NEW d \in Members'
          PROVE  d \in Members \cup {c}
      <4>1. PICK i \in Logged : id_table'[i] # 0 /\ sock'[id_table'[i]] = d
        BY <1>2 DEF MembersShape
      <4>2. CASE i = s
        BY <1>7, <4>1, <4>2
      <4>3. CASE i # s
        <5>1. id_table'[i] = id_table[i] /\ id_table[i] \in Fds /\ id_table[i] # fd
          BY <1>7, <4>1, <4>3, Places DEF TypeOK
        <5>2. id_table[i] # 0 /\ sock[id_table[i]] = d
          BY <1>7, <4>1, <5>1
        <5> QED BY <1>2, <5>2 DEF MembersShape
      <4> QED BY <4>2, <4>3
    <3>2. ASSUME NEW d \in Members
          PROVE  d \in Members'
      <4>1. PICK i \in Logged : id_table[i] # 0 /\ sock[id_table[i]] = d
        BY <1>2 DEF MembersShape
      <4>2. i # s /\ i \in Slots
        BY <1>1, <4>1, Places
      <4>3. id_table[i] \in Fds /\ id_table[i] # fd /\ id_table'[i] = id_table[i]
        BY <1>7, <1>9, <4>1, <4>2
      <4>4. id_table'[i] # 0 /\ sock'[id_table'[i]] = d
        BY <1>7, <4>1, <4>3
      <4> QED BY <1>2, <4>4 DEF MembersShape
    <3>3. c \in Members'
      BY <1>2, <1>7, <1>11 DEF MembersShape
    <3> QED BY <3>1, <3>2, <3>3
  <2> QED BY <1>10, <2>1, <2>6, <2>7, SameCardinality DEF Abstract!Arrive
<1>12. CASE s \notin Logged
  <2>1. s \in Waiting
    BY <1>12, Places
  <2>2. \A k \in Logged : id_table[k] # 0
    <3>1. \A k \in Logged : k \in Slots /\ ~(s <= k)
      BY <2>1, Places
    <3> QED BY <1>1, <3>1
  <2>3. ~(Cardinality(Members) < Active)
    BY <1>2, <2>2 DEF MembersShape
  <2>4. s = Active + n + 1
    <3>1. s > Active + n /\ s \in Nat /\ s <= MaxFd
      BY <1>1, <1>5, <2>1, Places
    <3>2. PICK t \in Nat : t = Active + n + 1
      BY <1>5
    <3>3. t \in Waiting /\ ~(t <= Active + n)
      BY <1>5, <3>1, <3>2 DEF Waiting
    <3>4. s <= t
      BY <1>1, <1>5, <3>3, Places
    <3> QED BY <1>5, <3>1, <3>2, <3>4
  <2>5. m = n + 1
    <3>1. s <= Active + m
      BY <1>5, <1>7, <2>1
    <3>2. ASSUME m > n + 1
          PROVE  FALSE
      <4>1. PICK t \in Nat : t = Active + m
        BY <1>5
      <4>2. t \in Waiting /\ t # s /\ t <= Active + m /\ ~(t <= Active + n)
        BY <1>5, <2>4, <3>2, <4>1 DEF Waiting
      <4>3. id_table'[t] # 0 /\ id_table'[t] = id_table[t] /\ id_table[t] = 0
        BY <1>5, <1>7, <4>2, Places
      <4> QED BY <4>3
    <3> QED BY <1>5, <2>4, <3>1, <3>2
  <2>6. Members' = Members
    <3>1. \A i \in Logged : /\ id_table'[i] = id_table[i] /\ id_table[i] \in Fds
                            /\ id_table[i] # fd /\ i \in Slots
      BY <1>7, <1>9, <1>12, <2>2, Places
    <3>2. \A i \in Logged : sock'[id_table'[i]] = sock[id_table[i]]
      BY <1>7, <3>1
    <3> QED BY <3>1, <3>2 DEF Members
  <2>7. Queue \in Seq(Clients) /\ Len(Queue) = n /\ DOMAIN Queue = 1 .. n
    BY <1>2, <1>3, LenProperties DEF QueueShape
  <2>8. Queue' = Append(Queue, c)
    <3>1. /\ Append(Queue, c) \in Seq(Clients) /\ Len(Append(Queue, c)) = n + 1
          /\ Append(Queue, c)[n + 1] = c /\ \A k \in 1 .. n : Append(Queue, c)[k] = Queue[k]
      BY <2>7, AppendProperties
    <3>2. \A k \in 1 .. n : sock'[id_table'[Active + k]] = Queue[k]
      <4>1. ASSUME NEW k \in 1 .. n
            PROVE  sock'[id_table'[Active + k]] = Queue[k]
        <5>1. PICK i \in Waiting : i = Active + k /\ id_table[i] # 0 /\ i \in Slots
          BY <1>5, <1>8, <4>1, Places
        <5>2. i # s /\ id_table[i] \in Fds /\ id_table[i] # fd
          BY <1>1, <1>7, <1>9, <5>1
        <5>3. sock'[id_table'[i]] = sock[id_table[i]]
          BY <1>7, <5>1, <5>2
        <5>4. Queue[k] = sock[id_table[Active + k]]
          BY <1>6
        <5> QED BY <5>1, <5>3, <5>4
      <4> QED BY <4>1
    <3>3. sock'[id_table'[Active + (n + 1)]] = c
      <4>1. Active + (n + 1) = s
        BY <1>5, <2>4
      <4> QED BY <1>7, <4>1
    <3>4. \A k \in 1 .. (n + 1) : k \in 1 .. n \/ k = n + 1
      OBVIOUS
    <3>5. \A k \in 1 .. (n + 1) : Queue'[k] = Append(Queue, c)[k]
      BY <1>6, <2>5, <3>1, <3>2, <3>3, <3>4
    <3>6. Queue' \in Seq(Clients) /\ Len(Queue') = n + 1
      BY <1>2, <1>4, <2>5 DEF QueueShape
    <3> QED BY <3>1, <3>5, <3>6, SeqEqual
  <2> QED BY <1>10, <2>3, <2>6, <2>8, SameCardinality DEF Abstract!Arrive
<1> QED BY <1>11, <1>12

\* A logout is the leaving of Admission, with the first who waits taking the
\* place.
LEMMA LeaveStep ==
    ASSUME Inv, NEW ends \in BOOLEAN, Logout(ends), NEW fd \in Fds, NEW s \in Logged,
           Leaves(fd, s) \/ Promotes(fd, s)
    PROVE  \E c \in Clients : Abstract!Leave(c)
<1> USE DEF Inv
<1>1. PICK c \in Clients : c = sock[fd] /\ c # NoClient
  <2>1. id_table[s] = fd /\ s \in Slots
    BY Places DEF Leaves, Promotes
  <2> QED BY <2>1, RoomAssumption DEF TypeOK, TablesAgree
<1>2. QueueShape /\ MembersShape /\ QueueShape' /\ MembersShape'
  <2>1. Inv => QueueShape /\ MembersShape
    BY QueueFacts, MembersFacts
  <2>2. Inv' => QueueShape' /\ MembersShape'
    BY QueueFacts, MembersFacts, PTL
  <2> QED BY LeavesInv, PromotesInv, <2>1, <2>2
<1>3. PICK n \in Nat : n = Waiters
  BY <1>2 DEF QueueShape
<1>4. PICK m \in Nat : m = Waiters'
  BY <1>2 DEF QueueShape
<1>5. Active \in Nat /\ MaxFd \in Nat
  BY RoomAssumption
<1>6. /\ Active + n <= MaxFd /\ \A i \in Waiting : id_table[i] # 0 <=> i <= Active + n
      /\ Queue = [k \in 1 .. n |-> sock[id_table[Active + k]]]
      /\ Queue \in Seq(Clients) /\ Len(Queue) = n
  BY <1>2, <1>3 DEF QueueShape
<1>7. /\ Active + m <= MaxFd /\ \A i \in Waiting : id_table'[i] # 0 <=> i <= Active + m
      /\ Queue' = [k \in 1 .. m |-> sock'[id_table'[Active + k]]]
      /\ Queue' \in Seq(Clients) /\ Len(Queue') = m
  BY <1>2, <1>4 DEF QueueShape
<1>8. /\ id_table[s] = fd /\ fd # 0 /\ s \in Slots /\ sock' = [sock EXCEPT ![fd] = NoClient]
      /\ sock'[fd] = NoClient /\ \A f \in Fds : f # fd => sock'[f] = sock[f]
  BY Places DEF Leaves, Promotes, TypeOK
<1>9. \A i \in Slots : i # s => id_table[i] # fd
  BY <1>8 DEF TablesAgree
<1>10. \A i \in Slots : id_table[i] # 0 => id_table[i] \in Fds
  BY DEF TypeOK
<1>11. c \in Members
  BY <1>1, <1>2, <1>8 DEF MembersShape
\* The members who stay.
<1>12. \A d : d \in Members /\ d # c <=>
          \E i \in Logged : i # s /\ id_table[i] # 0 /\ sock[id_table[i]] = d
  <2>1. ASSUME NEW d, d \in Members, d # c
        PROVE  \E i \in Logged : i # s /\ id_table[i] # 0 /\ sock[id_table[i]] = d
    <3>1. PICK i \in Logged : id_table[i] # 0 /\ sock[id_table[i]] = d
      BY <1>2, <2>1 DEF MembersShape
    <3> QED BY <1>1, <1>8, <2>1, <3>1
  <2>2. ASSUME NEW d, NEW i \in Logged, i # s, id_table[i] # 0, sock[id_table[i]] = d
        PROVE  d \in Members /\ d # c
    <3>1. id_table[i] \in Fds /\ id_table[i] # fd
      BY <1>9, <1>10, <2>2, Places
    <3>2. d # c
      BY <1>1, <2>2, <3>1 DEF OneSocket
    <3> QED BY <1>2, <2>2, <3>2 DEF MembersShape
  <2> QED BY <2>1, <2>2
<1>13. CASE Leaves(fd, s)
  <2>1. /\ \A i \in Waiting : id_table[i] = 0
        /\ id_table' = [id_table EXCEPT ![s] = 0]
    BY <1>13 DEF Leaves
  <2>2. id_table'[s] = 0 /\ \A i \in Slots : i # s => id_table'[i] = id_table[i]
    BY <1>8, <2>1 DEF TypeOK
  <2>3. n = 0
    <3>1. ASSUME n > 0 PROVE FALSE
      <4>1. Active + 1 \in Waiting
        BY <1>5, <1>6, <3>1 DEF Waiting
      <4>2. Active + 1 <= Active + n
        BY <1>5, <3>1
      <4> QED BY <1>6, <2>1, <4>1, <4>2
    <3> QED BY <3>1
  <2>4. m = 0
    <3>1. ASSUME m > 0 PROVE FALSE
      <4>1. Active + 1 \in Waiting
        BY <1>5, <1>7, <3>1 DEF Waiting
      <4>2. Active + 1 <= Active + m
        BY <1>5, <3>1
      <4>3. id_table'[Active + 1] = 0
        BY <2>1, <2>2, <4>1, Places
      <4> QED BY <1>7, <4>1, <4>2, <4>3
    <3> QED BY <3>1
  <2>5. Queue = <<>> /\ Queue' = <<>>
    BY <1>6, <1>7, <2>3, <2>4, EmptySeq
  <2>6. \A d : d \in Members' <=> d \in Members \ {c}
    <3>1. ASSUME NEW d
          PROVE  d \in Members' <=> \E i \in Logged : id_table'[i] # 0 /\ sock'[id_table'[i]] = d
      BY <1>2 DEF MembersShape
    <3>2. \A i \in Logged : id_table'[i] # 0 <=> i # s /\ id_table[i] # 0
      BY <2>2, Places
    <3>3. \A i \in Logged : i # s /\ id_table[i] # 0 =>
             id_table'[i] = id_table[i] /\ sock'[id_table[i]] = sock[id_table[i]]
      BY <1>8, <1>9, <1>10, <2>2, Places
    <3> QED BY <1>12, <3>1, <3>2, <3>3
  <2>7. Members' = Members \ {c}
    BY <2>6
  <2>8. Abstract!Leave(c)
    BY <1>11, <2>5, <2>7 DEF Abstract!Leave
  <2> QED BY <2>8
<1>14. CASE Promotes(fd, s)
  <2>1. PICK a \in Waiting : a = Active + 1 /\ id_table[a] # 0 /\ a \in Slots
    BY <1>14, Places DEF Promotes
  <2>2. /\ id_table'[s] = id_table[a]
        /\ \A i \in Logged : i # s => id_table'[i] = id_table[i]
        /\ \A i \in Waiting : id_table'[i] = IF i + 1 \in Waiting THEN id_table[i + 1] ELSE 0
    BY <1>14, <2>1 DEF Promotes
  <2>3. n >= 1
    BY <1>5, <1>6, <2>1
  <2>4. m = n - 1
    <3>1. PICK p \in Nat : p = n - 1
      BY <2>3
    <3>2. \A i \in Waiting : id_table'[i] # 0 <=> i <= Active + p
      <4>1. ASSUME NEW i \in Waiting
            PROVE  id_table'[i] # 0 <=> i <= Active + p
        <5>1. CASE i + 1 \in Waiting
          BY <1>5, <1>6, <2>2, <3>1, <5>1, Places
        <5>2. CASE i + 1 \notin Waiting
          <6>1. i = MaxFd
            BY <1>5, <5>2, Places DEF Waiting
          <6> QED BY <1>5, <1>6, <2>2, <3>1, <5>2, <6>1
        <5> QED BY <5>1, <5>2
      <4> QED BY <4>1
    <3>3. Active + p <= MaxFd
      BY <1>5, <1>6, <3>1
    <3>4. ASSUME m > p PROVE FALSE
      <4>1. PICK t \in Nat : t = Active + m
        BY <1>5
      <4>2. t \in Waiting /\ t <= Active + m /\ ~(t <= Active + p)
        BY <1>5, <1>7, <3>1, <3>4, <4>1 DEF Waiting
      <4> QED BY <1>7, <3>2, <4>2
    <3>5. ASSUME p > m PROVE FALSE
      <4>1. PICK t \in Nat : t = Active + p
        BY <1>5
      <4>2. t \in Waiting /\ t <= Active + p /\ ~(t <= Active + m)
        BY <1>5, <3>1, <3>3, <3>5, <4>1 DEF Waiting
      <4> QED BY <1>7, <3>2, <4>2
    <3> QED BY <3>1, <3>4, <3>5
  <2>5. Queue # <<>> /\ Head(Queue) = sock[id_table[a]]
    <3>1. Queue # <<>>
      BY <1>6, <2>3, EmptySeq
    <3>2. 1 \in 1 .. n
      BY <2>3
    <3>3. Queue[1] = sock[id_table[Active + 1]]
      BY <1>6, <3>2
    <3> QED BY <1>6, <2>1, <3>1, <3>3, HeadTailProperties
  <2>6. Queue' = Tail(Queue)
    <3>1. /\ Tail(Queue) \in Seq(Clients) /\ Len(Tail(Queue)) = n - 1
          /\ \A k \in 1 .. (n - 1) : Tail(Queue)[k] = Queue[k + 1]
      BY <1>6, <2>5, HeadTailProperties
    <3>2. ASSUME NEW k \in 1 .. m
          PROVE  Queue'[k] = Tail(Queue)[k]
      <4>1. PICK i \in Waiting : i = Active + k
        BY <1>5, <1>7, <3>2 DEF Waiting
      <4>2. i + 1 \in Waiting /\ i + 1 = Active + (k + 1) /\ k + 1 \in 1 .. n
            /\ i + 1 <= Active + n /\ k \in 1 .. (n - 1)
        BY <1>5, <1>6, <2>4, <3>2, <4>1 DEF Waiting
      <4>3. id_table'[i] = id_table[i + 1] /\ id_table[i + 1] # 0 /\ i + 1 \in Slots
            /\ i + 1 # s
        BY <1>6, <2>2, <4>2, Places
      <4>4. sock'[id_table'[i]] = sock[id_table[i + 1]]
        BY <1>8, <1>9, <1>10, <4>3
      <4>5. Queue'[k] = sock'[id_table'[i]]
        BY <1>7, <3>2, <4>1
      <4>6. Queue[k + 1] = sock[id_table[i + 1]]
        BY <1>6, <4>2
      <4> QED BY <3>1, <4>2, <4>4, <4>5, <4>6
    <3> QED BY <1>7, <2>4, <3>1, <3>2, SeqEqual
  <2>7. \A d : d \in Members' <=> d \in (Members \ {c}) \cup {sock[id_table[a]]}
    <3>1. ASSUME NEW d
          PROVE  d \in Members' <=> \E i \in Logged : id_table'[i] # 0 /\ sock'[id_table'[i]] = d
      BY <1>2 DEF MembersShape
    <3>2. a # s
      BY <2>1, Places
    <3>3. id_table'[s] # 0 /\ sock'[id_table'[s]] = sock[id_table[a]]
      BY <1>8, <1>9, <1>10, <2>1, <2>2, <3>2
    <3>4. \A i \in Logged : i # s /\ id_table[i] # 0 =>
             id_table'[i] = id_table[i] /\ sock'[id_table[i]] = sock[id_table[i]]
      BY <1>8, <1>9, <1>10, <2>2, Places
    <3>5. \A i \in Logged : i # s => id_table'[i] = id_table[i]
      BY <2>2
    <3> QED BY <1>12, <3>1, <3>3, <3>4, <3>5
  <2>8. Members' = (Members \ {c}) \cup {Head(Queue)}
    BY <2>5, <2>7
  <2>9. Abstract!Leave(c)
    BY <1>11, <2>5, <2>6, <2>8 DEF Abstract!Leave
  <2> QED BY <2>9
<1> QED BY <1>13, <1>14

\* Every step of the main loop is a step of Admission, or none.
LEMMA AdmissionNext == Inv /\ [Next]_vars => [Abstract!AdmNext]_(Abstract!admVars)
<1> SUFFICES ASSUME Inv, [Next]_vars PROVE Abstract!AdmNext \/ UNCHANGED <<Members, Queue>>
  BY DEF Abstract!admVars
<1>1. CASE UNCHANGED <<sock, id_table>>
  BY <1>1 DEF Members, Queue
<1>2. CASE Select \/ AcceptFails \/ SigPipe \/ Line \/ \E n \in Names : Name(n)
  BY <1>1, <1>2 DEF Select, AcceptFails, SigPipe, Line, Name
<1>3. ASSUME NEW c \in Clients, Accept(c)
      PROVE  Abstract!AdmNext
  <2>1. Abstract!Arrive(c)
    BY <1>3, AcceptStep, ArriveStep
  <2> QED BY <2>1 DEF Abstract!AdmNext
<1>4. ASSUME NEW ends \in BOOLEAN, Logout(ends)
      PROVE  Abstract!AdmNext
  <2>1. \E c \in Clients : Abstract!Leave(c)
    BY <1>4, LogoutStep, LeaveStep
  <2> QED BY <2>1 DEF Abstract!AdmNext
<1>5. CASE UNCHANGED vars
  BY <1>1, <1>5 DEF vars
<1> QED BY <1>2, <1>3, <1>4, <1>5 DEF Next

-----------------------------------------------------------------------------
(***************************************************************************)
(* The theorems.                                                           *)
(***************************************************************************)
\* In every state of the main loop of np_single_proc the invariant holds.
THEOREM Invariance == Spec => []Inv
BY InvInit, InvNext, PTL DEF Spec

\* The state of the main loop has its types.
THEOREM TypeCorrect == Spec => []TypeOK
<1>1. Inv => TypeOK
  BY DEF Inv
<1> QED BY <1>1, Invariance, PTL

\* id_table, the sockets and what select watches agree, whoever logs in, logs
\* out and is promoted in one round of the loop.
THEOREM TablesCorrect == Spec => []TablesAgree
<1>1. Inv => TablesAgree
  BY DEF Inv
<1> QED BY <1>1, Invariance, PTL

\* Clients wait only while every slot is taken: what a logout frees, the
\* promotion in the same call fills (169-231).
THEOREM NoGapCorrect == Spec => []NoGap
<1>1. Inv => NoGap
  BY DEF Inv
<1> QED BY <1>1, Invariance, PTL

\* A descriptor that the loop comes to is that of a user, also when a logout
\* earlier in the round closed others and promoted a client to one of them.
THEOREM ServedCorrect == Spec => []ServedAreLogged
<1>1. Inv => ServedAreLogged
  BY DEF Inv
<1> QED BY <1>1, Invariance, PTL

\* The information of a slot is its client's, whatever its last user left.
THEOREM InfoCorrect == Spec => []InfoMatches
<1>1. Inv => InfoMatches
  BY DEF Inv
<1> QED BY <1>1, Invariance, PTL

\* No two users have the same name, whoever renames, leaves and comes.
THEOREM NamesCorrect == Spec => []NamesUnique
<1>1. Inv => NamesUnique
  BY DEF Inv
<1> QED BY <1>1, Invariance, PTL

\* The main loop admits clients in the order they came: it implements
\* Admission.
THEOREM AdmissionCorrect == Spec => ImplementsAdmission
BY AdmissionInit, AdmissionNext, Invariance, PTL DEF Spec, ImplementsAdmission, Abstract!AdmSpec

=============================================================================
