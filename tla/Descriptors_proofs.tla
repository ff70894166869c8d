-------------------------- MODULE Descriptors_proofs --------------------------
(***************************************************************************)
(* Proofs about Descriptors for every number of users, descriptors and     *)
(* lines: the tables and the open descriptors agree, and what a program    *)
(* holds of the pipes of later lines.                                      *)
(***************************************************************************)
EXTENDS Descriptors, TLAPS, FiniteSetTheorems, SequenceTheorems, WellFoundedInduction

-----------------------------------------------------------------------------
(***************************************************************************)
(* The inductive invariant.                                                *)
(***************************************************************************)
Objects == [t : {"free", "socket", "read", "write", "saved", "none"}, of : Nat]
Triples == [p : Nat, r : Fds, w : Fds]
NumberedPipes == [clock : Int, p : Nat, r : Fds, w : Fds]
Programs == [live : BOOLEAN, user : Users \cup {0}, in : Objects, out : Objects,
             hold : SUBSET Objects]

Types ==
    /\ fdt \in [Fds -> Objects]
    /\ id_table \in [Users -> Fds \cup {0}]
    /\ npipe \in [Users -> Seq(NumberedPipes)]
    /\ upipe \in [Users \X Users -> Triples \cup {NoPipe}]
    /\ made \in Nat /\ left \in 0 .. MaxLines /\ eof \in BOOLEAN
    /\ kids \in Seq(Programs)

\* Every line makes one entry at most.
Room == \A u \in Users : Len(npipe[u]) + left <= MaxLines

IsEnd(o) == o.t \in {"read", "write"}

\* What exists of pipes was made.
AllMade ==
    /\ \A u \in Users : \A i \in DOMAIN npipe[u] : npipe[u][i].p \in 1 .. made
    /\ \A c \in Users \X Users : upipe[c].p <= made
    /\ \A d \in Fds : IsEnd(fdt[d]) => fdt[d].of <= made
    /\ \A i \in DOMAIN kids : \A o \in kids[i].hold : o.of <= made

\* A pipe is in one entry, and a user has one entry for every count.
Distinct ==
    /\ \A u, v \in Users : \A i \in DOMAIN npipe[u], k \in DOMAIN npipe[v] :
          npipe[u][i].p = npipe[v][k].p => u = v /\ i = k
    /\ \A u \in Users : \A i, k \in DOMAIN npipe[u] :
          npipe[u][i].clock = npipe[u][k].clock => i = k
    /\ \A c \in Users \X Users, u \in Users : \A i \in DOMAIN npipe[u] :
          upipe[c].p # npipe[u][i].p

SocketsOpen ==
    \A u \in Users : id_table[u] # 0 => fdt[id_table[u]] = Socket(u)

EndsOpen ==
    \A u \in Users : \A i \in DOMAIN npipe[u] :
        LET e == npipe[u][i]
        IN  /\ e.clock >= 0 => fdt[e.r] = ReadEnd(e.p)
            /\ fdt[e.r] = ReadEnd(e.p) <=> fdt[e.w] = WriteEnd(e.p)

\* Why descriptor d is open.
Reason(d) ==
    \/ fdt[d] = Free
    \/ fdt[d] = Saved /\ eof
    \/ \E u \in Users : id_table[u] = d
    \/ \E u \in Users : \E i \in DOMAIN npipe[u] :
          /\ d \in Numbers(npipe[u][i])
          /\ fdt[d].of = npipe[u][i].p

Books == SocketsOpen /\ EndsOpen /\ \A d \in Fds : Reason(d)

\* What program i holds.
Holding(i) ==
    kids[i].live =>
        \A u \in Users : \A m \in DOMAIN npipe[u] :
            WriteEnd(npipe[u][m].p) \in kids[i].hold =>
                npipe[u][m].clock <= IF u = kids[i].user THEN -1 ELSE 0

Inv == fault = "none" =>
           Types /\ Room /\ AllMade /\ Distinct /\ Books /\ \A i \in DOMAIN kids : Holding(i)

-----------------------------------------------------------------------------
(***************************************************************************)
(* Lemmas.                                                                 *)
(***************************************************************************)
\* A set of natural numbers has a least element.
LEMMA LeastElement ==
    ASSUME NEW T \in SUBSET Nat, T # {}
    PROVE  \E m \in T : \A k \in T : m <= k
<1> DEFINE R == OpToRel(<, Nat)
<1>1. \A a, b \in Nat : a < b => <<a, b>> \in R
  BY DEF OpToRel
<1>2. PICK m \in T : \A k \in T : ~ (<<k, m>> \in R)
  <2> HIDE DEF R
  <2> QED BY NatLessThanWellFounded, WFMin DEF R
<1> HIDE DEF R
<1>3. \A k \in T : ~ (k < m)
  BY <1>1, <1>2
<1> QED BY <1>3

\* The n lowest elements of S.
Lows(S, T, n) ==
    /\ T \subseteq S /\ IsFiniteSet(T) /\ Cardinality(T) = n
    /\ \A a \in T, b \in S \ T : a < b

\* After the n lowest elements of a set comes the next one.
LEMMA NextLowest ==
    ASSUME NEW S \in SUBSET Nat, IsFiniteSet(S), NEW n \in Nat, Cardinality(S) > n,
           NEW T, Lows(S, T, n)
    PROVE  \E d \in S : /\ {f \in S : f < d} = T
                        /\ Lows(S, T \cup {d}, n + 1)
<1>0. T \subseteq S /\ IsFiniteSet(T) /\ Cardinality(T) = n
  BY DEF Lows
<1>1. S \ T # {}
  <2>1. S # T
    BY <1>0
  <2> QED BY <1>0, <2>1
<1>2. PICK d \in S \ T : \A k \in S \ T : d <= k
  BY <1>1, LeastElement
<1>3. {f \in S : f < d} = T
  <2>1. \A a \in T : a \in S /\ a < d
    BY <1>0, <1>2 DEF Lows
  <2>2. \A f \in S : f < d => f \in T
    <3>1. \A f \in S \ T : d \in Nat /\ f \in Nat /\ d <= f
      BY <1>2
    <3> QED BY <3>1
  <2> QED BY <2>1, <2>2
<1>4. IsFiniteSet(T \cup {d}) /\ Cardinality(T \cup {d}) = n + 1
  BY <1>0, <1>2, FS_AddElement
<1>5. \A a \in T \cup {d}, b \in S \ (T \cup {d}) : a < b
  <2>1. \A b \in S \ T : b # d => d \in Nat /\ b \in Nat /\ d <= b /\ d < b
    BY <1>2
  <2>2. \A a \in T, b \in S \ T : a < b
    BY DEF Lows
  <2> QED BY <2>1, <2>2
<1>6. T \cup {d} \subseteq S
  BY <1>0, <1>2
<1>7. Lows(S, T \cup {d}, n + 1)
  BY <1>4, <1>5, <1>6 DEF Lows
<1> QED BY <1>2, <1>3, <1>7

\* There are finitely many numbers.
LEMMA FreeFinite == FreeNumbers \in SUBSET Nat /\ IsFiniteSet(FreeNumbers)
<1>1. MaxFd \in Int /\ 1 \in Int
  BY DescriptorsAssumption
<1>2. IsFiniteSet(1 .. MaxFd)
  BY <1>1, FS_Interval
<1>3. FreeNumbers \subseteq 1 .. MaxFd
  BY DEF FreeNumbers, Fds
<1>4. IsFiniteSet(FreeNumbers)
  BY <1>2, <1>3, FS_Subset
<1> QED BY <1>3, <1>4

\* The numbers that are free, up to the fifth.
LEMMA LowestFree ==
    ASSUME NEW n \in 1 .. 5, Cardinality(FreeNumbers) >= n
    PROVE  /\ Lowest(n) \in FreeNumbers
           /\ Cardinality({f \in FreeNumbers : f < Lowest(n)}) = n - 1
<1> DEFINE S == FreeNumbers
<1>1. S \in SUBSET Nat /\ IsFiniteSet(S)
  BY FreeFinite
<1>2. PICK c \in Nat : c = Cardinality(S)
  BY <1>1, FS_CardinalityType
<1>3. Lows(S, {}, 0)
  BY FS_EmptySet DEF Lows
<1> HIDE DEF S
<1>4. \E d \in S : Cardinality({f \in S : f < d}) = n - 1
  <2> SUFFICES \E d \in S : \E T : {f \in S : f < d} = T /\ Cardinality(T) = n - 1
    OBVIOUS
  <2>0. c > 0 /\ n \in {1, 2, 3, 4, 5} /\ c >= n
    BY <1>2 DEF S
  <2>1. PICK d1 \in S : {f \in S : f < d1} = {} /\ Lows(S, {} \cup {d1}, 1)
    BY <1>1, <1>2, <1>3, <2>0, NextLowest
  <2>2. CASE n = 1
    BY <2>1, <2>2, <1>3 DEF Lows
  <2>3. CASE n > 1
    <3>1. PICK T1 : Lows(S, T1, 1)
      BY <2>1
    <3>2. PICK d2 \in S : {f \in S : f < d2} = T1 /\ Lows(S, T1 \cup {d2}, 2)
      BY <1>1, <1>2, <2>0, <2>3, <3>1, NextLowest
    <3>3. CASE n = 2
      BY <3>1, <3>2, <3>3 DEF Lows
    <3>4. CASE n > 2
      <4>1. PICK T2 : Lows(S, T2, 2)
        BY <3>2
      <4>2. PICK d3 \in S : {f \in S : f < d3} = T2 /\ Lows(S, T2 \cup {d3}, 3)
        BY <1>1, <1>2, <2>0, <3>4, <4>1, NextLowest
      <4>3. CASE n = 3
        BY <4>1, <4>2, <4>3 DEF Lows
      <4>4. CASE n > 3
        <5>1. PICK T3 : Lows(S, T3, 3)
          BY <4>2
        <5>2. PICK d4 \in S : {f \in S : f < d4} = T3 /\ Lows(S, T3 \cup {d4}, 4)
          BY <1>1, <1>2, <2>0, <4>4, <5>1, NextLowest
        <5>3. CASE n = 4
          BY <5>1, <5>2, <5>3 DEF Lows
        <5>4. CASE n = 5
          <6>1. PICK T4 : Lows(S, T4, 4)
            BY <5>2
          <6>2. \E d5 \in S : {f \in S : f < d5} = T4 /\ Lows(S, T4 \cup {d5}, 5)
            BY <1>1, <1>2, <2>0, <5>4, <6>1, NextLowest
          <6> QED BY <5>4, <6>1, <6>2 DEF Lows
        <5> QED BY <2>0, <4>4, <5>3, <5>4
      <4> QED BY <2>0, <3>4, <4>3, <4>4
    <3> QED BY <2>0, <2>3, <3>3, <3>4
  <2> QED BY <2>0, <2>2, <2>3
<1> QED BY <1>4 DEF Lowest, S

\* An entry of a table.
LEMMA EntryType ==
    ASSUME Types, NEW u \in Users, NEW i \in DOMAIN npipe[u]
    PROVE  /\ npipe[u][i] \in NumberedPipes
           /\ npipe[u][i].clock \in Int /\ npipe[u][i].p \in Nat
           /\ npipe[u][i].r \in Fds /\ npipe[u][i].w \in Fds
           /\ Numbers(npipe[u][i]) = {npipe[u][i].r, npipe[u][i].w}
<1>1. npipe[u] \in Seq(NumberedPipes)
  BY DEF Types
<1>2. npipe[u][i] \in NumberedPipes
  BY <1>1
<1>3. 0 \notin Fds
  BY DescriptorsAssumption DEF Fds
<1> QED BY <1>2, <1>3 DEF NumberedPipes, Numbers

\* The table of a user is a sequence.
LEMMA TableType ==
    ASSUME Types, NEW u \in Users
    PROVE  /\ npipe[u] \in Seq(NumberedPipes) /\ Len(npipe[u]) \in Nat
           /\ DOMAIN npipe[u] = 1 .. Len(npipe[u])
BY DEF Types

\* The tick changes the clocks and nothing else.
LEMMA TickFacts ==
    ASSUME NEW table \in Seq(NumberedPipes)
    PROVE  /\ Tick(table) \in Seq(NumberedPipes) /\ Len(Tick(table)) = Len(table)
           /\ DOMAIN Tick(table) = DOMAIN table
           /\ \A i \in DOMAIN table :
                 /\ table[i].clock \in Int
                 /\ Tick(table)[i].clock = table[i].clock - 1
                 /\ Tick(table)[i].p = table[i].p
                 /\ Tick(table)[i].r = table[i].r /\ Tick(table)[i].w = table[i].w
<1>1. DOMAIN table = 1 .. Len(table) /\ Len(table) \in Nat
  OBVIOUS
<1>2. \A i \in DOMAIN table : table[i] \in NumberedPipes
  OBVIOUS
<1>3. \A i \in DOMAIN table :
         /\ table[i].clock \in Int
         /\ Tick(table)[i] = [table[i] EXCEPT !.clock = @ - 1]
         /\ Tick(table)[i] \in NumberedPipes
         /\ Tick(table)[i].clock = table[i].clock - 1
         /\ Tick(table)[i].p = table[i].p
         /\ Tick(table)[i].r = table[i].r /\ Tick(table)[i].w = table[i].w
  BY <1>2 DEF Tick, NumberedPipes
<1>4. DOMAIN Tick(table) = DOMAIN table
  BY DEF Tick
<1>5. Tick(table) \in [1 .. Len(table) -> NumberedPipes]
  BY <1>1, <1>3, <1>4 DEF Tick
<1>6. Tick(table) \in Seq(NumberedPipes)
  BY <1>1, <1>5, SeqDef
<1>7. Len(Tick(table)) = Len(table)
  BY <1>1, <1>5, LenProperties
<1> QED BY <1>3, <1>4, <1>6, <1>7

\* The books and the properties of the runs.
LEMMA BooksKept ==
    ASSUME fault = "none"
    PROVE  /\ Books <=> Accounted
           /\ (\A i \in DOMAIN kids : Holding(i)) <=> OthersDueOnly
<1>1. Books <=> Accounted
  BY DEF Books, SocketsOpen, EndsOpen, Reason, Accounted
<1>2. (\A i \in DOMAIN kids : Holding(i)) <=> OthersDueOnly
  BY DEF Holding, OthersDueOnly, Live
<1> QED BY <1>1, <1>2

\* An end of a pipe that is open is at a number of the pipe's entry.
LEMMA PlaceOfEnd ==
    ASSUME Types, Books, NEW d \in Fds, IsEnd(fdt[d])
    PROVE  \E u \in Users : \E i \in DOMAIN npipe[u] :
              d \in Numbers(npipe[u][i]) /\ fdt[d].of = npipe[u][i].p
<1>1. Reason(d)
  BY DEF Books
<1>2. fdt[d] # Free /\ fdt[d] # Saved
  BY DEF IsEnd, Free, Saved
<1>3. \A u \in Users : id_table[u] # d
  <2> SUFFICES ASSUME NEW u \in Users, id_table[u] = d PROVE FALSE
    OBVIOUS
  <2>1. d # 0
    BY DescriptorsAssumption DEF Fds
  <2>2. fdt[d] = Socket(u)
    BY <2>1 DEF Books, SocketsOpen
  <2> QED BY <2>2 DEF IsEnd, Socket
<1> QED BY <1>1, <1>2, <1>3 DEF Reason

\* The objects, told apart.
LEMMA FreeFacts ==
    /\ 0 \notin Fds /\ \A p : ReadEnd(p) # Free /\ WriteEnd(p) # Free
    /\ \A p, q : ReadEnd(p) # WriteEnd(q)
    /\ \A p, q : (ReadEnd(p) = ReadEnd(q) => p = q) /\ (WriteEnd(p) = WriteEnd(q) => p = q)
    /\ \A p, u : Socket(u) # ReadEnd(p) /\ Socket(u) # WriteEnd(p) /\ Socket(u) # Free
    /\ \A u, v : Socket(u) = Socket(v) => u = v
    /\ Saved # Free /\ \A p : Saved # ReadEnd(p) /\ Saved # WriteEnd(p) /\ Saved # Socket(p)
    /\ \A p : IsEnd(ReadEnd(p)) /\ IsEnd(WriteEnd(p))
    /\ \A p : ReadEnd(p).of = p /\ WriteEnd(p).of = p
    /\ Free \in Objects /\ Saved \in Objects /\ \A p \in Nat : ReadEnd(p) \in Objects
    /\ \A p \in Nat : WriteEnd(p) \in Objects /\ Socket(p) \in Objects
<1>1. 0 \notin Fds
  BY DescriptorsAssumption DEF Fds
<1>2. \A p, q : /\ ReadEnd(p) # Free /\ WriteEnd(p) # Free /\ ReadEnd(p) # WriteEnd(q)
                /\ (ReadEnd(p) = ReadEnd(q) => p = q) /\ (WriteEnd(p) = WriteEnd(q) => p = q)
                /\ IsEnd(ReadEnd(p)) /\ IsEnd(WriteEnd(p))
                /\ ReadEnd(p).of = p /\ WriteEnd(p).of = p
  BY DEF ReadEnd, WriteEnd, Free, IsEnd
<1>3. \A p, u : /\ Socket(u) # ReadEnd(p) /\ Socket(u) # WriteEnd(p) /\ Socket(u) # Free
                /\ (Socket(u) = Socket(p) => u = p)
                /\ Saved # Free /\ Saved # ReadEnd(p) /\ Saved # WriteEnd(p) /\ Saved # Socket(p)
  BY DEF Socket, ReadEnd, WriteEnd, Free, Saved
<1>4. /\ Free \in Objects /\ Saved \in Objects
      /\ \A p \in Nat : ReadEnd(p) \in Objects /\ WriteEnd(p) \in Objects /\ Socket(p) \in Objects
  BY DEF Objects, Socket, ReadEnd, WriteEnd, Free, Saved
<1> QED BY <1>1, <1>2, <1>3, <1>4

-----------------------------------------------------------------------------
(***************************************************************************)
(* Logins, builtins, waitpid and the ends of programs.                     *)
(***************************************************************************)
Parts == Types /\ Room /\ AllMade /\ Distinct /\ Books /\ \A i \in DOMAIN kids : Holding(i)

\* The server starts with nothing open.
LEMMA InitParts == Init => Parts
<1> SUFFICES ASSUME Init PROVE Parts
  OBVIOUS
<1>1. /\ fdt = [d \in Fds |-> Free] /\ id_table = [u \in Users |-> 0]
      /\ npipe = [u \in Users |-> <<>>] /\ upipe = [c \in Users \X Users |-> NoPipe]
      /\ made = 0 /\ kids = <<>> /\ eof = FALSE /\ left = MaxLines
  BY DEF Init
<1>2. MaxLines \in Nat /\ \A u \in Users : npipe[u] = <<>> /\ npipe[u] \in Seq(NumberedPipes)
  BY <1>1, DescriptorsAssumption
<1>3. Types
  <2>1. npipe \in [Users -> Seq(NumberedPipes)]
    BY <1>1, <1>2
  <2>2. kids \in Seq(Programs)
    BY <1>1
  <2>3. fdt \in [Fds -> Objects]
    BY <1>1, FreeFacts
  <2>4. id_table \in [Users -> Fds \cup {0}] /\ upipe \in [Users \X Users -> Triples \cup {NoPipe}]
    BY <1>1
  <2>5. made \in Nat /\ left \in 0 .. MaxLines /\ eof \in BOOLEAN
    <3>1. left \in 0 .. MaxLines
      BY <1>1, <1>2
    <3> QED BY <1>1, <3>1
  <2> QED BY <2>1, <2>2, <2>3, <2>4, <2>5 DEF Types
<1>4. Room
  BY <1>1, <1>2 DEF Room
<1>5. AllMade
  BY <1>1, <1>2 DEF AllMade, IsEnd, Free, NoPipe
<1>6. Distinct
  BY <1>1, <1>2 DEF Distinct
<1>7. Books
  BY <1>1, <1>2 DEF Books, SocketsOpen, EndsOpen, Reason
<1>8. \A i \in DOMAIN kids : Holding(i)
  BY <1>1
<1> QED BY <1>3, <1>4, <1>5, <1>6, <1>7, <1>8 DEF Parts

\* accept: the lowest free number becomes the socket of the lowest free slot.
LEMMA LoginParts ==
    ASSUME Parts, NEW u \in Users, Login(u)
    PROVE  Parts'
<1> USE DEF Parts
<1>1. /\ UNCHANGED <<npipe, upipe, made, kids, eof, left>>
      /\ FreeNumbers # {} /\ id_table[u] = 0
      /\ fdt' = [fdt EXCEPT ![Lowest(1)] = Socket(u)]
      /\ id_table' = [id_table EXCEPT ![u] = Lowest(1)]
  BY DEF Login
<1>2. PICK d \in Fds : d = Lowest(1) /\ fdt[d] = Free
  <2>1. IsFiniteSet(FreeNumbers)
    BY FreeFinite
  <2>2. Cardinality(FreeNumbers) \in Nat /\ Cardinality(FreeNumbers) # 0
    BY <1>1, <2>1, FS_CardinalityType, FS_EmptySet
  <2>3. Lowest(1) \in FreeNumbers
    BY <2>2, LowestFree
  <2> QED BY <2>3 DEF FreeNumbers
<1>3. u \in Nat /\ fdt \in [Fds -> Objects] /\ id_table \in [Users -> Fds \cup {0}]
  BY DEF Users, Types
<1>4. /\ fdt'[d] = Socket(u) /\ \A f \in Fds : f # d => fdt'[f] = fdt[f]
      /\ id_table'[u] = d /\ \A v \in Users : v # u => id_table'[v] = id_table[v]
      /\ fdt' \in [Fds -> Objects] /\ id_table' \in [Users -> Fds \cup {0}]
  BY <1>1, <1>2, <1>3, FreeFacts
<1>5. Types'
  BY <1>1, <1>4 DEF Types
<1>6. Room' /\ Distinct' /\ \A i \in DOMAIN kids' : Holding(i)'
  BY <1>1 DEF Room, Distinct, Holding
<1>7. AllMade'
  BY <1>1, <1>4 DEF AllMade, IsEnd, Socket
<1>8. SocketsOpen'
  BY <1>2, <1>4, FreeFacts DEF SocketsOpen, Books
<1>9. EndsOpen'
  <2> SUFFICES ASSUME NEW v \in Users, NEW i \in DOMAIN npipe[v]
               PROVE  /\ npipe[v][i].clock >= 0 => fdt'[npipe[v][i].r] = ReadEnd(npipe[v][i].p)
                      /\ fdt'[npipe[v][i].r] = ReadEnd(npipe[v][i].p)
                            <=> fdt'[npipe[v][i].w] = WriteEnd(npipe[v][i].p)
    BY <1>1 DEF EndsOpen
  <2>1. npipe[v][i].r \in Fds /\ npipe[v][i].w \in Fds
    BY EntryType
  <2> QED BY <1>2, <1>4, <2>1, FreeFacts DEF Books, EndsOpen
<1>10. \A f \in Fds : Reason(f)'
  <2> SUFFICES ASSUME NEW f \in Fds, f # d PROVE Reason(f)'
    BY <1>4 DEF Reason
  <2>1. Reason(f) /\ fdt'[f] = fdt[f] /\ eof' = eof /\ npipe' = npipe
    BY <1>1, <1>4 DEF Books
  <2>2. \A v \in Users : id_table[v] = f => id_table'[v] = f
    BY <1>1, <1>4, FreeFacts
  <2> QED BY <2>1, <2>2 DEF Reason
<1> QED BY <1>5, <1>6, <1>7, <1>8, <1>9, <1>10 DEF Books

\* A builtin: the tick and nothing else.
LEMMA BuiltinParts ==
    ASSUME Parts, NEW u \in Users, Builtin(u)
    PROVE  Parts'
<1> USE DEF Parts
<1>1. /\ UNCHANGED <<fdt, id_table, upipe, made, kids, eof>>
      /\ left > 0 /\ left' = left - 1
      /\ npipe' = [npipe EXCEPT ![u] = Tick(@)]
  BY DEF Builtin, Served
<1>2. /\ left \in 0 .. MaxLines /\ left' \in 0 .. MaxLines /\ MaxLines \in Nat
      /\ npipe \in [Users -> Seq(NumberedPipes)]
  BY <1>1, DescriptorsAssumption DEF Types
<1>3. npipe'[u] = Tick(npipe[u]) /\ \A v \in Users : v # u => npipe'[v] = npipe[v]
  BY <1>1, <1>2
<1>4. /\ npipe' \in [Users -> Seq(NumberedPipes)]
      /\ \A v \in Users : Len(npipe'[v]) = Len(npipe[v]) /\ DOMAIN npipe'[v] = DOMAIN npipe[v]
  BY <1>1, <1>2, <1>3, TickFacts
<1>5. \A v \in Users : \A i \in DOMAIN npipe[v] :
         /\ npipe[v][i].clock \in Int
         /\ npipe'[v][i].clock = IF v = u THEN npipe[v][i].clock - 1 ELSE npipe[v][i].clock
         /\ npipe'[v][i].p = npipe[v][i].p
         /\ npipe'[v][i].r = npipe[v][i].r /\ npipe'[v][i].w = npipe[v][i].w
         /\ Numbers(npipe'[v][i]) = Numbers(npipe[v][i])
  BY <1>2, <1>3, TickFacts, EntryType DEF Numbers
<1>6. Types'
  BY <1>1, <1>2, <1>4 DEF Types
<1>7. Room'
  <2> SUFFICES ASSUME NEW v \in Users PROVE Len(npipe[v]) + (left - 1) <= MaxLines
    BY <1>1, <1>4 DEF Room
  <2>1. Len(npipe[v]) \in Nat /\ Len(npipe[v]) + left <= MaxLines
    BY TableType DEF Room
  <2> QED BY <1>2, <2>1
<1>8. AllMade'
  BY <1>1, <1>4, <1>5 DEF AllMade
<1>9. Distinct'
  <2>1. \A v \in Users : \A i, k \in DOMAIN npipe[v] :
           npipe'[v][i].clock = npipe'[v][k].clock => i = k
    <3> SUFFICES ASSUME NEW v \in Users, NEW i \in DOMAIN npipe[v], NEW k \in DOMAIN npipe[v],
                        npipe'[v][i].clock = npipe'[v][k].clock
                 PROVE  i = k
      OBVIOUS
    <3>1. npipe[v][i].clock = npipe[v][k].clock
      BY <1>5
    <3> QED BY <3>1 DEF Distinct
  <2>2. /\ \A v, x \in Users : \A i \in DOMAIN npipe[v], k \in DOMAIN npipe[x] :
              npipe'[v][i].p = npipe'[x][k].p => v = x /\ i = k
        /\ \A c \in Users \X Users, v \in Users : \A i \in DOMAIN npipe[v] :
              upipe[c].p # npipe'[v][i].p
    BY <1>5 DEF Distinct
  <2> QED BY <1>1, <1>4, <2>1, <2>2 DEF Distinct
<1>10. SocketsOpen'
  BY <1>1 DEF SocketsOpen, Books
<1>11. EndsOpen'
  <2> SUFFICES ASSUME NEW v \in Users, NEW i \in DOMAIN npipe[v]
               PROVE  /\ npipe'[v][i].clock >= 0 => fdt[npipe[v][i].r] = ReadEnd(npipe[v][i].p)
                      /\ fdt[npipe[v][i].r] = ReadEnd(npipe[v][i].p)
                            <=> fdt[npipe[v][i].w] = WriteEnd(npipe[v][i].p)
    BY <1>1, <1>4, <1>5 DEF EndsOpen
  <2>1. npipe'[v][i].clock >= 0 => npipe[v][i].clock >= 0
    BY <1>5
  <2> QED BY <2>1 DEF Books, EndsOpen
<1>12. \A f \in Fds : Reason(f)'
  <2> SUFFICES ASSUME NEW f \in Fds PROVE Reason(f)'
    OBVIOUS
  <2>1. Reason(f)
    BY DEF Books
  <2>2. \A v \in Users : \A i \in DOMAIN npipe[v] :
           f \in Numbers(npipe[v][i]) /\ fdt[f].of = npipe[v][i].p =>
              f \in Numbers(npipe'[v][i]) /\ fdt'[f].of = npipe'[v][i].p /\ i \in DOMAIN npipe'[v]
    BY <1>1, <1>4, <1>5
  <2> QED BY <1>1, <2>1, <2>2 DEF Reason
<1>13. ASSUME NEW i \in DOMAIN kids' PROVE Holding(i)'
  <2> SUFFICES ASSUME NEW v \in Users, NEW m \in DOMAIN npipe[v], kids[i].live,
                      WriteEnd(npipe[v][m].p) \in kids[i].hold
               PROVE  npipe'[v][m].clock <= IF v = kids[i].user THEN -1 ELSE 0
    BY <1>1, <1>4, <1>5 DEF Holding
  <2>1. npipe[v][m].clock <= IF v = kids[i].user THEN -1 ELSE 0
    BY <1>1, <1>13 DEF Holding
  <2>2. npipe'[v][m].clock <= npipe[v][m].clock /\ npipe[v][m].clock \in Int
        /\ npipe'[v][m].clock \in Int
    BY <1>5
  <2> QED BY <2>1, <2>2
<1> QED BY <1>6, <1>7, <1>8, <1>9, <1>10, <1>11, <1>12, <1>13 DEF Books

\* waitpid and a program that ends: nothing is opened, and a dead program holds
\* nothing.
LEMMA QuietParts ==
    ASSUME Parts, Wait \/ (\E i \in DOMAIN kids : Die(i)) \/ UNCHANGED vars
    PROVE  Parts'
<1> USE DEF Parts
<1>1. UNCHANGED <<fdt, id_table, npipe, upipe, made, eof, left>>
  BY DEF Wait, Die, vars
<1>2. kids' = kids \/ \E i \in DOMAIN kids : kids' = [kids EXCEPT ![i] = Gone]
  BY DEF Wait, Die, vars
<1>3. kids \in Seq(Programs) /\ DOMAIN kids = 1 .. Len(kids) /\ Len(kids) \in Nat
  BY DEF Types
<1>4. Gone \in Programs /\ Gone.hold = {} /\ Gone.live = FALSE
  BY DEF Gone, Programs, NotPiped, Objects
<1>5. /\ kids' \in Seq(Programs) /\ DOMAIN kids' = DOMAIN kids
      /\ \A i \in DOMAIN kids : kids'[i] = kids[i] \/ kids'[i] = Gone
  <2>1. CASE kids' = kids
    BY <1>3, <2>1
  <2>2. CASE \E i \in DOMAIN kids : kids' = [kids EXCEPT ![i] = Gone]
    BY <1>3, <1>4, <2>2
  <2> QED BY <1>2, <2>1, <2>2
<1>6. Types'
  BY <1>1, <1>5 DEF Types
<1>7. Room' /\ Distinct'
  BY <1>1 DEF Room, Distinct
<1>8. AllMade'
  BY <1>1, <1>4, <1>5 DEF AllMade
<1>9. Books'
  BY <1>1 DEF Books, SocketsOpen, EndsOpen, Reason
<1>10. \A i \in DOMAIN kids' : Holding(i)'
  BY <1>1, <1>4, <1>5 DEF Holding
<1> QED BY <1>6, <1>7, <1>8, <1>9, <1>10

-----------------------------------------------------------------------------
(***************************************************************************)
(* Logout.                                                                 *)
(***************************************************************************)
\* close of the socket and clear close no descriptor of another user, as long
\* as every number stands for a pipe of u or for nothing.
LEMMA ClearParts ==
    ASSUME Parts, fault = "none", fault' = "none", NEW u \in Users, id_table[u] # 0,
           NEW table \in [Fds -> Objects], Clear(u, table), eof => eof', eof' \in BOOLEAN,
           \A d \in Fds : table[d] = fdt[d] \/ (fdt[d] = Free /\ table[d] = Saved /\ eof'),
           left > 0, left' = left - 1
    PROVE  Parts'
<1> USE DEF Parts
<1> DEFINE closed == Close(table, {id_table[u]})
           N == UNION {Numbers(e) : e \in Entries(u)}
           Theirs(p) == \A e \in Entries(u) : e.p # p
<1>1. /\ fdt' = Close(closed, N)
      /\ ~Strange(u, closed)
      /\ id_table' = [id_table EXCEPT ![u] = 0]
      /\ npipe' = [npipe EXCEPT ![u] = <<>>]
      /\ upipe' = [c \in Users \X Users |-> IF c \in OfUser(u) THEN NoPipe ELSE upipe[c]]
      /\ UNCHANGED <<made, kids>>
  BY DEF Clear
<1>2. \A d \in Fds : /\ closed[d] = IF d = id_table[u] THEN Free ELSE table[d]
                     /\ fdt'[d] = IF d \in N THEN Free ELSE closed[d]
  BY <1>1 DEF Close
<1>3. ASSUME NEW d \in Fds, d \in N
      PROVE  closed[d] = Free \/ \E e \in Entries(u) : closed[d] \in {ReadEnd(e.p), WriteEnd(e.p)}
  <2>1. PICK e \in Entries(u) : d \in Numbers(e)
    BY <1>3
  <2>2. closed[d] \in {Free} \cup UNION {{ReadEnd(g.p), WriteEnd(g.p)} : g \in Entries(u)}
    BY <1>1, <2>1 DEF Strange
  <2> QED BY <2>2
<1>4. /\ npipe'[u] = <<>> /\ \A v \in Users : v # u => npipe'[v] = npipe[v]
      /\ id_table'[u] = 0 /\ \A v \in Users : v # u => id_table'[v] = id_table[v]
      /\ \A c \in Users \X Users : upipe'[c] \in {NoPipe, upipe[c]}
  BY <1>1 DEF Types
<1>5. fdt[id_table[u]] = Socket(u) /\ id_table[u] \in Fds
  BY DEF Books, SocketsOpen, Types
<1>6. \A i \in DOMAIN npipe[u] : Numbers(npipe[u][i]) \subseteq N
  <2> SUFFICES ASSUME NEW i \in DOMAIN npipe[u] PROVE Numbers(npipe[u][i]) \subseteq N
    OBVIOUS
  <2>1. PICK e : e = [p |-> npipe[u][i].p, r |-> npipe[u][i].r, w |-> npipe[u][i].w]
    OBVIOUS
  <2>2. e \in Entries(u) /\ Numbers(e) = Numbers(npipe[u][i])
    BY <2>1 DEF Entries, Numbers
  <2> QED BY <2>2
<1>7. ASSUME NEW v \in Users, v # u, NEW i \in DOMAIN npipe[v]
      PROVE  Theirs(npipe[v][i].p)
  <2> SUFFICES ASSUME NEW e \in Entries(u) PROVE e.p # npipe[v][i].p
    OBVIOUS
  <2>1. CASE \E k \in DOMAIN npipe[u] : e.p = npipe[u][k].p
    BY <1>7, <2>1 DEF Distinct
  <2>2. CASE \E c \in OfUser(u) : e = upipe[c]
    BY <2>2 DEF Distinct, OfUser
  <2>3. (\E k \in DOMAIN npipe[u] :
            e = [p |-> npipe[u][k].p, r |-> npipe[u][k].r, w |-> npipe[u][k].w])
        \/ \E c \in OfUser(u) : e = upipe[c]
    BY DEF Entries
  <2> QED BY <2>1, <2>2, <2>3
<1> HIDE DEF N, closed
\* What is not u's stays where it is.
<1>8. ASSUME NEW d \in Fds, NEW o,
             o \in {Socket(v) : v \in Users \ {u}} \/ \E p : Theirs(p) /\ o \in {ReadEnd(p), WriteEnd(p)}
      PROVE  fdt'[d] = o <=> fdt[d] = o
  <2>1. o # Free /\ o # Saved /\ o # Socket(u)
    BY <1>8, FreeFacts
  <2>2. ASSUME fdt'[d] = o PROVE fdt[d] = o
    BY <1>2, <2>1, <2>2
  <2>3. ASSUME fdt[d] = o PROVE fdt'[d] = o
    <3>1. d # id_table[u] /\ table[d] = o
      BY <1>5, <2>1, <2>3
    <3>2. closed[d] = o
      BY <1>2, <3>1
    <3>3. d \notin N
      BY <1>3, <1>8, <2>1, <3>2, FreeFacts
    <3> QED BY <1>2, <3>2, <3>3
  <2> QED BY <2>2, <2>3
<1>9. Types'
  <2>1. fdt' \in [Fds -> Objects]
    <3>1. \A d \in Fds : fdt'[d] \in Objects
      BY <1>2, FreeFacts
    <3>2. fdt' = [d \in Fds |-> IF d \in N THEN Free ELSE closed[d]]
      BY <1>1 DEF Close
    <3> QED BY <3>1, <3>2
  <2>2. id_table' \in [Users -> Fds \cup {0}]
    BY <1>1 DEF Types
  <2>3. npipe' \in [Users -> Seq(NumberedPipes)]
    BY <1>1 DEF Types
  <2>4. upipe' \in [Users \X Users -> Triples \cup {NoPipe}]
    BY <1>1, <1>4 DEF Types
  <2>5. left' \in 0 .. MaxLines
    BY DescriptorsAssumption DEF Types
  <2> QED BY <1>1, <2>1, <2>2, <2>3, <2>4, <2>5 DEF Types
<1>10. Room'
  <2> SUFFICES ASSUME NEW v \in Users PROVE Len(npipe'[v]) + left' <= MaxLines
    BY DEF Room
  <2>1. left \in Nat /\ left' \in Nat /\ left' <= left /\ left <= MaxLines /\ MaxLines \in Nat
    BY DescriptorsAssumption DEF Types
  <2>2. Len(npipe[v]) \in Nat /\ Len(npipe[v]) + left <= MaxLines
    BY TableType DEF Room
  <2>3. npipe'[v] = <<>> \/ npipe'[v] = npipe[v]
    BY <1>4
  <2>4. Len(npipe'[v]) = 0 \/ Len(npipe'[v]) = Len(npipe[v])
    BY <2>3
  <2> QED BY <2>1, <2>2, <2>4
<1>11. \A v \in Users : \A i \in DOMAIN npipe'[v] : v # u /\ i \in DOMAIN npipe[v]
  BY <1>4
<1>12. AllMade'
  <2>1. \A v \in Users : \A i \in DOMAIN npipe'[v] : npipe'[v][i].p \in 1 .. made'
    BY <1>1, <1>4, <1>11 DEF AllMade
  <2>2. \A c \in Users \X Users : upipe'[c].p <= made'
    <3>1. NoPipe.p = 0 /\ made \in Nat
      BY DEF NoPipe, Types
    <3> QED BY <1>1, <1>4, <3>1 DEF AllMade
  <2>3. \A d \in Fds : IsEnd(fdt'[d]) => fdt'[d].of <= made'
    <3>1. \A d \in Fds : fdt'[d] = Free \/ fdt'[d] = Saved \/ fdt'[d] = fdt[d]
      BY <1>2
    <3>2. ~IsEnd(Free) /\ ~IsEnd(Saved)
      BY DEF IsEnd, Free, Saved
    <3> QED BY <1>1, <3>1, <3>2 DEF AllMade
  <2> QED BY <1>1, <2>1, <2>2, <2>3 DEF AllMade
<1>13. Distinct'
  <2>1. \A c \in Users \X Users, v \in Users : \A i \in DOMAIN npipe'[v] :
           upipe'[c].p # npipe'[v][i].p
    <3>1. \A v \in Users : \A i \in DOMAIN npipe[v] : npipe[v][i].p # NoPipe.p
      BY DEF AllMade, NoPipe, Types
    <3> QED BY <1>4, <1>11, <3>1 DEF Distinct
  <2>2. \A v, x \in Users : \A i \in DOMAIN npipe'[v], k \in DOMAIN npipe'[x] :
           npipe'[v][i].p = npipe'[x][k].p => v = x /\ i = k
    BY <1>4, <1>11 DEF Distinct
  <2>3. \A v \in Users : \A i, k \in DOMAIN npipe'[v] :
           npipe'[v][i].clock = npipe'[v][k].clock => i = k
    BY <1>4, <1>11 DEF Distinct
  <2> QED BY <2>1, <2>2, <2>3 DEF Distinct
<1>14. SocketsOpen'
  <2> SUFFICES ASSUME NEW v \in Users, id_table'[v] # 0 PROVE fdt'[id_table'[v]] = Socket(v)
    BY DEF SocketsOpen
  <2>1. v # u /\ id_table'[v] = id_table[v] /\ id_table[v] \in Fds
    BY <1>4 DEF Types
  <2>2. fdt[id_table[v]] = Socket(v)
    BY <1>4, <2>1 DEF Books, SocketsOpen
  <2> QED BY <1>8, <2>1, <2>2
<1>15. EndsOpen'
  <2> SUFFICES ASSUME NEW v \in Users, NEW i \in DOMAIN npipe'[v]
               PROVE  /\ npipe'[v][i].clock >= 0 => fdt'[npipe'[v][i].r] = ReadEnd(npipe'[v][i].p)
                      /\ fdt'[npipe'[v][i].r] = ReadEnd(npipe'[v][i].p)
                            <=> fdt'[npipe'[v][i].w] = WriteEnd(npipe'[v][i].p)
    BY DEF EndsOpen
  <2>1. v # u /\ i \in DOMAIN npipe[v] /\ npipe'[v] = npipe[v]
    BY <1>4, <1>11
  <2>2. PICK e : e = npipe[v][i]
    OBVIOUS
  <2>3. e.r \in Fds /\ e.w \in Fds /\ Theirs(e.p)
    BY <1>7, <2>1, <2>2, EntryType
  <2>4. (fdt'[e.r] = ReadEnd(e.p) <=> fdt[e.r] = ReadEnd(e.p))
        /\ (fdt'[e.w] = WriteEnd(e.p) <=> fdt[e.w] = WriteEnd(e.p))
    BY <1>8, <2>3
  <2> QED BY <2>1, <2>2, <2>4 DEF Books, EndsOpen
<1>16. ASSUME NEW d \in Fds PROVE Reason(d)'
  <2>1. CASE fdt'[d] = Free
    BY <2>1 DEF Reason
  <2>2. CASE fdt'[d] = Saved /\ eof'
    BY <2>2 DEF Reason
  <2>3. CASE fdt'[d] # Free /\ ~(fdt'[d] = Saved /\ eof')
    <3>1. d \notin N /\ d # id_table[u] /\ fdt'[d] = fdt[d]
      BY <1>2, <2>3
    <3>2. Reason(d) /\ fdt[d] # Free /\ ~(fdt[d] = Saved /\ eof)
      BY <2>3, <3>1 DEF Books
    <3>3. CASE \E v \in Users : id_table[v] = d
      BY <1>4, <3>1, <3>3 DEF Reason
    <3>4. CASE \E v \in Users : \E i \in DOMAIN npipe[v] :
                  d \in Numbers(npipe[v][i]) /\ fdt[d].of = npipe[v][i].p
      BY <1>4, <1>6, <3>1, <3>4 DEF Reason
    <3> QED BY <3>2, <3>3, <3>4 DEF Reason
  <2> QED BY <2>1, <2>2, <2>3
<1>17. ASSUME NEW i \in DOMAIN kids' PROVE Holding(i)'
  BY <1>1, <1>4, <1>11, <1>17 DEF Holding
<1> QED BY <1>9, <1>10, <1>12, <1>13, <1>14, <1>15, <1>16, <1>17 DEF Books

\* exit and an end of file.
LEMMA LogoutParts ==
    ASSUME Parts, fault = "none", fault' = "none", NEW u \in Users, Exit(u) \/ Eof(u)
    PROVE  Parts'
<1>1. id_table[u] # 0 /\ left > 0 /\ left' = left - 1
  BY DEF Exit, Eof, Served
<1>2. fdt \in [Fds -> Objects] /\ eof \in BOOLEAN
  BY DEF Parts, Types
<1>3. CASE Exit(u)
  <2>1. Clear(u, fdt) /\ eof' = eof
    BY <1>3 DEF Exit
  <2> QED BY <1>1, <1>2, <2>1, ClearParts
<1>4. CASE Eof(u)
  <2>1. PICK table : table = [d \in Fds |-> IF d \in {Lowest(1), Lowest(2), Lowest(3)}
                                            THEN Saved ELSE fdt[d]]
    OBVIOUS
  <2>2. Clear(u, table) /\ eof' = TRUE
    BY <1>4, <2>1 DEF Eof
  <2>3. \A n \in {1, 2, 3} : Lowest(n) \in FreeNumbers
    <3>1. PICK c : c = Cardinality(FreeNumbers)
      OBVIOUS
    <3>2. c >= 3 /\ c \in Nat
      BY <1>4, <3>1, FreeFinite, FS_CardinalityType DEF Eof
    <3>3. \A n \in {1, 2, 3} : n \in 1 .. 5 /\ c >= n
      BY <3>2
    <3> QED BY <3>1, <3>3, LowestFree
  <2>4. \A d \in Fds : table[d] = fdt[d] \/ (fdt[d] = Free /\ table[d] = Saved)
    BY <2>1, <2>3 DEF FreeNumbers
  <2>5. table \in [Fds -> Objects]
    BY <1>2, <2>1, FreeFacts
  <2> QED BY <1>1, <2>2, <2>4, <2>5, ClearParts
<1> QED BY <1>3, <1>4

-----------------------------------------------------------------------------
(***************************************************************************)
(* A line of a program.                                                    *)
(***************************************************************************)
\* The search in npipe_clock finds the only entry with the count, if any.
LEMMA EntryFacts ==
    ASSUME Parts, NEW u \in Users, NEW n
    PROVE  \/ Entry(u, n) = NoPipe /\ \A i \in DOMAIN npipe[u] : npipe[u][i].clock # n
           \/ /\ Entry(u, n) # NoPipe /\ Entry(u, n) \in Triples
              /\ \E i \in DOMAIN npipe[u] :
                    /\ npipe[u][i].clock = n /\ Entry(u, n).p = npipe[u][i].p
                    /\ Entry(u, n).r = npipe[u][i].r /\ Entry(u, n).w = npipe[u][i].w
<1> USE DEF Parts
<1> DEFINE found == Clocked(npipe[u], n)
<1>1. CASE found = {}
  BY <1>1 DEF Entry, Clocked
<1>2. CASE found # {}
  <2>1. PICK i \in DOMAIN npipe[u] : npipe[u][i].clock = n
    BY <1>2 DEF Clocked
  <2>2. \A k \in found : k = i
    BY <2>1 DEF Clocked, Distinct
  <2>3. i \in found /\ i \in Nat
    BY <2>1, TableType DEF Clocked
  <2>4. (CHOOSE m \in found : \A k \in found : m <= k) = i
    <3>1. \A k \in found : i <= k
      BY <2>2, <2>3
    <3> HIDE DEF found
    <3>2. \E m \in found : \A k \in found : m <= k
      BY <2>3, <3>1
    <3> QED BY <2>2, <3>2
  <2>5. Entry(u, n) = [p |-> npipe[u][i].p, r |-> npipe[u][i].r, w |-> npipe[u][i].w]
    BY <1>2, <2>4 DEF Entry
  <2>6. npipe[u][i].p \in Nat /\ npipe[u][i].p >= 1
        /\ npipe[u][i].r \in Fds /\ npipe[u][i].w \in Fds
    BY EntryType DEF AllMade, Types
  <2>7. Entry(u, n) \in Triples /\ Entry(u, n) # NoPipe
    BY <2>5, <2>6 DEF Triples, NoPipe
  <2> QED BY <2>1, <2>5, <2>7
<1> QED BY <1>1, <1>2

\* What a line changes as long as no stale number is used: due is the pipe that
\* it reads, and to the pipe that it makes, for a later line or, if n is 0, for
\* another user; NoPipe if there is none.
Ran(u, n, due, to) ==
    /\ left > 0 /\ left' = left - 1 /\ UNCHANGED <<id_table, eof>>
    /\ \/ /\ due \in Triples
          /\ \E i \in DOMAIN npipe[u] :
                /\ npipe[u][i].clock = 0 /\ due.p = npipe[u][i].p
                /\ due.r = npipe[u][i].r /\ due.w = npipe[u][i].w
       \/ due = NoPipe /\ \A i \in DOMAIN npipe[u] : npipe[u][i].clock # 0
    /\ n \in Nat
    /\ to # NoPipe =>
          /\ to.p = made + 1 /\ to.r \in FreeNumbers /\ to.w \in FreeNumbers
          /\ to.r # to.w
    /\ made' = IF to # NoPipe THEN made + 1 ELSE made
    /\ fdt' \in [Fds -> Objects]
    /\ \A d \in Fds : fdt'[d] =
          IF d \in Numbers(due) \/ (to # NoPipe /\ n = 0 /\ d \in {to.r, to.w}) THEN Free
          ELSE IF to # NoPipe /\ d = to.r THEN ReadEnd(to.p)
          ELSE IF to # NoPipe /\ d = to.w THEN WriteEnd(to.p)
          ELSE fdt[d]
    /\ npipe' = [npipe EXCEPT ![u] = Tick(
          IF to # NoPipe /\ n # 0
          THEN Append(@, [clock |-> n, p |-> to.p, r |-> to.r, w |-> to.w]) ELSE @)]
    /\ to # NoPipe /\ n # 0 => \A i \in DOMAIN npipe[u] : npipe[u][i].clock # n
    /\ upipe' \in [Users \X Users -> Triples \cup {NoPipe}]
    /\ \A c \in Users \X Users :
          upipe'[c] = upipe[c] \/ (to # NoPipe /\ n = 0 /\ upipe'[c].p = made + 1)
    /\ \E kid \in Programs :
          /\ kids' = Append(kids, kid) /\ kid.user = u
          /\ \A o \in kid.hold : IsEnd(o) /\ \E d \in Fds :
                /\ o = fdt[d]
                /\ d \notin Numbers(due) \cup OwnLater(u) \cup OthersLater(u)

\* Five free numbers: three for the saved ones, two for a pipe.
LEMMA NewNumbers ==
    ASSUME Cardinality(FreeNumbers) >= 5
    PROVE  /\ Lowest(4) \in FreeNumbers /\ Lowest(5) \in FreeNumbers
           /\ Lowest(4) # Lowest(5)
<1>1. PICK c : c = Cardinality(FreeNumbers)
  OBVIOUS
<1>2. c >= 5 /\ c \in Nat
  BY <1>1, FreeFinite, FS_CardinalityType
<1>3. \A n \in {4, 5} : n \in 1 .. 5 /\ c >= n
  BY <1>2
<1>4. \A n \in {4, 5} :
         /\ Lowest(n) \in FreeNumbers
         /\ Cardinality({f \in FreeNumbers : f < Lowest(n)}) = n - 1
  BY <1>1, <1>3, LowestFree
<1>5. Lowest(4) # Lowest(5)
  <2> SUFFICES ASSUME Lowest(4) = Lowest(5) PROVE FALSE
    OBVIOUS
  <2>1. Cardinality({f \in FreeNumbers : f < Lowest(4)}) = 4 - 1
        /\ Cardinality({f \in FreeNumbers : f < Lowest(5)}) = 5 - 1
    BY <1>4
  <2>2. PICK a : a = Cardinality({f \in FreeNumbers : f < Lowest(4)})
    OBVIOUS
  <2>3. a = 4 - 1 /\ a = 5 - 1
    BY <2>1, <2>2
  <2> QED BY <2>3
<1> QED BY <1>4, <1>5

\* A program's line, as long as it uses no stale number.
LEMMA ProgramRuns ==
    ASSUME Parts, NEW u \in Users, NEW n \in Counts \cup {0}, NEW j \in Users \cup {0},
           NEW k \in Users \cup {0}, Program(u, n, j, k), fault' = "none"
    PROVE  \E due, to : Ran(u, n, due, to)
<1> DEFINE From == IF Receives(u, j) THEN upipe[j, u] ELSE NoPipe
           Opened(hit, to) ==
               IF to # hit
               THEN [fdt EXCEPT ![to.r] = ReadEnd(to.p), ![to.w] = WriteEnd(to.p)]
               ELSE fdt
           Closes(due, to) == UNION {Numbers(due), Numbers(From), Numbers(to), OwnLater(u),
                                     OthersLater(u), OthersUser(u)}
           Body(due, hit, to) ==
               /\ kids' = Append(kids,
                    [live |-> TRUE, user |-> u, in |-> Input(j, due, From, Opened(hit, to)),
                     out |-> IF to # NoPipe THEN Opened(hit, to)[to.w] ELSE NotPiped,
                     hold |-> {o \in {Opened(hit, to)[d] : d \in Fds \ Closes(due, to)} :
                                  o.t \in {"read", "write"}}])
               /\ fdt' = Close(Opened(hit, to), ParentCloses(due, From,
                                                  IF Sends(u, k) THEN to ELSE NoPipe))
               /\ npipe' = [npipe EXCEPT ![u] = Tick(
                    IF n # 0 /\ to # hit
                    THEN Append(@, [clock |-> n, p |-> to.p, r |-> to.r, w |-> to.w])
                    ELSE @)]
               /\ upipe' = [c \in Users \X Users |->
                    IF c = <<u, k>> /\ Sends(u, k) THEN to
                    ELSE IF c = <<j, u>> /\ From # NoPipe THEN NoPipe
                    ELSE upipe[c]]
               /\ made' = IF to # hit THEN made + 1 ELSE made
               /\ fault' = IF From = NoPipe THEN "none" ELSE "receive"
<1>1. PICK due \in {Entry(u, 0)}, hit \in {IF n = 0 THEN NoPipe ELSE Entry(u, n)} :
      \E to \in {IF Sends(u, k) \/ (n # 0 /\ hit = NoPipe) THEN NewPipe ELSE hit} :
         Body(due, hit, to)
  BY Zenon DEF Program
<1>2. PICK to \in {IF Sends(u, k) \/ (n # 0 /\ hit = NoPipe) THEN NewPipe ELSE hit} :
         Body(due, hit, to)
  BY <1>1
<1>3. PICK from : from = From
  OBVIOUS
<1> DEFINE makes == to # hit
<1>4. PICK open : open = Opened(hit, to)
  OBVIOUS
<1>5. PICK childCloses : childCloses = Closes(due, to)
  OBVIOUS
<1> HIDE DEF Opened, Closes, From
<1>6. /\ due = Entry(u, 0) /\ hit = (IF n = 0 THEN NoPipe ELSE Entry(u, n))
      /\ to = (IF Sends(u, k) \/ (n # 0 /\ hit = NoPipe) THEN NewPipe ELSE hit)
  OBVIOUS
<1>7. kids' = Append(kids,
             [live |-> TRUE, user |-> u, in |-> Input(j, due, from, open),
              out |-> IF to # NoPipe THEN open[to.w] ELSE NotPiped,
              hold |-> {o \in {open[d] : d \in Fds \ childCloses} :
                           o.t \in {"read", "write"}}])
  BY <1>2, <1>3, <1>4, <1>5
<1>8. fdt' = Close(open, ParentCloses(due, from, IF Sends(u, k) THEN to ELSE NoPipe))
  BY <1>2, <1>3, <1>4
<1>9. npipe' = [npipe EXCEPT ![u] = Tick(
             IF n # 0 /\ makes
             THEN Append(@, [clock |-> n, p |-> to.p, r |-> to.r, w |-> to.w])
             ELSE @)]
  BY <1>2
<1>10. upipe' = [c \in Users \X Users |->
             IF c = <<u, k>> /\ Sends(u, k) THEN to
             ELSE IF c = <<j, u>> /\ from # NoPipe THEN NoPipe
             ELSE upipe[c]]
  BY <1>2, <1>3
<1>11. /\ made' = (IF makes THEN made + 1 ELSE made)
       /\ fault' = (IF from = NoPipe THEN "none" ELSE "receive")
  BY <1>2, <1>3
<1>12. /\ open = (IF makes
                  THEN [fdt EXCEPT ![to.r] = ReadEnd(to.p), ![to.w] = WriteEnd(to.p)]
                  ELSE fdt)
       /\ childCloses = UNION {Numbers(due), Numbers(from), Numbers(to), OwnLater(u),
                               OthersLater(u), OthersUser(u)}
  BY <1>3, <1>4, <1>5 DEF From, Opened, Closes
<1> HIDE DEF Body
<1>13. /\ left > 0 /\ left' = left - 1 /\ UNCHANGED <<id_table, eof>>
       /\ (n = 0 \/ k = 0) /\ Cardinality(FreeNumbers) >= 5
  BY DEF Program, Served
<1>14. from = NoPipe
  BY <1>11
<1>15. n \in Nat /\ made \in Nat /\ fdt \in [Fds -> Objects]
  BY DescriptorsAssumption DEF Parts, Types
<1>16. Lowest(4) \in FreeNumbers /\ Lowest(5) \in FreeNumbers /\ Lowest(4) # Lowest(5)
  BY <1>13, NewNumbers
<1>17. /\ NewPipe.p = made + 1 /\ NewPipe.r = Lowest(4) /\ NewPipe.w = Lowest(5)
       /\ NewPipe # NoPipe /\ NewPipe \in Triples
  BY <1>15, <1>16 DEF NewPipe, NoPipe, Triples, FreeNumbers
<1>18. (makes <=> Sends(u, k) \/ (n # 0 /\ hit = NoPipe))
  BY <1>6, <1>13, <1>17 DEF Sends
<1>19. /\ makes => to = NewPipe
       /\ makes /\ n = 0 <=> Sends(u, k)
       /\ ~makes => to = hit
       /\ makes /\ n # 0 => hit = NoPipe /\ hit = Entry(u, n)
  BY <1>6, <1>13, <1>18 DEF Sends
<1>20. to = NoPipe \/ to \in Triples
  BY <1>6, <1>17, <1>19, EntryFacts
<1>21. hit = NoPipe /\ n # 0 => \A i \in DOMAIN npipe[u] : npipe[u][i].clock # n
  BY <1>6, EntryFacts
<1>22. \/ /\ due \in Triples /\ \E i \in DOMAIN npipe[u] :
             /\ npipe[u][i].clock = 0 /\ due.p = npipe[u][i].p
             /\ due.r = npipe[u][i].r /\ due.w = npipe[u][i].w
       \/ due = NoPipe /\ \A i \in DOMAIN npipe[u] : npipe[u][i].clock # 0
  BY <1>6, EntryFacts
<1>23. makes /\ n # 0 => \A i \in DOMAIN npipe[u] : npipe[u][i].clock # n
  BY <1>19, <1>21
<1>24. /\ open \in [Fds -> Objects]
       /\ \A d \in Fds : open[d] = IF makes /\ d = to.w THEN WriteEnd(to.p)
                                   ELSE IF makes /\ d = to.r THEN ReadEnd(to.p)
                                   ELSE fdt[d]
       /\ makes => to.p = made + 1 /\ to.r \in FreeNumbers /\ to.w \in FreeNumbers /\ to.r # to.w
  <2>1. makes => /\ to.p = made + 1 /\ to.r \in FreeNumbers /\ to.w \in FreeNumbers
                 /\ to.r # to.w /\ to.r \in Fds /\ to.w \in Fds
                 /\ ReadEnd(to.p) \in Objects /\ WriteEnd(to.p) \in Objects
    BY <1>15, <1>16, <1>17, <1>19, FreeFacts DEF FreeNumbers
  <2>2. CASE makes
    BY <1>12, <1>15, <2>1, <2>2
  <2>3. CASE ~makes
    BY <1>12, <1>15, <2>3
  <2> QED BY <1>18, <2>1, <2>2, <2>3
<1>25. Numbers(NoPipe) = {} /\ \A e \in Triples : Numbers(e) = {e.r, e.w}
  BY FreeFacts DEF Numbers, NoPipe, Triples
<1>26. ParentCloses(due, from, IF Sends(u, k) THEN to ELSE NoPipe)
          = Numbers(due) \cup (IF makes /\ n = 0 THEN {to.r, to.w} ELSE {})
  <2>1. CASE makes /\ n = 0
    <3>1. Sends(u, k) /\ Numbers(to) = {to.r, to.w}
      BY <1>17, <1>19, <1>25, <2>1
    <3> QED BY <1>14, <1>25, <2>1, <3>1 DEF ParentCloses
  <2>2. CASE ~(makes /\ n = 0)
    <3>1. ~Sends(u, k)
      BY <1>19, <2>2
    <3> QED BY <1>14, <1>25, <2>2, <3>1 DEF ParentCloses
  <2> QED BY <2>1, <2>2
<1>27. \A d \in Fds : fdt'[d] =
          IF d \in Numbers(due) \/ (makes /\ n = 0 /\ d \in {to.r, to.w}) THEN Free
          ELSE IF makes /\ d = to.r THEN ReadEnd(to.p)
          ELSE IF makes /\ d = to.w THEN WriteEnd(to.p)
          ELSE fdt[d]
  <2>1. \A d \in Fds : fdt'[d] = IF d \in Numbers(due) \cup (IF makes /\ n = 0
                                                            THEN {to.r, to.w} ELSE {})
                                 THEN Free ELSE open[d]
    BY <1>8, <1>26 DEF Close
  <2> SUFFICES ASSUME NEW d \in Fds
               PROVE  fdt'[d] =
          IF d \in Numbers(due) \/ (makes /\ n = 0 /\ d \in {to.r, to.w}) THEN Free
          ELSE IF makes /\ d = to.r THEN ReadEnd(to.p)
          ELSE IF makes /\ d = to.w THEN WriteEnd(to.p)
          ELSE fdt[d]
    OBVIOUS
  <2>2. fdt'[d] = IF d \in Numbers(due) \/ (makes /\ n = 0 /\ d \in {to.r, to.w})
                  THEN Free ELSE open[d]
    BY <2>1
  <2>3. open[d] = IF makes /\ d = to.r THEN ReadEnd(to.p)
                  ELSE IF makes /\ d = to.w THEN WriteEnd(to.p)
                  ELSE fdt[d]
    BY <1>24
  <2> QED BY <2>2, <2>3
<1>28. fdt' \in [Fds -> Objects]
  <2>1. fdt' = [d \in Fds |-> IF d \in ParentCloses(due, from, IF Sends(u, k) THEN to ELSE NoPipe)
                              THEN Free ELSE open[d]]
    BY <1>8 DEF Close
  <2> QED BY <1>24, <2>1, FreeFacts
<1>29. /\ upipe' \in [Users \X Users -> Triples \cup {NoPipe}]
       /\ \A c \in Users \X Users :
             upipe'[c] = upipe[c] \/ (makes /\ n = 0 /\ upipe'[c].p = made + 1)
  <2>1. \A c \in Users \X Users :
           upipe'[c] = IF c = <<u, k>> /\ Sends(u, k) THEN to ELSE upipe[c]
    BY <1>10, <1>14
  <2>2. \A c \in Users \X Users : upipe'[c] \in Triples \cup {NoPipe}
    BY <1>20, <2>1 DEF Parts, Types
  <2>3. upipe' \in [Users \X Users -> Triples \cup {NoPipe}]
    BY <1>10, <2>2
  <2>4. ASSUME NEW c \in Users \X Users, upipe'[c] # upipe[c]
        PROVE  makes /\ n = 0 /\ upipe'[c].p = made + 1
    <3>1. Sends(u, k) /\ upipe'[c] = to
      BY <2>1, <2>4
    <3>2. makes /\ n = 0
      BY <1>19, <3>1
    <3> QED BY <1>17, <1>19, <3>1, <3>2
  <2> QED BY <2>3, <2>4
<1>30. \E kid \in Programs :
          /\ kids' = Append(kids, kid) /\ kid.user = u
          /\ \A o \in kid.hold : IsEnd(o) /\ \E d \in Fds :
                /\ o = fdt[d]
                /\ d \notin Numbers(due) \cup OwnLater(u) \cup OthersLater(u)
  <2>1. PICK in, out, hold :
           /\ in = Input(j, due, from, open)
           /\ out = (IF to # NoPipe THEN open[to.w] ELSE NotPiped)
           /\ hold = {o \in {open[d] : d \in Fds \ childCloses} : o.t \in {"read", "write"}}
    OBVIOUS
  <2>2. in \in Objects
    <3>1. in \in {NotPiped} \cup {open[d] : d \in Fds}
      <4>1. in = NotPiped \/ (due # NoPipe /\ in = open[due.r])
        BY <1>14, <2>1 DEF Input
      <4>2. due # NoPipe => due.r \in Fds
        BY <1>22 DEF Triples
      <4> QED BY <4>1, <4>2
    <3>2. NotPiped \in Objects
      BY DEF NotPiped, Objects
    <3> QED BY <1>24, <3>1, <3>2
  <2>3. out \in Objects
    <3>1. to # NoPipe => to.w \in Fds
      BY <1>20 DEF Triples
    <3>2. NotPiped \in Objects
      BY DEF NotPiped, Objects
    <3> QED BY <1>24, <2>1, <3>1, <3>2
  <2>4. hold \in SUBSET Objects
    BY <1>24, <2>1
  <2>5. PICK kid : kid = [live |-> TRUE, user |-> u, in |-> in, out |-> out, hold |-> hold]
    OBVIOUS
  <2>6. kid \in Programs /\ kid.user = u /\ kid.hold = hold
    BY <2>2, <2>3, <2>4, <2>5 DEF Programs
  <2>7. kids' = Append(kids, kid)
    BY <1>7, <2>1, <2>5
  <2>8. ASSUME NEW o \in hold
        PROVE  IsEnd(o) /\ \E d \in Fds :
                  o = fdt[d] /\ d \notin Numbers(due) \cup OwnLater(u) \cup OthersLater(u)
    <3>1. PICK d \in Fds \ childCloses : o = open[d] /\ o.t \in {"read", "write"}
      BY <2>1, <2>8
    <3>2. d \notin Numbers(due) \cup OwnLater(u) \cup OthersLater(u) /\ d \notin Numbers(to)
      BY <1>12, <3>1
    <3>3. makes => d \notin {to.r, to.w}
      BY <1>17, <1>19, <1>25, <3>2
    <3>4. open[d] = fdt[d]
      BY <1>24, <3>1, <3>3
    <3> QED BY <3>1, <3>2, <3>4 DEF IsEnd
  <2> QED BY <2>6, <2>7, <2>8
<1> HIDE DEF makes
<1>31. PICK fresh : fresh = IF makes THEN to ELSE NoPipe
  OBVIOUS
<1>32. fresh # NoPipe <=> makes
  BY <1>17, <1>19, <1>31
<1>33. Ran(u, n, due, fresh)
  BY <1>9, <1>11, <1>13, <1>15, <1>22, <1>23, <1>24, <1>27, <1>28, <1>29, <1>30, <1>31, <1>32 DEF Ran
<1> QED BY <1>33

\* What such a line does to the tables, whoever's entries they are.
LEMMA RanTables ==
    ASSUME Parts, NEW u \in Users, NEW n, NEW due, NEW to, Ran(u, n, due, to)
    PROVE  /\ npipe' \in [Users -> Seq(NumberedPipes)]
           /\ \A v \in Users : Len(npipe'[v]) \in Nat /\ Len(npipe'[v]) <= Len(npipe[v]) + 1
           /\ \A v \in Users : \A i \in DOMAIN npipe[v] :
                 /\ i \in DOMAIN npipe'[v]
                 /\ npipe'[v][i].p = npipe[v][i].p
                 /\ npipe'[v][i].r = npipe[v][i].r /\ npipe'[v][i].w = npipe[v][i].w
                 /\ Numbers(npipe'[v][i]) = Numbers(npipe[v][i])
                 /\ npipe[v][i].clock \in Int
                 /\ v # u => npipe'[v][i].clock = npipe[v][i].clock
                 /\ v = u => npipe'[v][i].clock = npipe[v][i].clock - 1
           /\ \A v \in Users : \A i \in DOMAIN npipe'[v] :
                 i \notin DOMAIN npipe[v] =>
                    /\ v = u /\ to # NoPipe /\ n # 0 /\ i = Len(npipe[u]) + 1
                    /\ npipe'[v][i].p = made + 1 /\ npipe'[v][i].clock = n - 1
                    /\ npipe'[v][i].r = to.r /\ npipe'[v][i].w = to.w
           /\ to # NoPipe /\ n # 0 =>
                 \E i \in DOMAIN npipe'[u] :
                    /\ npipe'[u][i].p = made + 1
                    /\ npipe'[u][i].r = to.r /\ npipe'[u][i].w = to.w
<1> USE DEF Parts
<1>1. /\ npipe \in [Users -> Seq(NumberedPipes)] /\ made \in Nat
      /\ npipe[u] \in Seq(NumberedPipes) /\ Len(npipe[u]) \in Nat
      /\ DOMAIN npipe[u] = 1 .. Len(npipe[u])
  BY TableType DEF Types
<1>2. n \in Nat /\ (to # NoPipe => to.p = made + 1 /\ to.r \in Fds /\ to.w \in Fds)
  BY DEF Ran, FreeNumbers
<1>3. PICK e : e = [clock |-> n, p |-> to.p, r |-> to.r, w |-> to.w]
  OBVIOUS
<1>4. PICK table : table = IF to # NoPipe /\ n # 0 THEN Append(npipe[u], e) ELSE npipe[u]
  OBVIOUS
<1>5. npipe' = [npipe EXCEPT ![u] = Tick(table)]
  BY <1>3, <1>4 DEF Ran
<1>6. /\ to # NoPipe => e \in NumberedPipes
      /\ e.clock = n /\ e.p = to.p /\ e.r = to.r /\ e.w = to.w
  BY <1>1, <1>2, <1>3 DEF NumberedPipes
<1>7. /\ table \in Seq(NumberedPipes)
      /\ \A i \in DOMAIN npipe[u] : i \in DOMAIN table /\ table[i] = npipe[u][i]
      /\ Len(table) <= Len(npipe[u]) + 1
      /\ \A i \in DOMAIN table : i \notin DOMAIN npipe[u] =>
            to # NoPipe /\ n # 0 /\ i = Len(npipe[u]) + 1 /\ table[i] = e
      /\ to # NoPipe /\ n # 0 => \E i \in DOMAIN table : table[i] = e
  <2>1. CASE to # NoPipe /\ n # 0
    <3>1. /\ table \in Seq(NumberedPipes) /\ Len(table) = Len(npipe[u]) + 1
          /\ \A i \in 1 .. Len(npipe[u]) : table[i] = npipe[u][i]
          /\ table[Len(npipe[u]) + 1] = e
      BY <1>1, <1>4, <1>6, <2>1, AppendProperties
    <3>2. DOMAIN table = 1 .. Len(npipe[u]) + 1
      BY <3>1
    <3> QED BY <1>1, <2>1, <3>1, <3>2
  <2>2. CASE ~(to # NoPipe /\ n # 0)
    BY <1>1, <1>4, <2>2
  <2> QED BY <2>1, <2>2
<1>8. /\ Tick(table) \in Seq(NumberedPipes) /\ Len(Tick(table)) = Len(table)
      /\ DOMAIN Tick(table) = DOMAIN table
      /\ \A i \in DOMAIN table :
            /\ table[i].clock \in Int
            /\ Tick(table)[i].clock = table[i].clock - 1
            /\ Tick(table)[i].p = table[i].p
            /\ Tick(table)[i].r = table[i].r /\ Tick(table)[i].w = table[i].w
  BY <1>7, TickFacts
<1>9. npipe'[u] = Tick(table) /\ \A v \in Users : v # u => npipe'[v] = npipe[v]
  BY <1>1, <1>5
<1>10. npipe' \in [Users -> Seq(NumberedPipes)]
  BY <1>1, <1>5, <1>8
<1>11. \A v \in Users : Len(npipe'[v]) \in Nat /\ Len(npipe'[v]) <= Len(npipe[v]) + 1
  <2> SUFFICES ASSUME NEW v \in Users
               PROVE  Len(npipe'[v]) \in Nat /\ Len(npipe'[v]) <= Len(npipe[v]) + 1
    OBVIOUS
  <2>1. CASE v = u
    BY <1>7, <1>8, <1>9, <2>1
  <2>2. CASE v # u
    <3>1. Len(npipe[v]) \in Nat
      BY TableType
    <3> QED BY <1>9, <2>2, <3>1
  <2> QED BY <2>1, <2>2
<1>12. ASSUME NEW v \in Users, NEW i \in DOMAIN npipe[v]
       PROVE  /\ i \in DOMAIN npipe'[v]
              /\ npipe'[v][i].p = npipe[v][i].p
              /\ npipe'[v][i].r = npipe[v][i].r /\ npipe'[v][i].w = npipe[v][i].w
              /\ Numbers(npipe'[v][i]) = Numbers(npipe[v][i])
              /\ npipe[v][i].clock \in Int
              /\ v # u => npipe'[v][i].clock = npipe[v][i].clock
              /\ v = u => npipe'[v][i].clock = npipe[v][i].clock - 1
  <2>1. npipe[v][i].clock \in Int
    BY EntryType
  <2>2. CASE v = u
    <3>1. i \in DOMAIN table /\ table[i] = npipe[u][i]
      BY <1>7, <2>2
    <3> QED BY <1>8, <1>9, <2>1, <2>2, <3>1 DEF Numbers
  <2>3. CASE v # u
    BY <1>9, <2>1, <2>3
  <2> QED BY <2>2, <2>3
<1>13. ASSUME NEW v \in Users, NEW i \in DOMAIN npipe'[v], i \notin DOMAIN npipe[v]
       PROVE  /\ v = u /\ to # NoPipe /\ n # 0 /\ i = Len(npipe[u]) + 1
              /\ npipe'[v][i].p = made + 1 /\ npipe'[v][i].clock = n - 1
              /\ npipe'[v][i].r = to.r /\ npipe'[v][i].w = to.w
  <2>1. v = u
    BY <1>9, <1>13
  <2>2. i \in DOMAIN table /\ i \notin DOMAIN npipe[u]
    BY <1>8, <1>9, <1>13, <2>1
  <2>3. to # NoPipe /\ n # 0 /\ i = Len(npipe[u]) + 1 /\ table[i] = e
    BY <1>7, <2>2
  <2> QED BY <1>2, <1>6, <1>8, <1>9, <2>1, <2>2, <2>3
<1>14. ASSUME to # NoPipe, n # 0
       PROVE  \E i \in DOMAIN npipe'[u] :
                 /\ npipe'[u][i].p = made + 1
                 /\ npipe'[u][i].r = to.r /\ npipe'[u][i].w = to.w
  <2>1. PICK i \in DOMAIN table : table[i] = e
    BY <1>7, <1>14
  <2>2. i \in DOMAIN npipe'[u] /\ npipe'[u][i].p = e.p
        /\ npipe'[u][i].r = e.r /\ npipe'[u][i].w = e.w
    BY <1>8, <1>9, <2>1
  <2> QED BY <1>2, <1>6, <1>14, <2>2
<1> QED BY <1>10, <1>11, <1>12, <1>13, <1>14

\* What such a line does to the descriptors: the numbers that it closes stand
\* for the pipe that is due, and those that it opens were free.
LEMMA RanDescriptors ==
    ASSUME Parts, NEW u \in Users, NEW n, NEW due, NEW to, Ran(u, n, due, to)
    PROVE  /\ due # NoPipe => \E i \in DOMAIN npipe[u] :
                 /\ npipe[u][i].clock = 0 /\ npipe[u][i].p = due.p
                 /\ npipe[u][i].r = due.r /\ npipe[u][i].w = due.w
                 /\ fdt'[due.r] = Free /\ fdt'[due.w] = Free
           /\ to # NoPipe /\ n # 0 =>
                 fdt'[to.r] = ReadEnd(made + 1) /\ fdt'[to.w] = WriteEnd(made + 1)
           /\ \A d \in Fds : \/ fdt'[d] = Free
                             \/ fdt'[d] = fdt[d]
                             \/ /\ to # NoPipe /\ n # 0 /\ d \in {to.r, to.w}
                                /\ fdt'[d] \in {ReadEnd(made + 1), WriteEnd(made + 1)}
           /\ \A d \in Fds : \A o :
                 /\ o # Free /\ o # ReadEnd(made + 1) /\ o # WriteEnd(made + 1)
                 /\ due # NoPipe => o # ReadEnd(due.p) /\ o # WriteEnd(due.p)
                 => (fdt'[d] = o <=> fdt[d] = o)
<1> USE DEF Parts
<1>1. \A d \in Fds : fdt'[d] =
          IF d \in Numbers(due) \/ (to # NoPipe /\ n = 0 /\ d \in {to.r, to.w}) THEN Free
          ELSE IF to # NoPipe /\ d = to.r THEN ReadEnd(to.p)
          ELSE IF to # NoPipe /\ d = to.w THEN WriteEnd(to.p)
          ELSE fdt[d]
  BY DEF Ran
<1>2. to # NoPipe => /\ to.p = made + 1 /\ to.r \in Fds /\ to.w \in Fds /\ to.r # to.w
                     /\ fdt[to.r] = Free /\ fdt[to.w] = Free
  BY DEF Ran, FreeNumbers
<1>3. due # NoPipe => /\ due \in Triples
                      /\ \E i \in DOMAIN npipe[u] :
                            /\ npipe[u][i].clock = 0 /\ npipe[u][i].p = due.p
                            /\ npipe[u][i].r = due.r /\ npipe[u][i].w = due.w
  BY DEF Ran
<1>4. /\ due = NoPipe => Numbers(due) = {}
      /\ due # NoPipe =>
            /\ due.r \in Fds /\ due.w \in Fds /\ Numbers(due) = {due.r, due.w}
            /\ fdt[due.r] = ReadEnd(due.p) /\ fdt[due.w] = WriteEnd(due.p)
  <2>1. due = NoPipe => Numbers(due) = {}
    BY DEF Numbers, NoPipe
  <2>2. ASSUME due # NoPipe
        PROVE  /\ due.r \in Fds /\ due.w \in Fds /\ Numbers(due) = {due.r, due.w}
               /\ fdt[due.r] = ReadEnd(due.p) /\ fdt[due.w] = WriteEnd(due.p)
    <3>1. due.r \in Fds /\ due.w \in Fds /\ Numbers(due) = {due.r, due.w}
      BY <1>3, <2>2, FreeFacts DEF Triples, Numbers
    <3>2. PICK i \in DOMAIN npipe[u] :
             /\ npipe[u][i].clock = 0 /\ npipe[u][i].p = due.p
             /\ npipe[u][i].r = due.r /\ npipe[u][i].w = due.w
      BY <1>3, <2>2
    <3>3. npipe[u][i].clock >= 0
      BY <3>2
    <3>4. fdt[npipe[u][i].r] = ReadEnd(npipe[u][i].p)
          /\ fdt[npipe[u][i].w] = WriteEnd(npipe[u][i].p)
      BY <3>3 DEF Books, EndsOpen
    <3> QED BY <3>1, <3>2, <3>4
  <2> QED BY <2>1, <2>2
<1>5. to # NoPipe => to.r \notin Numbers(due) /\ to.w \notin Numbers(due)
  BY <1>2, <1>4, FreeFacts
<1>6. due # NoPipe => \E i \in DOMAIN npipe[u] :
            /\ npipe[u][i].clock = 0 /\ npipe[u][i].p = due.p
            /\ npipe[u][i].r = due.r /\ npipe[u][i].w = due.w
            /\ fdt'[due.r] = Free /\ fdt'[due.w] = Free
  BY <1>1, <1>3, <1>4
<1>7. to # NoPipe /\ n # 0 =>
            fdt'[to.r] = ReadEnd(made + 1) /\ fdt'[to.w] = WriteEnd(made + 1)
  BY <1>1, <1>2, <1>5
<1>8. \A d \in Fds : \/ fdt'[d] = Free
                     \/ fdt'[d] = fdt[d]
                     \/ /\ to # NoPipe /\ n # 0 /\ d \in {to.r, to.w}
                        /\ fdt'[d] \in {ReadEnd(made + 1), WriteEnd(made + 1)}
  BY <1>1, <1>2
<1>9. ASSUME NEW d \in Fds, NEW o,
             o # Free, o # ReadEnd(made + 1), o # WriteEnd(made + 1),
             due # NoPipe => o # ReadEnd(due.p) /\ o # WriteEnd(due.p)
      PROVE  fdt'[d] = o <=> fdt[d] = o
  <2>1. ASSUME fdt'[d] = o PROVE fdt[d] = o
    BY <1>8, <1>9, <2>1
  <2>2. ASSUME fdt[d] = o PROVE fdt'[d] = o
    <3>1. d \notin Numbers(due) /\ (to # NoPipe => d \notin {to.r, to.w})
      BY <1>2, <1>4, <1>9, <2>2
    <3> QED BY <1>1, <2>2, <3>1
  <2> QED BY <2>1, <2>2
<1> QED BY <1>6, <1>7, <1>8, <1>9

\* A line of a program keeps the books, and its program holds nothing of a pipe
\* for a later line.
LEMMA RanParts ==
    ASSUME Parts, NEW u \in Users, NEW n, NEW due, NEW to, Ran(u, n, due, to)
    PROVE  Parts'
<1> USE DEF Parts
<1>1. /\ left > 0 /\ left' = left - 1 /\ UNCHANGED <<id_table, eof>> /\ n \in Nat
      /\ made' = (IF to # NoPipe THEN made + 1 ELSE made)
      /\ fdt' \in [Fds -> Objects]
      /\ upipe' \in [Users \X Users -> Triples \cup {NoPipe}]
      /\ \A c \in Users \X Users :
            upipe'[c] = upipe[c] \/ (to # NoPipe /\ n = 0 /\ upipe'[c].p = made + 1)
      /\ to # NoPipe /\ n # 0 => \A i \in DOMAIN npipe[u] : npipe[u][i].clock # n
  BY DEF Ran
<1>2. PICK kid \in Programs :
          /\ kids' = Append(kids, kid) /\ kid.user = u
          /\ \A o \in kid.hold : IsEnd(o) /\ \E d \in Fds :
                /\ o = fdt[d]
                /\ d \notin Numbers(due) \cup OwnLater(u) \cup OthersLater(u)
  BY DEF Ran
<1>3. /\ made \in Nat /\ made' \in Nat /\ made <= made' /\ (to # NoPipe => made' = made + 1)
      /\ left \in 0 .. MaxLines /\ MaxLines \in Nat /\ left' \in 0 .. MaxLines
      /\ kids \in Seq(Programs) /\ Len(kids) \in Nat /\ DOMAIN kids = 1 .. Len(kids)
  BY <1>1, DescriptorsAssumption DEF Types
<1>4. /\ kids' \in Seq(Programs) /\ DOMAIN kids' = 1 .. Len(kids) + 1
      /\ kids'[Len(kids) + 1] = kid /\ \A i \in DOMAIN kids : kids'[i] = kids[i]
  BY <1>2, <1>3, AppendProperties
<1>5. \A v \in Users : \A i \in DOMAIN npipe[v] :
         npipe[v][i].p \in 1 .. made /\ npipe[v][i].p # made + 1
  BY <1>3 DEF AllMade
<1>6. Types'
  BY <1>1, <1>3, <1>4, RanTables DEF Types
<1>7. Room'
  <2> SUFFICES ASSUME NEW v \in Users PROVE Len(npipe'[v]) + left' <= MaxLines
    BY DEF Room
  <2>1. PICK a \in Nat, b \in Nat : a = Len(npipe[v]) /\ b = Len(npipe'[v])
    BY TableType, RanTables
  <2>2. b <= a + 1 /\ a + left <= MaxLines
    BY <2>1, RanTables DEF Room
  <2>3. b + left' <= MaxLines
    BY <1>1, <1>3, <2>2
  <2> QED BY <2>1, <2>3
<1>8. AllMade'
  <2>1. \A v \in Users : \A i \in DOMAIN npipe'[v] : npipe'[v][i].p \in 1 .. made'
    <3> SUFFICES ASSUME NEW v \in Users, NEW i \in DOMAIN npipe'[v]
                 PROVE  npipe'[v][i].p \in 1 .. made'
      OBVIOUS
    <3>1. CASE i \in DOMAIN npipe[v]
      <4>1. npipe'[v][i].p = npipe[v][i].p /\ npipe[v][i].p \in 1 .. made
        BY <1>5, <3>1, RanTables
      <4> QED BY <1>3, <4>1
    <3>2. CASE i \notin DOMAIN npipe[v]
      <4>1. npipe'[v][i].p = made + 1 /\ to # NoPipe
        BY <3>2, RanTables
      <4> QED BY <1>3, <4>1
    <3> QED BY <3>1, <3>2
  <2>2. \A c \in Users \X Users : upipe'[c].p <= made'
    <3> SUFFICES ASSUME NEW c \in Users \X Users PROVE upipe'[c].p <= made'
      OBVIOUS
    <3>1. CASE upipe'[c] = upipe[c]
      <4>1. upipe[c].p \in Nat /\ upipe[c].p <= made
        BY DEF AllMade, Types, Triples, NoPipe
      <4> QED BY <1>3, <3>1, <4>1
    <3>2. CASE to # NoPipe /\ upipe'[c].p = made + 1
      BY <1>3, <3>2
    <3> QED BY <1>1, <3>1, <3>2
  <2>3. \A d \in Fds : IsEnd(fdt'[d]) => fdt'[d].of <= made'
    <3> SUFFICES ASSUME NEW d \in Fds, IsEnd(fdt'[d]) PROVE fdt'[d].of <= made'
      OBVIOUS
    <3>1. fdt'[d] # Free
      BY DEF IsEnd, Free
    <3>2. CASE fdt'[d] = fdt[d]
      <4>1. fdt[d].of \in Nat /\ fdt[d].of <= made
        BY <3>2 DEF AllMade, Types, Objects
      <4> QED BY <1>3, <3>2, <4>1
    <3>3. CASE to # NoPipe /\ fdt'[d] \in {ReadEnd(made + 1), WriteEnd(made + 1)}
      BY <1>3, <3>3, FreeFacts
    <3> QED BY <3>1, <3>2, <3>3, RanDescriptors
  <2>4. \A i \in DOMAIN kids' : \A o \in kids'[i].hold : o.of <= made'
    <3> SUFFICES ASSUME NEW i \in DOMAIN kids', NEW o \in kids'[i].hold PROVE o.of <= made'
      OBVIOUS
    <3>1. o.of \in Nat
      <4>1. kids'[i] \in Programs
        BY <1>4
      <4>2. o \in Objects
        BY <4>1 DEF Programs
      <4> QED BY <4>2 DEF Objects
    <3>2. CASE i \in DOMAIN kids
      <4>1. o.of <= made
        BY <1>4, <3>2 DEF AllMade
      <4> QED BY <1>3, <3>1, <4>1
    <3>3. CASE i = Len(kids) + 1
      <4>1. PICK d \in Fds : o = fdt[d] /\ IsEnd(o)
        BY <1>2, <1>4, <3>3
      <4>2. o.of <= made
        BY <4>1 DEF AllMade
      <4> QED BY <1>3, <3>1, <4>2
    <3> QED BY <1>3, <1>4, <3>2, <3>3
  <2> QED BY <2>1, <2>2, <2>3, <2>4 DEF AllMade
<1>9. Distinct'
  <2>1. ASSUME NEW v \in Users, NEW x \in Users, NEW i \in DOMAIN npipe'[v],
               NEW k \in DOMAIN npipe'[x], npipe'[v][i].p = npipe'[x][k].p
        PROVE  v = x /\ i = k
    <3>1. CASE i \in DOMAIN npipe[v] /\ k \in DOMAIN npipe[x]
      <4>1. npipe'[v][i].p = npipe[v][i].p /\ npipe'[x][k].p = npipe[x][k].p
        BY <3>1, RanTables
      <4>2. npipe[v][i].p = npipe[x][k].p
        BY <2>1, <4>1
      <4> QED BY <3>1, <4>2 DEF Distinct
    <3>2. CASE i \in DOMAIN npipe[v] /\ k \notin DOMAIN npipe[x]
      BY <1>5, <2>1, <3>2, RanTables
    <3>3. CASE i \notin DOMAIN npipe[v] /\ k \in DOMAIN npipe[x]
      BY <1>5, <2>1, <3>3, RanTables
    <3>4. CASE i \notin DOMAIN npipe[v] /\ k \notin DOMAIN npipe[x]
      BY <3>4, RanTables
    <3> QED BY <3>1, <3>2, <3>3, <3>4
  <2>2. ASSUME NEW v \in Users, NEW i \in DOMAIN npipe'[v], NEW k \in DOMAIN npipe'[v],
               npipe'[v][i].clock = npipe'[v][k].clock
        PROVE  i = k
    <3>1. \A m \in DOMAIN npipe[v] : npipe[v][m].clock \in Int
      BY RanTables
    <3>2. CASE i \in DOMAIN npipe[v] /\ k \in DOMAIN npipe[v]
      <4>1. PICK a \in Int, b \in Int : a = npipe[v][i].clock /\ b = npipe[v][k].clock
        BY <3>1, <3>2
      <4>2. a = b
        <5>1. CASE v = u
          <6>1. a - 1 = b - 1
            BY <2>2, <3>2, <4>1, <5>1, RanTables
          <6> QED BY <6>1
        <5>2. CASE v # u
          BY <2>2, <3>2, <4>1, <5>2, RanTables
        <5> QED BY <5>1, <5>2
      <4> QED BY <3>2, <4>1, <4>2 DEF Distinct
    <3>3. ASSUME NEW m \in DOMAIN npipe[u], to # NoPipe, n # 0,
                 npipe'[u][m].clock = n - 1
          PROVE  FALSE
      <4>1. PICK a \in Int : a = npipe[u][m].clock
        BY RanTables
      <4>2. a - 1 = n - 1 /\ a # n
        BY <1>1, <3>3, <4>1, RanTables
      <4> QED BY <1>1, <4>2
    <3>4. CASE i \in DOMAIN npipe[v] /\ k \notin DOMAIN npipe[v]
      BY <2>2, <3>3, <3>4, RanTables
    <3>5. CASE i \notin DOMAIN npipe[v] /\ k \in DOMAIN npipe[v]
      BY <2>2, <3>3, <3>5, RanTables
    <3>6. CASE i \notin DOMAIN npipe[v] /\ k \notin DOMAIN npipe[v]
      BY <3>6, RanTables
    <3> QED BY <3>2, <3>4, <3>5, <3>6
  <2>3. ASSUME NEW c \in Users \X Users, NEW v \in Users, NEW i \in DOMAIN npipe'[v]
        PROVE  upipe'[c].p # npipe'[v][i].p
    <3>1. CASE i \in DOMAIN npipe[v]
      <4>1. npipe'[v][i].p = npipe[v][i].p /\ npipe[v][i].p # made + 1
        BY <1>5, <3>1, RanTables
      <4>2. upipe[c].p # npipe[v][i].p
        BY <3>1 DEF Distinct
      <4> QED BY <1>1, <4>1, <4>2
    <3>2. CASE i \notin DOMAIN npipe[v]
      <4>1. npipe'[v][i].p = made + 1 /\ n # 0
        BY <3>2, RanTables
      <4>2. upipe'[c] = upipe[c]
        BY <1>1, <4>1
      <4>3. upipe[c].p \in Nat /\ upipe[c].p <= made
        BY DEF AllMade, Types, Triples, NoPipe
      <4>4. upipe[c].p # made + 1
        BY <1>3, <4>3
      <4> QED BY <4>1, <4>2, <4>4
    <3> QED BY <3>1, <3>2
  <2> QED BY <2>1, <2>2, <2>3 DEF Distinct
<1>10. SocketsOpen'
  <2> SUFFICES ASSUME NEW v \in Users, id_table[v] # 0 PROVE fdt'[id_table[v]] = Socket(v)
    BY <1>1 DEF SocketsOpen
  <2>1. id_table[v] \in Fds /\ fdt[id_table[v]] = Socket(v)
    BY DEF Books, SocketsOpen, Types
  <2> QED BY <2>1, RanDescriptors, FreeFacts
<1>11. EndsOpen'
  <2> SUFFICES ASSUME NEW v \in Users, NEW i \in DOMAIN npipe'[v]
               PROVE  /\ npipe'[v][i].clock >= 0 => fdt'[npipe'[v][i].r] = ReadEnd(npipe'[v][i].p)
                      /\ fdt'[npipe'[v][i].r] = ReadEnd(npipe'[v][i].p)
                            <=> fdt'[npipe'[v][i].w] = WriteEnd(npipe'[v][i].p)
    BY DEF EndsOpen
  <2>1. CASE i \notin DOMAIN npipe[v]
    BY <2>1, RanTables, RanDescriptors
  <2>2. CASE i \in DOMAIN npipe[v]
    <3>1. PICK p, r, w : p = npipe[v][i].p /\ r = npipe[v][i].r /\ w = npipe[v][i].w
      OBVIOUS
    <3>2. npipe'[v][i].p = p /\ npipe'[v][i].r = r /\ npipe'[v][i].w = w
      BY <2>2, <3>1, RanTables
    <3>3. r \in Fds /\ w \in Fds /\ p # made + 1
      BY <1>5, <2>2, <3>1, EntryType
    <3>4. (npipe[v][i].clock >= 0 => fdt[r] = ReadEnd(p))
          /\ (fdt[r] = ReadEnd(p) <=> fdt[w] = WriteEnd(p))
      BY <2>2, <3>1 DEF Books, EndsOpen
    <3>5. npipe'[v][i].clock >= 0 => npipe[v][i].clock >= 0
      <4>1. PICK a \in Int : a = npipe[v][i].clock
        BY <2>2, RanTables
      <4>2. npipe'[v][i].clock = a \/ npipe'[v][i].clock = a - 1
        BY <2>2, <4>1, RanTables
      <4> QED BY <4>1, <4>2
    <3>6. CASE due # NoPipe /\ p = due.p
      <4>1. PICK m \in DOMAIN npipe[u] :
               /\ npipe[u][m].clock = 0 /\ npipe[u][m].p = due.p
               /\ npipe[u][m].r = due.r /\ npipe[u][m].w = due.w
               /\ fdt'[due.r] = Free /\ fdt'[due.w] = Free
        BY <3>6, RanDescriptors
      <4>2. v = u /\ i = m
        <5>1. npipe[v][i].p = npipe[u][m].p
          BY <3>1, <3>6, <4>1
        <5> QED BY <2>2, <5>1 DEF Distinct
      <4>3. npipe'[v][i].clock = 0 - 1
        BY <4>1, <4>2, RanTables
      <4>4. ~(npipe'[v][i].clock >= 0)
        BY <4>3
      <4> QED BY <3>1, <3>2, <4>1, <4>2, <4>4, FreeFacts
    <3>7. CASE ~(due # NoPipe /\ p = due.p)
      <4>1. \A o \in {ReadEnd(p), WriteEnd(p)} :
               /\ o # Free /\ o # ReadEnd(made + 1) /\ o # WriteEnd(made + 1)
               /\ due # NoPipe => o # ReadEnd(due.p) /\ o # WriteEnd(due.p)
        BY <3>3, <3>7, FreeFacts
      <4>2. \A d \in Fds, o \in {ReadEnd(p), WriteEnd(p)} : fdt'[d] = o <=> fdt[d] = o
        BY <4>1, RanDescriptors
      <4>3. (fdt'[r] = ReadEnd(p) <=> fdt[r] = ReadEnd(p))
            /\ (fdt'[w] = WriteEnd(p) <=> fdt[w] = WriteEnd(p))
        BY <3>3, <4>2
      <4> QED BY <3>2, <3>4, <3>5, <4>3
    <3> QED BY <3>6, <3>7
  <2> QED BY <2>1, <2>2
<1>12. ASSUME NEW d \in Fds PROVE Reason(d)'
  <2>1. CASE fdt'[d] = Free
    BY <2>1 DEF Reason
  <2>2. CASE fdt'[d] = fdt[d]
    <3>1. Reason(d)
      BY DEF Books
    <3>2. \A v \in Users : \A i \in DOMAIN npipe[v] :
             d \in Numbers(npipe[v][i]) /\ fdt[d].of = npipe[v][i].p =>
                /\ i \in DOMAIN npipe'[v]
                /\ d \in Numbers(npipe'[v][i]) /\ fdt'[d].of = npipe'[v][i].p
      BY <2>2, RanTables
    <3> QED BY <1>1, <2>2, <3>1, <3>2 DEF Reason
  <2>3. CASE /\ to # NoPipe /\ n # 0 /\ d \in {to.r, to.w}
             /\ fdt'[d] \in {ReadEnd(made + 1), WriteEnd(made + 1)}
    <3>1. PICK i \in DOMAIN npipe'[u] :
             npipe'[u][i].p = made + 1 /\ npipe'[u][i].r = to.r /\ npipe'[u][i].w = to.w
      BY <2>3, RanTables
    <3>2. d \in Numbers(npipe'[u][i]) /\ fdt'[d].of = npipe'[u][i].p
      BY <2>3, <3>1, FreeFacts DEF Numbers
    <3> QED BY <3>2 DEF Reason
  <2> QED BY <2>1, <2>2, <2>3, RanDescriptors
<1>13. ASSUME NEW i \in DOMAIN kids' PROVE Holding(i)'
  <2> SUFFICES ASSUME kids'[i].live, NEW v \in Users, NEW m \in DOMAIN npipe'[v],
                      WriteEnd(npipe'[v][m].p) \in kids'[i].hold
               PROVE  npipe'[v][m].clock <= IF v = kids'[i].user THEN -1 ELSE 0
    BY DEF Holding
  <2>1. WriteEnd(npipe'[v][m].p).of <= made
    <3>1. CASE i \in DOMAIN kids
      BY <1>4, <3>1 DEF AllMade
    <3>2. CASE i = Len(kids) + 1
      BY <1>2, <1>4, <3>2 DEF AllMade
    <3> QED BY <1>3, <1>4, <3>1, <3>2
  <2>2. m \in DOMAIN npipe[v]
    <3> SUFFICES ASSUME m \notin DOMAIN npipe[v] PROVE FALSE
      OBVIOUS
    <3>1. npipe'[v][m].p = made + 1
      BY RanTables
    <3>2. made + 1 <= made
      BY <2>1, <3>1, FreeFacts
    <3> QED BY <1>3, <3>2
  <2>3. PICK a \in Int : a = npipe[v][m].clock
    BY <2>2, RanTables
  <2>4. (v # u => npipe'[v][m].clock = a) /\ (v = u => npipe'[v][m].clock = a - 1)
        /\ npipe'[v][m].p = npipe[v][m].p
    BY <2>2, <2>3, RanTables
  <2>5. CASE i \in DOMAIN kids
    <3>1. a <= IF v = kids[i].user THEN -1 ELSE 0
      BY <1>4, <2>2, <2>3, <2>4, <2>5 DEF Holding
    <3> QED BY <1>4, <2>4, <2>5, <3>1
  <2>6. CASE i = Len(kids) + 1
    <3>1. PICK d \in Fds : /\ fdt[d] = WriteEnd(npipe[v][m].p)
                           /\ d \notin Numbers(due) \cup OwnLater(u) \cup OthersLater(u)
      BY <1>2, <1>4, <2>4, <2>6
    <3>2. PICK x \in Users : \E y \in DOMAIN npipe[x] :
             d \in Numbers(npipe[x][y]) /\ fdt[d].of = npipe[x][y].p
      BY <3>1, PlaceOfEnd, FreeFacts
    <3>3. d \in Numbers(npipe[v][m])
      BY <2>2, <3>1, <3>2, FreeFacts DEF Distinct
    <3>4. CASE v = u
      <4>1. ~(a > 0)
        BY <2>2, <2>3, <3>1, <3>3, <3>4 DEF OwnLater
      <4> QED BY <1>2, <1>4, <2>4, <2>6, <3>4, <4>1
    <3>5. CASE v # u
      <4>1. m \in 1 .. MaxLines
        <5>1. PICK b \in Nat : b = Len(npipe[v]) /\ m \in 1 .. b
          BY <2>2, TableType
        <5>2. b + left <= MaxLines
          BY <5>1 DEF Room
        <5> QED BY <1>3, <5>1, <5>2
      <4>2. PICK c : c = <<v, m>>
        OBVIOUS
      <4>3. c \in (Users \ {u}) \X (1 .. MaxLines) /\ c[1] = v /\ c[2] = m
        BY <3>5, <4>1, <4>2
      <4>4. ~(a > 0)
        BY <2>2, <2>3, <3>1, <3>3, <4>3 DEF OthersLater
      <4> QED BY <1>2, <1>4, <2>4, <2>6, <3>5, <4>4
    <3> QED BY <3>4, <3>5
  <2> QED BY <1>3, <1>4, <2>5, <2>6
<1> QED BY <1>6, <1>7, <1>8, <1>9, <1>10, <1>11, <1>12, <1>13 DEF Books

-----------------------------------------------------------------------------
\* No step breaks the invariant; after the use of a stale number there is nothing
\* left to keep.
LEMMA InvNext == Inv /\ [Next]_vars => Inv'
<1> SUFFICES ASSUME Inv, [Next]_vars, fault' = "none" PROVE Parts'
  BY DEF Inv, Parts
<1>1. fault = "none"
  <2>1. \A u \in Users : Login(u) \/ Builtin(u) \/ Exit(u) \/ Eof(u) => fault = "none"
    BY DEF Login, Builtin, Exit, Eof, Served
  <2>2. \A u \in Users, n \in Counts \cup {0}, j, k \in Users \cup {0} :
           Program(u, n, j, k) => fault = "none"
    <3> SUFFICES ASSUME NEW u \in Users, NEW n \in Counts \cup {0}, NEW j \in Users \cup {0},
                        NEW k \in Users \cup {0}, Program(u, n, j, k)
                 PROVE  fault = "none"
      OBVIOUS
    <3> QED BY DEF Program, Served
  <2>3. Wait \/ (\E i \in DOMAIN kids : Die(i)) \/ UNCHANGED vars => fault = "none"
    BY DEF Wait, Die, vars
  <2> QED BY <2>1, <2>2, <2>3 DEF Next
<1>2. Parts
  BY <1>1 DEF Inv, Parts
<1>3. ASSUME NEW u \in Users, Login(u) \/ Builtin(u) \/ Exit(u) \/ Eof(u) PROVE Parts'
  BY <1>1, <1>2, <1>3, LoginParts, BuiltinParts, LogoutParts
<1>4. ASSUME NEW u \in Users, NEW n \in Counts \cup {0}, NEW j \in Users \cup {0},
             NEW k \in Users \cup {0}, Program(u, n, j, k)
      PROVE  Parts'
  <2>1. PICK due, to : Ran(u, n, due, to)
    BY <1>2, <1>4, ProgramRuns
  <2> QED BY <1>2, <2>1, RanParts
<1>5. CASE Wait \/ (\E i \in DOMAIN kids : Die(i)) \/ UNCHANGED vars
  BY <1>2, <1>5, QuietParts
<1> QED BY <1>3, <1>4, <1>5 DEF Next

\* The tables and what is open, for any lines, logins and logouts.
THEOREM Invariance == Spec => []Inv
<1>1. Init => Inv
  BY InitParts DEF Inv, Parts
<1> QED BY <1>1, InvNext, PTL DEF Spec

\* Every open descriptor has its entry and every entry of a later line its open
\* descriptors, until a stale number is used (477-485, 636-642, 50-56).
THEOREM AccountedCorrect == Spec => []Accounted
<1>1. Inv => Accounted
  <2>1. fault # "none" => Accounted
    BY DEF Accounted
  <2> QED BY <2>1, BooksKept DEF Inv
<1> QED BY <1>1, Invariance, PTL

\* No program holds a copy of a pipe that waits for a later line (577-598).
THEOREM OthersCorrect == Spec => []OthersDueOnly
<1>1. Inv => OthersDueOnly
  <2>1. fault # "none" => OthersDueOnly
    BY DEF OthersDueOnly
  <2> QED BY <2>1, BooksKept DEF Inv
<1> QED BY <1>1, Invariance, PTL

=============================================================================
