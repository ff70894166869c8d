-------------------------- MODULE HttpServer_proofs --------------------------
(***************************************************************************)
(* Proofs about HttpServer for every set of connections and every number   *)
(* of processes: what a program finds in its environment, and the order of *)
(* what a client is sent.                                                  *)
(***************************************************************************)
EXTENDS HttpServer, TLAPS, SequenceTheorems, WellFoundedInduction

-----------------------------------------------------------------------------
(***************************************************************************)
(* The inductive invariant.                                                *)
(***************************************************************************)
Text == {"status", "page", "fail"}

\* What TypeOK says, what the two variables hold that it says nothing of, and
\* no piece of a request appears from nowhere.
Types ==
    /\ TypeOK
    /\ env \in [Pids -> [uri : Conns \cup {None}, query : Conns \cup {None}]]
    /\ wire \in [Conns -> Seq(Text)]
    /\ \A c \in Conns : left[c] + unread[c] <= Pieces

\* Process 0 is the server as long as it lives; a process that was not forked
\* yet, or has ended, has no socket.
Processes ==
    /\ role[0] \in {"server", "gone"} /\ std[0] = None
    /\ \A p \in Pids : role[p] \in {"free", "zombie", "gone"} =>
          std[p] = None /\ \A c \in Conns : sess[p][c] = "none"

\* From setenv on the environment is that of the request in the fork loop, and
\* then of the program's.
Environment ==
    \A p \in Pids :
        /\ busy[p] # None =>
              /\ env[p].uri = busy[p]
              /\ busy[p] \notin Plain => env[p].query = busy[p]
        /\ role[p] = "program" =>
              /\ env[p].uri = std[p]
              /\ std[p] \notin Plain => env[p].query = std[p]

\* In whatever process a session waits for its write, or a program has its
\* socket, the status line has been written.
StatusFirst ==
    /\ \A c \in Conns : wire[c] # <<>> => Head(wire[c]) = "status"
    /\ \A p \in Pids, c \in Conns :
          sess[p][c] = "write" \/ std[p] = c => wire[c] # <<>>

\* A connection is with the kernel, with the server or with one program.
Waits(c) == \E k \in DOMAIN backlog : backlog[k] = c
HasProgram(c) == \E p \in Pids : std[p] = c

Answer(c) ==
    /\ wire[c] \in {<<>>, <<"status">>, <<"status", "page">>}
    /\ peer[c] = "away" =>
          ~Waits(c) /\ sess[0][c] = "none" /\ ~HasProgram(c) /\ wire[c] = <<>>
    /\ Waits(c) => sess[0][c] = "none" /\ ~HasProgram(c) /\ wire[c] = <<>>
    /\ sess[0][c] \in {"accepted", "read", "got"} => ~HasProgram(c) /\ wire[c] = <<>>
    /\ sess[0][c] = "write" => ~HasProgram(c) /\ wire[c] = <<"status">>
    /\ HasProgram(c) => sess[0][c] = "none" /\ wire[c] = <<"status">>

QueuedOnce == \A i, k \in DOMAIN backlog : i # k => backlog[i] # backlog[k]
OneProgram == \A p, q \in Pids : std[p] = std[q] /\ std[p] # None => p = q

\* As long as every exec succeeded.
OneAnswer == ~Failed => QueuedOnce /\ OneProgram /\ \A c \in Conns : Answer(c)

Inv == Types /\ Processes /\ Environment /\ StatusFirst /\ OneAnswer

-----------------------------------------------------------------------------
(***************************************************************************)
(* Lemmas.                                                                 *)
(***************************************************************************)
\* A set of natural numbers has a least element.
LEMMA LeastElement ==
    ASSUME NEW T \in SUBSET Nat, T # {}
    PROVE  \E m \in T : \A k \in T : m <= k
<1> DEFINE R == OpToRel(<, Nat)
<1>1. \A a, b \in Nat : a < b => <<a, b>> \in R
  BY DEF OpToRel
<1>2. PICK m \in T : \A k \in T : ~ (<<k, m>> \in R)
  <2> HIDE DEF R
  <2> QED BY NatLessThanWellFounded, WFMin DEF R
<1> HIDE DEF R
<1>3. \A k \in T : ~ (k < m)
  BY <1>1, <1>2
<1> QED BY <1>3

\* The process that a fork makes was free.
LEMMA NextPid ==
    ASSUME FreePids # {}
    PROVE  Min(FreePids) \in Pids /\ role[Min(FreePids)] = "free"
<1>1. FreePids \in SUBSET Nat
  BY HttpAssumption DEF FreePids, Pids
<1> DEFINE Q(m) == \A k \in FreePids : m <= k
<1>2. \E m \in FreePids : Q(m)
  BY <1>1, LeastElement
<1>3. Min(FreePids) = CHOOSE m \in FreePids : Q(m)
  BY DEF Min
<1> HIDE DEF Q
<1>4. Min(FreePids) \in FreePids
  BY <1>2, <1>3, Zenon
<1> QED BY <1>4 DEF FreePids

\* A write adds a text for one client at most, and none for a client that has
\* reset its connection; what came first stays first.
LEMMA SentFacts ==
    ASSUME NEW w \in [Conns -> Seq(Text)], NEW c \in Conns \cup {None}, NEW text \in Text
    PROVE  /\ Sent(w, c, text) \in [Conns -> Seq(Text)]
           /\ \A d \in Conns :
                 /\ d # c => Sent(w, c, text)[d] = w[d]
                 /\ Sent(w, c, text)[d] = w[d] \/ Sent(w, c, text)[d] = Append(w[d], text)
                 /\ w[d] # <<>> => /\ Sent(w, c, text)[d] # <<>>
                                   /\ Head(Sent(w, c, text)[d]) = Head(w[d])
           /\ c # None /\ peer[c] # "reset" => Sent(w, c, text)[c] = Append(w[c], text)
           /\ c # None /\ peer[c] = "reset" => Sent(w, c, text)[c] = w[c]
<1>1. CASE c = None \/ peer[c] = "reset"
  BY <1>1 DEF Sent
<1>2. CASE ~(c = None \/ peer[c] = "reset")
  <2>1. c \in Conns /\ Sent(w, c, text) = [w EXCEPT ![c] = Append(@, text)]
    BY <1>2 DEF Sent
  <2>2. w[c] \in Seq(Text) /\ Append(w[c], text) \in Seq(Text)
    BY <2>1, AppendProperties
  <2>3. w[c] # <<>> => Append(w[c], text) # <<>> /\ Head(Append(w[c], text)) = Head(w[c])
    BY <2>2, HeadTailAppend, AppendProperties, EmptySeq
  <2> QED BY <1>2, <2>1, <2>2, <2>3
<1> QED BY <1>1, <1>2

\* A sequence of one element to which a second is appended.
LEMMA Pair ==
    ASSUME NEW S, NEW x \in S, NEW y \in S
    PROVE  Append(<<x>>, y) = <<x, y>>
<1> DEFINE a == <<x>>
           t == <<x, y>>
<1>1. a \in Seq(S) /\ Len(a) = 1 /\ a[1] = x
  OBVIOUS
<1>2. t \in Seq(S) /\ Len(t) = 2 /\ t[1] = x /\ t[2] = y
  OBVIOUS
<1> HIDE DEF a, t
<1>3. Append(a, y) \in Seq(S) /\ Len(Append(a, y)) = 2 /\ Append(a, y)[1] = x /\ Append(a, y)[2] = y
  <2>1. Append(a, y) \in Seq(S) /\ Append(a, y)[Len(a) + 1] = y
    BY <1>1, AppendProperties
  <2>2. Len(Append(a, y)) = Len(a) + 1
    BY <1>1, AppendProperties
  <2>3. \A i \in 1 .. Len(a) : Append(a, y)[i] = a[i]
    BY <1>1, AppendProperties
  <2>4. Len(a) + 1 = 2 /\ 1 \in 1 .. Len(a)
    BY <1>1
  <2> QED BY <1>1, <2>1, <2>2, <2>3, <2>4
<1>4. \A i \in 1 .. Len(t) : Append(a, y)[i] = t[i]
  BY <1>2, <1>3
<1>5. Append(a, y) = t
  BY <1>2, <1>3, <1>4, SeqEqual
<1> QED BY <1>5 DEF a, t

\* The first text written.
LEMMA FirstText ==
    ASSUME NEW w \in Seq(Text), NEW text \in Text
    PROVE  /\ Append(w, text) # <<>>
           /\ w = <<>> => Append(w, text) = <<text>> /\ Head(Append(w, text)) = text
           /\ Append(<<"status">>, "page") = <<"status", "page">>
<1>1. Append(w, text) # <<>>
  BY AppendProperties, EmptySeq
<1>2. w = <<>> => Append(w, text) = <<text>>
  OBVIOUS
<1>3. Head(<<text>>) = text
  OBVIOUS
<1>4. Append(<<"status">>, "page") = <<"status", "page">>
  BY Pair DEF Text
<1> QED BY <1>1, <1>2, <1>3, <1>4

\* Taking and appending at the queue of accept.
LEMMA Backlog ==
    ASSUME NEW q \in Seq(Conns)
    PROVE  /\ DOMAIN q = 1 .. Len(q) /\ Len(q) \in Nat
           /\ \A c \in Conns :
                 /\ Append(q, c) \in Seq(Conns) /\ Len(Append(q, c)) = Len(q) + 1
                 /\ DOMAIN Append(q, c) = 1 .. (Len(q) + 1)
                 /\ Append(q, c)[Len(q) + 1] = c
                 /\ \A k \in 1 .. Len(q) : Append(q, c)[k] = q[k]
           /\ q # <<>> => /\ Tail(q) \in Seq(Conns) /\ Len(Tail(q)) = Len(q) - 1
                          /\ DOMAIN Tail(q) = 1 .. (Len(q) - 1)
                          /\ Len(q) > 0 /\ Head(q) = q[1] /\ q[1] \in Conns
                          /\ \A k \in 1 .. (Len(q) - 1) : Tail(q)[k] = q[k + 1]
<1>1. DOMAIN q = 1 .. Len(q) /\ Len(q) \in Nat
  BY LenProperties
<1>2. ASSUME NEW c \in Conns
      PROVE  /\ Append(q, c) \in Seq(Conns) /\ Len(Append(q, c)) = Len(q) + 1
             /\ DOMAIN Append(q, c) = 1 .. (Len(q) + 1)
             /\ Append(q, c)[Len(q) + 1] = c
             /\ \A k \in 1 .. Len(q) : Append(q, c)[k] = q[k]
  BY <1>1, AppendProperties, LenProperties
<1>3. ASSUME q # <<>>
      PROVE  /\ Tail(q) \in Seq(Conns) /\ Len(Tail(q)) = Len(q) - 1
             /\ DOMAIN Tail(q) = 1 .. (Len(q) - 1)
             /\ Len(q) > 0 /\ Head(q) = q[1] /\ q[1] \in Conns
             /\ \A k \in 1 .. (Len(q) - 1) : Tail(q)[k] = q[k + 1]
  <2>1. Len(q) \in Nat \ {0}
    BY <1>3, EmptySeq
  <2>2. Tail(q) \in Seq(Conns) /\ Head(q) \in Conns /\ Head(q) = q[1]
    BY <1>3, HeadTailProperties
  <2>3. Len(Tail(q)) = Len(q) - 1 /\ \A k \in 1 .. Len(Tail(q)) : Tail(q)[k] = q[k + 1]
    BY <1>3, HeadTailProperties
  <2> QED BY <2>1, <2>2, <2>3, LenProperties
<1> QED BY <1>1, <1>2, <1>3

-----------------------------------------------------------------------------
(***************************************************************************)
(* The invariant holds in the beginning.                                   *)
(***************************************************************************)
\* Nothing is connected and nothing was sent.
LEMMA InvInit == Init => Inv
<1> SUFFICES ASSUME Init PROVE Inv
  OBVIOUS
<1>1. TypeOK
  <2>1. <<>> \in Seq(Conns) /\ 0 \in Pids
    BY EmptySeq, HttpAssumption DEF Pids
  <2> QED BY <2>1, HttpAssumption DEF Init, TypeOK, States
<1>2. Types
  <2>1. <<>> \in Seq(Text)
    BY EmptySeq
  <2> QED BY <1>1, <2>1, HttpAssumption DEF Init, Types
<1>3. 0 \in Pids
  BY HttpAssumption DEF Pids
<1>4. Processes /\ Environment /\ StatusFirst
  BY <1>3, HttpAssumption DEF Init, Processes, Environment, StatusFirst
<1>5. OneAnswer
  <2>1. DOMAIN <<>> = {}
    OBVIOUS
  <2> QED BY <1>3, <2>1, HttpAssumption
       DEF Init, OneAnswer, QueuedOnce, OneProgram, Answer, Waits, HasProgram
<1> QED BY <1>2, <1>4, <1>5 DEF Inv

-----------------------------------------------------------------------------
(***************************************************************************)
(* Every step keeps the types.                                             *)
(***************************************************************************)
\* The handlers of a process.
Handler(p, c) ==
    \/ do_accept(p, c) \/ do_read(p, c) \/ do_write(p, c) \/ Written(p, c) \/ Throw(p, c)

\* A session that takes its next step.
LEMMA SessionStep ==
    ASSUME TypeOK, NEW p \in Pids, NEW c \in Conns, NEW s \in States,
           sess' = [sess EXCEPT ![p][c] = s]
    PROVE  /\ sess' \in [Pids -> [Conns -> States]] /\ sess'[p][c] = s
           /\ \A q \in Pids, d \in Conns : q # p \/ d # c => sess'[q][d] = sess[q][d]
BY DEF TypeOK

\* The fork loops of other processes do not see a step of p.
LEMMA OthersBusy ==
    ASSUME TypeOK, NEW p \in Pids,
           \A q \in Pids : busy[q] # None => q # p,
           \A q \in Pids, d \in Conns : q # p => sess'[q][d] = sess[q][d]
    PROVE  \A q \in Pids : busy[q] # None => role[q] = "server" /\ sess'[q][busy[q]] = "write"
<1>1. \A q \in Pids : busy[q] # None =>
         busy[q] \in Conns /\ role[q] = "server" /\ sess[q][busy[q]] = "write"
  BY DEF TypeOK
<1> QED BY <1>1

\* What a fork by p makes of q, for connection c.
Forked(p, q, c, run) ==
    /\ q # p /\ role[q] = "free" /\ role[p] = "server" /\ c = busy[p] /\ c # None
    /\ sess[p][c] = "write"
    /\ role' = [role EXCEPT ![q] = IF run THEN "program" ELSE "server"]
    /\ std' = [std EXCEPT ![q] = c] /\ env' = [env EXCEPT ![q] = env[p]]
    /\ busy' = [busy EXCEPT ![p] = None]
    /\ UNCHANGED <<client, backlog, wire>>
    /\ sess' \in [Pids -> [Conns -> States]]
    /\ sess'[p][c] = "none" /\ sess'[q][c] = "none"
    /\ \A d \in Conns : sess'[q][d] \in {"none", "leaked", sess[p][d]}
    /\ \A x \in Pids, d \in Conns : x # q /\ (x # p \/ d # c) => sess'[x][d] = sess[x][d]

\* A fork makes a process that was free.
LEMMA ForkStep ==
    ASSUME TypeOK, NEW p \in Pids, NEW run \in BOOLEAN, Fork(p, run)
    PROVE  \E q \in Pids, c \in Conns : Forked(p, q, c, run)
<1> DEFINE q == Min(FreePids)
           c == busy[p]
           copy(d) == IF d = c \/ sess[p][d] = "none" THEN "none"
                      ELSE IF run THEN "leaked" ELSE sess[p][d]
<1>1. /\ role[p] = "server" /\ c # None /\ FreePids # {}
      /\ role' = [role EXCEPT ![q] = IF run THEN "program" ELSE "server"]
      /\ std' = [std EXCEPT ![q] = c] /\ env' = [env EXCEPT ![q] = env[p]]
      /\ busy' = [busy EXCEPT ![p] = None]
      /\ sess' = [sess EXCEPT ![p][c] = "none", ![q] = [d \in Conns |-> copy(d)]]
      /\ UNCHANGED <<client, backlog, wire>>
  BY DEF Fork, Parent
<1>2. q \in Pids /\ role[q] = "free" /\ q # p
  BY <1>1, NextPid
<1>3. c \in Conns /\ sess[p][c] = "write"
  BY <1>1 DEF TypeOK
<1>4. \A d \in Conns : copy(d) \in States /\ copy(d) \in {"none", "leaked", sess[p][d]}
  BY DEF TypeOK, States
<1> DEFINE table == [d \in Conns |-> copy(d)]
<1>5. table \in [Conns -> States] /\ \A d \in Conns : table[d] = copy(d)
  BY <1>4
<1>6. copy(c) = "none"
  OBVIOUS
<1> HIDE DEF q, copy, table
<1> HIDE DEF c
<1> DEFINE mid == [sess EXCEPT ![p][c] = "none"]
<1>7. mid \in [Pids -> [Conns -> States]] /\ mid[p][c] = "none"
      /\ \A x \in Pids, d \in Conns : x # p \/ d # c => mid[x][d] = sess[x][d]
  BY <1>3 DEF TypeOK, States
<1>8. sess' = [mid EXCEPT ![q] = table]
  BY <1>1 DEF table
<1> HIDE DEF mid
<1>9. /\ sess' \in [Pids -> [Conns -> States]] /\ sess'[p][c] = "none" /\ sess'[q] = table
      /\ \A x \in Pids, d \in Conns : x # q /\ (x # p \/ d # c) => sess'[x][d] = sess[x][d]
  BY <1>2, <1>3, <1>5, <1>7, <1>8
<1>10. /\ sess'[q][c] = "none"
       /\ \A d \in Conns : sess'[q][d] \in {"none", "leaked", sess[p][d]}
  BY <1>3, <1>4, <1>5, <1>6, <1>9
<1>11. c = busy[p]
  BY DEF c
<1>12. Forked(p, q, c, run)
  BY <1>1, <1>2, <1>3, <1>9, <1>10, <1>11, Zenon DEF Forked
<1> QED BY <1>2, <1>3, <1>12, Zenon

\* A client's step.
LEMMA ClientTypes ==
    ASSUME Types, NEW c \in Conns, Connect(c) \/ Send(c) \/ Hangup(c)
    PROVE  Types'
<1> USE DEF Types
<1>1. CASE Connect(c)
  <2>1. backlog' \in Seq(Conns)
    BY <1>1, Backlog DEF Connect, TypeOK
  <2>2. peer' \in [Conns -> {"away", "open", "shut", "reset"}]
    BY <1>1 DEF Connect, TypeOK
  <2> QED BY <1>1, <2>1, <2>2 DEF Connect, TypeOK, process
<1>2. CASE Send(c)
  <2>1. /\ left' \in [Conns -> 0 .. Pieces] /\ unread' \in [Conns -> 0 .. Pieces]
        /\ \A d \in Conns : left'[d] + unread'[d] <= Pieces
    BY <1>2, HttpAssumption DEF Send, TypeOK
  <2> QED BY <1>2, <2>1 DEF Send, TypeOK, process
<1>3. CASE Hangup(c)
  <2>1. peer' \in [Conns -> {"away", "open", "shut", "reset"}]
    <3>1. peer' \in {[peer EXCEPT ![c] = "shut"], [peer EXCEPT ![c] = "reset"]}
      BY <1>3 DEF Hangup
    <3>2. CASE peer' = [peer EXCEPT ![c] = "shut"]
      BY <3>2 DEF TypeOK
    <3>3. CASE peer' = [peer EXCEPT ![c] = "reset"]
      BY <3>3 DEF TypeOK
    <3> QED BY <3>1, <3>2, <3>3
  <2> QED BY <1>3, <2>1 DEF Hangup, TypeOK, process
<1> QED BY <1>1, <1>2, <1>3

\* A server's or a program's step.
LEMMA ProcessTypes ==
    ASSUME Types, NEW p \in Pids, Step(p)
    PROVE  Types'
<1> USE DEF Types
<1>0. \A c \in Conns : c # None
  BY HttpAssumption
<1>1. CASE Accept(p)
  <2>1. Head(backlog) \in Conns /\ backlog' \in Seq(Conns)
    BY <1>1, Backlog DEF Accept, TypeOK
  <2>2. /\ sess' \in [Pids -> [Conns -> States]]
        /\ \A q \in Pids, d \in Conns : q # p => sess'[q][d] = sess[q][d]
    BY <1>1, <2>1, SessionStep DEF Accept, States
  <2>3. /\ \A q \in Pids : busy[q] # None => q # p
        /\ UNCHANGED <<peer, left, unread, role, std, env, busy, wire>>
    BY <1>1 DEF Accept, Running, client, process
  <2>4. \A q \in Pids : busy[q] # None => role[q] = "server" /\ sess'[q][busy[q]] = "write"
    BY <2>2, <2>3, OthersBusy
  <2> QED BY <2>1, <2>2, <2>3, <2>4 DEF TypeOK
<1>2. CASE Program(p)
  <2>1. role' \in [Pids -> {"free", "server", "program", "zombie", "gone"}] /\ role'[p] = "zombie"
    BY <1>2 DEF Program, TypeOK
  <2>2. wire' \in [Conns -> Seq(Text)]
    BY <1>2, SentFacts DEF Program, TypeOK, Text
  <2>3. /\ std' \in [Pids -> Conns \cup {None}]
        /\ sess' \in [Pids -> [Conns -> States]]
        /\ \A q \in Pids : q # p => sess'[q] = sess[q] /\ std'[q] = std[q] /\ role'[q] = role[q]
    BY <1>2 DEF Program, TypeOK, States
  <2>4. busy[p] = None
    BY <1>2 DEF Program, TypeOK
  <2> QED BY <1>2, <2>1, <2>2, <2>3, <2>4 DEF Program, TypeOK, client
<1>3. ASSUME NEW run \in BOOLEAN, Fork(p, run)
      PROVE  Types'
  <2>1. PICK q \in Pids, c \in Conns : Forked(p, q, c, run)
    BY <1>3, ForkStep
  <2>2. /\ role' \in [Pids -> {"free", "server", "program", "zombie", "gone"}]
        /\ std' \in [Pids -> Conns \cup {None}] /\ busy' \in [Pids -> Conns \cup {None}]
        /\ env' \in [Pids -> [uri : Conns \cup {None}, query : Conns \cup {None}]]
    BY <2>1 DEF Forked, TypeOK
  <2>3. ASSUME NEW x \in Pids
        PROVE  /\ busy'[x] # None => role'[x] = "server" /\ sess'[x][busy'[x]] = "write"
               /\ x # 0 /\ role'[x] \in {"server", "program"} => std'[x] # None
    <3>1. busy[q] = None
      BY <2>1 DEF Forked, TypeOK
    <3> QED BY <2>1, <3>1 DEF Forked, TypeOK
  <2> QED BY <2>1, <2>2, <2>3 DEF Forked, TypeOK, client
<1>4. ASSUME NEW c \in Conns, Handler(p, c)
      PROVE  Types'
  <2>1. role[p] = "server" /\ busy[p] = None
    BY <1>4 DEF Handler, do_accept, do_read, do_write, Written, Throw, Running
  <2>2. CASE do_accept(p, c)
    BY <2>1, <2>2, SessionStep DEF do_accept, TypeOK, client, process, States
  <2>3. CASE do_read(p, c)
    <3>1. /\ sess' \in [Pids -> [Conns -> States]]
          /\ \A q \in Pids, d \in Conns : q # p => sess'[q][d] = sess[q][d]
      BY <2>3, SessionStep DEF do_read, States
    <3>2. unread' = unread \/ (unread[c] > 0 /\ unread' = [unread EXCEPT ![c] = @ - 1])
      BY <2>3 DEF do_read
    <3>3. unread' \in [Conns -> 0 .. Pieces] /\ \A d \in Conns : left[d] + unread'[d] <= Pieces
      <4>1. CASE unread' = unread
        BY <4>1 DEF TypeOK
      <4>2. CASE unread[c] > 0 /\ unread' = [unread EXCEPT ![c] = @ - 1]
        BY <4>2, HttpAssumption DEF TypeOK
      <4> QED BY <3>2, <4>1, <4>2
    <3>4. UNCHANGED <<peer, left, backlog, role, std, env, busy, wire>>
      BY <2>3 DEF do_read, process
    <3>5. \A q \in Pids : busy[q] # None => role[q] = "server" /\ sess'[q][busy[q]] = "write"
      BY <2>1, <3>1, OthersBusy
    <3> QED BY <3>1, <3>3, <3>4, <3>5 DEF TypeOK
  <2>4. CASE do_write(p, c)
    <3>1. /\ sess' \in [Pids -> [Conns -> States]]
          /\ \A q \in Pids, d \in Conns : q # p => sess'[q][d] = sess[q][d]
      BY <2>4, SessionStep DEF do_write, States
    <3>2. wire' \in [Conns -> Seq(Text)]
      BY <2>4, SentFacts DEF do_write, Text
    <3> QED BY <2>1, <2>4, <3>1, <3>2 DEF do_write, TypeOK, process, client
  <2>5. CASE Written(p, c)
    <3>1. PICK e \in Setenv(p, c) : env' = [env EXCEPT ![p] = e]
      BY <2>5 DEF Written
    <3>2. e \in [uri : Conns \cup {None}, query : Conns \cup {None}]
      BY DEF Setenv
    <3>3. env' \in [Pids -> [uri : Conns \cup {None}, query : Conns \cup {None}]]
      BY <3>1, <3>2
    <3>4. busy' = [busy EXCEPT ![p] = c] /\ sess[p][c] = "write"
          /\ UNCHANGED <<client, backlog, role, std, sess, wire>>
      BY <2>5 DEF Written
    <3> QED BY <2>1, <3>3, <3>4 DEF TypeOK, client
  <2>6. CASE Throw(p, c)
    <3>1. role' \in [Pids -> {"free", "server", "program", "zombie", "gone"}] /\ role'[p] = "gone"
      BY <2>6 DEF Throw, TypeOK
    <3>2. wire' \in [Conns -> Seq(Text)]
      BY <2>6, SentFacts DEF Throw, TypeOK, Text
    <3>3. /\ std' \in [Pids -> Conns \cup {None}]
          /\ sess' \in [Pids -> [Conns -> States]]
          /\ \A q \in Pids : q # p => sess'[q] = sess[q] /\ std'[q] = std[q] /\ role'[q] = role[q]
      BY <2>6 DEF Throw, TypeOK, States
    <3> QED BY <2>1, <2>6, <3>1, <3>2, <3>3 DEF Throw, TypeOK, client
  <2> QED BY <1>4, <2>2, <2>3, <2>4, <2>5, <2>6 DEF Handler
<1> QED BY <1>1, <1>2, <1>3, <1>4 DEF Step, Handler

\* A step keeps the types, and a stutter does.
LEMMA TypesNext == Types /\ [Next]_vars => Types'
<1> SUFFICES ASSUME Types, [Next]_vars PROVE Types'
  OBVIOUS
<1>1. CASE UNCHANGED vars
  BY <1>1 DEF vars, client, process, Types, TypeOK
<1>2. CASE Next
  BY <1>2, ClientTypes, ProcessTypes DEF Next
<1> QED BY <1>1, <1>2

-----------------------------------------------------------------------------
(***************************************************************************)
(* Every step keeps the other parts.                                       *)
(***************************************************************************)
\* Where a handler takes the session of c in process p, and that it touches no
\* other.
LEMMA HandlerSession ==
    ASSUME Types, NEW p \in Pids, NEW c \in Conns, Handler(p, c), ~Throw(p, c)
    PROVE  /\ role[p] = "server" /\ busy[p] = None /\ UNCHANGED <<role, std, peer, backlog>>
           /\ \A q \in Pids, d \in Conns : q # p \/ d # c => sess'[q][d] = sess[q][d]
           /\ \/ sess[p][c] = "accepted" /\ sess'[p][c] = "read" /\ UNCHANGED wire
              \/ sess[p][c] = "read" /\ sess'[p][c] \in {"got", "none"} /\ UNCHANGED wire
              \/ /\ sess[p][c] = "got" /\ wire' = Sent(wire, c, "status")
                 /\ sess'[p][c] = IF peer[c] = "reset" THEN "none" ELSE "write"
              \/ sess[p][c] = "write" /\ sess' = sess /\ UNCHANGED wire
<1> USE DEF Types
<1>1. CASE do_accept(p, c)
  BY <1>1, SessionStep DEF do_accept, Running, States, client, process
<1>2. CASE do_read(p, c)
  <2>1. /\ role[p] = "server" /\ busy[p] = None /\ sess[p][c] = "read"
        /\ UNCHANGED <<role, std, peer, backlog, wire>>
    BY <1>2 DEF do_read, Running, process
  <2>2. PICK s \in {"got", "none"} : sess' = [sess EXCEPT ![p][c] = s]
    BY <1>2 DEF do_read
  <2>3. s \in States
    BY DEF States
  <2>4. sess'[p][c] = s /\ \A q \in Pids, d \in Conns : q # p \/ d # c => sess'[q][d] = sess[q][d]
    BY <2>2 DEF TypeOK
  <2> QED BY <2>1, <2>4
<1>3. CASE do_write(p, c)
  BY <1>3, SessionStep DEF do_write, Running, States, client, process
<1>4. CASE Written(p, c)
  BY <1>4 DEF Written, Running, client
<1> QED BY <1>1, <1>2, <1>3, <1>4 DEF Handler

\* Process 0 stays the server, and what has ended has no socket.
LEMMA ProcessesNext == Types /\ Processes /\ [Next]_vars => Processes'
<1> SUFFICES ASSUME Types, Processes, [Next]_vars PROVE Processes'
  OBVIOUS
<1> USE DEF Types
<1>0. 0 \in Pids
  BY HttpAssumption DEF Pids
<1>1. CASE UNCHANGED <<role, std, sess>>
  BY <1>1 DEF Processes
<1>2. ASSUME NEW c \in Conns, Connect(c) \/ Send(c) \/ Hangup(c)
      PROVE  UNCHANGED <<role, std, sess>>
  BY <1>2 DEF Connect, Send, Hangup, process
<1>3. ASSUME NEW p \in Pids, Step(p)
      PROVE  Processes'
  <2>1. CASE Accept(p)
    <3>1. Head(backlog) \in Conns
      BY <2>1, Backlog DEF Accept, TypeOK
    <3>2. /\ role[p] = "server" /\ UNCHANGED <<role, std>>
          /\ \A q \in Pids, d \in Conns : q # p => sess'[q][d] = sess[q][d]
      BY <2>1, <3>1, SessionStep DEF Accept, States, Running, process
    <3> QED BY <3>2 DEF Processes
  <2>2. CASE Program(p)
    BY <1>0, <2>2 DEF Program, Processes, TypeOK
  <2>3. ASSUME NEW run \in BOOLEAN, Fork(p, run)
        PROVE  Processes'
    <3>1. PICK q \in Pids, c \in Conns : Forked(p, q, c, run)
      BY <2>3, ForkStep
    <3>2. q # 0 /\ role'[0] = role[0] /\ std'[0] = std[0]
      BY <1>0, <3>1 DEF Forked, Processes, TypeOK
    <3>3. ASSUME NEW x \in Pids, role'[x] \in {"free", "zombie", "gone"}
          PROVE  std'[x] = None /\ \A d \in Conns : sess'[x][d] = "none"
      <4>1. x # q /\ x # p /\ role'[x] = role[x] /\ std'[x] = std[x]
        BY <3>1, <3>3 DEF Forked, TypeOK
      <4>2. \A d \in Conns : sess'[x][d] = sess[x][d]
        BY <3>1, <4>1 DEF Forked
      <4> QED BY <3>3, <4>1, <4>2 DEF Processes
    <3> QED BY <3>2, <3>3 DEF Processes
  <2>4. ASSUME NEW c \in Conns, Handler(p, c)
        PROVE  Processes'
    <3>1. CASE Throw(p, c)
      BY <1>0, <3>1 DEF Throw, Running, Processes, TypeOK
    <3>2. CASE ~Throw(p, c)
      <4>1. /\ role[p] = "server" /\ UNCHANGED <<role, std>>
            /\ \A q \in Pids, d \in Conns : q # p => sess'[q][d] = sess[q][d]
        BY <2>4, <3>2, HandlerSession
      <4>2. ASSUME NEW x \in Pids, role[x] \in {"free", "zombie", "gone"}
            PROVE  std[x] = None /\ \A d \in Conns : sess'[x][d] = "none"
        <5>1. x # p
          BY <4>1, <4>2
        <5> QED BY <4>1, <4>2, <5>1 DEF Processes
      <4>3. role' = role /\ std' = std
        BY <4>1
      <4> QED BY <4>2, <4>3 DEF Processes
    <3> QED BY <3>1, <3>2
  <2> QED BY <1>3, <2>1, <2>2, <2>3, <2>4 DEF Step, Handler
<1>4. CASE UNCHANGED vars
  BY <1>1, <1>4 DEF vars, process
<1> QED BY <1>1, <1>2, <1>3, <1>4 DEF Next

\* What a program finds in its environment.
LEMMA EnvironmentNext == Types /\ Processes /\ Environment /\ [Next]_vars => Environment'
<1> SUFFICES ASSUME Types, Processes, Environment, [Next]_vars PROVE Environment'
  OBVIOUS
<1> USE DEF Types
<1>1. CASE UNCHANGED <<busy, role, std, env>>
  BY <1>1 DEF Environment
<1>2. ASSUME NEW c \in Conns, Connect(c) \/ Send(c) \/ Hangup(c)
      PROVE  UNCHANGED <<busy, role, std, env>>
  BY <1>2 DEF Connect, Send, Hangup, process
<1>3. ASSUME NEW p \in Pids, Step(p)
      PROVE  Environment'
  <2>1. CASE Accept(p)
    BY <1>1, <2>1 DEF Accept, process
  <2>2. CASE Program(p)
    BY <2>2 DEF Program, Environment, TypeOK
  <2>3. ASSUME NEW run \in BOOLEAN, Fork(p, run)
        PROVE  Environment'
    <3>1. PICK q \in Pids, c \in Conns : Forked(p, q, c, run)
      BY <2>3, ForkStep
    <3>2. busy[q] = None
      BY <3>1 DEF Forked, TypeOK
    <3>3. env[p].uri = c /\ (c \notin Plain => env[p].query = c)
      BY <3>1 DEF Forked, Environment
    <3>4. env'[q] = env[p] /\ std'[q] = c /\ busy'[q] = None /\ busy'[p] = None
      BY <3>1, <3>2 DEF Forked, TypeOK
    <3>5. \A x \in Pids : x # q => /\ env'[x] = env[x] /\ std'[x] = std[x] /\ role'[x] = role[x]
                                   /\ busy'[x] \in {None, busy[x]}
      BY <3>1 DEF Forked, TypeOK
    <3>6. ASSUME NEW x \in Pids, x # q
          PROVE  /\ busy'[x] # None =>
                       /\ env'[x].uri = busy'[x]
                       /\ busy'[x] \notin Plain => env'[x].query = busy'[x]
                 /\ role'[x] = "program" =>
                       /\ env'[x].uri = std'[x]
                       /\ std'[x] \notin Plain => env'[x].query = std'[x]
      BY <3>5, <3>6 DEF Environment
    <3> QED BY <3>3, <3>4, <3>6 DEF Environment
  <2>4. CASE \E c \in Conns : do_accept(p, c) \/ do_read(p, c) \/ do_write(p, c)
    BY <1>1, <2>4 DEF do_accept, do_read, do_write, process
  <2>5. ASSUME NEW c \in Conns, Written(p, c)
        PROVE  Environment'
    <3>1. PICK e \in Setenv(p, c) : env' = [env EXCEPT ![p] = e]
      BY <2>5 DEF Written
    <3>2. e.uri = c /\ (c \notin Plain => e.query = c)
      BY DEF Setenv
    <3> QED BY <2>5, <3>1, <3>2 DEF Written, Running, Environment, TypeOK
  <2>6. ASSUME NEW c \in Conns, Throw(p, c)
        PROVE  Environment'
    BY <2>6 DEF Throw, Running, Environment, TypeOK
  <2> QED BY <1>3, <2>1, <2>2, <2>3, <2>4, <2>5, <2>6 DEF Step
<1>4. CASE UNCHANGED vars
  BY <1>1, <1>4 DEF vars, process
<1> QED BY <1>1, <1>2, <1>3, <1>4 DEF Next

\* The status line comes first.
LEMMA StatusNext == Types /\ Processes /\ StatusFirst /\ [Next]_vars => StatusFirst'
<1> SUFFICES ASSUME Types, Processes, StatusFirst, [Next]_vars PROVE StatusFirst'
  OBVIOUS
<1> USE DEF Types
<1>0. \A c \in Conns : c # None
  BY HttpAssumption
<1>1. CASE UNCHANGED <<sess, std, wire>>
  BY <1>1 DEF StatusFirst
<1>2. ASSUME NEW c \in Conns, Connect(c) \/ Send(c) \/ Hangup(c)
      PROVE  UNCHANGED <<sess, std, wire>>
  BY <1>2 DEF Connect, Send, Hangup, process
<1>3. ASSUME NEW p \in Pids, \E text \in Text : wire' = Sent(wire, std[p], text),
             \A x \in Pids, d \in Conns : sess'[x][d] \in {"none", sess[x][d]},
             \A x \in Pids : std'[x] \in {None, std[x]}
      PROVE  StatusFirst'
  <2>1. std[p] \in Conns \cup {None}
    BY DEF TypeOK
  <2>2. \A d \in Conns :
           /\ d # std[p] => wire'[d] = wire[d]
           /\ wire[d] # <<>> => wire'[d] # <<>> /\ Head(wire'[d]) = Head(wire[d])
    <3>1. PICK text \in Text : wire' = Sent(wire, std[p], text)
      BY <1>3
    <3> QED BY <2>1, <3>1, SentFacts
  <2>3. \A d \in Conns : std[p] = d => wire[d] # <<>>
    BY DEF StatusFirst
  <2>4. \A d \in Conns : wire'[d] # <<>> => Head(wire'[d]) = "status"
    BY <2>2, <2>3 DEF StatusFirst
  <2>5. ASSUME NEW x \in Pids, NEW d \in Conns, sess'[x][d] = "write" \/ std'[x] = d
        PROVE  wire'[d] # <<>>
    <3>1. sess[x][d] = "write" \/ std[x] = d
      BY <1>0, <1>3, <2>5
    <3> QED BY <2>2, <3>1 DEF StatusFirst
  <2> QED BY <2>4, <2>5 DEF StatusFirst
<1>4. ASSUME NEW p \in Pids, Step(p)
      PROVE  StatusFirst'
  <2>1. CASE Accept(p)
    <3>1. Head(backlog) \in Conns
      BY <2>1, Backlog DEF Accept, TypeOK
    <3>2. /\ UNCHANGED <<wire, std>>
          /\ \A q \in Pids, d \in Conns : sess'[q][d] \in {"accepted", sess[q][d]}
      BY <2>1, <3>1, SessionStep DEF Accept, States, process
    <3> QED BY <3>2 DEF StatusFirst
  <2>2. CASE Program(p)
    <3>1. /\ wire' = Sent(wire, std[p], "page")
          /\ \A x \in Pids, d \in Conns : sess'[x][d] \in {"none", sess[x][d]}
          /\ \A x \in Pids : std'[x] \in {None, std[x]}
      BY <2>2 DEF Program, TypeOK
    <3>2. \E text \in Text : wire' = Sent(wire, std[p], text)
      BY <3>1 DEF Text
    <3> QED BY <1>3, <3>1, <3>2
  <2>3. ASSUME NEW run \in BOOLEAN, Fork(p, run)
        PROVE  StatusFirst'
    <3>1. PICK q \in Pids, c \in Conns : Forked(p, q, c, run)
      BY <2>3, ForkStep
    <3>2. wire' = wire /\ wire[c] # <<>>
      BY <3>1 DEF Forked, StatusFirst
    <3>3. ASSUME NEW x \in Pids, NEW d \in Conns, sess'[x][d] = "write" \/ std'[x] = d
          PROVE  wire[d] # <<>>
      <4>1. CASE d = c
        BY <3>2, <4>1
      <4>2. CASE d # c
        <5>1. std'[x] = d => std[x] = d
          BY <3>1, <4>2 DEF Forked, TypeOK
        <5>2. sess'[x][d] = "write" => \E y \in Pids : sess[y][d] = "write"
          <6>1. CASE x = q
            BY <3>1, <6>1 DEF Forked
          <6>2. CASE x # q
            BY <3>1, <4>2, <6>2 DEF Forked
          <6> QED BY <6>1, <6>2
        <5> QED BY <3>3, <5>1, <5>2 DEF StatusFirst
      <4> QED BY <4>1, <4>2
    <3> QED BY <3>2, <3>3 DEF StatusFirst
  <2>4. ASSUME NEW c \in Conns, Throw(p, c)
        PROVE  StatusFirst'
    <3>1. /\ wire' = Sent(wire, std[p], "fail")
          /\ \A x \in Pids, d \in Conns : sess'[x][d] \in {"none", sess[x][d]}
          /\ \A x \in Pids : std'[x] \in {None, std[x]}
      BY <2>4 DEF Throw, TypeOK
    <3>2. \E text \in Text : wire' = Sent(wire, std[p], text)
      BY <3>1 DEF Text
    <3> QED BY <1>3, <3>1, <3>2
  <2>5. ASSUME NEW c \in Conns, Handler(p, c), ~Throw(p, c)
        PROVE  StatusFirst'
    <3>1. std' = std /\ \A x \in Pids, d \in Conns : x # p \/ d # c => sess'[x][d] = sess[x][d]
      BY <2>5, HandlerSession
    <3>2. CASE wire' = wire /\ (sess'[p][c] = "write" => sess[p][c] = "write")
      <4>1. \A x \in Pids, d \in Conns : sess'[x][d] = "write" => sess[x][d] = "write"
        BY <3>1, <3>2
      <4> QED BY <3>1, <3>2, <4>1 DEF StatusFirst
    <3>3. CASE wire' = Sent(wire, c, "status") /\ (sess'[p][c] = "write" => peer[c] # "reset")
      <4>1. wire' = wire \/ (peer[c] # "reset" /\ wire'[c] = Append(wire[c], "status"))
        BY <1>0, <3>3, SentFacts DEF Text, Sent
      <4>2. \A d \in Conns :
               /\ d # c => wire'[d] = wire[d]
               /\ wire[d] # <<>> => wire'[d] # <<>> /\ Head(wire'[d]) = Head(wire[d])
        BY <3>3, SentFacts DEF Text
      <4>3. wire[c] \in Seq(Text) /\ "status" \in Text
        BY DEF Text
      <4>4. peer[c] # "reset" => wire'[c] = Append(wire[c], "status")
        BY <1>0, <3>3, SentFacts DEF Text
      <4>5. wire[c] = <<>> /\ wire'[c] # <<>> => Head(wire'[c]) = "status"
        BY <4>1, <4>3, FirstText
      <4>6. sess'[p][c] = "write" => wire'[c] # <<>>
        BY <3>3, <4>3, <4>4, FirstText
      <4>7. \A d \in Conns : wire'[d] # <<>> => Head(wire'[d]) = "status"
        BY <4>2, <4>5 DEF StatusFirst
      <4>8. \A x \in Pids, d \in Conns : sess'[x][d] = "write" \/ std'[x] = d => wire'[d] # <<>>
        BY <3>1, <4>2, <4>6 DEF StatusFirst
      <4> QED BY <4>7, <4>8 DEF StatusFirst
    <3>4. \/ wire' = wire /\ (sess'[p][c] = "write" => sess[p][c] = "write")
          \/ wire' = Sent(wire, c, "status") /\ (sess'[p][c] = "write" => peer[c] # "reset")
      BY <2>5, HandlerSession
    <3> QED BY <3>2, <3>3, <3>4
  <2> QED BY <1>4, <2>1, <2>2, <2>3, <2>4, <2>5 DEF Step, Handler
<1>5. CASE UNCHANGED vars
  BY <1>1, <1>5 DEF vars, process
<1> QED BY <1>1, <1>2, <1>4, <1>5 DEF Next

-----------------------------------------------------------------------------
(***************************************************************************)
(* One answer, as long as every exec succeeded.                            *)
(***************************************************************************)
\* A server that a failed exec left stays, or ends: an exec that failed is not
\* undone.
LEMMA FailedStays == Types /\ [Next]_vars /\ Failed => Failed'
<1> SUFFICES ASSUME Types, [Next]_vars, Failed PROVE Failed'
  OBVIOUS
<1> USE DEF Types
<1>1. PICK x \in Pids \ {0} : role[x] \in {"server", "gone"}
  BY DEF Failed
<1>2. CASE UNCHANGED role
  BY <1>1, <1>2 DEF Failed
<1>3. ASSUME NEW c \in Conns, Connect(c) \/ Send(c) \/ Hangup(c)
      PROVE  UNCHANGED role
  BY <1>3 DEF Connect, Send, Hangup, process
<1>4. ASSUME NEW p \in Pids, Step(p)
      PROVE  role'[x] \in {"server", "gone"}
  <2>1. CASE Accept(p)
    BY <1>1, <2>1 DEF Accept, process
  <2>2. CASE Program(p)
    BY <1>1, <2>2 DEF Program, TypeOK
  <2>3. ASSUME NEW run \in BOOLEAN, Fork(p, run)
        PROVE  role'[x] \in {"server", "gone"}
    <3>1. PICK q \in Pids, c \in Conns : Forked(p, q, c, run)
      BY <2>3, ForkStep
    <3> QED BY <1>1, <3>1 DEF Forked, TypeOK
  <2>4. ASSUME NEW c \in Conns, Handler(p, c)
        PROVE  role'[x] \in {"server", "gone"}
    <3>1. CASE Throw(p, c)
      BY <1>1, <3>1 DEF Throw, TypeOK
    <3>2. CASE ~Throw(p, c)
      BY <1>1, <2>4, <3>2, HandlerSession
    <3> QED BY <3>1, <3>2
  <2> QED BY <1>4, <2>1, <2>2, <2>3, <2>4 DEF Step, Handler
<1>5. CASE UNCHANGED vars
  BY <1>2, <1>5 DEF vars, process
<1> QED BY <1>1, <1>2, <1>3, <1>4, <1>5 DEF Next, Failed

\* What a step does not touch of a connection.
LEMMA Elsewhere ==
    ASSUME NEW d \in Conns, Answer(d), peer'[d] = "away" => peer[d] = "away",
           Waits(d)' => Waits(d), HasProgram(d)' => HasProgram(d),
           sess'[0][d] = sess[0][d], wire'[d] = wire[d]
    PROVE  Answer(d)'
<1> DEFINE waits == Waits(d)
           program == HasProgram(d)
<1>1. Answer(d)' =
        (/\ wire'[d] \in {<<>>, <<"status">>, <<"status", "page">>}
         /\ peer'[d] = "away" =>
               ~Waits(d)' /\ sess'[0][d] = "none" /\ ~HasProgram(d)' /\ wire'[d] = <<>>
         /\ Waits(d)' => sess'[0][d] = "none" /\ ~HasProgram(d)' /\ wire'[d] = <<>>
         /\ sess'[0][d] \in {"accepted", "read", "got"} => ~HasProgram(d)' /\ wire'[d] = <<>>
         /\ sess'[0][d] = "write" => ~HasProgram(d)' /\ wire'[d] = <<"status">>
         /\ HasProgram(d)' => sess'[0][d] = "none" /\ wire'[d] = <<"status">>)
  BY DEF Answer
<1> QED BY <1>1 DEF Answer

\* The client's step: only a new connection joins the queue.
LEMMA ClientAnswer ==
    ASSUME Types, ~Failed, OneAnswer, NEW c \in Conns, Connect(c) \/ Send(c) \/ Hangup(c)
    PROVE  OneAnswer'
<1> USE DEF Types
<1>1. QueuedOnce /\ OneProgram /\ \A d \in Conns : Answer(d)
  BY DEF OneAnswer
<1>2. UNCHANGED <<role, sess, std, wire>>
  BY DEF Connect, Send, Hangup, process
<1>3. OneProgram'
  BY <1>1, <1>2 DEF OneProgram
<1>4. \A d \in Conns : HasProgram(d)' <=> HasProgram(d)
  BY <1>2 DEF HasProgram
<1>5. CASE Connect(c)
  <2>1. peer[c] = "away" /\ peer' = [peer EXCEPT ![c] = "open"] /\ backlog' = Append(backlog, c)
    BY <1>5 DEF Connect
  <2>2. PICK n \in Nat : n = Len(backlog)
    BY Backlog DEF TypeOK
  <2>3. /\ DOMAIN backlog = 1 .. n /\ DOMAIN backlog' = 1 .. (n + 1) /\ backlog'[n + 1] = c
        /\ \A k \in 1 .. n : backlog'[k] = backlog[k]
    BY <2>1, <2>2, Backlog DEF TypeOK
  <2>4. ~Waits(c) /\ sess[0][c] = "none" /\ ~HasProgram(c) /\ wire[c] = <<>>
    BY <1>1, <2>1 DEF Answer
  <2>5. \A k \in 1 .. n : backlog[k] # c
    BY <2>3, <2>4 DEF Waits
  <2>6. QueuedOnce'
    <3>1. ASSUME NEW i \in 1 .. (n + 1), NEW k \in 1 .. (n + 1), i # k
          PROVE  backlog'[i] # backlog'[k]
      <4>1. i \in 1 .. n /\ k \in 1 .. n => backlog[i] # backlog[k]
        BY <1>1, <2>3, <3>1 DEF QueuedOnce
      <4>2. (i \in 1 .. n \/ i = n + 1) /\ (k \in 1 .. n \/ k = n + 1)
        BY <2>2
      <4> QED BY <2>3, <2>5, <3>1, <4>1, <4>2
    <3> QED BY <2>3, <3>1 DEF QueuedOnce
  <2>7. ASSUME NEW d \in Conns, d # c
        PROVE  Answer(d)'
    <3>1. Waits(d)' => Waits(d)
      <4>1. \A k \in 1 .. (n + 1) : backlog'[k] = d => k \in 1 .. n
        BY <2>2, <2>3, <2>7
      <4> QED BY <2>3, <4>1 DEF Waits
    <3>2. peer'[d] = peer[d]
      BY <2>1, <2>7 DEF TypeOK
    <3> QED BY <1>1, <1>2, <1>4, <3>1, <3>2, Elsewhere
  <2>8. Answer(c)'
    <3>1. peer'[c] = "open"
      BY <2>1 DEF TypeOK
    <3>2. ~HasProgram(c)' /\ sess'[0][c] = "none" /\ wire'[c] = <<>>
      BY <1>2, <1>4, <2>4
    <3> QED BY <3>1, <3>2 DEF Answer
  <2> QED BY <1>3, <2>6, <2>7, <2>8 DEF OneAnswer
<1>6. CASE Send(c) \/ Hangup(c)
  <2>1. backlog' = backlog /\ \A d \in Conns : peer'[d] = "away" => peer[d] = "away"
    <3>1. CASE Send(c)
      BY <3>1 DEF Send
    <3>2. CASE Hangup(c)
      <4>1. backlog' = backlog /\ peer[c] # "away"
        BY <3>2 DEF Hangup
      <4>2. peer' \in {[peer EXCEPT ![c] = "shut"], [peer EXCEPT ![c] = "reset"]}
        BY <3>2 DEF Hangup
      <4>3. \A d \in Conns : d # c => peer'[d] = peer[d]
        BY <4>2 DEF TypeOK
      <4>4. peer'[c] # "away"
        BY <4>2 DEF TypeOK
      <4> QED BY <4>1, <4>3, <4>4
    <3> QED BY <1>6, <3>1, <3>2
  <2>2. QueuedOnce' /\ \A d \in Conns : Waits(d)' <=> Waits(d)
    BY <1>1, <2>1 DEF QueuedOnce, Waits
  <2>3. ASSUME NEW d \in Conns
        PROVE  Answer(d)'
    BY <1>1, <1>2, <1>4, <2>1, <2>2, Elsewhere
  <2> QED BY <1>3, <2>2, <2>3 DEF OneAnswer
<1> QED BY <1>5, <1>6

\* A step of the server or of a program.
LEMMA ProcessAnswer ==
    ASSUME Types, Processes, ~Failed, ~Failed', OneAnswer, NEW p \in Pids, Step(p)
    PROVE  OneAnswer'
<1> USE DEF Types
<1>0. 0 \in Pids /\ \A c \in Conns : c # None
  BY HttpAssumption DEF Pids
<1>1. QueuedOnce /\ OneProgram /\ \A d \in Conns : Answer(d)
  BY DEF OneAnswer
<1>2. role[p] = "server" => p = 0
  BY DEF Failed
<1>3. CASE Accept(p)
  <2>1. /\ p = 0 /\ backlog # <<>> /\ backlog' = Tail(backlog)
        /\ UNCHANGED <<peer, std, wire>>
    BY <1>2, <1>3 DEF Accept, Running, client, process
  <2>2. PICK n \in Nat : n = Len(backlog) - 1
    BY <2>1, Backlog DEF TypeOK
  <2>3. /\ DOMAIN backlog = 1 .. (n + 1) /\ DOMAIN backlog' = 1 .. n
        /\ Head(backlog) = backlog[1] /\ backlog[1] \in Conns
        /\ \A k \in 1 .. n : backlog'[k] = backlog[k + 1]
    BY <2>1, <2>2, Backlog DEF TypeOK
  <2>4. PICK c \in Conns : c = backlog[1]
    BY <2>3
  <2>5. \A k \in 1 .. n : k + 1 \in 1 .. (n + 1) /\ k + 1 # 1 /\ 1 \in 1 .. (n + 1)
    BY <2>2
  <2>6. sess'[0][c] = "accepted" /\ \A d \in Conns : d # c => sess'[0][d] = sess[0][d]
    <3>1. sess' = [sess EXCEPT ![0][c] = "accepted"]
      BY <1>3, <2>1, <2>3, <2>4 DEF Accept
    <3>2. "accepted" \in States
      BY DEF States
    <3> QED BY <1>0, <3>1, <3>2 DEF TypeOK
  <2>7. 1 \in 1 .. (n + 1)
    BY <2>2
  <2>8. Waits(c)
    BY <2>3, <2>4, <2>7 DEF Waits
  <2>9. \A d \in Conns : Waits(d)' => Waits(d) /\ d # c
    BY <1>1, <2>3, <2>4, <2>5 DEF Waits, QueuedOnce
  <2>10. \A d \in Conns : HasProgram(d)' <=> HasProgram(d)
    BY <2>1 DEF HasProgram
  <2>11. QueuedOnce'
    <3>1. ASSUME NEW i \in 1 .. n, NEW k \in 1 .. n, i # k
          PROVE  backlog'[i] # backlog'[k]
      <4>1. PICK a, b \in 1 .. (n + 1) : a = i + 1 /\ b = k + 1 /\ a # b
        BY <2>5, <3>1
      <4>2. backlog[a] # backlog[b]
        BY <1>1, <2>3, <4>1 DEF QueuedOnce
      <4>3. backlog'[i] = backlog[a] /\ backlog'[k] = backlog[b]
        BY <2>3, <4>1
      <4> QED BY <4>2, <4>3
    <3> QED BY <2>3, <3>1 DEF QueuedOnce
  <2>12. OneProgram'
    BY <1>1, <2>1 DEF OneProgram
  <2>13. ASSUME NEW d \in Conns, d # c
         PROVE  Answer(d)'
    BY <1>1, <2>1, <2>6, <2>9, <2>10, <2>13, Elsewhere
  <2>14. Answer(c)'
    <3>1. ~HasProgram(c) /\ wire[c] = <<>> /\ peer[c] # "away"
      BY <1>1, <2>8 DEF Answer
    <3> QED BY <2>1, <2>6, <2>9, <2>10, <3>1 DEF Answer
  <2> QED BY <2>11, <2>12, <2>13, <2>14 DEF OneAnswer
<1>4. CASE Program(p)
  <2>1. p # 0 /\ role[p] = "program" /\ UNCHANGED <<peer, backlog>>
    BY <1>4 DEF Program, Processes, client
  <2>2. PICK c \in Conns : c = std[p]
    BY <2>1 DEF TypeOK
  <2>3. /\ wire' = Sent(wire, c, "page") /\ std' = [std EXCEPT ![p] = None]
        /\ \A d \in Conns : sess'[0][d] = sess[0][d]
    BY <1>0, <1>4, <2>1, <2>2 DEF Program, TypeOK
  <2>4. HasProgram(c)
    BY <2>2 DEF HasProgram
  <2>5. \A d \in Conns : HasProgram(d)' => HasProgram(d) /\ d # c
    BY <1>0, <1>1, <2>2, <2>3 DEF HasProgram, OneProgram, TypeOK
  <2>6. OneProgram'
    BY <1>1, <2>3 DEF OneProgram, TypeOK
  <2>7. QueuedOnce' /\ \A d \in Conns : Waits(d)' <=> Waits(d)
    BY <1>1, <2>1 DEF QueuedOnce, Waits
  <2>8. "page" \in Text
    BY DEF Text
  <2>9. \A d \in Conns : d # c => wire'[d] = wire[d]
    BY <2>3, <2>8, SentFacts
  <2>10. sess[0][c] = "none" /\ wire[c] = <<"status">> /\ peer[c] # "away" /\ ~Waits(c)
    BY <1>1, <2>4 DEF Answer
  <2>11. wire'[c] \in {<<"status">>, <<"status", "page">>}
    <3>1. wire'[c] = wire[c] \/ wire'[c] = Append(wire[c], "page")
      BY <2>3, <2>8, SentFacts
    <3>2. Append(<<"status">>, "page") = <<"status", "page">>
      BY <2>8, Pair DEF Text
    <3> QED BY <2>10, <3>1, <3>2
  <2>12. ASSUME NEW d \in Conns, d # c
         PROVE  Answer(d)'
    BY <1>1, <2>1, <2>3, <2>5, <2>7, <2>9, <2>12, Elsewhere
  <2>13. Answer(c)'
    BY <2>1, <2>3, <2>5, <2>7, <2>10, <2>11 DEF Answer
  <2> QED BY <2>6, <2>7, <2>12, <2>13 DEF OneAnswer
<1>5. ASSUME NEW run \in BOOLEAN, Fork(p, run)
      PROVE  OneAnswer'
  <2>1. PICK q \in Pids, c \in Conns : Forked(p, q, c, run)
    BY <1>5, ForkStep
  <2>2. /\ p = 0 /\ q # 0 /\ sess[0][c] = "write" /\ std' = [std EXCEPT ![q] = c]
        /\ UNCHANGED <<peer, backlog, wire>>
        /\ sess'[0][c] = "none" /\ \A d \in Conns : d # c => sess'[0][d] = sess[0][d]
        /\ role' = [role EXCEPT ![q] = IF run THEN "program" ELSE "server"]
    BY <1>2, <2>1 DEF Forked, client
  <2>3. std[q] = None
    BY <2>1 DEF Forked, Processes
  <2>4. ~HasProgram(c) /\ wire[c] = <<"status">> /\ peer[c] # "away" /\ ~Waits(c)
    BY <1>1, <2>2 DEF Answer
  <2>5. \A d \in Conns : d # c /\ HasProgram(d)' => HasProgram(d)
    BY <2>2 DEF HasProgram, TypeOK
  <2>6. OneProgram'
    BY <1>0, <1>1, <2>2, <2>4 DEF OneProgram, TypeOK, HasProgram
  <2>7. QueuedOnce' /\ \A d \in Conns : Waits(d)' <=> Waits(d)
    BY <1>1, <2>2 DEF QueuedOnce, Waits
  <2>8. ASSUME NEW d \in Conns, d # c
        PROVE  Answer(d)'
    BY <1>1, <2>2, <2>5, <2>7, <2>8, Elsewhere
  <2>9. Answer(c)'
    BY <2>2, <2>4, <2>7 DEF Answer
  <2> QED BY <2>6, <2>7, <2>8, <2>9 DEF OneAnswer
<1>6. ASSUME NEW c \in Conns, Throw(p, c)
      PROVE  OneAnswer'
  <2>1. /\ p = 0 /\ UNCHANGED <<peer, backlog>>
        /\ wire' = Sent(wire, std[0], "fail") /\ std' = [std EXCEPT ![0] = None]
        /\ \A d \in Conns : sess'[0][d] = "none"
    BY <1>0, <1>2, <1>6 DEF Throw, Running, client, TypeOK
  <2>2. wire' = wire /\ std' = std
    BY <1>0, <2>1 DEF Processes, Sent, TypeOK
  <2>3. QueuedOnce' /\ OneProgram' /\ \A d \in Conns : Waits(d)' <=> Waits(d)
    BY <1>1, <2>1, <2>2 DEF QueuedOnce, OneProgram, Waits
  <2>4. \A d \in Conns : HasProgram(d)' <=> HasProgram(d)
    BY <2>2 DEF HasProgram
  <2>5. ASSUME NEW d \in Conns
        PROVE  Answer(d)'
    <3>1. sess'[0][d] = "none" /\ wire'[d] = wire[d] /\ peer'[d] = peer[d]
      BY <2>1, <2>2
    <3>2. Answer(d)
      BY <1>1
    <3> QED BY <2>3, <2>4, <3>1, <3>2 DEF Answer
  <2> QED BY <2>3, <2>5 DEF OneAnswer
<1>7. ASSUME NEW c \in Conns, Handler(p, c), ~Throw(p, c)
      PROVE  OneAnswer'
  <2>1. /\ p = 0 /\ UNCHANGED <<std, peer, backlog>>
        /\ \A d \in Conns : d # c => sess'[0][d] = sess[0][d]
    BY <1>0, <1>2, <1>7, HandlerSession
  <2>2. /\ QueuedOnce' /\ OneProgram'
        /\ \A d \in Conns : (Waits(d)' <=> Waits(d)) /\ (HasProgram(d)' <=> HasProgram(d))
    BY <1>1, <2>1 DEF QueuedOnce, OneProgram, Waits, HasProgram
  <2>3. \/ sess[0][c] = "accepted" /\ sess'[0][c] = "read" /\ wire' = wire
        \/ sess[0][c] = "read" /\ sess'[0][c] \in {"got", "none"} /\ wire' = wire
        \/ /\ sess[0][c] = "got" /\ wire' = Sent(wire, c, "status")
           /\ sess'[0][c] = IF peer[c] = "reset" THEN "none" ELSE "write"
        \/ sess[0][c] = "write" /\ sess' = sess /\ wire' = wire
    BY <1>7, <2>1, HandlerSession
  <2>4. "status" \in Text /\ wire[c] \in Seq(Text)
    BY DEF Text
  <2>5. wire' = wire \/ wire' = Sent(wire, c, "status")
    BY <2>3
  <2>6. \A d \in Conns : d # c => wire'[d] = wire[d]
    BY <2>4, <2>5, SentFacts
  <2>7. ASSUME NEW d \in Conns, d # c
        PROVE  Answer(d)'
    BY <1>1, <2>1, <2>2, <2>6, <2>7, Elsewhere
  <2>8. Answer(c)'
    <3>1. Answer(c)
      BY <1>1
    <3>2. CASE sess[0][c] = "write" /\ sess' = sess /\ wire' = wire
      BY <2>1, <2>2, <3>1, <3>2, Elsewhere
    <3>3. CASE sess[0][c] \in {"accepted", "read"} /\ wire' = wire
               /\ sess'[0][c] \in {"read", "got", "none"}
      <4>1. ~HasProgram(c) /\ wire[c] = <<>> /\ peer[c] # "away" /\ ~Waits(c)
        BY <3>1, <3>3 DEF Answer
      <4> QED BY <2>1, <2>2, <3>3, <4>1 DEF Answer
    <3>4. CASE /\ sess[0][c] = "got" /\ wire' = Sent(wire, c, "status")
               /\ sess'[0][c] = IF peer[c] = "reset" THEN "none" ELSE "write"
      <4>1. ~HasProgram(c) /\ wire[c] = <<>> /\ peer[c] # "away" /\ ~Waits(c)
        BY <3>1, <3>4 DEF Answer
      <4>2. Append(wire[c], "status") = <<"status">>
        BY <2>4, <4>1, FirstText
      <4>3. IF peer[c] = "reset" THEN wire'[c] = <<>> ELSE wire'[c] = <<"status">>
        <5>1. c # None /\ c \in Conns \cup {None}
          BY <1>0
        <5>2. /\ peer[c] # "reset" => wire'[c] = Append(wire[c], "status")
              /\ peer[c] = "reset" => wire'[c] = wire[c]
          BY <2>4, <3>4, <5>1, SentFacts
        <5> QED BY <4>1, <4>2, <5>2
      <4> QED BY <2>1, <2>2, <3>4, <4>1, <4>3 DEF Answer
    <3> QED BY <2>3, <3>2, <3>3, <3>4
  <2> QED BY <2>2, <2>7, <2>8 DEF OneAnswer
<1> QED BY <1>3, <1>4, <1>5, <1>6, <1>7 DEF Step, Handler

\* One answer stays one answer.
LEMMA AnswerNext == Types /\ Processes /\ OneAnswer /\ [Next]_vars => OneAnswer'
<1> SUFFICES ASSUME Types, Processes, OneAnswer, [Next]_vars, ~Failed' PROVE OneAnswer'
  BY DEF OneAnswer
<1>1. ~Failed
  BY FailedStays
<1>2. CASE Next
  BY <1>1, <1>2, ClientAnswer, ProcessAnswer DEF Next
<1>3. CASE UNCHANGED vars
  <2>1. UNCHANGED <<role, sess, std, wire, peer, backlog>>
    BY <1>3 DEF vars, client, process
  <2>2. QueuedOnce /\ OneProgram /\ \A d \in Conns : Answer(d)
    BY <1>1 DEF OneAnswer
  <2>3. QueuedOnce' /\ OneProgram' /\ \A d \in Conns : Answer(d)'
    BY <2>1, <2>2 DEF QueuedOnce, OneProgram, Answer, Waits, HasProgram
  <2> QED BY <2>3 DEF OneAnswer
<1> QED BY <1>2, <1>3

-----------------------------------------------------------------------------
(***************************************************************************)
(* The theorems.                                                           *)
(***************************************************************************)
\* Every step keeps the invariant.
LEMMA InvNext == Inv /\ [Next]_vars => Inv'
BY TypesNext, ProcessesNext, EnvironmentNext, StatusNext, AnswerNext DEF Inv

\* In every state of the server and the processes it forks the invariant holds.
THEOREM Invariance == Spec => []Inv
BY InvInit, InvNext, PTL DEF Spec

\* The state of http_server has its types, and a handler in the fork loop has
\* its session in its own process.
THEOREM TypeCorrect == Spec => []TypeOK
<1>1. Inv => TypeOK
  BY DEF Inv, Types
<1> QED BY <1>1, Invariance, PTL

\* A program finds the request of its own client in the environment that all
\* sessions share: no handler of another session runs between setenv and fork.
THEOREM EnvironmentCorrect == Spec => []OwnEnvironment
<1>1. Inv => OwnEnvironment
  BY DEF Inv, Environment, OwnEnvironment
<1> QED BY <1>1, Invariance, PTL

\* The status line comes before what programs print; unless an exec failed,
\* a client gets one status line and one page.
THEOREM AnswerCorrect == Spec => []AnswerInOrder
<1>1. Inv => AnswerInOrder
  BY DEF Inv, StatusFirst, OneAnswer, Answer, AnswerInOrder
<1> QED BY <1>1, Invariance, PTL

=============================================================================
