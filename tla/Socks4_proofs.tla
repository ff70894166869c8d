----------------------------- MODULE Socks4_proofs -----------------------------
(***************************************************************************)
(* Proofs about Socks4: whatever is in the file of rules, the firewall     *)
(* turns away nothing they allow, and lets nothing else through when the   *)
(* file is well formed; and what Router decodes is the request, as far as  *)
(* its one read has brought it.                                            *)
(***************************************************************************)
EXTENDS Socks4, SequenceTheorems, TLAPS

\* Reading has come to line n: nothing so far allowed the request, and the
\* locals of the loop are those of some rule, if the file is well formed.
ReadTo(n) ==
    /\ Len(conf.lines) = Len(conf.file) - n
    /\ \A j \in DOMAIN conf.lines : conf.lines[j] = conf.file[n + j]
    /\ \A k \in 1 .. n : k \notin Permitting
    /\ WellFormed(conf.file) /\ n > 0 =>
          \E k \in 1 .. n :
             /\ conf.file[k].fields = 5
             /\ rule = [mode |-> conf.file[k].mode, permit |-> conf.file[k].permit]

\* The rules still to be read are the end of the file.
Rules ==
    /\ conf.file \in Files /\ conf.lines \in Seq(RuleLines)
    /\ st \in {"sent", "read", "judge", "done", "ignored", "overflow"}
    /\ conf = [open |-> conf.open, lines |-> conf.lines, file |-> conf.file]
    /\ st \in {"sent", "read"} => verdict = FALSE /\ conf.lines = conf.file
    /\ st = "judge" => /\ conf.open /\ verdict = FALSE
                       /\ \E n \in 0 .. Len(conf.file) : ReadTo(n)
    /\ PermitsByRules

\* The request is what was sent, and what Router has read of it is, too.
Fields ==
    /\ sent \in [cd : {1, 2}, port : Ports, addr : Addresses, userid : UserIds,
                 host : Hosts]
    /\ request = Bytes(sent)
    /\ DecodedIsSent

Inv == Rules /\ Fields

-----------------------------------------------------------------------------
(***************************************************************************)
(* The firewall's loop over the octets.                                    *)
(***************************************************************************)
\* It allows every address whose octets are the rule's or meet a star there,
\* and only those when the rule's stars come last.
LEMMA AllowsEvery ==
    ASSUME NEW permit
    PROVE  /\ (\A p \in 1 .. 4 : permit[p] \in {Star, ip[p]}) => Allows(permit)
           /\ TrailingStars(permit) /\ Allows(permit)
                 => \A p \in 1 .. 4 : permit[p] \in {Star, ip[p]}
<1> DEFINE Loop(f) == [p \in 1 .. 5 |->
                          IF p = 5 THEN FALSE
                          ELSE \/ permit[p] = Star
                               \/ permit[p] = ip[p] /\ (p = 4 \/ f[p + 1])]
           a4 == permit[4] = Star \/ permit[4] = ip[4]
           a3 == permit[3] = Star \/ (permit[3] = ip[3] /\ a4)
           a2 == permit[2] = Star \/ (permit[2] = ip[2] /\ a3)
           a1 == permit[1] = Star \/ (permit[1] = ip[1] /\ a2)
           W == [p \in 1 .. 5 |-> IF p = 1 THEN a1 ELSE IF p = 2 THEN a2
                                  ELSE IF p = 3 THEN a3 ELSE IF p = 4 THEN a4 ELSE FALSE]
           S == CHOOSE f : f = Loop(f)
<1>1. W = Loop(W)
  <2> SUFFICES ASSUME NEW p \in 1 .. 5
               PROVE  W[p] = IF p = 5 THEN FALSE
                             ELSE \/ permit[p] = Star
                                  \/ permit[p] = ip[p] /\ (p = 4 \/ W[p + 1])
    BY Zenon
  <2>1. /\ W[1] = a1 /\ W[2] = a2 /\ W[3] = a3 /\ W[4] = a4 /\ W[5] = FALSE
    OBVIOUS
  <2> HIDE DEF W
  <2>2. CASE p = 1
    <3>1. p # 5 /\ p # 4 /\ p + 1 = 2
      BY <2>2
    <3> QED BY <2>1, <2>2, <3>1, Zenon
  <2>3. CASE p = 2
    <3>1. p # 5 /\ p # 4 /\ p + 1 = 3
      BY <2>3
    <3> QED BY <2>1, <2>3, <3>1, Zenon
  <2>4. CASE p = 3
    <3>1. p # 5 /\ p # 4 /\ p + 1 = 4
      BY <2>4
    <3> QED BY <2>1, <2>4, <3>1, Zenon
  <2>5. CASE p = 4
    <3>1. p # 5
      BY <2>5
    <3> QED BY <2>1, <2>5, <3>1, Zenon
  <2>6. CASE p = 5
    BY <2>1, <2>6, Zenon
  <2>7. p = 1 \/ p = 2 \/ p = 3 \/ p = 4 \/ p = 5
    OBVIOUS
  <2> QED BY <2>2, <2>3, <2>4, <2>5, <2>6, <2>7, Zenon
<1>2. S = Loop(S)
  <2> HIDE DEF W, Loop
  <2> QED BY <1>1, Zenon
<1>3. Allows(permit) = S[1]
  BY Zenon DEF Allows
<1> HIDE DEF S, W
<1>4. S[1] <=> a1
  <2>1. S[4] <=> a4
    BY <1>2
  <2>2. S[3] <=> a3
    BY <1>2, <2>1
  <2>3. S[2] <=> a2
    BY <1>2, <2>2
  <2> QED BY <1>2, <2>3
<1>5. (\A p \in 1 .. 4 : permit[p] \in {Star, ip[p]}) => a1
  OBVIOUS
<1>6. ASSUME TrailingStars(permit), a1
      PROVE  \A p \in 1 .. 4 : permit[p] \in {Star, ip[p]}
  <2>1. /\ permit[1] = Star => permit[2] = Star
        /\ permit[2] = Star => permit[3] = Star
        /\ permit[3] = Star => permit[4] = Star
    BY <1>6 DEF TrailingStars
  <2> QED BY <1>6, <2>1
<1> QED BY <1>3, <1>4, <1>5, <1>6

-----------------------------------------------------------------------------
(***************************************************************************)
(* The bytes of a request.                                                 *)
(***************************************************************************)
\* The eight bytes in front.
Front(s) ==
    <<4, s.cd, (s.port \div 256) % 256, s.port % 256>>
        \o (IF s.host = <<>> THEN s.addr ELSE <<0, 0, 0, 1>>)

Requests == [cd : {1, 2}, port : Ports, addr : Addresses, userid : UserIds, host : Hosts]

\* The parts of a request.
LEMMA RequestParts ==
    ASSUME NEW s \in Requests
    PROVE  /\ s.cd \in {1, 2} /\ s.port \in PortNumber
           /\ s.addr \in [1 .. 4 -> Octet]
           /\ s.userid \in Seq(Octet \ {0}) /\ s.host \in Seq(Octet \ {0})
<1>1. s.cd \in {1, 2} /\ s.port \in Ports /\ s.addr \in Addresses
      /\ s.userid \in UserIds /\ s.host \in Hosts
  BY DEF Requests
<1>2. Ports \subseteq PortNumber
  BY RequestAssumption, Zenon
<1>3. Hosts \cup UserIds \subseteq Seq(Octet \ {0})
  BY RequestAssumption, Zenon
<1>4. Addresses \subseteq [1 .. 4 -> Octet]
  BY RequestAssumption, Zenon
<1>5. s.port \in PortNumber /\ s.addr \in [1 .. 4 -> Octet]
  BY <1>1, <1>2, <1>4, Zenon
<1>6. s.userid \in Seq(Octet \ {0}) /\ s.host \in Seq(Octet \ {0})
  BY <1>1, <1>3, Zenon
<1> QED BY <1>1, <1>5, <1>6

\* A sequence is one of integers when its elements are.
LEMMA IntSeq ==
    ASSUME NEW S \in SUBSET Int, NEW q \in Seq(S)
    PROVE  /\ q \in Seq(Int) /\ Len(q) \in Nat
           /\ \A i \in 1 .. Len(q) : q[i] \in S
<1>1. \A i \in 1 .. Len(q) : q[i] \in S
  BY ElementOfSeq
<1>2. q \in [1 .. Len(q) -> Int] /\ Len(q) \in Nat
  BY <1>1, LenProperties
<1>3. q \in Seq(Int)
  <2>1. PICK m \in Nat : m = Len(q)
    BY <1>2
  <2>2. q \in [1 .. m -> Int]
    BY <1>2, <2>1
  <2> QED BY <2>2, SeqDef
<1> QED BY <1>1, <1>2, <1>3

\* c is a of length m followed by b of length n.
Joins(c, a, b, m, n) ==
    /\ c \in Seq(Int) /\ Len(c) = m + n
    /\ \A i \in 1 .. m : c[i] = a[i]
    /\ \A i \in 1 .. n : c[m + i] = b[i]

\* Joining two sequences of integers.
LEMMA Joined ==
    ASSUME NEW a \in Seq(Int), NEW b \in Seq(Int),
           NEW m \in Nat, NEW n \in Nat, Len(a) = m, Len(b) = n
    PROVE  Joins(a \o b, a, b, m, n)
<1>1. /\ a \o b \in Seq(Int) /\ Len(a \o b) = Len(a) + Len(b)
      /\ \A i \in 1 .. Len(a) + Len(b) :
            (a \o b)[i] = IF i <= Len(a) THEN a[i] ELSE b[i - Len(a)]
  BY ConcatProperties
<1>2. /\ Len(a \o b) = m + n
      /\ \A i \in 1 .. m + n : (a \o b)[i] = IF i <= m THEN a[i] ELSE b[i - m]
  BY <1>1
<1>3. ASSUME NEW i \in 1 .. n
      PROVE  (a \o b)[m + i] = b[i]
  <2>1. m + i \in 1 .. m + n /\ ~(m + i <= m) /\ (m + i) - m = i
    OBVIOUS
  <2> QED BY <1>2, <2>1
<1>4. ASSUME NEW i \in 1 .. m
      PROVE  (a \o b)[i] = a[i]
  <2>1. i \in 1 .. m + n /\ i <= m
    OBVIOUS
  <2> QED BY <1>2, <2>1
<1> QED BY <1>1, <1>2, <1>3, <1>4 DEF Joins

\* What the eight bytes hold.
LEMMA FrontBytes ==
    ASSUME NEW s \in Requests
    PROVE  /\ Front(s) \in Seq(Int) /\ Len(Front(s)) = 8
           /\ Front(s)[2] = s.cd
           /\ Front(s)[3] = (s.port \div 256) % 256 /\ Front(s)[4] = s.port % 256
           /\ s.host = <<>> => \A i \in 1 .. 4 : Front(s)[4 + i] = s.addr[i]
<1> DEFINE F4 == <<4, s.cd, (s.port \div 256) % 256, s.port % 256>>
           A4 == IF s.host = <<>> THEN s.addr ELSE <<0, 0, 0, 1>>
<1> HIDE DEF F4, A4
<1>1. s.cd \in Int /\ s.port \in Int /\ s.addr \in [1 .. 4 -> Octet]
  BY RequestParts DEF PortNumber
<1>2. /\ F4 \in Seq(Int) /\ Len(F4) = 4 /\ F4[2] = s.cd
      /\ F4[3] = (s.port \div 256) % 256 /\ F4[4] = s.port % 256
  BY <1>1 DEF F4
<1>3. A4 \in Seq(Int) /\ Len(A4) = 4 /\ (s.host = <<>> => A4 = s.addr)
  <2>1. CASE s.host = <<>>
    <3>1. s.addr \in [1 .. 4 -> Int]
      BY <1>1 DEF Octet
    <3>2. s.addr \in Seq(Int)
      BY <3>1, SeqDef, Zenon
    <3>3. Len(s.addr) = 4
      BY <3>1, <3>2, LenProperties
    <3>4. A4 = s.addr
      BY <2>1 DEF A4
    <3> QED BY <3>2, <3>3, <3>4
  <2>2. CASE s.host # <<>>
    <3>1. A4 = <<0, 0, 0, 1>>
      BY <2>2 DEF A4
    <3> QED BY <2>2, <3>1
  <2> QED BY <2>1, <2>2
<1>4. Front(s) = F4 \o A4
  BY Zenon DEF Front, F4, A4
<1>5. /\ F4 \o A4 \in Seq(Int) /\ Len(F4 \o A4) = 8
      /\ \A i \in 1 .. 4 : (F4 \o A4)[i] = F4[i]
      /\ \A i \in 1 .. 4 : (F4 \o A4)[4 + i] = A4[i]
  <2>1. PICK k \in Nat : k = 4
    OBVIOUS
  <2>2. Joins(F4 \o A4, F4, A4, k, k)
    <3>1. F4 \in Seq(Int) /\ A4 \in Seq(Int) /\ Len(F4) = k /\ Len(A4) = k
      BY <1>2, <1>3, <2>1
    <3> QED BY <3>1, Joined, Zenon
  <2>3. 4 + 4 = 8
    OBVIOUS
  <2> QED BY <2>1, <2>2, <2>3, Zenon DEF Joins
<1>6. ASSUME s.host = <<>>, NEW i \in 1 .. 4
      PROVE  Front(s)[4 + i] = s.addr[i]
  BY <1>3, <1>4, <1>5, <1>6
<1>7. Front(s)[2] = F4[2] /\ Front(s)[3] = F4[3] /\ Front(s)[4] = F4[4]
  <2>1. 2 \in 1 .. 4 /\ 3 \in 1 .. 4 /\ 4 \in 1 .. 4
    OBVIOUS
  <2>2. (F4 \o A4)[2] = F4[2] /\ (F4 \o A4)[3] = F4[3] /\ (F4 \o A4)[4] = F4[4]
    BY <1>5, <2>1
  <2> QED BY <1>4, <2>2
<1>8. Front(s) \in Seq(Int) /\ Len(Front(s)) = 8
  BY <1>4, <1>5
<1> QED BY <1>2, <1>6, <1>7, <1>8

\* The length of a request with a host.
LEMMA HostLength ==
    ASSUME NEW a \in Nat, NEW b \in Nat
    PROVE  (9 + a) + (b + 1) = 10 + a + b
OBVIOUS

\* B is the eight bytes, a user id of length nu, a 0, and a host of length nh
\* and a 0 if there is one; user id and host hold no 0.
LaidOut(B, s, nu, nh) ==
    /\ nu \in Nat /\ nh \in Nat /\ s.host \in Seq(Octet \ {0})
    /\ s.host = <<>> <=> nh = 0
    /\ B \in Seq(Int)
    /\ Len(B) = IF nh = 0 THEN 9 + nu ELSE 10 + nu + nh
    /\ \A i \in 1 .. 8 : B[i] = Front(s)[i]
    /\ \A i \in 1 .. nu : B[8 + i] # 0
    /\ B[9 + nu] = 0
    /\ nh # 0 => \A i \in 1 .. nh : B[9 + nu + i] = s.host[i]

\* A request is laid out so.
LEMMA RequestBytes ==
    ASSUME NEW s \in Requests, NEW nu, nu = Len(s.userid), NEW nh, nh = Len(s.host)
    PROVE  LaidOut(Bytes(s), s, nu, nh)
<1> DEFINE B1 == Front(s) \o s.userid
           B2 == B1 \o <<0>>
           H1 == IF s.host = <<>> THEN <<>> ELSE s.host \o <<0>>
<1> HIDE DEF B1, B2, H1
<1>1. s.userid \in Seq(Octet \ {0}) /\ s.host \in Seq(Octet \ {0})
  BY RequestParts
<1>2. nu \in Nat /\ nh \in Nat /\ (s.host = <<>> <=> nh = 0)
  BY <1>1, LenProperties, EmptySeq
<1>3. /\ s.userid \in Seq(Int) /\ s.host \in Seq(Int)
      /\ \A i \in 1 .. nu : s.userid[i] \in Octet \ {0}
  <2>1. Octet \ {0} \in SUBSET Int
    BY DEF Octet
  <2> QED BY <1>1, <2>1, IntSeq
<1>4. <<0>> \in Seq(Int) /\ Len(<<0>>) = 1 /\ <<0>>[1] = 0
  OBVIOUS
<1>5. Front(s) \in Seq(Int) /\ Len(Front(s)) = 8
  BY FrontBytes
<1>6. /\ B1 \in Seq(Int) /\ Len(B1) = 8 + nu
      /\ \A i \in 1 .. 8 : B1[i] = Front(s)[i]
      /\ \A i \in 1 .. nu : B1[8 + i] = s.userid[i]
  <2>1. PICK k \in Nat : k = 8
    OBVIOUS
  <2>2. Joins(B1, Front(s), s.userid, k, nu)
    <3>1. /\ Front(s) \in Seq(Int) /\ s.userid \in Seq(Int) /\ nu \in Nat
          /\ Len(Front(s)) = k /\ Len(s.userid) = nu
      BY <1>2, <1>3, <1>5, <2>1
    <3> QED BY <3>1, Joined, Zenon DEF B1
  <2> QED BY <2>1, <2>2 DEF Joins
<1>7. PICK n1 \in Nat : n1 = 8 + nu /\ Len(B1) = n1
  BY <1>2, <1>6
<1>8. /\ B2 \in Seq(Int) /\ Len(B2) = n1 + 1
      /\ \A i \in 1 .. n1 : B2[i] = B1[i]
      /\ \A i \in 1 .. 1 : B2[n1 + i] = <<0>>[i]
  <2>1. 1 \in Nat
    OBVIOUS
  <2>2. Joins(B2, B1, <<0>>, n1, 1)
    BY <1>4, <1>6, <1>7, <2>1, Joined, Zenon DEF B2
  <2> QED BY <2>2, Zenon DEF Joins
<1>9. PICK n2 \in Nat : n2 = 9 + nu
  BY <1>2
<1>10. B2[n2] = 0 /\ Len(B2) = n2
  <2>1. n1 + 1 = n2 /\ 1 \in 1 .. 1
    BY <1>2, <1>7, <1>9
  <2> QED BY <1>4, <1>8, <2>1
<1>11. /\ H1 \in Seq(Int)
       /\ Len(H1) = IF nh = 0 THEN 0 ELSE nh + 1
       /\ nh # 0 => \A i \in 1 .. nh : H1[i] = s.host[i]
  <2>1. CASE nh = 0
    <3>1. H1 = <<>>
      BY <1>2, <2>1 DEF H1
    <3> QED BY <2>1, <3>1, EmptySeq
  <2>2. CASE nh # 0
    <3>1. H1 = s.host \o <<0>>
      BY <1>2, <2>2 DEF H1
    <3>2. Joins(H1, s.host, <<0>>, nh, 1)
      BY <1>2, <1>3, <1>4, <3>1, Joined
    <3> QED BY <2>2, <3>2 DEF Joins
  <2> QED BY <2>1, <2>2
<1>12. PICK m \in Nat : m = (IF nh = 0 THEN 0 ELSE nh + 1) /\ Len(H1) = m
  BY <1>2, <1>11
<1>13. Bytes(s) = B2 \o H1
  BY Zenon DEF Bytes, Front, B1, B2, H1
<1>14. /\ B2 \o H1 \in Seq(Int) /\ Len(B2 \o H1) = n2 + m
       /\ \A i \in 1 .. n2 : (B2 \o H1)[i] = B2[i]
       /\ \A i \in 1 .. m : (B2 \o H1)[n2 + i] = H1[i]
  <2>1. Joins(B2 \o H1, B2, H1, n2, m)
    BY <1>8, <1>9, <1>10, <1>11, <1>12, Joined, Zenon
  <2> QED BY <2>1, Zenon DEF Joins
<1>15. /\ Bytes(s) \in Seq(Int)
       /\ Len(Bytes(s)) = IF nh = 0 THEN 9 + nu ELSE 10 + nu + nh
  <2>1. Bytes(s) \in Seq(Int) /\ Len(Bytes(s)) = n2 + m
    BY <1>13, <1>14
  <2>2. n2 + m = IF nh = 0 THEN 9 + nu ELSE 10 + nu + nh
    <3>1. CASE nh = 0
      BY <1>2, <1>9, <1>12, <3>1
    <3>2. CASE nh # 0
      <4>1. m = nh + 1
        BY <1>12, <3>2
      <4>2. n2 + m = (9 + nu) + (nh + 1)
        BY <1>9, <4>1
      <4>3. (9 + nu) + (nh + 1) = 10 + nu + nh
        BY <1>2, HostLength
      <4> QED BY <3>2, <4>2, <4>3, Zenon
    <3> QED BY <3>1, <3>2
  <2> QED BY <2>1, <2>2
<1>16. \A i \in 1 .. 8 : Bytes(s)[i] = Front(s)[i]
  <2> SUFFICES ASSUME NEW i \in 1 .. 8
               PROVE  Bytes(s)[i] = Front(s)[i]
    OBVIOUS
  <2>1. i \in 1 .. n1 /\ i \in 1 .. n2
    BY <1>2, <1>7, <1>9
  <2> QED BY <1>6, <1>8, <1>13, <1>14, <2>1
<1>17. \A i \in 1 .. nu : Bytes(s)[8 + i] # 0
  <2> SUFFICES ASSUME NEW i \in 1 .. nu
               PROVE  Bytes(s)[8 + i] # 0
    OBVIOUS
  <2>1. 8 + i \in 1 .. n1 /\ 8 + i \in 1 .. n2
    BY <1>2, <1>7, <1>9
  <2>2. Bytes(s)[8 + i] = s.userid[i]
    BY <1>6, <1>8, <1>13, <1>14, <2>1
  <2> QED BY <1>3, <2>2
<1>18. Bytes(s)[9 + nu] = 0
  <2>1. n2 \in 1 .. n2
    BY <1>2, <1>9
  <2> QED BY <1>9, <1>10, <1>13, <1>14, <2>1
<1>19. ASSUME nh # 0, NEW i \in 1 .. nh
       PROVE  Bytes(s)[9 + nu + i] = s.host[i]
  <2>1. i \in 1 .. m /\ n2 + i = 9 + nu + i
    BY <1>2, <1>9, <1>12, <1>19
  <2> QED BY <1>11, <1>13, <1>14, <1>19, <2>1
<1> QED BY <1>1, <1>2, <1>15, <1>16, <1>17, <1>18, <1>19 DEF LaidOut

\* From the first n bytes get_domain finds the first part of the host, whatever
\* the user id before it; all of the host from the whole request, and nothing
\* when no host was sent.
LEMMA DomainOfPart ==
    ASSUME NEW s \in Requests, NEW n \in 1 .. Len(Bytes(s)), NEW C,
           \A i \in 1 .. n : C[i] = Bytes(s)[i]
    PROVE  /\ \E k \in 0 .. Len(s.host) :
                 /\ get_domain(C, n) = SubSeq(s.host, 1, k)
                 /\ Len(get_domain(C, n)) = k
           /\ n = Len(Bytes(s)) => get_domain(C, n) = s.host
<1>1. PICK nu : nu = Len(s.userid)
  OBVIOUS
<1>2. PICK nh : nh = Len(s.host)
  OBVIOUS
<1> DEFINE B == Bytes(s)
           d == get_domain(C, n)
           zeros == {i \in 9 .. n - 1 : C[i] = 0}
<1> HIDE DEF B
<1>3. /\ nu \in Nat /\ nh \in Nat /\ s.host \in Seq(Octet \ {0})
      /\ s.host = <<>> <=> nh = 0
      /\ B \in Seq(Int)
      /\ Len(B) = IF nh = 0 THEN 9 + nu ELSE 10 + nu + nh
      /\ \A i \in 1 .. nu : B[8 + i] # 0
      /\ B[9 + nu] = 0
      /\ nh # 0 => \A i \in 1 .. nh : B[9 + nu + i] = s.host[i]
  <2>1. LaidOut(B, s, nu, nh)
    BY <1>1, <1>2, RequestBytes, Zenon DEF B
  <2> QED BY <2>1 DEF LaidOut
<1>4. PICK len \in Nat : len = Len(B) /\ len = IF nh = 0 THEN 9 + nu ELSE 10 + nu + nh
  BY <1>3
<1>5. n \in 1 .. len /\ n \in Nat /\ \A i \in 1 .. n : C[i] = B[i]
  BY <1>4 DEF B
<1>6. s.host \in Seq(Int)
  <2>1. Octet \ {0} \in SUBSET Int
    BY DEF Octet
  <2> QED BY <1>3, <2>1, IntSeq
<1>7. \A i \in 9 .. 8 + nu : i <= n => C[i] # 0
  <2> SUFFICES ASSUME NEW i \in 9 .. 8 + nu, i <= n
               PROVE  C[i] # 0
    OBVIOUS
  <2>1. i - 8 \in 1 .. nu /\ 8 + (i - 8) = i
    BY <1>3
  <2>2. B[i] # 0
    BY <1>3, <2>1
  <2>3. i \in 1 .. n
    BY <1>3, <1>5
  <2> QED BY <1>5, <2>2, <2>3
<1>8. CASE n <= 9 + nu
  <2>1. zeros = {}
    <3> SUFFICES ASSUME NEW i \in 9 .. n - 1
                 PROVE  C[i] # 0
      OBVIOUS
    <3>1. i \in 9 .. 8 + nu /\ i <= n
      BY <1>3, <1>5, <1>8
    <3> QED BY <1>7, <3>1
  <2>2. d = <<>>
    BY <2>1 DEF get_domain
  <2>3. d = SubSeq(s.host, 1, 0) /\ Len(d) = 0
    <3>1. SubSeq(s.host, 1, 0) = <<>>
      BY SubSeqEmpty
    <3> QED BY <2>2, <3>1, EmptySeq
  <2>4. n = len => d = s.host
    BY <1>3, <1>4, <1>5, <1>8, <2>2
  <2>5. 0 \in 0 .. Len(s.host)
    BY <1>2, <1>3
  <2> QED BY <1>4, <2>3, <2>4, <2>5 DEF B
<1>9. CASE n > 9 + nu
  <2>1. nh # 0 /\ len = 10 + nu + nh
    BY <1>3, <1>4, <1>5, <1>9
  <2>2. PICK k \in Nat : k = n - (10 + nu)
    BY <1>3, <1>5, <1>9
  <2>3. k <= nh /\ n - 1 = 9 + nu + k /\ (n = len <=> k = nh)
    BY <1>3, <1>5, <2>1, <2>2
  <2>4. \A j \in 1 .. k : C[9 + nu + j] = s.host[j] /\ C[9 + nu + j] # 0
    <3> SUFFICES ASSUME NEW j \in 1 .. k
                 PROVE  C[9 + nu + j] = s.host[j] /\ C[9 + nu + j] # 0
      OBVIOUS
    <3>1. j \in 1 .. nh /\ 9 + nu + j \in 1 .. n
      BY <1>3, <1>5, <2>3
    <3>2. C[9 + nu + j] = s.host[j]
      BY <1>3, <1>5, <2>1, <3>1
    <3>3. s.host[j] # 0
      BY <1>2, <1>3, <3>1, ElementOfSeq
    <3> QED BY <3>2, <3>3
  <2>5. C[9 + nu] = 0
    <3>1. 9 + nu \in 1 .. n
      BY <1>3, <1>5, <1>9
    <3> QED BY <1>3, <1>5, <3>1
  <2>6. \A i \in 9 .. n - 1 : C[i] = 0 <=> i = 9 + nu
    <3> SUFFICES ASSUME NEW i \in 9 .. n - 1
                 PROVE  C[i] = 0 <=> i = 9 + nu
      OBVIOUS
    <3>1. CASE i = 9 + nu
      BY <2>5, <3>1
    <3>2. CASE i < 9 + nu
      <4>1. i \in 9 .. 8 + nu /\ i <= n
        BY <1>3, <1>5, <3>2
      <4> QED BY <1>3, <1>7, <3>2, <4>1
    <3>3. CASE i > 9 + nu
      <4>1. PICK j \in 1 .. k : i = 9 + nu + j
        <5>1. i - (9 + nu) \in 1 .. k /\ i = 9 + nu + (i - (9 + nu))
          BY <1>3, <2>2, <2>3, <3>3
        <5> QED BY <5>1
      <4>2. C[i] # 0
        BY <2>4, <4>1
      <4> QED BY <1>3, <3>3, <4>2
    <3> QED BY <1>3, <1>5, <3>1, <3>2, <3>3
  <2>7. zeros = {9 + nu}
    <3>1. 9 + nu \in 9 .. n - 1
      BY <1>3, <1>5, <1>9
    <3> QED BY <2>6, <3>1, Zenon
  <2>8. Min(zeros) = 9 + nu
    <3>1. 9 + nu \in Int
      BY <1>3
    <3> QED BY <2>7, <3>1 DEF Min
  <2>9. PICK m \in Nat, e \in Nat : m = 10 + nu /\ e = 9 + nu + k
    BY <1>3
  <2>10. d = SubSeq(C, m, e)
    <3>1. d = SubSeq(C, Min(zeros) + 1, n - 1)
      BY <2>7 DEF get_domain
    <3>2. Min(zeros) + 1 = m /\ n - 1 = e
      BY <1>3, <2>3, <2>8, <2>9
    <3> QED BY <3>1, <3>2, Zenon
  <2>11. \A i \in m .. e : C[i] \in Int
    <3> SUFFICES ASSUME NEW i \in m .. e
                 PROVE  C[i] \in Int
      OBVIOUS
    <3>1. i \in 1 .. n /\ i \in 1 .. len
      BY <1>3, <1>5, <2>3, <2>9
    <3>2. B[i] \in Int
      BY <1>3, <1>4, <3>1, ElementOfSeq
    <3> QED BY <1>5, <3>1, <3>2
  <2>12. /\ d \in Seq(Int) /\ Len(d) = k
         /\ \A i \in 1 .. k : d[i] = s.host[i]
    <3>1. /\ SubSeq(C, m, e) \in Seq(Int)
          /\ Len(SubSeq(C, m, e)) = IF m <= e THEN e - m + 1 ELSE 0
          /\ \A i \in 1 .. e - m + 1 : SubSeq(C, m, e)[i] = C[m + i - 1]
      <4>1. SubSeq(C, m, e) \in Seq(Int)
        BY <2>11, SubSeqProperties
      <4>2. Len(SubSeq(C, m, e)) = IF m <= e THEN e - m + 1 ELSE 0
        BY <2>11, SubSeqProperties
      <4>3. \A i \in 1 .. e - m + 1 : SubSeq(C, m, e)[i] = C[m + i - 1]
        BY <2>11, SubSeqProperties
      <4> QED BY <4>1, <4>2, <4>3, Zenon
    <3>2. /\ (IF m <= e THEN e - m + 1 ELSE 0) = k
          /\ e - m + 1 = k
          /\ \A i \in 1 .. k : m + i - 1 = 9 + nu + i
      BY <1>3, <2>9
    <3> HIDE DEF d
    <3>3. d \in Seq(Int) /\ Len(d) = k
      BY <2>10, <3>1, <3>2
    <3>4. \A i \in 1 .. k : d[i] = C[9 + nu + i]
      BY <2>10, <3>1, <3>2
    <3> QED BY <2>4, <3>3, <3>4
  <2>13. /\ SubSeq(s.host, 1, k) \in Seq(Int) /\ Len(SubSeq(s.host, 1, k)) = k
         /\ \A i \in 1 .. k : SubSeq(s.host, 1, k)[i] = s.host[i]
    <3>1. PICK o \in Nat : o = 1
      OBVIOUS
    <3>2. \A i \in o .. k : s.host[i] \in Int
      BY <1>2, <1>3, <1>6, <2>3, <3>1, ElementOfSeq
    <3>3. /\ SubSeq(s.host, o, k) \in Seq(Int)
          /\ Len(SubSeq(s.host, o, k)) = IF o <= k THEN k - o + 1 ELSE 0
          /\ \A i \in 1 .. k - o + 1 : SubSeq(s.host, o, k)[i] = s.host[o + i - 1]
      BY <3>2, SubSeqProperties
    <3>4. /\ (IF o <= k THEN k - o + 1 ELSE 0) = k
          /\ k - o + 1 = k
          /\ \A i \in 1 .. k : o + i - 1 = i
      BY <3>1
    <3> QED BY <3>1, <3>3, <3>4
  <2>14. d = SubSeq(s.host, 1, k)
    <3> DEFINE h == SubSeq(s.host, 1, k)
    <3> HIDE DEF d, h
    <3>1. h \in Seq(Int) /\ Len(h) = k /\ \A i \in 1 .. k : h[i] = s.host[i]
      BY <2>13 DEF h
    <3>2. d = h
      BY <2>12, <3>1, SeqEqual
    <3> QED BY <3>2 DEF h
  <2>15. n = len => d = s.host
    <3>1. SubSeq(s.host, 1, Len(s.host)) = s.host
      BY <1>6, SubSeqFull
    <3> QED BY <1>2, <2>3, <2>14, <3>1, Zenon
  <2>16. k \in 0 .. Len(s.host)
    BY <1>2, <1>3, <2>3
  <2> QED BY <1>4, <2>12, <2>14, <2>15, <2>16, Zenon DEF B
<1> QED BY <1>3, <1>5, <1>8, <1>9

-----------------------------------------------------------------------------
(***************************************************************************)
(* The invariant.                                                          *)
(***************************************************************************)
\* Router reads back what was sent, as far as it has read.
LEMMA Decoded ==
    ASSUME Fields, do_router
    PROVE  DecodedIsSent'
<1>1. sent \in Requests /\ request = Bytes(sent)
  BY DEF Fields, Requests
<1>2. PICK nu : nu = Len(sent.userid)
  OBVIOUS
<1>3. PICK nh : nh = Len(sent.host)
  OBVIOUS
<1>4. LaidOut(request, sent, nu, nh)
  BY <1>1, <1>2, <1>3, RequestBytes, Zenon
<1>5. \A i \in 1 .. 8 : request[i] = Front(sent)[i]
  BY <1>4, Zenon DEF LaidOut
<1>6. PICK len \in Nat : len = Len(request)
  <2>1. request \in Seq(Int)
    BY <1>4, Zenon DEF LaidOut
  <2> QED BY <2>1, LenProperties
<1> DEFINE Mem(n, junk) == [i \in 1 .. (IF n < 8 THEN 8 ELSE n) |->
                               IF i <= n THEN request[i] ELSE junk[i]]
<1>7. PICK n \in 1 .. Len(request) : \E junk \in [n + 1 .. 8 -> Junk] :
         /\ got' = n
         /\ CD' = Mem(n, junk)[2]
         /\ DSTPORT' = Byte(Mem(n, junk)[3]) * 256 + Byte(Mem(n, junk)[4])
         /\ DSTIP' = get_DSTIP(Mem(n, junk))
         /\ domain' = get_domain(Mem(n, junk), n)
  BY Zenon DEF do_router
<1>8. PICK junk \in [n + 1 .. 8 -> Junk] :
         /\ got' = n
         /\ CD' = Mem(n, junk)[2]
         /\ DSTPORT' = Byte(Mem(n, junk)[3]) * 256 + Byte(Mem(n, junk)[4])
         /\ DSTIP' = get_DSTIP(Mem(n, junk))
         /\ domain' = get_domain(Mem(n, junk), n)
  BY <1>7, Zenon
<1> DEFINE C == Mem(n, junk)
<1>9. n \in Nat /\ n >= 1 /\ n <= len
  BY <1>6
<1>10. \A i \in 1 .. n : C[i] = request[i]
  BY <1>9
<1> HIDE DEF C
<1>11. /\ got' = n /\ CD' = C[2] /\ DSTPORT' = C[3] * 256 + C[4]
       /\ DSTIP' = SubSeq(C, 5, 8) /\ domain' = get_domain(C, n)
  BY <1>8, Zenon DEF C, Byte, get_DSTIP
<1>12. sent' = sent /\ request' = request
  BY DEF do_router
<1>13. ASSUME n >= 8
       PROVE  CD' = sent.cd /\ DSTPORT' = sent.port /\ (sent.host = <<>> => DSTIP' = sent.addr)
  <2>1. \A i \in 1 .. 8 : C[i] = Front(sent)[i]
    BY <1>5, <1>9, <1>10, <1>13
  <2>2. CD' = sent.cd
    BY <1>1, <1>11, <2>1, FrontBytes
  <2>3. DSTPORT' = sent.port
    <3>1. C[3] = (sent.port \div 256) % 256 /\ C[4] = sent.port % 256
      BY <1>1, <2>1, FrontBytes
    <3>2. PICK p \in PortNumber : p = sent.port
      BY <1>1, RequestParts
    <3>3. ((p \div 256) % 256) * 256 + (p % 256) = p
      <4>1. p \in Nat /\ p < 65536
        BY DEF PortNumber
      <4>2. PICK q \in Int : q = p \div 256
        BY <4>1
      <4>3. PICK r \in Int : r = p % 256
        BY <4>1
      <4>4. p = 256 * q + r /\ 0 <= r /\ r < 256
        BY <4>1, <4>2, <4>3
      <4>5. q >= 0 /\ q < 256
        BY <4>1, <4>4
      <4>6. q % 256 = q
        BY <4>5
      <4>7. q * 256 + r = p
        BY <4>4
      <4> QED BY <4>2, <4>3, <4>6, <4>7, Zenon
    <3> QED BY <1>11, <3>1, <3>2, <3>3, Zenon
  <2>4. ASSUME sent.host = <<>>
        PROVE  DSTIP' = sent.addr
    <3>1. sent.addr \in [1 .. 4 -> Octet]
      BY <1>1, RequestParts
    <3>2. \A i \in 1 .. 4 : C[4 + i] = sent.addr[i]
      <4>1. \A i \in 1 .. 4 : Front(sent)[4 + i] = sent.addr[i]
        BY <1>1, <2>4, FrontBytes
      <4>2. \A i \in 1 .. 4 : 4 + i \in 1 .. 8
        OBVIOUS
      <4> QED BY <2>1, <4>1, <4>2
    <3>3. SubSeq(C, 5, 8) = [i \in 1 .. 4 |-> C[4 + i]]
      OBVIOUS
    <3> QED BY <1>11, <3>1, <3>2, <3>3
  <2> QED BY <2>2, <2>3, <2>4
<1>14. /\ \E k \in 0 .. nh : domain' = SubSeq(sent.host, 1, k) /\ Len(domain') = k
       /\ n = len => domain' = sent.host
  <2>1. n \in 1 .. Len(Bytes(sent)) /\ \A i \in 1 .. n : C[i] = Bytes(sent)[i]
    BY <1>1, <1>6, <1>9, <1>10
  <2>2. /\ \E k \in 0 .. Len(sent.host) :
              /\ get_domain(C, n) = SubSeq(sent.host, 1, k)
              /\ Len(get_domain(C, n)) = k
        /\ n = Len(Bytes(sent)) => get_domain(C, n) = sent.host
    <3>1. sent \in Requests
      BY <1>1
    <3> QED BY <2>1, <3>1, DomainOfPart, Zenon
  <2> QED BY <1>1, <1>3, <1>6, <1>11, <2>2, Zenon
<1>15. PICK k \in 0 .. nh : domain' = SubSeq(sent.host, 1, k) /\ Len(domain') = k
  BY <1>14
<1>16. domain' = SubSeq(sent.host, 1, Len(domain')) /\ Len(domain') <= Len(sent.host)
  <2>1. k <= nh
    BY <1>4, <1>15 DEF LaidOut
  <2> QED BY <1>3, <1>15, <2>1
<1>17. got' >= 8 <=> n >= 8
  BY <1>11
<1>18. got' = Len(request) <=> n = len
  BY <1>6, <1>11
<1> QED BY <1>12, <1>13, <1>14, <1>16, <1>17, <1>18, Zenon DEF DecodedIsSent

\* The parts of the request and what was read of it.
LEMMA FieldsKept ==
    ASSUME Fields, [Next]_vars
    PROVE  Fields'
<1>1. CASE do_router
  <2>1. UNCHANGED <<sent, request>>
    BY <1>1 DEF do_router
  <2> QED BY <1>1, <2>1, Decoded DEF Fields
<1>2. ASSUME UNCHANGED <<sent, request, got, CD, DSTPORT, DSTIP, domain>>,
             st' # "sent" => st # "sent"
      PROVE  Fields'
  BY <1>2 DEF Fields, DecodedIsSent
<1>3. CASE Ignore
  BY <1>2, <1>3 DEF Ignore
<1>4. CASE firewall
  BY <1>2, <1>4 DEF firewall
<1>5. CASE firewall_ipv6
  BY <1>2, <1>5 DEF firewall_ipv6
<1>6. CASE JudgeLine
  BY <1>2, <1>6 DEF JudgeLine
<1>7. CASE EndOfFile
  BY <1>2, <1>7 DEF EndOfFile
<1>8. CASE UNCHANGED vars
  BY <1>2, <1>8 DEF vars
<1> QED BY <1>1, <1>3, <1>4, <1>5, <1>6, <1>7, <1>8 DEF Next

\* The lines of a file.
LEMMA FileLines ==
    ASSUME NEW f \in Files
    PROVE  /\ f \in Seq(RuleLines) /\ Len(f) \in Nat
           /\ \A k \in 1 .. Len(f) : f[k] \in RuleLines
           /\ WellFormed(f) =>
                 /\ Len(f) > 0 => f[1].fields = 5
                 /\ \A k \in 1 .. Len(f) :
                       f[k].fields = 0
                          \/ (f[k].fields = 5 /\ TrailingStars(f[k].permit))
<1>1. f \in Seq(RuleLines)
  BY RequestAssumption, Zenon
<1>2. Len(f) \in Nat /\ DOMAIN f = 1 .. Len(f)
  BY <1>1, LenProperties
<1>3. Len(f) > 0 => f # <<>>
  BY <1>2, EmptySeq
<1> QED BY <1>1, <1>2, <1>3, ElementOfSeq DEF WellFormed

\* Line k of the file, a rule: the loop over its octets allows the request when
\* it is one of those that do, and only then when the file is well formed.
LEMMA Judged ==
    ASSUME conf.file \in Files, NEW k \in 1 .. Len(conf.file), conf.file[k].fields = 5
    PROVE  /\ k \in Permitting => CD = conf.file[k].mode /\ Allows(conf.file[k].permit)
           /\ /\ WellFormed(conf.file)
              /\ CD = conf.file[k].mode /\ Allows(conf.file[k].permit)
              => k \in Permitting
<1>1. k \in DOMAIN conf.file
  BY FileLines, LenProperties
<1>2. ASSUME k \in Permitting
      PROVE  CD = conf.file[k].mode /\ Allows(conf.file[k].permit)
  BY <1>2, AllowsEvery, Zenon DEF Permitting
<1>3. ASSUME WellFormed(conf.file), CD = conf.file[k].mode, Allows(conf.file[k].permit)
      PROVE  k \in Permitting
  <2>1. TrailingStars(conf.file[k].permit)
    <3>1. conf.file[k].fields # 0
      OBVIOUS
    <3> QED BY <1>3, <3>1, FileLines, Zenon
  <2>2. \A p \in 1 .. 4 : conf.file[k].permit[p] \in {Star, ip[p]}
    BY <1>3, <2>1, AllowsEvery, Zenon
  <2> QED BY <1>1, <1>3, <2>2, Zenon DEF Permitting
<1> QED BY <1>2, <1>3, Zenon

\* The file is opened.
LEMMA RulesFirewall ==
    ASSUME Rules, firewall
    PROVE  Rules'
<1> USE DEF Rules
<1>1. /\ st = "read" /\ conf' = conf /\ verdict' = verdict
      /\ st' = IF conf.open THEN "judge" ELSE "done"
  BY DEF firewall
<1>2. verdict = FALSE /\ conf.lines = conf.file
  BY <1>1, Zenon
<1>3. CASE conf.open
  <2>1. ReadTo(0)'
    <3>1. PICK n \in Nat : n = Len(conf.file)
      BY FileLines
    <3>2. /\ Len(conf.lines) = Len(conf.file) - 0
          /\ \A j \in DOMAIN conf.lines : conf.lines[j] = conf.file[0 + j]
      <4>1. DOMAIN conf.lines = 1 .. n
        BY <1>2, <3>1, FileLines, LenProperties
      <4> QED BY <1>2, <3>1, <4>1
    <3>3. ~(\E k : k \in 1 .. 0) /\ ~(0 > 0)
      OBVIOUS
    <3> QED BY <1>1, <3>2, <3>3 DEF ReadTo
  <2>2. 0 \in 0 .. Len(conf'.file)
    BY <1>1, FileLines
  <2>3. st' = "judge"
    BY <1>1, <1>3
  <2> QED BY <1>1, <1>2, <1>3, <2>1, <2>2, <2>3 DEF PermitsByRules
<1>4. CASE ~conf.open
  BY <1>1, <1>2, <1>4 DEF PermitsByRules
<1> QED BY <1>3, <1>4

\* The file ends without a rule that allows the request.
LEMMA RulesEnd ==
    ASSUME Rules, EndOfFile
    PROVE  Rules'
<1> USE DEF Rules
<1>1. /\ st = "judge" /\ conf.lines = <<>> /\ st' = "done"
      /\ UNCHANGED <<CD, ip, conf, verdict>>
  BY DEF EndOfFile
<1>2. PICK n \in 0 .. Len(conf.file) : ReadTo(n)
  BY <1>1
<1>3. PICK m \in Nat : m = Len(conf.file)
  BY FileLines
<1>4. n = m
  <2>1. Len(conf.lines) = 0 /\ Len(conf.lines) = Len(conf.file) - n
    BY <1>1, <1>2, EmptySeq DEF ReadTo
  <2> QED BY <1>3, <2>1
<1>5. DOMAIN conf.file = 1 .. n
  BY <1>3, <1>4, FileLines, LenProperties
<1>6. Permitting = {}
  BY <1>2, <1>5 DEF ReadTo, Permitting
<1>7. Permitting' = {}
  BY <1>1, <1>6 DEF Permitting
<1>8. verdict' = FALSE
  BY <1>1
<1>9. PermitsByRules'
  BY <1>7, <1>8 DEF PermitsByRules
<1> QED BY <1>1, <1>9

\* One line is judged: it allows the request when it is one of the rules that
\* do; and in a well-formed file only then, for a blank line is judged by the
\* rule before it, which did not.
LEMMA RulesLine ==
    ASSUME Rules, JudgeLine
    PROVE  Rules'
<1> USE DEF Rules
<1> DEFINE l == Head(conf.lines)
           r == [mode |-> IF l.fields > 0 THEN l.mode ELSE rule.mode,
                 permit |-> [p \in 1 .. 4 |-> IF l.fields > p THEN l.permit[p]
                                              ELSE rule.permit[p]]]
           allowed == CD = r.mode /\ Allows(r.permit)
<1>1. /\ st = "judge" /\ conf.lines # <<>>
      /\ rule' = r /\ verdict' = allowed
      /\ st' = IF allowed THEN "done" ELSE "judge"
      /\ conf' = [conf EXCEPT !.lines = Tail(conf.lines)]
      /\ CD' = CD /\ ip' = ip
  BY Zenon DEF JudgeLine
<1> HIDE DEF l, r, allowed
<1>2. /\ conf'.open = conf.open /\ conf'.file = conf.file /\ conf'.lines = Tail(conf.lines)
      /\ conf' = [open |-> conf'.open, lines |-> conf'.lines, file |-> conf'.file]
  BY <1>1
<1>3. PICK n \in 0 .. Len(conf.file) : ReadTo(n)
  BY <1>1
<1>4. PICK m \in Nat : m = Len(conf.file)
  BY FileLines
<1>5. PICK len \in Nat : len = Len(conf.lines)
  BY LenProperties
<1>6. len = m - n /\ len > 0 /\ n + 1 \in 1 .. m
  <2>1. len = m - n
    BY <1>3, <1>4, <1>5 DEF ReadTo
  <2>2. len # 0
    BY <1>1, <1>5, EmptySeq
  <2> QED BY <1>3, <1>4, <2>1, <2>2
<1>7. DOMAIN conf.lines = 1 .. len /\ DOMAIN conf.file = 1 .. m
  BY <1>4, <1>5, FileLines, LenProperties
<1>8. l = conf.file[n + 1]
  <2>1. l = conf.lines[1] /\ 1 \in 1 .. len
    BY <1>1, <1>6 DEF l
  <2> QED BY <1>3, <1>7, <2>1 DEF ReadTo
<1>9. n + 1 \in 1 .. Len(conf.file) /\ l \in RuleLines
  BY <1>4, <1>6, <1>8, FileLines
<1>10. ASSUME l.fields = 5
       PROVE  r = [mode |-> conf.file[n + 1].mode, permit |-> conf.file[n + 1].permit]
  <2>1. l.permit \in [1 .. 4 -> Octet \cup {Star}]
    BY <1>9 DEF RuleLines, Permits
  <2>2. l.fields > 0 /\ \A p \in 1 .. 4 : l.fields > p
    BY <1>10
  <2>3. r.permit = l.permit
    <3>1. r.permit = [p \in 1 .. 4 |-> l.permit[p]]
      BY <2>2, Zenon DEF r
    <3> QED BY <2>1, <3>1
  <2>4. r.mode = l.mode
    BY <2>2 DEF r
  <2>5. r = [mode |-> r.mode, permit |-> r.permit]
    BY DEF r
  <2> QED BY <1>8, <2>3, <2>4, <2>5, Zenon
<1>11. ASSUME WellFormed(conf.file), l.fields # 5
       PROVE  /\ n > 0 /\ r = rule
              /\ \E k \in 1 .. n :
                    /\ conf.file[k].fields = 5
                    /\ rule = [mode |-> conf.file[k].mode, permit |-> conf.file[k].permit]
  <2>1. l.fields = 0
    BY <1>8, <1>9, <1>11, FileLines, Zenon
  <2>2. n > 0
    <3>1. n = 0 => conf.file[n + 1].fields = 5
      BY <1>4, <1>6, <1>11, FileLines
    <3> QED BY <1>3, <1>4, <1>8, <1>11, <3>1
  <2>3. PICK k \in 1 .. n :
           /\ conf.file[k].fields = 5
           /\ rule = [mode |-> conf.file[k].mode, permit |-> conf.file[k].permit]
    BY <1>3, <1>11, <2>2 DEF ReadTo
  <2>4. k \in 1 .. Len(conf.file)
    BY <1>3, <1>4, <1>6
  <2>5. conf.file[k].permit \in [1 .. 4 -> Octet \cup {Star}]
    <3>1. conf.file[k] \in RuleLines
      BY <2>4, FileLines
    <3> QED BY <3>1 DEF RuleLines, Permits
  <2>6. r.permit = rule.permit
    <3>1. ~(l.fields > 0) /\ \A p \in 1 .. 4 : ~(l.fields > p)
      BY <2>1
    <3>2. r.permit = [p \in 1 .. 4 |-> rule.permit[p]]
      BY <3>1, Zenon DEF r
    <3>3. rule.permit = conf.file[k].permit
      BY <2>3
    <3> QED BY <2>5, <3>2, <3>3
  <2>7. r.mode = rule.mode
    BY <2>1 DEF r
  <2>8. r = [mode |-> r.mode, permit |-> r.permit]
    BY DEF r
  <2>9. rule = [mode |-> rule.mode, permit |-> rule.permit]
    BY <2>3
  <2> QED BY <2>2, <2>3, <2>6, <2>7, <2>8, <2>9, Zenon
<1>12. n + 1 \in Permitting => allowed
  <2> SUFFICES ASSUME n + 1 \in Permitting
               PROVE  allowed
    OBVIOUS
  <2>1. conf.file[n + 1].fields = 5
    BY DEF Permitting
  <2>2. CD = conf.file[n + 1].mode /\ Allows(conf.file[n + 1].permit)
    BY <1>9, <2>1, Judged, Zenon
  <2>3. r.mode = conf.file[n + 1].mode /\ r.permit = conf.file[n + 1].permit
    BY <1>8, <1>10, <2>1
  <2> QED BY <2>2, <2>3, Zenon DEF allowed
<1>13. ASSUME WellFormed(conf.file), allowed
       PROVE  n + 1 \in Permitting
  <2>1. CASE l.fields = 5
    <3>1. r.mode = conf.file[n + 1].mode /\ r.permit = conf.file[n + 1].permit
      BY <1>10, <2>1
    <3>2. CD = conf.file[n + 1].mode /\ Allows(conf.file[n + 1].permit)
      BY <1>13, <3>1, Zenon DEF allowed
    <3> QED BY <1>8, <1>9, <1>13, <2>1, <3>2, Judged, Zenon
  <2>2. CASE l.fields # 5
    <3>1. PICK k \in 1 .. n :
             /\ conf.file[k].fields = 5
             /\ r = [mode |-> conf.file[k].mode, permit |-> conf.file[k].permit]
      BY <1>11, <1>13, <2>2, Zenon
    <3>2. CD = conf.file[k].mode /\ Allows(conf.file[k].permit)
      <4>1. r.mode = conf.file[k].mode /\ r.permit = conf.file[k].permit
        BY <3>1
      <4> QED BY <1>13, <4>1, Zenon DEF allowed
    <3>3. k \in 1 .. Len(conf.file)
      BY <1>3, <1>4, <1>6
    <3>4. k \in Permitting
      BY <1>13, <3>1, <3>2, <3>3, Judged, Zenon
    <3> QED BY <1>3, <3>1, <3>4 DEF ReadTo
  <2> QED BY <2>1, <2>2
<1>14. Permitting' = Permitting
  BY <1>1, <1>2 DEF Permitting
<1>15. /\ conf'.lines \in Seq(RuleLines) /\ Len(conf'.lines) = len - 1
       /\ \A j \in 1 .. len - 1 : conf'.lines[j] = conf.lines[j + 1]
  BY <1>1, <1>2, <1>5, HeadTailProperties
<1>16. CASE allowed
  <2>1. st' = "done" /\ verdict' = TRUE
    BY <1>1, <1>16
  <2>2. WellFormed(conf'.file) => Permitting' # {} /\ conf'.open
    BY <1>1, <1>2, <1>14, <1>16, <1>13
  <2>3. PermitsByRules'
    BY <2>1, <2>2 DEF PermitsByRules
  <2> QED BY <1>2, <1>15, <2>1, <2>3
<1>17. CASE ~allowed
  <2>1. st' = "judge" /\ verdict' = FALSE
    BY <1>1, <1>17
  <2>2. ReadTo(n + 1)'
    <3>1. Len(conf'.lines) = Len(conf'.file) - (n + 1)
      BY <1>2, <1>3, <1>4, <1>6, <1>15
    <3>2. \A j \in DOMAIN conf'.lines : conf'.lines[j] = conf'.file[(n + 1) + j]
      <4>1. DOMAIN conf'.lines = 1 .. len - 1
        BY <1>6, <1>15, LenProperties
      <4> SUFFICES ASSUME NEW j \in 1 .. len - 1
                   PROVE  conf'.lines[j] = conf'.file[(n + 1) + j]
        BY <4>1
      <4>2. j + 1 \in 1 .. len /\ n + (j + 1) = (n + 1) + j
        <5>1. n \in Nat
          BY <1>3, <1>4
        <5>2. j \in Nat /\ j >= 1 /\ j <= len - 1
          BY <1>6
        <5>3. j + 1 \in 1 .. len
          BY <5>2
        <5> QED BY <5>1, <5>2, <5>3
      <4>3. conf.lines[j + 1] = conf.file[n + (j + 1)]
        BY <1>3, <1>7, <4>2 DEF ReadTo
      <4> QED BY <1>2, <1>15, <4>2, <4>3
    <3>3. \A k \in 1 .. n + 1 : k \notin Permitting'
      <4>1. \A k \in 1 .. n + 1 : k \in 1 .. n \/ k = n + 1
        BY <1>3, <1>4
      <4> QED BY <1>3, <1>14, <1>17, <1>12, <4>1 DEF ReadTo
    <3>4. ASSUME WellFormed(conf'.file)
          PROVE  \E k \in 1 .. n + 1 :
                    /\ conf'.file[k].fields = 5
                    /\ rule' = [mode |-> conf'.file[k].mode, permit |-> conf'.file[k].permit]
      <4>1. CASE l.fields = 5
        <5>1. n + 1 \in 1 .. n + 1
          BY <1>3
        <5> QED BY <1>1, <1>2, <1>8, <1>10, <4>1, <5>1
      <4>2. CASE l.fields # 5
        <5>1. PICK k \in 1 .. n :
                 /\ conf.file[k].fields = 5
                 /\ r = [mode |-> conf.file[k].mode, permit |-> conf.file[k].permit]
          BY <1>2, <1>11, <3>4, <4>2, Zenon
        <5>2. k \in 1 .. n + 1
          BY <1>3
        <5> QED BY <1>1, <1>2, <5>1, <5>2
      <4> QED BY <4>1, <4>2
    <3> QED BY <3>1, <3>2, <3>3, <3>4 DEF ReadTo
  <2>3. n + 1 \in 0 .. Len(conf'.file)
    BY <1>2, <1>4, <1>6
  <2>4. PermitsByRules'
    BY <2>1 DEF PermitsByRules
  <2> QED BY <1>1, <1>2, <1>15, <2>1, <2>2, <2>3, <2>4
<1> QED BY <1>16, <1>17

-----------------------------------------------------------------------------
(***************************************************************************)
(* The theorems.                                                           *)
(***************************************************************************)
\* The invariant holds in every reachable state, whatever is asked, however much
\* of it the read brings, and whatever the file of rules is.
THEOREM Invariance == Spec => []Inv
<1>1. Init => Inv
  <2> SUFFICES ASSUME Init
               PROVE  Inv
    OBVIOUS
  <2>1. Fields
    BY DEF Init, Fields, DecodedIsSent
  <2>2. Rules
    <3>1. /\ st = "sent" /\ verdict = FALSE
          /\ conf \in [open : BOOLEAN, lines : Files, file : Files]
          /\ conf.file = conf.lines
      BY DEF Init
    <3>2. conf.file \in Files /\ conf.lines \in Files
          /\ conf = [open |-> conf.open, lines |-> conf.lines, file |-> conf.file]
      BY <3>1
    <3>3. conf.lines \in Seq(RuleLines)
      BY <3>2, FileLines
    <3> QED BY <3>1, <3>2, <3>3 DEF Rules, PermitsByRules
  <2> QED BY <2>1, <2>2 DEF Inv
<1>2. Inv /\ [Next]_vars => Inv'
  <2> SUFFICES ASSUME Inv, [Next]_vars
               PROVE  Inv'
    OBVIOUS
  <2>1. Fields'
    BY FieldsKept DEF Inv
  <2>2. Rules'
    <3>0. Rules
      BY DEF Inv
    <3>1. CASE do_router
      <4>1. /\ st = "sent" /\ st' = "read"
            /\ UNCHANGED <<ip, conf, rule, verdict>>
        BY <3>1 DEF do_router
      <4> QED BY <3>0, <4>1 DEF Rules, PermitsByRules
    <3>2. CASE firewall
      BY <3>0, <3>2, RulesFirewall
    <3>3. CASE Ignore
      <4>1. st' = "ignored" /\ UNCHANGED <<conf, verdict>>
        BY <3>3 DEF Ignore
      <4> QED BY <3>0, <4>1 DEF Rules, PermitsByRules
    <3>4. CASE firewall_ipv6
      <4>1. st' = "overflow" /\ UNCHANGED conf
        BY <3>4 DEF firewall_ipv6
      <4> QED BY <3>0, <4>1 DEF Rules, PermitsByRules
    <3>5. CASE JudgeLine
      BY <3>0, <3>5, RulesLine
    <3>6. CASE EndOfFile
      BY <3>0, <3>6, RulesEnd
    <3>7. CASE UNCHANGED vars
      <4>1. UNCHANGED <<st, CD, ip, conf, rule, verdict>>
        BY <3>7 DEF vars
      <4>2. Permitting' = Permitting
        BY <4>1 DEF Permitting
      <4>3. \A n : ReadTo(n)' <=> ReadTo(n)
        BY <4>1, <4>2 DEF ReadTo
      <4>4. PermitsByRules' <=> PermitsByRules
        BY <4>1, <4>2 DEF PermitsByRules
      <4> QED BY <3>0, <4>1, <4>3, <4>4 DEF Rules
    <3> QED BY <3>1, <3>2, <3>3, <3>4, <3>5, <3>6, <3>7 DEF Next
  <2> QED BY <2>1, <2>2 DEF Inv
<1> QED BY <1>1, <1>2, PTL DEF Spec

\* Of any part of the request that its one read brings, Router decodes what the
\* client sent: command, port and address once the first eight bytes are there,
\* never more of the host than was sent, and all of it from the whole request,
\* for every port, host and user id (320-358).
THEOREM DecodedCorrect == Spec => []DecodedIsSent
<1>1. Inv => DecodedIsSent
  BY DEF Inv, Fields
<1> QED BY <1>1, Invariance, PTL

\* For every file, half lines, stars in front of octets and blank first lines
\* with them: firewall() never turns away what a rule of the file allows; and
\* for every well-formed file it lets nothing else through, blank lines or not
\* (19-51).
THEOREM PermitsCorrect == Spec => []PermitsByRules
<1>1. Inv => PermitsByRules
  BY DEF Inv, Rules
<1> QED BY <1>1, Invariance, PTL

=============================================================================
