-------------------------------- MODULE Socks4 --------------------------------
(***************************************************************************)
(* The request of a SOCKS4 client as bytes, how Router takes it apart, and *)
(* firewall(), which reads the rules of socks.conf line by line            *)
(* (project4/socks_server.cpp).  The console of project4 builds a request  *)
(* without a user id; other clients send one, or no host.                  *)
(***************************************************************************)
EXTENDS Integers, Sequences, FiniteSetsExt

CONSTANTS
    Ports, Hosts, UserIds,  \* what requests ask for; hosts and ids are bytes
    Addresses,              \* addresses: four octets
    Files,                  \* rule files: sequences of lines
    Junk, JunkRules         \* what memory may hold before it is written: bytes
                            \* of client_data_, and a rule in mode and permit_ip

PortNumber == {n \in Nat : n < 65536}
Octet == {n \in Nat : n < 256}
Star == 256                 \* "*", no octet

\* A line: how many of the command (1 for c, 2 for b, 0 for another letter) and
\* of the four parts of the address it has; 0 fields: a blank line.
Permits == [1 .. 4 -> Octet \cup {Star}]
RuleLines == [fields : 0 .. 5, mode : 0 .. 2, permit : Permits]

ASSUME RequestAssumption ==
    /\ Ports \subseteq PortNumber
    /\ Hosts \cup UserIds \subseteq Seq(Octet \ {0}) /\ <<>> \in Hosts
    /\ Addresses \subseteq [1 .. 4 -> Octet]
    /\ Files \subseteq Seq(RuleLines)
    /\ Junk \subseteq Octet /\ Junk # {}
    /\ JunkRules \subseteq [mode : 0 .. 2, permit : Permits] /\ JunkRules # {}

VARIABLES
    st,         \* "sent", "read", "judge", "done"; "ignored": no such command;
                \* "overflow": undefined
    sent,       \* what the client asks for
    request,    \* the bytes of it
    got,        \* how many of them the read has returned
    CD, DSTPORT, DSTIP, domain,     \* Router's fields
    ip,         \* the address the firewall is asked about
    conf,       \* socks.conf: whether it can be opened, and the lines left
    rule,       \* the locals of the loop in firewall, kept over an iteration
    verdict

vars == <<st, sent, request, got, CD, DSTPORT, DSTIP, domain, ip, conf, rule, verdict>>

\* Before the first line, where nothing reads them.
NoRule == [mode |-> 0, permit |-> [p \in 1 .. 4 |-> 0]]

-----------------------------------------------------------------------------
\* The request: 4, command, port, address, user id and 0, and a host and 0
\* when there is one; the address is then 0.0.0.1.
Bytes(s) ==
    <<4, s.cd, (s.port \div 256) % 256, s.port % 256>>
        \o (IF s.host = <<>> THEN s.addr ELSE <<0, 0, 0, 1>>)
        \o s.userid \o <<0>>
        \o (IF s.host = <<>> THEN <<>> ELSE s.host \o <<0>>)

Init ==
    /\ st = "sent"
    /\ sent \in [cd : {1, 2}, port : Ports, addr : Addresses, userid : UserIds,
                 host : Hosts]
    /\ request = Bytes(sent)
    /\ got = 0
    /\ CD = 0 /\ DSTPORT = 0 /\ DSTIP = <<>> /\ domain = <<>> /\ ip = <<>>
    /\ conf \in [open : BOOLEAN, lines : Files, file : Files]
    /\ conf.file = conf.lines
    /\ rule = NoRule
    /\ verdict = FALSE

\* Mutant of Byte: the bytes are of type char.
SignedByte(b) == IF b > 127 THEN b - 256 ELSE b

\* client_data_ holds unsigned chars.
Byte(b) == b

\* The bytes after the user id, all but the last that was read.  The loop runs
\* over the bytes from the ninth to the last but one: those before the first 0
\* are the user id's, those after it the host's.
get_domain(bytes, length) ==
    LET zeros == {i \in 9 .. length - 1 : bytes[i] = 0}
    IN  IF zeros = {} THEN <<>> ELSE SubSeq(bytes, Min(zeros) + 1, length - 1)

get_DSTIP(bytes) == SubSeq(bytes, 5, 8)

\* One read returns any part of the request; of the eight bytes that are looked
\* at in any case, those that have not arrived are what the memory held.
do_router ==
    /\ st = "sent"
    /\ \E n \in 1 .. Len(request) : \E junk \in [n + 1 .. 8 -> Junk] :
          LET client_data_ == [i \in 1 .. (IF n < 8 THEN 8 ELSE n) |->
                                  IF i <= n THEN request[i] ELSE junk[i]]
          IN  /\ got' = n
              /\ CD' = client_data_[2]
              /\ DSTPORT' = Byte(client_data_[3]) * 256 + Byte(client_data_[4])
              /\ DSTIP' = get_DSTIP(client_data_)
              /\ domain' = get_domain(client_data_, n)
    /\ st' = "read"
    /\ UNCHANGED <<sent, request, ip, conf, rule, verdict>>

\* Neither CONNECT nor BIND: Router goes, and its connection with it.
Ignore ==
    /\ st = "read" /\ CD \notin {1, 2}
    /\ st' = "ignored"
    /\ UNCHANGED <<sent, request, got, CD, DSTPORT, DSTIP, domain, ip, conf, rule, verdict>>

\* CONNECT asks about the address that the domain, or the address in its
\* place, resolves to; BIND about the address of the request.
firewall ==
    /\ st = "read" /\ CD \in {1, 2}
    /\ IF CD = 1 /\ domain # <<>> THEN ip' \in Addresses ELSE ip' = DSTIP
    /\ rule' \in JunkRules
    /\ st' = IF conf.open THEN "judge" ELSE "done"
    /\ UNCHANGED <<sent, request, got, CD, DSTPORT, DSTIP, domain, conf, verdict>>

\* The domain resolves to an IPv6 address: its text has no dot, and sscanf
\* writes it past the end of my_ip[0], so that anything may be answered.
firewall_ipv6 ==
    /\ st = "read" /\ CD = 1 /\ domain # <<>> /\ conf.open
    /\ st' = "overflow"
    /\ verdict' \in BOOLEAN
    /\ UNCHANGED <<sent, request, got, CD, DSTPORT, DSTIP, domain, ip, conf, rule>>

\* Mutant of Allows: no break at an octet that differs.
AllowsOn(permit) ==
    LET scan[p \in 1 .. 5] ==
            IF p = 5 THEN FALSE
            ELSE permit[p] = Star \/ (permit[p] = ip[p] /\ p = 4) \/ scan[p + 1]
    IN  scan[1]

\* The loop over the four octets; it ends at the first star.
Allows(permit) ==
    LET scan[p \in 1 .. 5] ==
            IF p = 5 THEN FALSE
            ELSE \/ permit[p] = Star
                 \/ permit[p] = ip[p] /\ (p = 4 \/ scan[p + 1])
    IN  scan[1]

\* One line.  sscanf leaves alone what the line has no field for: mode and
\* permit_ip then hold what the iteration before left there, and before the
\* first one what the memory held.
JudgeLine ==
    /\ st = "judge" /\ conf.lines # <<>>
    /\ LET l == Head(conf.lines)
           r == [mode |-> IF l.fields > 0 THEN l.mode ELSE rule.mode,
                 permit |-> [p \in 1 .. 4 |-> IF l.fields > p THEN l.permit[p]
                                              ELSE rule.permit[p]]]
           allowed == CD = r.mode /\ Allows(r.permit)
       IN  /\ rule' = r
           /\ verdict' = allowed
           /\ st' = IF allowed THEN "done" ELSE "judge"
    /\ conf' = [conf EXCEPT !.lines = Tail(@)]
    /\ UNCHANGED <<sent, request, got, CD, DSTPORT, DSTIP, domain, ip>>

EndOfFile ==
    /\ st = "judge" /\ conf.lines = <<>>
    /\ st' = "done"
    /\ UNCHANGED <<sent, request, got, CD, DSTPORT, DSTIP, domain, ip, conf, rule, verdict>>

Next == do_router \/ Ignore \/ firewall \/ firewall_ipv6 \/ JudgeLine \/ EndOfFile

Spec == Init /\ [][Next]_vars

-----------------------------------------------------------------------------
(***************************************************************************)
(* Safety.                                                                 *)
(***************************************************************************)
\* What Router reads is what the client sent: the port over its whole range
\* (the client computes it in signed, the server in unsigned chars, 356 and
\* console.cgi.cpp:169-170), and the host whatever user id comes before it, or
\* none when none was sent and the user id must not be taken for one (320-346).
\* Router reads once (350): command, port and address need the first eight
\* bytes, the host the whole request, and it is cut short when that is missing.
DecodedIsSent ==
    st # "sent" =>
        /\ got >= 8 => /\ CD = sent.cd
                       /\ DSTPORT = sent.port
                       /\ sent.host = <<>> => DSTIP = sent.addr
        /\ domain = SubSeq(sent.host, 1, Len(domain)) /\ Len(domain) <= Len(sent.host)
        /\ got = Len(request) => domain = sent.host

\* The rules that allow the request: for its command, and equal to the address
\* in every octet that is not a star.
Permitting ==
    {k \in DOMAIN conf.file :
        /\ conf.file[k].fields = 5 /\ conf.file[k].mode = CD
        /\ \A p \in 1 .. 4 : conf.file[k].permit[p] \in {Star, ip[p]}}

\* A file as socks.conf is one: it starts with a rule, its lines are whole or
\* blank, and an address has its stars at the end.
TrailingStars(permit) ==
    \A p \in 1 .. 3 : permit[p] = Star => permit[p + 1] = Star

WellFormed(file) ==
    /\ file # <<>> => file[1].fields = 5
    /\ \A k \in DOMAIN file :
          file[k].fields = 0 \/ (file[k].fields = 5 /\ TrailingStars(file[k].permit))

\* Whatever is in the file, a request that one of its rules allows gets through;
\* and when the file is well formed nothing else does (19-51), although a blank
\* line is judged by what the line before left behind.  (After a line that
\* starts the file blank or has a star in front of an octet, more may.)
PermitsByRules ==
    st = "done" =>
        /\ conf.open /\ Permitting # {} => verdict
        /\ verdict /\ WellFormed(conf.file) => conf.open /\ Permitting # {}

=============================================================================
