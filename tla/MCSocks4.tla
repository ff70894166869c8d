------------------------------- MODULE MCSocks4 -------------------------------
EXTENDS Socks4, SequencesExt

Line(mode, permit) == [fields |-> 5, mode |-> mode, permit |-> permit]
Blank == [fields |-> 0, mode |-> 0, permit |-> <<0, 0, 0, 0>>]

\* "permit c 140.113" and no more, and a star in front of an octet.
Half == [fields |-> 3, mode |-> 1, permit |-> <<140, 113, 0, 0>>]

FewLines ==
    {Blank, Half, Line(1, <<140, 113, Star, Star>>), Line(1, <<140, 113, 7, 9>>),
     Line(2, <<Star, Star, Star, Star>>), Line(2, <<10, 113, 7, 8>>),
     Line(1, <<140, Star, 7, 8>>)}

FewFiles ==
    {<<>>} \cup [1 .. 1 -> FewLines] \cup [1 .. 2 -> FewLines]
           \cup {<<a, Blank, b>> : a \in FewLines \ {Blank}, b \in FewLines}

\* Memory that happens to hold a rule for every address, or none.
FewJunkRules == {[mode |-> 0, permit |-> <<0, 0, 0, 0>>],
                 [mode |-> 1, permit |-> <<Star, Star, Star, Star>>]}

FewAddresses == {<<140, 113, 7, 9>>, <<140, 112, 7, 9>>, <<10, 113, 7, 8>>}
FewPorts == {0, 80, 255, 256, 33000, 65535}
FewHosts == {<<>>, <<97>>, <<98, 97>>}
FewUserIds == {<<>>, <<117, 200>>}

\* All requests with an empty file, and all files with requests that are short.
MCInit ==
    /\ Init
    /\ \/ conf.file = <<>>
       \/ sent.port = 80 /\ sent.userid = <<>> /\ Len(sent.host) < 2
MCSpec == MCInit /\ [][Next]_vars

\* get_domain as the loop it is, byte by byte with its flag USERID.
DomainLoop(bytes) ==
    FoldLeft(LAMBDA acc, b : IF acc.id THEN [acc EXCEPT !.id = (b # 0)]
                             ELSE [acc EXCEPT !.dom = Append(@, b)],
             [id |-> TRUE, dom |-> <<>>],
             SubSeq(bytes, 9, Len(bytes) - 1)).dom

\* The loop and its result agree on requests of up to six bytes after the
\* address, zeros anywhere.
ASSUME LoopAgrees ==
    \A rest \in BoundedSeq({0, 97, 200}, 6) :
        LET bytes == <<4, 1, 0, 80, 0, 0, 0, 1>> \o rest
        IN  get_domain(bytes, Len(bytes)) = DomainLoop(bytes)

=============================================================================
