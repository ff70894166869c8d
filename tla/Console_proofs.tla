---------------------------- MODULE Console_proofs ----------------------------
(***************************************************************************)
(* Proofs about Console for every script, every output of the commands and *)
(* every length of reads: the script is sent in order and not past its     *)
(* exit, and the page reads like the session.                              *)
(***************************************************************************)
EXTENDS Console, TLAPS, SequenceTheorems, WellFoundedInduction

-----------------------------------------------------------------------------
(***************************************************************************)
(* The inductive invariant.                                                *)
(***************************************************************************)
\* The first n lines of the script hold no exit.
NoExit(n) == \A k \in 1 .. n : lines[k] # "exit"

\* What was sent so far; a line is counted before it is written.
Sent(n) == heard \o c2s = SubSeq(lines, 1, n)

Script ==
    /\ st # "overrun" /\ line_count <= Len(lines)
    /\ st \in {"connect", "request", "reply", "read"} =>
          Sent(line_count) /\ NoExit(line_count) /\ ~eof
    /\ st = "write" =>
          /\ line_count >= 1
          /\ Sent(line_count - 1) /\ NoExit(line_count - 1)
          /\ eof <=> lines[line_count] = "exit"
    /\ st = "closed" => \E n \in 0 .. Len(lines) : Sent(n) /\ NoExit(n - 1)

\* The reply, and behind it what the shell has said before it was read.
Replied(text) == \E a \in {"granted", "rejected"} : text = <<a, "addr">> \o said

\* The shell speaks once it is connected, and what it said last before it waits
\* for a line is its prompt.
Shell ==
    /\ sh = "off" /\ st \in {"connect", "request", "reply"} => said = <<>>
    /\ sh = "wait" => said # <<>> /\ said[Len(said)] = "sp"
    /\ fin => sh \in {"off", "exited", "dead"}
    /\ st \in {"connect", "request"} => sh = "off" /\ s2c = <<>>
    /\ st \in {"connect", "request", "reply"} => page = <<>> /\ c2s = <<>> /\ prompt = 0
    /\ st = "reply" => \/ s2c = <<>> /\ sh = "off"
                       \/ s2c # <<>> /\ Replied(s2c)

Quiet == sh \in {"wait", "dead"}

\* The page lacks what was not read yet, or has the line that the shell has not
\* read yet, and then the shell is silent.
Behind == said = page \o s2c /\ c2s = <<>>
Ahead == page = said \o c2s /\ Len(c2s) = 1 /\ s2c = <<>> /\ Quiet
Cut == Len(page) = Len(said) + 1 /\ SubSeq(page, 1, Len(said)) = said
           /\ c2s = <<>> /\ s2c = <<>> /\ sh = "dead"
Typed ==
    /\ page = Append(said, lines[line_count])
    /\ c2s = <<>> /\ s2c = <<>> /\ prompt = 0 /\ Quiet

\* A prompt that the client has not answered is the last thing said.
Unanswered(i) == said[i] = "pct" /\ (i > Len(page) \/ (i = Len(page) /\ prompt = 1))
Answered ==
    /\ \A i \in DOMAIN said : Unanswered(i) => i = Len(said) - 1 /\ Quiet
    /\ prompt = 1 => page # <<>> /\ page[Len(page)] = "pct"

InStep ==
    /\ st = "read" => Behind \/ (Ahead /\ prompt = 0)
    /\ st = "write" => Typed
    /\ st = "closed" => Behind \/ Ahead \/ Cut
    /\ st # "closed" => Answered

Pages == OnlyPrompts => InStep

Inv == TypeOK /\ Script /\ Shell

\* What the page needs: no quote is sent (the escapes of both are wrong), and no
\* backslash or CR (which is not text in a JavaScript string), no
\* line of a script is a %, and the commands cannot print what looks like a prompt.
Words == UNION {ToSet(s) : s \in Scripts}

Plain ==
    /\ (Output \cup Words) \cap {"dq", "sq", "bs", "cr"} = {}
    /\ "pct" \notin Words
    /\ ~ ({"pct", "sp"} \subseteq Output)

Unquoted == Tokens \ {"dq", "sq", "bs", "cr"}

PlainTexts ==
    /\ s2c \in Seq(Unquoted) /\ c2s \in Seq(Words)
    /\ said # <<>> /\ said[Len(said)] = "pct" => "pct" \in Output

PageInv == Inv /\ PlainTexts /\ Pages

-----------------------------------------------------------------------------
(***************************************************************************)
(* FlattenSeq.                                                             *)
(***************************************************************************)
\* A set of natural numbers has a least element.
LEMMA LeastElement ==
    ASSUME NEW T \in SUBSET Nat, T # {}
    PROVE  \E m \in T : \A k \in T : m <= k
<1> DEFINE R == OpToRel(<, Nat)
<1>1. \A a, b \in Nat : a < b => <<a, b>> \in R
  BY DEF OpToRel
<1>2. PICK m \in T : \A k \in T : ~ (<<k, m>> \in R)
  <2> HIDE DEF R
  <2> QED BY NatLessThanWellFounded, WFMin DEF R
<1> HIDE DEF R
<1>3. \A k \in T : ~ (k < m)
  BY <1>1, <1>2
<1> QED BY <1>3

\* f joins the first parts of q, one after the other.
Joining(f, q, n) ==
    f = [i \in 1 .. n |-> IF i = 1 THEN q[i] ELSE f[i - 1] \o q[i]]

\* There is such an f.
LEMMA JoiningExists ==
    ASSUME NEW q, NEW n \in Nat, n > 0
    PROVE  \E f : Joining(f, q, n)
<1> DEFINE T == {m \in 1 .. n : ~ \E f : Joining(f, q, m)}
<1> SUFFICES ASSUME T # {}
             PROVE  FALSE
  OBVIOUS
<1>1. T \in SUBSET Nat
  OBVIOUS
<1>2. PICK m \in T : \A k \in T : m <= k
  BY <1>1, LeastElement
<1>3. m \in 1 .. n /\ ~ \E f : Joining(f, q, m)
  OBVIOUS
<1>4. CASE m = 1
  <2> DEFINE f == [i \in 1 .. 1 |-> q[i]]
  <2>1. Joining(f, q, m)
    <3>1. \A i \in 1 .. 1 : i = 1
      OBVIOUS
    <3> QED BY <1>4, <3>1 DEF Joining
  <2> QED BY <1>3, <2>1
<1>5. CASE m # 1
  <2>1. m - 1 \in 1 .. n /\ m - 1 \in Nat /\ ~(m <= m - 1)
    BY <1>3, <1>5
  <2>2. m - 1 \notin T
    BY <1>2, <2>1
  <2>3. PICK g : Joining(g, q, m - 1)
    BY <2>1, <2>2
  <2> DEFINE f == [i \in 1 .. m |-> IF i = m THEN g[m - 1] \o q[m] ELSE g[i]]
  <2>4. \A i \in 1 .. m : f[i] = IF i = m THEN g[m - 1] \o q[m] ELSE g[i]
    OBVIOUS
  <2>5. \A i \in 1 .. m - 1 : g[i] = IF i = 1 THEN q[i] ELSE g[i - 1] \o q[i]
    BY <2>3 DEF Joining
  <2> HIDE DEF f
  <2>6. \A i \in 1 .. m : f[i] = IF i = 1 THEN q[i] ELSE f[i - 1] \o q[i]
    <3> SUFFICES ASSUME NEW i \in 1 .. m
                 PROVE  f[i] = IF i = 1 THEN q[i] ELSE f[i - 1] \o q[i]
      OBVIOUS
    <3>1. CASE i = m
      <4>1. i # 1 /\ i - 1 = m - 1 /\ m - 1 \in 1 .. m /\ m - 1 # m
        BY <1>3, <1>5, <3>1
      <4>2. f[m - 1] = g[m - 1]
        BY <2>4, <4>1
      <4> QED BY <2>4, <3>1, <4>1, <4>2
    <3>2. CASE i # m
      <4>1. i \in 1 .. m - 1 /\ (i # 1 => i - 1 \in 1 .. m /\ i - 1 # m)
        BY <1>3, <3>2
      <4>2. f[i] = g[i] /\ (i # 1 => f[i - 1] = g[i - 1])
        BY <2>4, <3>2, <4>1
      <4> QED BY <2>5, <4>1, <4>2
    <3> QED BY <3>1, <3>2
  <2>7. f = [i \in 1 .. m |-> f[i]]
    BY DEF f
  <2>8. Joining(f, q, m)
    BY <2>6, <2>7 DEF Joining
  <2> QED BY <1>3, <2>8
<1> QED BY <1>4, <1>5

\* FlattenSeq step by step: f[n] joins the first n parts.
LEMMA Flattened ==
    ASSUME NEW S, NEW q \in Seq(Seq(S)), Len(q) > 0
    PROVE  \E f \in [1 .. Len(q) -> Seq(S)] :
              /\ f[1] = q[1]
              /\ \A i \in 2 .. Len(q) : f[i] = f[i - 1] \o q[i]
              /\ FlattenSeq(q) = f[Len(q)]
<1>1. PICK n \in Nat : n = Len(q)
  BY LenProperties
<1> DEFINE f == CHOOSE f : f = [i \in 1 .. n |-> IF i = 1 THEN q[i] ELSE f[i - 1] \o q[i]]
<1>2. Joining(f, q, n)
  <2>1. \E g : Joining(g, q, n)
    BY <1>1, JoiningExists
  <2> QED BY <2>1, Zenon DEF Joining
<1>3. FlattenSeq(q) = f[n]
  <2>1. n # 0
    BY <1>1
  <2> QED BY <1>1, <2>1, Zenon DEF FlattenSeq
<1> HIDE DEF f
<1>4. f[1] = q[1] /\ \A i \in 2 .. n : f[i] = f[i - 1] \o q[i]
  <2>1. \A i \in 1 .. n : f[i] = IF i = 1 THEN q[i] ELSE f[i - 1] \o q[i]
    BY <1>2, Zenon DEF Joining
  <2>2. 1 \in 1 .. n /\ \A i \in 2 .. n : i \in 1 .. n /\ i # 1
    BY <1>1
  <2> QED BY <2>1, <2>2, Zenon
<1>5. \A i \in 1 .. n : q[i] \in Seq(S)
  BY <1>1, ElementOfSeq
<1>6. \A i \in 1 .. n : f[i] \in Seq(S)
  <2> DEFINE T == {i \in 1 .. n : f[i] \notin Seq(S)}
  <2> SUFFICES ASSUME T # {}
               PROVE  FALSE
    OBVIOUS
  <2>1. T \in SUBSET Nat
    OBVIOUS
  <2>2. PICK m \in T : \A k \in T : m <= k
    BY <2>1, LeastElement
  <2>3. m \in 1 .. n /\ f[m] \notin Seq(S)
    OBVIOUS
  <2>4. m # 1
    BY <1>1, <1>4, <1>5, <2>3
  <2>5. m - 1 \in 1 .. n /\ ~(m <= m - 1) /\ m \in 2 .. n
    BY <2>3, <2>4
  <2>6. f[m - 1] \in Seq(S)
    BY <2>2, <2>5
  <2>7. f[m - 1] \o q[m] \in Seq(S)
    BY <1>5, <2>3, <2>6, ConcatProperties
  <2> QED BY <1>4, <2>3, <2>5, <2>7
<1>7. f \in [1 .. n -> Seq(S)]
  <2>1. f = [i \in 1 .. n |-> IF i = 1 THEN q[i] ELSE f[i - 1] \o q[i]]
    BY <1>2, Zenon DEF Joining
  <2>2. DOMAIN f = 1 .. n /\ f = [i \in 1 .. n |-> f[i]]
    BY <2>1
  <2> QED BY <1>6, <2>2
<1> QED BY <1>1, <1>3, <1>4, <1>7

\* What FlattenSeq returns is a sequence of the same elements.
LEMMA FlattenType ==
    ASSUME NEW S, NEW q \in Seq(Seq(S))
    PROVE  FlattenSeq(q) \in Seq(S)
<1>1. Len(q) \in Nat
  BY LenProperties
<1>2. CASE Len(q) > 0
  <2>1. PICK f \in [1 .. Len(q) -> Seq(S)] : FlattenSeq(q) = f[Len(q)]
    BY <1>2, Flattened
  <2>2. Len(q) \in 1 .. Len(q)
    BY <1>1, <1>2
  <2> QED BY <2>1, <2>2
<1>3. CASE Len(q) = 0
  <2>1. q = <<>>
    BY <1>3, EmptySeq
  <2> QED BY <1>3, <2>1, EmptySeq DEF FlattenSeq
<1> QED BY <1>1, <1>2, <1>3

\* One part, and two.
LEMMA FlattenOne ==
    ASSUME NEW S, NEW a \in Seq(S)
    PROVE  FlattenSeq(<<a>>) = a
<1>1. <<a>> \in Seq(Seq(S)) /\ Len(<<a>>) = 1 /\ <<a>>[1] = a
  OBVIOUS
<1> DEFINE q == <<a>>
<1> HIDE DEF q
<1>2. q \in Seq(Seq(S)) /\ Len(q) = 1 /\ q[1] = a
  BY <1>1 DEF q
<1>3. PICK f \in [1 .. Len(q) -> Seq(S)] : f[1] = q[1] /\ FlattenSeq(q) = f[Len(q)]
  <2>1. Len(q) > 0
    BY <1>2
  <2> QED BY <1>2, <2>1, Flattened, Zenon
<1>4. FlattenSeq(q) = a
  BY <1>2, <1>3
<1> QED BY <1>4 DEF q

LEMMA FlattenTwo ==
    ASSUME NEW S, NEW a \in Seq(S), NEW b \in Seq(S)
    PROVE  FlattenSeq(<<a, b>>) = a \o b
<1> DEFINE q == <<a, b>>
<1>1. q \in Seq(Seq(S)) /\ Len(q) = 2 /\ q[1] = a /\ q[2] = b
  OBVIOUS
<1> HIDE DEF q
<1>2. PICK f \in [1 .. Len(q) -> Seq(S)] :
         /\ f[1] = q[1] /\ \A i \in 2 .. Len(q) : f[i] = f[i - 1] \o q[i]
         /\ FlattenSeq(q) = f[Len(q)]
  <2>1. Len(q) > 0
    BY <1>1
  <2> QED BY <1>1, <2>1, Flattened, Zenon
<1>3. 2 \in 2 .. 2 /\ 2 - 1 = 1
  OBVIOUS
<1>4. f[2] = f[1] \o q[2]
  BY <1>1, <1>2, <1>3
<1>5. FlattenSeq(q) = a \o b
  BY <1>1, <1>2, <1>4
<1> QED BY <1>5 DEF q

\* Parts of one element each.
LEMMA FlattenSingles ==
    ASSUME NEW S, NEW s \in Seq(S), NEW q, q = [i \in DOMAIN s |-> <<s[i]>>]
    PROVE  FlattenSeq(q) = s
<1>1. PICK n \in Nat : n = Len(s)
  BY LenProperties
<1>2. DOMAIN s = 1 .. n /\ \A i \in 1 .. n : s[i] \in S
  BY <1>1, ElementOfSeq, LenProperties
<1>3. q \in Seq(Seq(S)) /\ Len(q) = n /\ \A i \in 1 .. n : q[i] = <<s[i]>>
  <2>1. \A i \in 1 .. n : <<s[i]>> \in Seq(S)
    BY <1>2
  <2>2. q \in [1 .. n -> Seq(S)] /\ \A i \in 1 .. n : q[i] = <<s[i]>>
    BY <1>2, <2>1
  <2>3. q \in Seq(Seq(S))
    BY <2>2, SeqDef
  <2> QED BY <1>1, <2>2, <2>3, LenProperties
<1>4. CASE n = 0
  BY <1>1, <1>3, <1>4, EmptySeq DEF FlattenSeq
<1>5. CASE n > 0
  <2>1. PICK f \in [1 .. Len(q) -> Seq(S)] :
           /\ f[1] = q[1] /\ \A i \in 2 .. Len(q) : f[i] = f[i - 1] \o q[i]
           /\ FlattenSeq(q) = f[Len(q)]
    BY <1>3, <1>5, Flattened
  <2> DEFINE T == {i \in 1 .. n : f[i] # SubSeq(s, 1, i)}
  <2>2. T = {}
    <3> SUFFICES ASSUME T # {}
                 PROVE  FALSE
      OBVIOUS
    <3>1. T \in SUBSET Nat
      OBVIOUS
    <3>2. PICK m \in T : \A k \in T : m <= k
      BY <3>1, LeastElement
    <3>3. m \in 1 .. n /\ f[m] # SubSeq(s, 1, m)
      OBVIOUS
    <3>4. m # 1
      <4>1. SubSeq(s, 1, 1) = <<s[1]>>
        <5>1. 1 \in 1 .. Len(s)
          BY <1>1, <1>5
        <5>2. SubSeq(s, 1, 1) = SubSeq(s, 1, 0) \o <<s[1]>> /\ SubSeq(s, 1, 0) = <<>>
          <6>1. SubSeq(s, 1, 1) = SubSeq(s, 1, 1 - 1) \o <<s[1]>>
            BY <5>1, SubSeqRecursiveSecond
          <6>2. SubSeq(s, 1, 0) = <<>>
            OBVIOUS
          <6> QED BY <6>1, <6>2
        <5>3. <<s[1]>> \in Seq(S)
          BY <1>1, <1>2, <1>5
        <5> QED BY <5>2, <5>3, ConcatEmptySeq
      <4>2. f[1] = <<s[1]>>
        BY <1>3, <1>5, <2>1
      <4> QED BY <3>3, <4>1, <4>2
    <3>5. m - 1 \in 1 .. n /\ ~(m <= m - 1) /\ m \in 2 .. n /\ m \in 1 .. m
      BY <3>3, <3>4
    <3>6. f[m - 1] = SubSeq(s, 1, m - 1)
      BY <3>2, <3>5
    <3>7. f[m] = f[m - 1] \o <<s[m]>>
      BY <1>3, <2>1, <3>3, <3>5
    <3>8. SubSeq(s, 1, m) = SubSeq(s, 1, m - 1) \o <<s[m]>>
      <4>1. 1 \in 1 .. Len(s) /\ m \in 1 .. Len(s)
        BY <1>1, <1>5, <3>3
      <4> QED BY <4>1, SubSeqRecursiveSecond
    <3> QED BY <3>3, <3>6, <3>7, <3>8
  <2>3. f[n] = SubSeq(s, 1, n)
    <3>1. n \in 1 .. n
      BY <1>5
    <3>2. n \notin T
      BY <2>2, Zenon
    <3> QED BY <3>1, <3>2
  <2>4. SubSeq(s, 1, n) = s
    BY <1>1, SubSeqFull
  <2> QED BY <1>3, <2>1, <2>3, <2>4
<1> QED BY <1>1, <1>4, <1>5

-----------------------------------------------------------------------------
(***************************************************************************)
(* What the page shows of a token.                                         *)
(***************************************************************************)
\* Texts of one token and of two.
LEMMA OneToken ==
    ASSUME NEW a, NEW t, t = <<a>>
    PROVE  t \in Seq({a}) /\ Len(t) = 1 /\ t[1] = a /\ DOMAIN t = {1}
<1>1. <<a>> \in Seq({a}) /\ Len(<<a>>) = 1 /\ <<a>>[1] = a
  OBVIOUS
<1>2. t \in Seq({a}) /\ Len(t) = 1 /\ t[1] = a
  BY <1>1, Zenon
<1>3. DOMAIN t = 1 .. 1 /\ 1 .. 1 = {1}
  BY <1>2, LenProperties
<1> QED BY <1>2, <1>3

LEMMA TwoTokens ==
    ASSUME NEW a, NEW b, NEW t, t = <<a, b>>
    PROVE  t \in Seq({a, b}) /\ Len(t) = 2 /\ t[1] = a /\ t[2] = b /\ DOMAIN t = {1, 2}
<1>1. <<a, b>> \in Seq({a, b}) /\ Len(<<a, b>>) = 2 /\ <<a, b>>[1] = a /\ <<a, b>>[2] = b
  OBVIOUS
<1>2. t \in Seq({a, b}) /\ Len(t) = 2 /\ t[1] = a /\ t[2] = b
  BY <1>1, Zenon
<1>3. DOMAIN t = 1 .. 2 /\ 1 .. 2 = {1, 2}
  BY <1>2, LenProperties
<1> QED BY <1>2, <1>3

\* replaceAll leaves a text alone that does not hold the character.
LEMMA ReplaceNothing ==
    ASSUME NEW S, NEW text \in Seq(S), NEW from,
           \A i \in DOMAIN text : text[i] # from
    PROVE  replaceAll(text, from) = text
<1> DEFINE q == [i \in DOMAIN text |->
                    IF text[i] = from THEN <<"amp", Rest[from]>> ELSE <<text[i]>>]
<1>1. q = [i \in DOMAIN text |-> <<text[i]>>]
  OBVIOUS
<1>2. replaceAll(text, from) = FlattenSeq(q)
  BY DEF replaceAll
<1> HIDE DEF q
<1> QED BY <1>1, <1>2, FlattenSingles

\* One character that does not have to be escaped, an entity, and a character
\* that becomes one.
LEMMA ReplaceOne ==
    ASSUME NEW c, NEW from, c # from
    PROVE  replaceAll(<<c>>, from) = <<c>>
<1> DEFINE text == <<c>>
<1>1. text \in Seq({c}) /\ text[1] = c /\ DOMAIN text = {1}
  BY OneToken, Zenon
<1> HIDE DEF text
<1>2. replaceAll(text, from) = text
  BY <1>1, ReplaceNothing
<1> QED BY <1>2, Zenon DEF text

LEMMA ReplaceTwo ==
    ASSUME NEW a, NEW b, NEW from, a # from, b # from
    PROVE  replaceAll(<<a, b>>, from) = <<a, b>>
<1> DEFINE text == <<a, b>>
<1>1. text \in Seq({a, b}) /\ text[1] = a /\ text[2] = b /\ DOMAIN text = {1, 2}
  BY TwoTokens
<1> HIDE DEF text
<1>2. replaceAll(text, from) = text
  BY <1>1, ReplaceNothing
<1> QED BY <1>2, Zenon DEF text

LEMMA ReplaceHit ==
    ASSUME NEW c \in DOMAIN Rest
    PROVE  replaceAll(<<c>>, c) = <<"amp", Rest[c]>>
<1> DEFINE text == <<c>>
           entity == <<"amp", Rest[c]>>
           q == [i \in DOMAIN text |-> IF text[i] = c THEN entity ELSE <<text[i]>>]
<1>1. replaceAll(text, c) = FlattenSeq(q)
  BY DEF replaceAll
<1>2. text[1] = c /\ DOMAIN text = {1}
  BY OneToken, Zenon
<1>3. entity \in Seq({"amp", Rest[c]})
  BY TwoTokens DEF entity
<1> HIDE DEF text, entity
<1>4. q = <<entity>>
  BY <1>2
<1> HIDE DEF q
<1>5. FlattenSeq(q) = entity
  BY <1>3, <1>4, FlattenOne
<1> QED BY <1>1, <1>5, Zenon DEF text, entity

\* The browser reads a character as itself and an entity as what it names.
LEMMA BrowserOne ==
    ASSUME NEW c
    PROVE  Browser(<<c>>) = <<c>>
<1> DEFINE text == <<c>>
<1>1. text \in Seq({c}) /\ Len(text) = 1 /\ text[1] = c /\ DOMAIN text = {1}
  BY OneToken, Zenon
<1> HIDE DEF text
<1>2. Browser(text) = FlattenSeq(<<text>>)
  <2>1. <<text[1]>> = text
    BY <1>1, Zenon DEF text
  <2> HIDE DEF Read
  <2> QED BY <1>1, <2>1 DEF Browser
<1>3. FlattenSeq(<<text>>) = text
  BY <1>1, FlattenOne
<1> QED BY <1>2, <1>3, Zenon DEF text

LEMMA BrowserEntity ==
    ASSUME NEW c \in DOMAIN Rest, NEW d \in DOMAIN Named, Named[d] = Rest[c]
    PROVE  Browser(<<"amp", Rest[c]>>) = <<d>>
<1>1. Read(Rest[c]) = d
  <2>1. \A e \in DOMAIN Named : Named[e] = Named[d] => e = d
    BY DEF Named
  <2> QED BY <2>1 DEF Read
<1>2. Rest[c] # "amp"
  BY DEF Rest
<1>3. Rest[c] \in {Rest[e] : e \in DOMAIN Rest}
  OBVIOUS
<1> DEFINE text == <<"amp", Rest[c]>>
<1>4. Len(text) = 2 /\ text[1] = "amp" /\ text[2] = Rest[c] /\ DOMAIN text = {1, 2}
  BY TwoTokens DEF text
<1> HIDE DEF text
<1>5. Browser(text) = FlattenSeq(<< <<d>>, <<>> >>)
  BY <1>1, <1>2, <1>3, <1>4 DEF Browser
<1>6. <<d>> \in Seq({d}) /\ <<>> \in Seq({d})
  BY OneToken, EmptySeq, Zenon
<1>7. FlattenSeq(<< <<d>>, <<>> >>) = <<d>> \o <<>>
  BY <1>6, FlattenTwo, Zenon
<1>8. <<d>> \o <<>> = <<d>>
  BY <1>6, ConcatEmptySeq, Zenon
<1> QED BY <1>5, <1>7, <1>8, Zenon DEF text

\* Both quotes are shown as something else, every other token as itself.
Looks(c) == IF c = "dq" THEN "four" ELSE IF c = "sq" THEN "dq" ELSE c

LEMMA EscapedEntity ==
    ASSUME NEW c \in DOMAIN Rest
    PROVE  Escape(<<c>>) = <<"amp", Rest[c]>>
<1> DEFINE r == Rest[c]
<1>1. /\ c \in {"amp", "nl", "tab", "dq", "sq", "lt", "gt"}
      /\ r # "amp" /\ r # "nl" /\ r # "tab" /\ r # "dq" /\ r # "sq"
      /\ r # "lt" /\ r # "gt"
  BY DEF Rest
<1>2. replaceAll(<<c>>, c) = <<"amp", r>>
  BY ReplaceHit
<1>3. \A x \in {"nl", "tab", "dq", "sq", "lt", "gt"} :
         replaceAll(<<"amp", r>>, x) = <<"amp", r>>
  <2> SUFFICES ASSUME NEW x \in {"nl", "tab", "dq", "sq", "lt", "gt"}
               PROVE  replaceAll(<<"amp", r>>, x) = <<"amp", r>>
    OBVIOUS
  <2>1. "amp" # x /\ r # x
    BY <1>1
  <2> HIDE DEF r
  <2> QED BY <2>1, ReplaceTwo
<1> DEFINE a == <<c>>
           e == <<"amp", r>>
<1>4. \A x \in {"amp", "nl", "tab", "dq", "sq", "lt", "gt"} :
         replaceAll(a, x) = IF x = c THEN e ELSE a
  BY <1>2, ReplaceOne
<1>5. \A x \in {"nl", "tab", "dq", "sq", "lt", "gt"} : replaceAll(e, x) = e
  BY <1>3
<1>6. Escape(a) =
         replaceAll(replaceAll(replaceAll(replaceAll(replaceAll(replaceAll(
            replaceAll(a, "amp"), "nl"), "tab"), "dq"), "sq"), "lt"), "gt")
  BY DEF Escape
<1> DEFINE amp == IF c = "amp" THEN e ELSE a
           nl == IF c \in {"amp", "nl"} THEN e ELSE a
           tab == IF c \in {"amp", "nl", "tab"} THEN e ELSE a
           dq == IF c \in {"amp", "nl", "tab", "dq"} THEN e ELSE a
           sq == IF c \in {"amp", "nl", "tab", "dq", "sq"} THEN e ELSE a
           lt == IF c \in {"amp", "nl", "tab", "dq", "sq", "lt"} THEN e ELSE a
<1> HIDE DEF a, e
<1>7. /\ replaceAll(a, "amp") = amp /\ replaceAll(amp, "nl") = nl
      /\ replaceAll(nl, "tab") = tab /\ replaceAll(tab, "dq") = dq
  BY <1>4, <1>5
<1>8. /\ replaceAll(dq, "sq") = sq /\ replaceAll(sq, "lt") = lt
      /\ replaceAll(lt, "gt") = e
  BY <1>1, <1>4, <1>5
<1> HIDE DEF amp, nl, tab, dq, sq, lt
<1>9. Escape(a) = e
  BY <1>6, <1>7, <1>8, Zenon
<1> QED BY <1>9 DEF a, e, r

LEMMA EscapedOther ==
    ASSUME NEW c, c \notin DOMAIN Rest
    PROVE  Escape(<<c>>) = <<c>>
<1>1. \A x \in {"amp", "nl", "tab", "dq", "sq", "lt", "gt"} : c # x
  BY DEF Rest
<1>2. \A x \in {"amp", "nl", "tab", "dq", "sq", "lt", "gt"} :
         replaceAll(<<c>>, x) = <<c>>
  BY <1>1, ReplaceOne
<1> QED BY <1>2 DEF Escape

LEMMA ShownToken ==
    ASSUME NEW c \in Tokens
    PROVE  ShownAs[c] = <<Looks(c)>>
<1>1. ShownAs[c] = Browser(Escape(<<c>>))
  BY Zenon DEF ShownAs
<1>2. CASE c \in DOMAIN Rest
  <2>1. Looks(c) \in DOMAIN Named /\ Named[Looks(c)] = Rest[c]
    BY <1>2 DEF Looks, Named, Rest
  <2>2. Escape(<<c>>) = <<"amp", Rest[c]>>
    BY <1>2, EscapedEntity
  <2>3. Browser(<<"amp", Rest[c]>>) = <<Looks(c)>>
    BY <1>2, <2>1, BrowserEntity, Zenon
  <2> QED BY <1>1, <2>2, <2>3, Zenon
<1>3. CASE c \notin DOMAIN Rest
  <2>1. Looks(c) = c
    BY <1>3 DEF Looks, Rest
  <2>2. Escape(<<c>>) = <<c>>
    BY <1>3, EscapedOther
  <2> QED BY <1>1, <2>1, <2>2, BrowserOne, Zenon
<1> QED BY <1>2, <1>3

\* A text is shown as a text; without quotes, backslashes and CRs it is shown
\* as it is.
LEMMA ShownText ==
    ASSUME NEW text \in Seq(Tokens)
    PROVE  /\ Shown(text) \in Seq(Tokens \cup DOMAIN Named)
           /\ (\A i \in DOMAIN text : text[i] \notin {"dq", "sq", "bs", "cr"})
                 => Shown(text) = text
<1> DEFINE S == Tokens \cup DOMAIN Named
           q == [i \in DOMAIN text |-> Piece(text, i)]
<1>1. PICK n \in Nat : n = Len(text)
  BY LenProperties
<1>2. DOMAIN text = 1 .. n /\ \A i \in 1 .. n : text[i] \in Tokens
  BY <1>1, ElementOfSeq, LenProperties
<1>3. Shown(text) = IF Unterminated(text) THEN <<>> ELSE FlattenSeq(q)
  BY Zenon DEF Shown
<1>4. \A c \in Tokens : ShownAs[c] = <<Looks(c)>> /\ ShownAs[c] \in Seq(S)
  <2> SUFFICES ASSUME NEW c \in Tokens
               PROVE  ShownAs[c] = <<Looks(c)>> /\ ShownAs[c] \in Seq(S)
    OBVIOUS
  <2>1. Looks(c) \in S
    BY DEF Looks, Named
  <2> HIDE DEF S
  <2>2. <<Looks(c)>> \in Seq(S)
    BY <2>1
  <2> QED BY <2>2, ShownToken, Zenon
<1>5. q \in Seq(Seq(S))
  <2>1. \A i \in 1 .. n : q[i] \in Seq(S)
    <3> SUFFICES ASSUME NEW i \in 1 .. n
                 PROVE  q[i] \in Seq(S)
      BY Zenon
    <3> DEFINE c == IF text[i] \in DOMAIN Letters THEN Letters[text[i]] ELSE text[i]
    <3>1. c \in Tokens /\ text[i] \in Tokens
      <4>1. text[i] \in DOMAIN Letters => Letters[text[i]] \in {"nl", "tab"}
        BY DEF Letters
      <4>2. {"nl", "tab"} \subseteq Tokens
        BY DEF Tokens, Rest
      <4> QED BY <1>2, <4>1, <4>2
    <3>2. q[i] = IF Escaped(text, i) THEN IF text[i] = "cr" THEN <<>> ELSE ShownAs[c]
                 ELSE IF text[i] = "bs" THEN <<>> ELSE ShownAs[text[i]]
      BY <1>2, Zenon DEF Piece
    <3>3. <<>> \in Seq(S)
      BY EmptySeq
    <3> HIDE DEF c, q, S
    <3> QED BY <1>4, <3>1, <3>2, <3>3, Zenon
  <2>2. q = [i \in 1 .. n |-> q[i]]
    BY <1>2
  <2> HIDE DEF q, S
  <2>3. q \in [1 .. n -> Seq(S)]
    BY <2>1, <2>2
  <2> QED BY <2>3, SeqDef
<1>6. ASSUME \A i \in DOMAIN text : text[i] \notin {"dq", "sq", "bs", "cr"}
      PROVE  Shown(text) = text
  <2>1. \A i \in 1 .. n + 1 : ~Escaped(text, i)
    <3> SUFFICES ASSUME NEW i \in 1 .. n + 1, NEW k \in 1 .. i - 1,
                        \A m \in i - k .. i - 1 : text[m] = "bs"
                 PROVE  FALSE
      BY DEF Escaped
    <3>1. i - 1 \in i - k .. i - 1 /\ i - 1 \in 1 .. n
      OBVIOUS
    <3> QED BY <1>2, <1>6, <3>1
  <2>2. ~Unterminated(text)
    BY <1>1, <1>2, <1>6, <2>1 DEF Unterminated
  <2>3. \A i \in 1 .. n : q[i] = <<text[i]>>
    <3> SUFFICES ASSUME NEW i \in 1 .. n
                 PROVE  q[i] = <<text[i]>>
      BY Zenon
    <3>1. ~Escaped(text, i) /\ text[i] \notin {"dq", "sq", "bs", "cr"}
      BY <1>2, <1>6, <2>1
    <3>2. q[i] = Piece(text, i)
      BY <1>2
    <3>3. Looks(text[i]) = text[i]
      BY <3>1 DEF Looks
    <3>4. Piece(text, i) = ShownAs[text[i]]
      BY <3>1, Zenon DEF Piece
    <3> QED BY <1>2, <1>4, <3>2, <3>3, <3>4
  <2>4. q = [i \in DOMAIN text |-> <<text[i]>>]
    BY <1>2, <2>3
  <2> HIDE DEF q
  <2>5. Shown(text) = FlattenSeq(q)
    BY <1>3, <2>2, Zenon
  <2> QED BY <2>4, <2>5, FlattenSingles
<1> HIDE DEF q, S
<1>7. Shown(text) \in Seq(S)
  <2>1. FlattenSeq(q) \in Seq(S) /\ <<>> \in Seq(S)
    BY <1>5, FlattenType, EmptySeq
  <2> QED BY <1>3, <2>1, Zenon
<1> QED BY <1>6, <1>7 DEF S

\* What do_reply leaves: the second half of the reply, or nothing of it.
LEMMA ReplyRead ==
    ASSUME TypeOK, Shell, do_reply
    PROVE  /\ s2c' = said \/ s2c' = <<"addr">> \o said
           /\ s2c' \in Seq(Tokens) /\ said' = s2c'
           /\ said \in Seq(Tokens) /\ <<"addr">> \in Seq(Tokens)
           /\ st = "reply" /\ st' = "read"
           /\ UNCHANGED <<lines, line_count, prompt, eof, page, c2s, fin, sh, printed, heard>>
<1>1. PICK a \in {"granted", "rejected"} : s2c = <<a, "addr">> \o said
  BY DEF Shell, Replied, do_reply
<1>2. a \in Tokens /\ "addr" \in Tokens /\ said \in Seq(Tokens) /\ s2c \in Seq(Tokens)
  BY DEF Tokens, TypeOK
<1>3. PICK n \in 1 .. 2 : s2c' = SubSeq(s2c, n + 1, Len(s2c))
  BY DEF do_reply
<1> HIDE DEF Tokens
<1>4. PICK m \in Nat : m = Len(said)
  BY <1>2, LenProperties
<1>5. Len(s2c) = m + 2 /\ s2c[2] = "addr" /\ \A i \in 1 .. m : s2c[i + 2] = said[i]
  BY <1>1, <1>2, <1>4
<1>6. \A i \in 1 .. m + 2 : s2c[i] \in Tokens
  BY <1>2, <1>5, ElementOfSeq
<1>7. ASSUME n = 2 PROVE s2c' = said
  <2>1. s2c' = SubSeq(s2c, 3, m + 2)
    BY <1>3, <1>5, <1>7
  <2>2. /\ s2c' \in Seq(Tokens) /\ Len(s2c') = m
        /\ \A i \in 1 .. m : s2c'[i] = s2c[i + 2]
    BY <1>6, <2>1
  <2> QED BY <1>2, <1>4, <1>5, <2>2, SeqEqual
<1>8. ASSUME n = 1 PROVE s2c' = <<"addr">> \o said
  <2>1. s2c' = SubSeq(s2c, 2, m + 2)
    BY <1>3, <1>5, <1>8
  <2>2. /\ s2c' \in Seq(Tokens) /\ Len(s2c') = m + 1
        /\ \A i \in 1 .. m + 1 : s2c'[i] = s2c[i + 1]
    BY <1>6, <2>1
  <2> DEFINE t == <<"addr">> \o said
  <2>3. /\ t \in Seq(Tokens) /\ Len(t) = m + 1
        /\ t[1] = "addr" /\ \A i \in 1 .. m : t[i + 1] = said[i]
    BY <1>2, <1>4
  <2>4. \A i \in 1 .. m + 1 : t[i] = s2c[i + 1]
    <3> SUFFICES ASSUME NEW i \in 1 .. m + 1 PROVE t[i] = s2c[i + 1]
      BY Zenon
    <3> HIDE DEF t
    <3>1. CASE i = 1
      BY <1>5, <2>3, <3>1
    <3>2. CASE i # 1
      <4>1. PICK k \in 1 .. m : i = k + 1 /\ i + 1 = k + 2
        <5>1. i - 1 \in 1 .. m /\ i = (i - 1) + 1 /\ i + 1 = (i - 1) + 2
          BY <3>2
        <5> QED BY <5>1
      <4> QED BY <1>5, <2>3, <4>1
    <3> QED BY <3>1, <3>2
  <2> HIDE DEF t
  <2>5. s2c' = t
    BY <2>2, <2>3, <2>4, SeqEqual
  <2> QED BY <2>5 DEF t
<1>9. s2c' = said \/ s2c' = <<"addr">> \o said
  BY <1>3, <1>7, <1>8
<1>10. <<"addr">> \in Seq(Tokens)
  BY <1>2
<1>11. s2c' \in Seq(Tokens)
  BY <1>2, <1>9, <1>10, ConcatProperties
<1> QED BY <1>2, <1>9, <1>10, <1>11 DEF do_reply

-----------------------------------------------------------------------------
(***************************************************************************)
(* The invariance of Inv.                                                  *)
(***************************************************************************)
\* A script is a text of tokens and has an exit.
LEMMA ScriptText ==
    ASSUME NEW s \in Scripts
    PROVE  /\ s \in Seq(Tokens)
           /\ \E k \in 1 .. Len(s) : s[k] = "exit"
<1>1. s \in Seq(STRING)
  BY ScriptsAssumption
<1>2. PICK n \in Nat : n = Len(s)
  BY <1>1, LenProperties
<1>3. DOMAIN s = 1 .. n /\ s = [i \in 1 .. n |-> s[i]]
  BY <1>1, <1>2, LenProperties, SeqDef
<1>4. \A i \in 1 .. n : s[i] \in Tokens
  BY <1>3 DEF Tokens, ToSet
<1>5. s \in [1 .. n -> Tokens]
  BY <1>3, <1>4
<1>6. s \in Seq(Tokens)
  BY <1>5, SeqDef
<1> QED BY <1>2, <1>3, <1>6, ScriptsAssumption

\* One line of a script.
LEMMA LineText ==
    ASSUME NEW s \in Scripts, NEW k \in 1 .. Len(s)
    PROVE  s[k] \in Tokens /\ <<s[k]>> \in Seq(Tokens)
<1>1. s \in Seq(Tokens)
  BY ScriptText
<1>2. s[k] \in Tokens
  BY <1>1, ElementOfSeq
<1> QED BY <1>2

LEMMA ScanType ==
    ASSUME NEW str, prompt \in 0 .. 2
    PROVE  Scan(str) \in {prompt, 1, 2}
BY DEF Scan

LEMMA TypeStep == TypeOK /\ Script /\ Shell /\ [Next]_vars => TypeOK'
<1> SUFFICES ASSUME TypeOK, Script, Shell, [Next]_vars
             PROVE  TypeOK'
  OBVIOUS
<1>1. CASE do_connect
  BY <1>1 DEF TypeOK, do_connect, shellVars
<1>2. CASE do_request
  BY <1>2 DEF TypeOK, do_request, shellVars
<1>3. CASE do_reply
  BY <1>3, ReplyRead DEF TypeOK
<1>4. CASE read_error
  BY <1>4 DEF TypeOK, read_error, shellVars
<1>5. CASE do_read
  <2>1. PICK n \in 1 .. BufLen :
           /\ n <= Len(s2c)
           /\ s2c' = SubSeq(s2c, n + 1, Len(s2c))
           /\ LET str == SubSeq(s2c, 1, n)
                  p == Scan(str)
              IN  \/ /\ p = 1 /\ line_count < Len(lines)
                     /\ SendLine(str)
                  \/ p = 1 /\ line_count >= Len(lines) /\ Overrun
                  \/ /\ p # 1
                     /\ page' = page \o Shown(str)
                     /\ IF line_count < Len(lines)
                        THEN prompt' = Remembered(p) /\ st' = "read"
                        ELSE prompt' = p /\ st' = "closed"
                     /\ UNCHANGED <<line_count, eof>>
    BY <1>5 DEF do_read
  <2>2. UNCHANGED <<lines, c2s, fin, sh, printed, said, heard>> /\ st = "read"
    BY <1>5 DEF do_read, shellVars
  <2> DEFINE str == SubSeq(s2c, 1, n)
  <2>3. PICK m \in Nat : m = Len(s2c)
    BY LenProperties DEF TypeOK
  <2>4. str \in Seq(Tokens) /\ s2c' \in Seq(Tokens)
    <3>1. n \in Nat /\ n >= 1 /\ n <= m
      BY <2>1, <2>3, ScriptsAssumption
    <3>2. \A i \in 1 .. m : s2c[i] \in Tokens
      BY <2>3, ElementOfSeq DEF TypeOK
    <3>3. \A i \in 1 .. n : s2c[i] \in Tokens
      BY <3>1, <3>2
    <3>4. \A i \in n + 1 .. m : s2c[i] \in Tokens
      BY <3>1, <3>2
    <3>5. n + 1 \in Int /\ n \in Int /\ m \in Int /\ 1 \in Int
      BY <3>1
    <3> QED BY <2>1, <2>3, <3>3, <3>4, <3>5, SubSeqProperties DEF TypeOK
  <2> DEFINE S == Tokens \cup DOMAIN Named
  <2>5. page \o Shown(str) \in Seq(S)
    <3>1. Shown(str) \in Seq(S)
      BY <2>4, ShownText
    <3>2. page \in Seq(S)
      BY DEF TypeOK
    <3> QED BY <3>1, <3>2, ConcatProperties
  <2>6. Scan(str) \in {0, 1, 2} /\ prompt \in {0, 1}
    BY <2>2, ScanType DEF TypeOK
  <2> HIDE DEF str, S
  <2>7. TypeOK' \/ (SendLine(str) /\ line_count < Len(lines))
    <3>1. CASE Overrun
      <4>1. st' = "overrun" /\ prompt' \in 0 .. 2 /\ prompt' # 2
        BY <2>6, <3>1 DEF Overrun
      <4>2. UNCHANGED <<line_count, eof, page>>
        BY <3>1 DEF Overrun
      <4> QED BY <2>2, <2>4, <4>1, <4>2 DEF TypeOK
    <3>2. CASE /\ Scan(str) # 1
               /\ page' = page \o Shown(str)
               /\ IF line_count < Len(lines)
                  THEN prompt' = Remembered(Scan(str)) /\ st' = "read"
                  ELSE prompt' = Scan(str) /\ st' = "closed"
               /\ UNCHANGED <<line_count, eof>>
      <4>1. st' \in {"read", "closed"} /\ prompt' \in 0 .. 2 /\ (prompt' = 2 => st' = "closed")
        BY <2>6, <3>2 DEF Remembered
      <4>2. page' \in Seq(Tokens \cup DOMAIN Named)
        BY <2>5, <3>2 DEF S
      <4>3. UNCHANGED <<line_count, eof>>
        BY <3>2
      <4> QED BY <2>2, <2>4, <4>1, <4>2, <4>3 DEF TypeOK
    <3> QED BY <2>1, <3>1, <3>2 DEF str
  <2>8. ASSUME SendLine(str), line_count < Len(lines)
        PROVE  TypeOK'
    <3>1. line_count + 1 \in 1 .. Len(lines) /\ line_count + 1 \in Nat
      <4>1. PICK k \in Nat : k = Len(lines)
        BY ScriptText, LenProperties DEF TypeOK
      <4>2. line_count \in Nat /\ line_count < k
        BY <2>8, <4>1 DEF TypeOK
      <4>3. line_count + 1 \in 1 .. k /\ line_count + 1 \in Nat
        BY <4>2
      <4> QED BY <4>1, <4>3
    <3>2. Shown(<<lines[line_count + 1]>>) \in Seq(S)
      BY <3>1, LineText, ShownText DEF TypeOK, S
    <3>3. page' \in Seq(S)
      <4>1. page' = (page \o Shown(str)) \o Shown(<<lines[line_count + 1]>>)
        BY <2>8 DEF SendLine
      <4> QED BY <2>5, <3>2, <4>1, ConcatProperties
    <3>4. line_count' \in Nat /\ prompt' = 0 /\ st' = "write" /\ eof' \in BOOLEAN
      BY <2>8, <3>1 DEF SendLine, TypeOK
    <3> QED BY <2>2, <2>4, <3>3, <3>4 DEF TypeOK, S
  <2> QED BY <2>7, <2>8
<1>6. CASE do_write
  <2>1. lines[line_count] \in Tokens
    <3>1. PICK k \in Nat : k = Len(lines)
      BY ScriptText, LenProperties DEF TypeOK
    <3>2. line_count \in 1 .. k
      BY <1>6, <3>1 DEF TypeOK, Script, do_write
    <3> QED BY <3>1, <3>2, LineText DEF TypeOK
  <2>2. c2s' \in Seq(Tokens)
    <3>1. Append(c2s, lines[line_count]) \in Seq(Tokens)
      BY <2>1, AppendProperties DEF TypeOK
    <3>2. c2s' = Append(c2s, lines[line_count]) \/ c2s' = c2s
      BY <1>6 DEF do_write
    <3> QED BY <3>1, <3>2 DEF TypeOK
  <2>3. st' \in {"read", "closed"} /\ prompt # 2
    BY <1>6 DEF do_write, TypeOK
  <2> QED BY <1>6, <2>2, <2>3 DEF TypeOK, do_write, shellVars
<1>7. CASE SocksReply
  <2>1. s2c' \in Seq(Tokens)
    <3>1. PICK a \in {"granted", "rejected"} : s2c' = <<a, "addr">>
      BY <1>7 DEF SocksReply
    <3>2. a \in Tokens /\ "addr" \in Tokens
      BY DEF Tokens
    <3> HIDE DEF Tokens
    <3> QED BY <3>1, <3>2
  <2>2. sh' \in {"off", "prompt"} /\ fin' \in BOOLEAN
    BY <1>7 DEF SocksReply
  <2> QED BY <1>7, <2>1, <2>2 DEF TypeOK, SocksReply, clientVars
<1>8. CASE ShellPrompt
  <2>1. <<"pct", "sp">> \in Seq(Tokens)
    <3>1. "pct" \in Tokens /\ "sp" \in Tokens
      BY DEF Tokens
    <3> QED BY <3>1
  <2>2. s2c' \in Seq(Tokens) /\ said' \in Seq(Tokens)
    BY <1>8, <2>1, ConcatProperties DEF TypeOK, ShellPrompt, Say
  <2> QED BY <1>8, <2>2 DEF TypeOK, ShellPrompt, clientVars
<1>9. CASE ShellRead
  <2>1. Head(c2s) \in Tokens /\ Tail(c2s) \in Seq(Tokens)
    BY <1>9, HeadTailProperties DEF TypeOK, ShellRead
  <2>2. said' \in Seq(Tokens) /\ heard' \in Seq(Tokens) /\ c2s' \in Seq(Tokens)
    BY <1>9, <2>1, AppendProperties DEF TypeOK, ShellRead
  <2>3. sh' \in {"exited", "run"} /\ fin' \in BOOLEAN /\ printed' \in 0 .. MaxOut
    <3>1. printed' = 0 /\ MaxOut \in Nat
      BY <1>9, ScriptsAssumption DEF ShellRead
    <3>2. (sh' = "exited" /\ fin' = TRUE) \/ (sh' = "run" /\ fin' = fin)
      BY <1>9 DEF ShellRead
    <3>3. printed' \in 0 .. MaxOut
      BY <3>1
    <3>4. fin' \in BOOLEAN
      BY <3>2, Zenon DEF TypeOK
    <3> QED BY <3>2, <3>3, <3>4
  <2> QED BY <1>9, <2>2, <2>3 DEF TypeOK, ShellRead, clientVars
<1>10. CASE ShellOutput
  <2>1. PICK c \in Output : Say(<<c>>)
    BY <1>10 DEF ShellOutput
  <2>2. <<c>> \in Seq(Tokens)
    <3>1. c \in Tokens
      BY DEF Tokens
    <3> QED BY <3>1
  <2>3. s2c' \in Seq(Tokens) /\ said' \in Seq(Tokens)
    BY <2>1, <2>2, ConcatProperties DEF TypeOK, Say
  <2>4. printed' \in 0 .. MaxOut
    BY <1>10, ScriptsAssumption DEF TypeOK, ShellOutput
  <2> QED BY <1>10, <2>3, <2>4 DEF TypeOK, ShellOutput, clientVars
<1>11. CASE ShellCommandEnds
  BY <1>11 DEF TypeOK, ShellCommandEnds, clientVars
<1>12. CASE ShellDies
  BY <1>12 DEF TypeOK, ShellDies, clientVars
<1>13. CASE UNCHANGED vars
  BY <1>13 DEF TypeOK, vars
<1> QED BY <1>1, <1>2, <1>3, <1>4, <1>5, <1>6, <1>7, <1>8, <1>9, <1>10, <1>11,
           <1>12, <1>13 DEF Next

\* Moving a line from the way to the shell to what it has heard.
LEMMA MoveLine ==
    ASSUME NEW S, NEW h \in Seq(S), NEW c \in Seq(S), c # <<>>
    PROVE  Append(h, Head(c)) \o Tail(c) = h \o c
<1>1. Head(c) \in S /\ Tail(c) \in Seq(S)
  BY HeadTailProperties
<1> QED BY <1>1

\* The line after the first k - 1 ones.
LEMMA NextLine ==
    ASSUME NEW S, NEW h \in Seq(S), NEW c \in Seq(S), NEW l \in Seq(S),
           NEW k \in 1 .. Len(l), h \o c = SubSeq(l, 1, k - 1)
    PROVE  h \o Append(c, l[k]) = SubSeq(l, 1, k)
<1>1. l[k] \in S
  BY ElementOfSeq
<1>2. h \o Append(c, l[k]) = (h \o c) \o <<l[k]>>
  BY <1>1
<1>3. SubSeq(l, 1, k) = SubSeq(l, 1, k - 1) \o <<l[k]>>
  <2>1. PICK m \in Nat : m = Len(l)
    BY LenProperties
  <2>2. 1 \in 1 .. m /\ k \in 1 .. m
    BY <2>1
  <2> QED BY <2>1, <2>2, SubSeqRecursiveSecond
<1> QED BY <1>2, <1>3

\* What a read does apart from the text it shows.
LEMMA ReadCases ==
    ASSUME do_read
    PROVE  /\ st = "read" /\ UNCHANGED <<lines, c2s, fin, sh, printed, said, heard>>
           /\ \/ /\ line_count < Len(lines)
                 /\ line_count' = line_count + 1 /\ st' = "write"
                 /\ eof' = (eof \/ lines[line_count + 1] = "exit")
              \/ line_count >= Len(lines) /\ st' = "overrun"
              \/ st' \in {"read", "closed"} /\ UNCHANGED <<line_count, eof>>
<1>1. PICK n \in 1 .. BufLen :
         LET str == SubSeq(s2c, 1, n)
             p == Scan(str)
         IN  \/ /\ p = 1 /\ line_count < Len(lines)
                /\ SendLine(str)
             \/ p = 1 /\ line_count >= Len(lines) /\ Overrun
             \/ /\ p # 1
                /\ page' = page \o Shown(str)
                /\ IF line_count < Len(lines)
                   THEN prompt' = Remembered(p) /\ st' = "read"
                   ELSE prompt' = p /\ st' = "closed"
                /\ UNCHANGED <<line_count, eof>>
  BY DEF do_read
<1>2. st = "read" /\ UNCHANGED <<lines, c2s, fin, sh, printed, said, heard>>
  BY DEF do_read, shellVars
<1>3. ASSUME NEW str, SendLine(str), line_count < Len(lines)
      PROVE  /\ line_count < Len(lines)
             /\ line_count' = line_count + 1 /\ st' = "write"
             /\ eof' = (eof \/ lines[line_count + 1] = "exit")
  BY <1>3, Zenon DEF SendLine
<1>4. ASSUME Overrun
      PROVE  st' = "overrun"
  BY <1>4 DEF Overrun
<1>5. \/ \E str : SendLine(str) /\ line_count < Len(lines)
      \/ line_count >= Len(lines) /\ Overrun
      \/ st' \in {"read", "closed"} /\ UNCHANGED <<line_count, eof>>
  BY <1>1
<1> QED BY <1>2, <1>3, <1>4, <1>5, Zenon

\* The lines and how many of them there are, with one number for the length.
LEMMA ScriptLines ==
    ASSUME TypeOK
    PROVE  \E m \in Nat : m = Len(lines) /\ lines \in Seq(Tokens)
                             /\ \E k \in 1 .. m : lines[k] = "exit"
BY ScriptText, LenProperties DEF TypeOK

LEMMA ScriptStep == TypeOK /\ Script /\ [Next]_vars => Script'
<1> SUFFICES ASSUME TypeOK, Script, [Next]_vars
             PROVE  Script'
  OBVIOUS
<1>0. PICK m \in Nat : m = Len(lines) /\ lines \in Seq(Tokens)
                         /\ \E k \in 1 .. m : lines[k] = "exit"
  BY ScriptLines
<1>l. lines' = lines /\ Len(lines') = m /\ line_count \in Nat /\ line_count <= m
  <2>1. UNCHANGED lines
    BY DEF Next, vars, do_connect, do_request, do_reply, read_error, do_read, do_write,
           SocksReply, ShellPrompt, ShellRead, ShellOutput, ShellCommandEnds, ShellDies
  <2> QED BY <1>0, <2>1 DEF TypeOK, Script
<1>n. \A n : (NoExit(n))' <=> NoExit(n)
  BY <1>l DEF NoExit
\* The steps that send nothing.
<1>s. ASSUME heard' \o c2s' = heard \o c2s, UNCHANGED <<line_count, eof>>,
             \/ st' = st
             \/ st \in {"connect", "request", "reply", "read"} /\
                st' \in {"request", "reply", "read", "closed"}
      PROVE  Script'
  <2>1. \A n : (Sent(n))' <=> Sent(n)
    BY <1>l, <1>s DEF Sent
  <2>2. st' # "overrun" /\ line_count' <= Len(lines')
    BY <1>s, <1>0, <1>l DEF Script
  <2>3. st' \in {"connect", "request", "reply", "read"} =>
           Sent(line_count)' /\ NoExit(line_count)' /\ ~eof'
    BY <1>s, <1>n, <2>1 DEF Script
  <2>4. st' = "write" =>
           /\ line_count' >= 1
           /\ Sent(line_count - 1)' /\ NoExit(line_count - 1)'
           /\ eof' <=> lines'[line_count'] = "exit"
    BY <1>s, <1>n, <1>l, <2>1 DEF Script
  <2>5. st' = "closed" => \E n \in 0 .. Len(lines') : Sent(n)' /\ NoExit(n - 1)'
    <3>1. CASE st = "closed"
      BY <1>l, <1>n, <2>1, <3>1 DEF Script
    <3>2. CASE st \in {"connect", "request", "reply", "read"}
      <4>1. Sent(line_count) /\ NoExit(line_count - 1)
        BY <1>l, <3>2 DEF Script, NoExit
      <4>2. line_count \in 0 .. Len(lines')
        BY <1>l
      <4> QED BY <1>n, <2>1, <4>1, <4>2
    <3> QED BY <1>s, <3>1, <3>2
  <2> QED BY <2>2, <2>3, <2>4, <2>5 DEF Script
<1>1. CASE do_connect
  BY <1>1, <1>s DEF do_connect, shellVars
<1>2. CASE do_request
  BY <1>2, <1>s DEF do_request, shellVars
<1>3. CASE do_reply
  BY <1>3, <1>s DEF do_reply
<1>4. CASE read_error
  BY <1>4, <1>s DEF read_error, shellVars
<1>5. CASE do_read
  <2>1. st = "read" /\ UNCHANGED <<lines, c2s, fin, sh, printed, said, heard>>
    BY <1>5, ReadCases
  <2>2. Sent(line_count) /\ NoExit(line_count) /\ ~eof
    BY <2>1 DEF Script
  <2>3. CASE /\ line_count < Len(lines)
             /\ line_count' = line_count + 1 /\ st' = "write"
             /\ eof' = (eof \/ lines[line_count + 1] = "exit")
    <3>1. line_count' >= 1 /\ line_count' <= m /\ line_count' - 1 = line_count
      BY <1>0, <1>l, <2>3
    <3>2. eof' <=> lines'[line_count'] = "exit"
      BY <1>l, <2>2, <2>3, Zenon
    <3>3. Sent(line_count - 1)' /\ NoExit(line_count - 1)'
      BY <1>l, <2>1, <2>2, <3>1 DEF Sent, NoExit
    <3> QED BY <1>l, <2>3, <3>1, <3>2, <3>3 DEF Script
  <2>4. CASE line_count >= Len(lines) /\ st' = "overrun"
    BY <1>0, <1>l, <2>2, <2>4 DEF NoExit
  <2>5. CASE st' \in {"read", "closed"} /\ UNCHANGED <<line_count, eof>>
    BY <1>s, <2>1, <2>5
  <2> QED BY <1>5, <2>3, <2>4, <2>5, ReadCases
<1>6. CASE do_write
  <2>1. /\ st = "write" /\ line_count \in 1 .. m
        /\ Sent(line_count - 1) /\ NoExit(line_count - 1)
        /\ eof <=> lines[line_count] = "exit"
    BY <1>6, <1>l DEF do_write, Script
  <2>2. UNCHANGED <<line_count, eof, heard>>
    BY <1>6 DEF do_write, shellVars
  <2>3. CASE /\ c2s' = Append(c2s, lines[line_count])
             /\ st' = IF eof THEN "closed" ELSE "read"
    <3>1. Sent(line_count)'
      <4>1. heard \in Seq(Tokens) /\ c2s \in Seq(Tokens) /\ line_count \in 1 .. Len(lines)
        BY <1>0, <2>1 DEF TypeOK
      <4>2. heard \o c2s = SubSeq(lines, 1, line_count - 1)
        BY <2>1 DEF Sent
      <4>3. heard \o c2s' = SubSeq(lines, 1, line_count)
        BY <1>0, <2>3, <4>1, <4>2, NextLine
      <4> QED BY <1>l, <2>2, <4>3 DEF Sent
    <3>2. CASE eof
      <4>1. st' = "closed"
        BY <2>3, <3>2
      <4>2. line_count \in 0 .. m /\ NoExit(line_count - 1)'
        BY <1>l, <2>1, <2>2 DEF NoExit
      <4>3. \E n \in 0 .. m : Sent(n)' /\ NoExit(n - 1)'
        BY <2>2, <3>1, <4>2 DEF Sent
      <4> QED BY <1>l, <2>2, <4>1, <4>3 DEF Script
    <3>3. CASE ~eof
      <4>1. st' = "read"
        BY <2>3, <3>3
      <4>2. NoExit(line_count)
        <5>1. lines[line_count] # "exit"
          BY <2>1, <3>3
        <5>2. \A k \in 1 .. line_count : k \in 1 .. line_count - 1 \/ k = line_count
          BY <1>l
        <5> QED BY <2>1, <5>1, <5>2 DEF NoExit
      <4>3. NoExit(line_count)'
        BY <1>l, <2>2, <4>2 DEF NoExit
      <4> QED BY <1>l, <2>2, <3>1, <3>3, <4>1, <4>3 DEF Script
    <3> QED BY <3>2, <3>3
  <2>4. CASE st' = "closed" /\ UNCHANGED c2s
    <3>1. line_count - 1 \in 0 .. m
      BY <1>l, <2>1
    <3>2. NoExit(line_count - 1 - 1)
      BY <1>l, <2>1 DEF NoExit
    <3>3. \E n \in 0 .. m : Sent(n) /\ NoExit(n - 1)
      BY <2>1, <3>1, <3>2
    <3>4. \E n \in 0 .. m : Sent(n)' /\ NoExit(n - 1)'
      BY <1>l, <2>2, <2>4, <3>3 DEF Sent, NoExit
    <3> QED BY <1>l, <2>2, <2>4, <3>4 DEF Script
  <2> QED BY <1>6, <2>3, <2>4 DEF do_write
<1>7. CASE SocksReply
  BY <1>7, <1>s DEF SocksReply, clientVars
<1>8. CASE ShellPrompt
  BY <1>8, <1>s DEF ShellPrompt, clientVars
<1>9. CASE ShellRead
  <2>1. heard' \o c2s' = heard \o c2s
    BY <1>9, MoveLine DEF ShellRead, TypeOK
  <2> QED BY <1>9, <1>s, <2>1 DEF ShellRead, clientVars
<1>10. CASE ShellOutput
  BY <1>10, <1>s DEF ShellOutput, clientVars
<1>11. CASE ShellCommandEnds
  BY <1>11, <1>s DEF ShellCommandEnds, clientVars
<1>12. CASE ShellDies
  BY <1>12, <1>s DEF ShellDies, clientVars
<1>13. CASE UNCHANGED vars
  BY <1>13, <1>s DEF vars
<1> QED BY <1>1, <1>2, <1>3, <1>4, <1>5, <1>6, <1>7, <1>8, <1>9, <1>10, <1>11,
           <1>12, <1>13 DEF Next

\* The last token of a text that grows.
LEMMA LastOf ==
    ASSUME NEW S, NEW a \in Seq(S), NEW t \in Seq(S), t # <<>>
    PROVE  a \o t # <<>> /\ (a \o t)[Len(a \o t)] = t[Len(t)]
OBVIOUS

\* What is sent after the reply.
LEMMA ReplyGrows ==
    ASSUME NEW S, NEW r \in Seq(S), NEW a \in Seq(S), NEW b \in Seq(S), r # <<>>
    PROVE  r \o a # <<>> /\ (r \o a) \o b = r \o (a \o b)
OBVIOUS

\* What the shell says.
LEMMA SayStep ==
    ASSUME TypeOK, Shell, sh \in {"prompt", "run"}, NEW text \in Seq(Tokens), Say(text),
           UNCHANGED clientVars, UNCHANGED <<c2s, fin>>, sh' # "off",
           sh' = "wait" => text # <<>> /\ text[Len(text)] = "sp"
    PROVE  Shell'
<1>1. UNCHANGED <<st, page, prompt, c2s, fin>> /\ ~fin
  BY DEF clientVars, Shell
<1>2. s2c' = s2c \o text /\ said' = said \o text
  BY DEF Say
<1>3. sh' = "wait" => said' # <<>> /\ said'[Len(said')] = "sp"
  <2> SUFFICES ASSUME sh' = "wait"
               PROVE  said' # <<>> /\ said'[Len(said')] = "sp"
    OBVIOUS
  <2>1. text # <<>> /\ text[Len(text)] = "sp" /\ said \in Seq(Tokens)
    BY DEF TypeOK
  <2>2. \A a, t \in Seq(Tokens) :
           t # <<>> => a \o t # <<>> /\ (a \o t)[Len(a \o t)] = t[Len(t)]
    OBVIOUS
  <2> QED BY <1>2, <2>1, <2>2, Zenon
<1>4. st' \notin {"connect", "request"}
  BY <1>1 DEF Shell
<1>5. st' = "reply" => s2c' # <<>> /\ Replied(s2c)'
  <2> SUFFICES ASSUME st' = "reply"
               PROVE  s2c' # <<>> /\ Replied(s2c)'
    OBVIOUS
  <2>1. PICK a \in {"granted", "rejected"} : s2c = <<a, "addr">> \o said
    BY <1>1 DEF Shell, Replied
  <2> DEFINE r == <<a, "addr">>
  <2>2. r \in Seq(Tokens) /\ r # <<>> /\ said \in Seq(Tokens)
    <3>1. a \in Tokens /\ "addr" \in Tokens
      BY DEF Tokens
    <3> QED BY <3>1 DEF TypeOK
  <2>3. s2c = r \o said
    BY <2>1
  <2> HIDE DEF r
  <2>4. r \o (said \o text) # <<>> /\ (r \o said) \o text = r \o (said \o text)
    <3>1. said \o text \in Seq(Tokens)
      BY <2>2, ConcatProperties
    <3> QED BY <2>2, <3>1, ReplyGrows
  <2>5. s2c' # <<>> /\ s2c' = r \o said'
    BY <1>2, <2>3, <2>4, Zenon
  <2> QED BY <2>5 DEF Replied, r
<1> QED BY <1>1, <1>3, <1>4, <1>5 DEF Shell

LEMMA ShellStep == TypeOK /\ Shell /\ [Next]_vars => Shell'
<1> SUFFICES ASSUME TypeOK, Shell, [Next]_vars
             PROVE  Shell'
  OBVIOUS
<1>1. CASE do_connect
  BY <1>1 DEF Shell, do_connect, shellVars
<1>2. CASE do_request
  BY <1>2 DEF Shell, do_request, shellVars
<1>3. CASE do_reply
  <2>1. /\ s2c' = said \/ s2c' = <<"addr">> \o said
        /\ said' = s2c' /\ said \in Seq(Tokens) /\ <<"addr">> \in Seq(Tokens)
        /\ st' = "read" /\ UNCHANGED <<sh, fin>>
    BY <1>3, ReplyRead
  <2>2. sh' = "wait" => said' # <<>> /\ said'[Len(said')] = "sp"
    <3> SUFFICES ASSUME sh = "wait"
                 PROVE  said' # <<>> /\ said'[Len(said')] = "sp"
      BY <2>1
    <3>1. said # <<>> /\ said[Len(said)] = "sp"
      BY DEF Shell
    <3> QED BY <2>1, <3>1, LastOf
  <2> QED BY <2>1, <2>2 DEF Shell
<1>4. CASE read_error
  BY <1>4 DEF Shell, read_error, shellVars
<1>5. CASE do_read
  <2>1. /\ UNCHANGED <<lines, c2s, fin, sh, printed, said, heard>>
        /\ st' \in {"read", "write", "overrun", "closed"}
    BY <1>5, ReadCases, Zenon
  <2> QED BY <2>1 DEF Shell
<1>6. CASE do_write
  BY <1>6 DEF Shell, do_write, shellVars
<1>7. CASE SocksReply
  <2>1. PICK granted \in BOOLEAN :
           /\ s2c' = <<IF granted THEN "granted" ELSE "rejected", "addr">>
           /\ sh' = IF granted THEN "prompt" ELSE "off"
           /\ fin' = ~granted
    BY <1>7 DEF SocksReply
  <2>2. UNCHANGED <<st, page, prompt, c2s, said>> /\ st = "reply" /\ said = <<>>
    BY <1>7 DEF SocksReply, clientVars, Shell
  <2>3. s2c' # <<>> /\ Replied(s2c)'
    <3>1. PICK a \in {"granted", "rejected"} : s2c' = <<a, "addr">>
      BY <2>1
    <3>2. <<a, "addr">> # <<>> /\ <<a, "addr">> = <<a, "addr">> \o <<>>
      OBVIOUS
    <3> QED BY <2>2, <3>1, <3>2 DEF Replied
  <2>4. sh' \in {"prompt", "off"} /\ (fin' => sh' = "off")
    BY <2>1
  <2> QED BY <2>2, <2>3, <2>4 DEF Shell
<1>8. CASE ShellPrompt
  <2>1. "pct" \in Tokens /\ "sp" \in Tokens
    BY DEF Tokens
  <2> DEFINE text == <<"pct", "sp">>
  <2>2. text \in Seq(Tokens) /\ text # <<>> /\ text[Len(text)] = "sp"
    BY <2>1
  <2>3. Say(text) /\ UNCHANGED clientVars /\ UNCHANGED <<c2s, fin>> /\ sh = "prompt" /\ sh' = "wait"
    BY <1>8 DEF ShellPrompt
  <2> HIDE DEF text
  <2> QED BY <2>2, <2>3, SayStep
<1>9. CASE ShellRead
  BY <1>9 DEF Shell, ShellRead, clientVars
<1>10. CASE ShellOutput
  <2>1. PICK c \in Output : Say(<<c>>)
    BY <1>10 DEF ShellOutput
  <2>2. <<c>> \in Seq(Tokens)
    <3>1. c \in Tokens
      BY DEF Tokens
    <3> QED BY <3>1
  <2>3. UNCHANGED clientVars /\ UNCHANGED <<c2s, fin>> /\ sh = "run" /\ sh' = "run"
    BY <1>10 DEF ShellOutput
  <2> QED BY <2>1, <2>2, <2>3, SayStep
<1>11. CASE ShellCommandEnds
  BY <1>11 DEF Shell, Replied, ShellCommandEnds, clientVars
<1>12. CASE ShellDies
  BY <1>12 DEF Shell, Replied, ShellDies, clientVars
<1>13. CASE UNCHANGED vars
  BY <1>13 DEF Shell, Replied, vars
<1> QED BY <1>1, <1>2, <1>3, <1>4, <1>5, <1>6, <1>7, <1>8, <1>9, <1>10, <1>11,
           <1>12, <1>13 DEF Next

LEMMA InitInv == Init => Inv
<1> SUFFICES ASSUME Init
             PROVE  Inv
  OBVIOUS
<1>1. \A S : <<>> \in Seq(S)
  BY EmptySeq
<1>2. TypeOK
  <2>1. 0 \in 0 .. MaxOut /\ 0 \in 0 .. 2 /\ 0 # 2 /\ 0 \in Nat
    BY ScriptsAssumption
  <2> QED BY <1>1, <2>1 DEF Init, TypeOK
<1>3. Script
  <2>1. PICK m \in Nat : m = Len(lines) /\ lines \in Seq(Tokens)
    BY <1>2, ScriptLines
  <2>2. <<>> \o <<>> = SubSeq(lines, 1, 0)
    BY <2>1
  <2> QED BY <2>1, <2>2 DEF Init, Script, Sent, NoExit
<1>4. Shell
  BY DEF Init, Shell
<1> QED BY <1>2, <1>3, <1>4 DEF Inv

\* In every reachable state Inv holds.
THEOREM Invariance == Spec => []Inv
<1>1. Init => Inv
  BY InitInv
<1>2. Inv /\ [Next]_vars => Inv'
  BY TypeStep, ScriptStep, ShellStep DEF Inv
<1> QED BY <1>1, <1>2, PTL DEF Spec

\* The types of the client, the connection and the shell; no % that ended the
\* data of a read is remembered as 2 when the client reads again (236-242).
THEOREM TypeCorrect == Spec => []TypeOK
<1>1. Inv => TypeOK
  BY DEF Inv
<1> QED BY <1>1, Invariance, PTL

\* For every script, every output and every length of reads: the lines are sent
\* in order, none twice and none skipped, none after the first exit, and
\* lines[line_count] is never read past the end of the vector (231-266).
THEOREM ScriptCorrect == Spec => []SentInOrder
<1>1. Inv => SentInOrder
  <2> SUFFICES ASSUME Inv
               PROVE  SentInOrder
    OBVIOUS
  <2>1. PICK m \in Nat : m = Len(lines) /\ lines \in Seq(Tokens)
    BY ScriptLines DEF Inv
  <2>i. /\ st \in {"connect", "request", "reply", "read", "write", "closed", "overrun"}
        /\ line_count \in Nat /\ line_count <= m /\ Script
    BY <2>1 DEF Inv, Script, TypeOK
  <2>2. st # "overrun" /\ \E n \in 0 .. m : Sent(n) /\ NoExit(n - 1)
    <3>1. CASE st \in {"connect", "request", "reply", "read"}
      <4>1. Sent(line_count) /\ NoExit(line_count - 1) /\ line_count \in 0 .. m
        BY <2>i, <3>1 DEF Script, NoExit
      <4> QED BY <3>1, <4>1
    <3>2. CASE st = "write"
      <4>1. Sent(line_count - 1) /\ NoExit(line_count - 1 - 1) /\ line_count - 1 \in 0 .. m
        BY <2>i, <3>2 DEF Script, NoExit
      <4> QED BY <3>2, <4>1
    <3>3. CASE st = "closed"
      BY <2>1, <2>i, <3>3 DEF Script
    <3> QED BY <2>i, <3>1, <3>2, <3>3 DEF Script
  <2>3. PICK n \in 0 .. m : Sent(n) /\ NoExit(n - 1)
    BY <2>2
  <2> DEFINE sent == heard \o c2s
  <2>4. sent = SubSeq(lines, 1, n)
    BY <2>3 DEF Sent
  <2>5. Len(sent) = n /\ \A k \in 1 .. n : sent[k] = lines[k]
    BY <2>1, <2>4
  <2>6. IsPrefix(sent, lines)
    BY <2>1, <2>4, <2>5 DEF IsPrefix
  <2>7. \A k \in 1 .. Len(sent) - 1 : sent[k] # "exit"
    BY <2>3, <2>5 DEF NoExit
  <2> HIDE DEF sent
  <2> QED BY <2>2, <2>6, <2>7 DEF SentInOrder, sent
<1> QED BY <1>1, Invariance, PTL

-----------------------------------------------------------------------------
(***************************************************************************)
(* The page.                                                               *)
(***************************************************************************)
\* The part of a text that is not read.
LEMMA RestOf ==
    ASSUME NEW S, NEW s \in Seq(S), NEW n \in Nat, n <= Len(s)
    PROVE  SubSeq(s, 1, n) \in Seq(S) /\ SubSeq(s, n + 1, Len(s)) \in Seq(S)
           /\ SubSeq(s, 1, n) \o SubSeq(s, n + 1, Len(s)) = s
           /\ Len(SubSeq(s, 1, n)) = n /\ (\A i \in 1 .. n : SubSeq(s, 1, n)[i] = s[i])
<1>1. PICK m \in Nat : m = Len(s)
  BY LenProperties
<1>2. n \in 0 .. m /\ 1 \in 1 .. m + 1 /\ n \in 1 - 1 .. m /\ m \in n .. m
  BY <1>1
<1>3. SubSeq(s, 1, n) \o SubSeq(s, n + 1, m) = SubSeq(s, 1, m)
  BY <1>1, <1>2, ConcatAdjacentSubSeq
<1>4. \A i \in 1 .. m : s[i] \in S
  BY <1>1, ElementOfSeq
<1>5. SubSeq(s, n + 1, m) \in Seq(S)
  <2>1. n + 1 \in Int /\ m \in Int /\ \A i \in n + 1 .. m : s[i] \in S
    BY <1>1, <1>4
  <2> QED BY <2>1, SubSeqProperties
<1>6. /\ SubSeq(s, 1, n) \in Seq(S) /\ Len(SubSeq(s, 1, n)) = n
      /\ \A i \in 1 .. n : SubSeq(s, 1, n)[i] = s[i]
  BY <1>1, <1>2, <1>4
<1> QED BY <1>1, <1>3, <1>5, <1>6, SubSeqFull

LEMMA LineIsWord ==
    ASSUME NEW s \in Scripts, NEW k \in 1 .. Len(s)
    PROVE  s[k] \in Words
<1>1. s \in Seq(Tokens)
  BY ScriptText
<1>2. s[k] \in ToSet(s)
  BY <1>1, LenProperties DEF ToSet
<1> QED BY <1>2 DEF Words

LEMMA UnquotedTokens ==
    ASSUME Plain
    PROVE  /\ Words \subseteq Unquoted /\ Output \subseteq Unquoted
           /\ {"pct", "sp", "granted", "rejected", "addr"} \subseteq Unquoted
           /\ Unquoted \subseteq Tokens
BY DEF Plain, Unquoted, Tokens, Words

\* A text without quotes, backslashes and CRs is shown as it is.
LEMMA ShownPlain ==
    ASSUME NEW text \in Seq(Unquoted)
    PROVE  Shown(text) = text
<1>1. PICK n \in Nat : n = Len(text)
  BY LenProperties
<1>2. DOMAIN text = 1 .. n /\ \A i \in 1 .. n : text[i] \in Unquoted
  BY <1>1, ElementOfSeq, LenProperties
<1>3. text \in Seq(Tokens)
  <2>1. text = [i \in 1 .. n |-> text[i]]
    BY <1>1, <1>2, SeqDef
  <2>2. \A i \in 1 .. n : text[i] \in Tokens
    BY <1>2 DEF Unquoted
  <2>3. text \in [1 .. n -> Tokens]
    BY <2>1, <2>2
  <2> QED BY <2>3, SeqDef
<1>4. \A i \in DOMAIN text : text[i] \notin {"dq", "sq", "bs", "cr"}
  BY <1>2 DEF Unquoted
<1> QED BY <1>3, <1>4, ShownText

LEMMA PlainStep == Plain /\ Inv /\ PlainTexts /\ [Next]_vars => PlainTexts'
<1> SUFFICES ASSUME Plain, Inv, PlainTexts, [Next]_vars
             PROVE  PlainTexts'
  OBVIOUS
<1>0. TypeOK /\ Script /\ Shell
  BY DEF Inv
<1>1. ASSUME UNCHANGED <<s2c, c2s, said>>
      PROVE  PlainTexts'
  BY <1>1 DEF PlainTexts
<1>2. CASE do_connect \/ do_request \/ read_error \/ ShellCommandEnds \/ ShellDies \/ UNCHANGED vars
  BY <1>1, <1>2 DEF do_connect, do_request, read_error, ShellCommandEnds, ShellDies,
                    vars, shellVars
<1>3. CASE do_reply
  <2>1. PICK n \in 1 .. 2 : s2c' = SubSeq(s2c, n + 1, Len(s2c))
    BY <1>3 DEF do_reply
  <2>2. s2c' \in Seq(Unquoted)
    <3>1. PICK a \in {"granted", "rejected"} : s2c = <<a, "addr">> \o said
      BY <1>0, <1>3 DEF Shell, Replied, do_reply
    <3>2. n \in Nat /\ n <= Len(s2c)
      <4>1. a \in Tokens /\ "addr" \in Tokens /\ said \in Seq(Tokens)
        BY <1>0 DEF Tokens, TypeOK
      <4> HIDE DEF Tokens
      <4>2. PICK m \in Nat : m = Len(said)
        BY <4>1, LenProperties
      <4>3. Len(s2c) = m + 2
        BY <3>1, <4>1, <4>2
      <4> QED BY <4>3
    <3> QED BY <2>1, <3>2, RestOf DEF PlainTexts
  <2>3. said' # <<>> /\ said'[Len(said')] = "pct" => "pct" \in Output
    <3>1. /\ s2c' = said \/ s2c' = <<"addr">> \o said
          /\ said' = s2c' /\ said \in Seq(Tokens) /\ <<"addr">> \in Seq(Tokens)
      BY <1>0, <1>3, ReplyRead
    <3>2. CASE said' = said
      BY <3>2 DEF PlainTexts
    <3>3. CASE said' = <<"addr">> \o said
      <4>1. CASE said = <<>>
        <5>1. said' = <<"addr">>
          BY <3>1, <3>3, <4>1, ConcatEmptySeq
        <5>2. Len(<<"addr">>) = 1 /\ <<"addr">>[1] = "addr" /\ "addr" # "pct"
          OBVIOUS
        <5> QED BY <5>1, <5>2
      <4>2. CASE said # <<>>
        <5>1. said'[Len(said')] = said[Len(said)]
          BY <3>1, <3>3, <4>2, LastOf
        <5> QED BY <4>2, <5>1 DEF PlainTexts
      <4> QED BY <4>1, <4>2
    <3> QED BY <3>1, <3>2, <3>3
  <2> QED BY <1>3, <2>2, <2>3 DEF PlainTexts, do_reply
<1>4. CASE do_read
  <2>1. PICK n \in 1 .. BufLen : n <= Len(s2c) /\ s2c' = SubSeq(s2c, n + 1, Len(s2c))
    BY <1>4 DEF do_read
  <2>2. n \in Nat
    BY ScriptsAssumption
  <2>3. s2c' \in Seq(Unquoted)
    BY <2>1, <2>2, RestOf DEF PlainTexts
  <2> QED BY <1>4, <2>3 DEF PlainTexts, do_read, shellVars
<1>5. CASE do_write
  <2>1. c2s' = Append(c2s, lines[line_count]) \/ c2s' = c2s
    BY <1>5 DEF do_write
  <2>2. lines[line_count] \in Words
    <3>1. PICK m \in Nat : m = Len(lines)
      BY <1>0, ScriptLines
    <3>2. line_count \in 1 .. m
      BY <1>0, <1>5, <3>1 DEF TypeOK, Script, do_write
    <3> QED BY <1>0, <3>1, <3>2, LineIsWord DEF TypeOK
  <2>3. c2s' \in Seq(Words)
    BY <2>1, <2>2, AppendProperties DEF PlainTexts
  <2> QED BY <1>5, <2>3 DEF PlainTexts, do_write, shellVars
<1>6. CASE SocksReply
  <2>1. PICK a \in {"granted", "rejected"} : s2c' = <<a, "addr">>
    BY <1>6 DEF SocksReply
  <2>2. a \in Unquoted /\ "addr" \in Unquoted
    BY UnquotedTokens
  <2>3. s2c' \in Seq(Unquoted)
    BY <2>1, <2>2
  <2> QED BY <1>6, <2>3 DEF PlainTexts, SocksReply
<1>7. CASE ShellPrompt
  <2> DEFINE text == <<"pct", "sp">>
  <2>1. text \in Seq(Unquoted) /\ text \in Seq(Tokens) /\ text # <<>> /\ text[Len(text)] = "sp"
    <3>1. "pct" \in Unquoted /\ "sp" \in Unquoted /\ "pct" \in Tokens /\ "sp" \in Tokens
      BY UnquotedTokens
    <3> QED BY <3>1
  <2>2. s2c' = s2c \o text /\ said' = said \o text /\ c2s' = c2s
    BY <1>7 DEF ShellPrompt, Say
  <2> HIDE DEF text
  <2>3. s2c' \in Seq(Unquoted)
    BY <2>1, <2>2, ConcatProperties DEF PlainTexts
  <2>4. said'[Len(said')] = "sp"
    BY <1>0, <2>1, <2>2, LastOf DEF TypeOK
  <2> QED BY <2>2, <2>3, <2>4 DEF PlainTexts
<1>8. CASE ShellRead
  <2>1. Head(c2s) \in Words /\ Tail(c2s) \in Seq(Words)
    BY <1>8, HeadTailProperties DEF PlainTexts, ShellRead
  <2>2. said' = Append(said, Head(c2s)) /\ c2s' = Tail(c2s) /\ s2c' = s2c
    BY <1>8 DEF ShellRead
  <2>3. said'[Len(said')] = Head(c2s)
    BY <1>0, <2>2 DEF TypeOK
  <2>4. Head(c2s) # "pct"
    BY <2>1 DEF Plain
  <2> QED BY <2>1, <2>2, <2>3, <2>4 DEF PlainTexts
<1>9. CASE ShellOutput
  <2>1. PICK c \in Output : s2c' = s2c \o <<c>> /\ said' = said \o <<c>>
    BY <1>9 DEF ShellOutput, Say
  <2>2. c \in Unquoted
    BY UnquotedTokens
  <2>3. s2c' \in Seq(Unquoted)
    BY <2>1, <2>2 DEF PlainTexts
  <2>4. said'[Len(said')] = c
    BY <1>0, <2>1 DEF TypeOK
  <2>5. c2s' = c2s
    BY <1>9 DEF ShellOutput
  <2> QED BY <2>3, <2>4, <2>5 DEF PlainTexts
<1> QED BY <1>2, <1>3, <1>4, <1>5, <1>6, <1>7, <1>8, <1>9 DEF Next

\* Once a command has printed a % that is no prompt, it stays printed.
LEMMA Grows ==
    ASSUME NEW S, NEW a \in Seq(S), NEW t \in Seq(S)
    PROVE  /\ Len(a \o t) = Len(a) + Len(t)
           /\ \A i \in 1 .. Len(a) : (a \o t)[i] = a[i]
           /\ \A i \in 1 .. Len(t) : (a \o t)[Len(a) + i] = t[i]
OBVIOUS

LEMMA PromptsStay ==
    ASSUME Plain, Inv, PlainTexts, [Next]_vars, OnlyPrompts'
    PROVE  OnlyPrompts
<1>0. TypeOK /\ Shell /\ said \in Seq(Tokens)
  BY DEF Inv, TypeOK
<1>1. PICK n \in Nat : n = Len(said) /\ DOMAIN said = 1 .. n
  BY <1>0, LenProperties
<1>6. ASSUME do_reply
      PROVE  OnlyPrompts
  <2>1. /\ said' = said \/ said' = <<"addr">> \o said
        /\ <<"addr">> \in Seq(Tokens)
    BY <1>0, <1>6, ReplyRead
  <2>2. CASE said' = said
    BY <2>2 DEF OnlyPrompts
  <2>3. CASE said' = <<"addr">> \o said
    <3>1. DOMAIN said' = 1 .. n + 1 /\ Len(said') = n + 1 /\ \A i \in 1 .. n : said'[i + 1] = said[i]
      BY <1>0, <1>1, <2>1, <2>3
    <3>2. ASSUME NEW i \in 1 .. n, said[i] = "pct"
          PROVE  i < n /\ said[i + 1] = "sp"
      <4>1. i + 1 \in DOMAIN said' /\ said'[i + 1] = "pct"
        BY <3>1, <3>2
      <4>2. i + 1 < n + 1 /\ said'[(i + 1) + 1] = "sp"
        BY <3>1, <4>1 DEF OnlyPrompts
      <4>3. i + 1 \in 1 .. n
        BY <4>2
      <4> QED BY <3>1, <4>2, <4>3
    <3> QED BY <1>1, <3>2 DEF OnlyPrompts
  <2> QED BY <2>1, <2>2, <2>3
<1>2. do_reply \/ said' = said \/ \E t \in Seq(Tokens) :
         /\ said' = said \o t /\ Len(t) > 0
         /\ n > 0 /\ said[n] = "pct" => t[1] # "sp"
  <2>1. CASE ShellPrompt
    <3> DEFINE t == <<"pct", "sp">>
    <3>1. "pct" \in Tokens /\ "sp" \in Tokens
      BY DEF Tokens
    <3>2. t \in Seq(Tokens) /\ Len(t) > 0 /\ t[1] # "sp"
      BY <3>1
    <3>3. said' = said \o t
      BY <2>1 DEF ShellPrompt, Say
    <3> QED BY <3>2, <3>3
  <2>2. CASE ShellRead
    <3> DEFINE t == <<Head(c2s)>>
    <3>1. Head(c2s) \in Tokens
      BY <1>0, <2>2, HeadTailProperties DEF TypeOK, ShellRead
    <3>2. t \in Seq(Tokens) /\ Len(t) > 0
      BY <3>1
    <3>3. said' = said \o t
      BY <1>0, <2>2, <3>1 DEF ShellRead
    <3>4. ~ (n > 0 /\ said[n] = "pct")
      BY <1>0, <1>1, <2>2 DEF Shell, ShellRead
    <3> HIDE DEF t
    <3> QED BY <3>2, <3>3, <3>4
  <2>3. CASE ShellOutput
    <3>1. PICK c \in Output : said' = said \o <<c>>
      BY <2>3 DEF ShellOutput, Say
    <3> DEFINE t == <<c>>
    <3>2. c \in Tokens
      BY DEF Tokens
    <3>3. t \in Seq(Tokens) /\ Len(t) > 0 /\ t[1] = c
      BY <3>2
    <3>4. n > 0 /\ said[n] = "pct" => c # "sp"
      <4>1. n > 0 => said # <<>>
        BY <1>0, <1>1
      <4> QED BY <1>1, <4>1 DEF PlainTexts, Plain
    <3> QED BY <3>1, <3>3, <3>4
  <2>4. CASE \/ do_connect \/ do_request \/ read_error \/ do_read \/ do_write
             \/ SocksReply \/ ShellCommandEnds \/ ShellDies \/ UNCHANGED vars
    BY <2>4 DEF do_connect, do_request, read_error, do_read, do_write,
                SocksReply, ShellCommandEnds, ShellDies, vars, shellVars
  <2> QED BY <2>1, <2>2, <2>3, <2>4 DEF Next
<1>3. CASE said' = said
  BY <1>3 DEF OnlyPrompts
<1>4. ASSUME NEW t \in Seq(Tokens), said' = said \o t, Len(t) > 0,
             n > 0 /\ said[n] = "pct" => t[1] # "sp",
             NEW i \in 1 .. n, said[i] = "pct"
      PROVE  i < n /\ said[i + 1] = "sp"
  <2>1. PICK k \in Nat : k = Len(t)
    BY LenProperties
  <2>2. Len(said') = n + k /\ k > 0 /\ said' \in Seq(Tokens)
    BY <1>0, <1>1, <1>4, <2>1, Grows
  <2>3. \A j \in 1 .. n : said'[j] = said[j]
    BY <1>0, <1>1, <1>4, Grows
  <2>4. said'[n + 1] = t[1]
    <3>1. 1 \in 1 .. Len(t)
      BY <2>1, <2>2
    <3> QED BY <1>0, <1>1, <1>4, <3>1, Grows
  <2>5. i \in DOMAIN said' /\ said'[i] = "pct"
    BY <1>4, <2>2, <2>3
  <2>6. said'[i + 1] = "sp"
    BY <2>5 DEF OnlyPrompts
  <2>7. i # n
    <3> SUFFICES ASSUME i = n
                 PROVE  FALSE
      OBVIOUS
    <3>1. n > 0 /\ said[n] = "pct"
      BY <1>4
    <3>2. t[1] # "sp"
      BY <1>4, <3>1
    <3> QED BY <2>4, <2>6, <3>2
  <2>8. i < n /\ i + 1 \in 1 .. n
    BY <2>7
  <2> QED BY <2>3, <2>6, <2>8
<1>5. CASE said' # said /\ ~do_reply
  <2>1. \A i \in 1 .. n : said[i] = "pct" => i < n /\ said[i + 1] = "sp"
    BY <1>2, <1>4, <1>5
  <2> QED BY <1>1, <2>1 DEF OnlyPrompts
<1> QED BY <1>3, <1>5, <1>6

\* Three texts.
Regrouped(a, b, c) == (a \o b) \o c = a \o (b \o c)

LEMMA Regroup ==
    ASSUME NEW S, NEW a \in Seq(S), NEW b \in Seq(S), NEW c \in Seq(S)
    PROVE  Regrouped(a, b, c)
<1>1. PICK m \in Nat, n \in Nat, k \in Nat : m = Len(a) /\ n = Len(b) /\ k = Len(c)
  BY LenProperties
<1> DEFINE x == (a \o b) \o c
           y == a \o (b \o c)
<1>2. x \in Seq(S) /\ y \in Seq(S) /\ Len(x) = m + n + k /\ Len(y) = m + n + k
  BY <1>1
<1>3. \A i \in 1 .. m + n + k : x[i] = y[i]
  BY <1>1
<1> HIDE DEF x, y
<1>4. x = y
  BY <1>1, <1>2, <1>3, SeqEqual
<1> QED BY <1>4 DEF x, y, Regrouped

\* A read that ends before or at a prompt: what is on the page and what is on
\* its way still make up what was said, and what the client missed of it before
\* is all that it may miss now.
LEMMA ReadBehind ==
    ASSUME TypeOK, PlainTexts, Behind, NEW n \in Nat, n >= 1, n <= Len(s2c)
    PROVE  /\ Shown(SubSeq(s2c, 1, n)) = SubSeq(s2c, 1, n)
           /\ page \o SubSeq(s2c, 1, n) \in Seq(Tokens \cup DOMAIN Named)
           /\ said = (page \o SubSeq(s2c, 1, n)) \o SubSeq(s2c, n + 1, Len(s2c))
           /\ Len(page \o SubSeq(s2c, 1, n)) = Len(page) + n
           /\ Len(said) = Len(page) + Len(s2c)
           /\ \A i \in 1 .. n : said[Len(page) + i] = s2c[i]
           /\ \A i \in 1 .. Len(page) : said[i] = page[i]
<1> DEFINE S == Tokens \cup DOMAIN Named
           str == SubSeq(s2c, 1, n)
           rest == SubSeq(s2c, n + 1, Len(s2c))
<1>1. str \in Seq(Unquoted) /\ str \o rest = s2c /\ Len(str) = n
      /\ \A i \in 1 .. n : str[i] = s2c[i]
  BY RestOf DEF PlainTexts
<1>2. Shown(str) = str
  BY <1>1, ShownPlain
<1>3. page \in Seq(S) /\ s2c \in Seq(S) /\ str \in Seq(S) /\ rest \in Seq(S)
  <2>1. page \in Seq(S)
    BY DEF TypeOK
  <2>2. s2c \in Seq(S)
    <3>1. s2c \in Seq(Tokens) /\ Tokens \subseteq S
      BY DEF TypeOK
    <3> HIDE DEF S
    <3> QED BY <3>1
  <2> HIDE DEF S
  <2> QED BY <2>1, <2>2, RestOf
<1>4. said = page \o s2c
  BY DEF Behind
<1> HIDE DEF S, str, rest
<1>5. said = (page \o str) \o rest
  <2>3. Regrouped(page, str, rest)
    BY <1>3, Regroup, Zenon
  <2>2. str \o rest = s2c
    BY <1>1
  <2> QED BY <1>4, <2>2, <2>3, Zenon DEF Regrouped
<1>6. page \o str \in Seq(S) /\ Len(page \o str) = Len(page) + n
  <2>1. page \o str \in Seq(S) /\ Len(page \o str) = Len(page) + Len(str)
    BY <1>3, ConcatProperties
  <2>2. Len(str) = n
    BY <1>1
  <2> QED BY <2>1, <2>2, Zenon
<1>7. PICK m \in Nat, k \in Nat : m = Len(page) /\ k = Len(s2c)
  BY <1>3, LenProperties
<1>8. /\ Len(said) = m + k
      /\ \A i \in 1 .. k : said[m + i] = s2c[i]
      /\ \A i \in 1 .. m : said[i] = page[i]
  BY <1>3, <1>4, <1>7, Grows
<1>9. \A i \in 1 .. n : i \in 1 .. k
  BY <1>7
<1> QED BY <1>2, <1>5, <1>6, <1>7, <1>8, <1>9 DEF S, str, rest

\* A line is sent only when everything said is on the page and the shell waits.
LEMMA ReadPrompt ==
    ASSUME TypeOK, PlainTexts, Behind, Answered, NEW n \in Nat, n >= 1, n <= Len(s2c),
           Scan(SubSeq(s2c, 1, n)) = 1
    PROVE  n = Len(s2c) /\ Quiet
<1> DEFINE str == SubSeq(s2c, 1, n)
<1>1. str \in Seq(Unquoted) /\ Len(str) = n /\ \A i \in 1 .. n : str[i] = s2c[i]
  BY RestOf DEF PlainTexts
<1>2. PICK m \in Nat, k \in Nat : m = Len(page) /\ k = Len(s2c)
  BY LenProperties DEF TypeOK
<1>3. /\ Len(said) = m + k /\ DOMAIN said = 1 .. m + k
      /\ \A i \in 1 .. n : said[m + i] = str[i]
      /\ \A i \in 1 .. m : said[i] = page[i]
  BY <1>1, <1>2, ReadBehind, LenProperties DEF TypeOK
<1> HIDE DEF str
\* A % in the data is the last thing said but one.
<1>4. \A j \in 1 .. n : str[j] = "pct" => j = k - 1 /\ Quiet
  <2> SUFFICES ASSUME NEW j \in 1 .. n, str[j] = "pct"
               PROVE  j = k - 1 /\ Quiet
    OBVIOUS
  <2>1. m + j \in DOMAIN said /\ said[m + j] = "pct" /\ m + j > m
    BY <1>2, <1>3
  <2>0. Unanswered(m + j)
    BY <1>2, <2>1 DEF Unanswered
  <2>2. m + j = m + k - 1 /\ Quiet
    BY <1>3, <2>0, <2>1 DEF Answered
  <2> QED BY <2>2
<1>5. ToSet(str) = {str[i] : i \in 1 .. n}
  BY <1>1, LenProperties DEF ToSet
<1>6. CASE "pct" \notin ToSet(str)
  <2>1. prompt = 1
    BY <1>6 DEF Scan, str
  <2>2. page # <<>> /\ page[m] = "pct"
    BY <1>2, <2>1 DEF Answered
  <2>3. m > 0
    BY <1>2, <2>2, EmptySeq DEF TypeOK
  <2>4. m \in DOMAIN said /\ said[m] = "pct"
    BY <1>3, <2>2, <2>3
  <2>5. m = m + k - 1 /\ Quiet
    BY <1>2, <1>3, <2>1, <2>4 DEF Answered, Unanswered
  <2> QED BY <1>2, <2>5
<1>7. CASE "pct" \in ToSet(str)
  <2>1. PICK j \in 1 .. n : str[j] = "pct"
    BY <1>5, <1>7
  <2>2. j = k - 1 /\ Quiet
    BY <1>4, <2>1
  <2>3. ASSUME n # k
        PROVE  FALSE
    <3>1. n = k - 1 /\ str[n] = "pct"
      BY <1>2, <2>1, <2>2, <2>3
    <3>2. "pct" \in ToSet(Front(str))
      BY <1>1, <1>7, <3>1 DEF Scan, str
    <3>3. Front(str) = SubSeq(str, 1, n - 1)
      BY <1>1 DEF Front
    <3>4. ToSet(Front(str)) = {str[i] : i \in 1 .. n - 1}
      <4>1. n - 1 \in Nat /\ n - 1 <= Len(str)
        BY <1>1
      <4>2. /\ Front(str) \in Seq(Unquoted) /\ Len(Front(str)) = n - 1
            /\ \A i \in 1 .. n - 1 : Front(str)[i] = str[i]
        BY <1>1, <3>3, <4>1, RestOf
      <4> QED BY <4>2, LenProperties DEF ToSet
    <3>5. PICK i \in 1 .. n - 1 : str[i] = "pct"
      BY <3>2, <3>4
    <3>6. i = k - 1
      BY <1>4, <3>5
    <3> QED BY <3>1, <3>6
  <2> QED BY <1>2, <2>2, <2>3
<1> QED BY <1>6, <1>7

\* The shell says something while the client has answered every prompt.
LEMMA SayInStep ==
    ASSUME TypeOK, Script, Shell, InStep, sh \in {"prompt", "run"},
           NEW t \in Seq(Tokens), Say(t), UNCHANGED clientVars, UNCHANGED <<lines, c2s>>,
           \A i \in 1 .. Len(t) : t[i] = "pct" => i = Len(t) - 1 /\ Quiet'
    PROVE  InStep'
<1>1. ~Quiet /\ ~Ahead /\ ~Typed /\ ~Cut
  BY DEF Quiet, Ahead, Typed, Cut
<1>2. /\ UNCHANGED <<st, page, prompt, c2s>>
      /\ said' = said \o t /\ s2c' = s2c \o t
  BY DEF clientVars, Say
<1>3. Behind => Behind'
  <2> SUFFICES ASSUME Behind
               PROVE  Behind'
    OBVIOUS
  <2> DEFINE S == Tokens \cup DOMAIN Named
  <2>1. page \in Seq(S) /\ s2c \in Seq(S) /\ t \in Seq(S)
    <3>1. page \in Seq(S)
      BY DEF TypeOK
    <3>2. s2c \in Seq(Tokens) /\ Tokens \subseteq S
      BY DEF TypeOK
    <3> HIDE DEF S
    <3> QED BY <3>1, <3>2
  <2>2. Regrouped(page, s2c, t)
    <3> HIDE DEF S
    <3> QED BY <2>1, Regroup, Zenon
  <2>3. said = page \o s2c /\ c2s = <<>>
    BY DEF Behind
  <2>4. said' = page' \o s2c'
    BY <1>2, <2>2, <2>3, Zenon DEF Regrouped
  <2> QED BY <1>2, <2>3, <2>4 DEF Behind
<1>4. Answered => Answered'
  <2> SUFFICES ASSUME Answered
               PROVE  Answered'
    OBVIOUS
  <2>1. PICK n \in Nat, k \in Nat, m \in Nat :
           n = Len(said) /\ k = Len(t) /\ m = Len(page) /\ said \in Seq(Tokens)
    BY LenProperties DEF TypeOK
  <2>2. DOMAIN said = 1 .. n
    BY <2>1, LenProperties
  <2>3. /\ Len(said') = n + k /\ DOMAIN said' = 1 .. n + k
        /\ \A i \in 1 .. n : said'[i] = said[i]
        /\ \A i \in 1 .. k : said'[n + i] = t[i]
    <3>1. said \o t \in Seq(Tokens) /\ Len(said \o t) = n + k
      BY <2>1, Grows
    <3>2. DOMAIN (said \o t) = 1 .. n + k
      BY <3>1, LenProperties
    <3>3. /\ \A i \in 1 .. n : (said \o t)[i] = said[i]
          /\ \A i \in 1 .. k : (said \o t)[n + i] = t[i]
      BY <2>1, Grows
    <3> QED BY <1>2, <3>1, <3>2, <3>3
  <2>4. ASSUME NEW i \in 1 .. n + k, Unanswered(i)'
        PROVE  i = n + k - 1 /\ Quiet'
    <3>1. CASE i \in 1 .. n
      <4>1. Unanswered(i)
        BY <1>2, <2>3, <2>4, <3>1 DEF Unanswered
      <4> QED BY <1>1, <2>2, <3>1, <4>1 DEF Answered
    <3>2. CASE i \notin 1 .. n
      <4>1. PICK j \in 1 .. k : i = n + j
        <5>1. i - n \in 1 .. k /\ i = n + (i - n)
          BY <2>4, <3>2
        <5> QED BY <5>1
      <4>2. t[j] = "pct"
        BY <2>3, <2>4, <4>1 DEF Unanswered
      <4>3. j = k - 1 /\ Quiet'
        BY <2>1, <4>2
      <4> QED BY <4>1, <4>3
    <3> QED BY <3>1, <3>2
  <2>5. prompt' = 1 => page' # <<>> /\ page'[Len(page')] = "pct"
    BY <1>2 DEF Answered
  <2>6. \A i \in DOMAIN said' : Unanswered(i)' => i = Len(said') - 1 /\ Quiet'
    BY <2>3, <2>4
  <2> QED BY <2>5, <2>6 DEF Answered
<1> QED BY <1>1, <1>2, <1>3, <1>4 DEF InStep

\* Nothing is said and nothing becomes visible on the page.
LEMMA StillAnswered ==
    ASSUME Answered, UNCHANGED <<page, said, prompt>>, Quiet => Quiet'
    PROVE  Answered'
<1>1. \A i : Unanswered(i)' <=> Unanswered(i)
  BY DEF Unanswered
<1> QED BY <1>1 DEF Answered

LEMMA ReadInStep ==
    ASSUME Plain, Inv, Inv', PlainTexts, InStep, do_read
    PROVE  InStep'
<1>0. TypeOK /\ Script /\ Shell /\ st' # "overrun"
  BY DEF Inv, Script
<1>1. PICK n \in 1 .. BufLen :
         /\ n <= Len(s2c)
         /\ s2c' = SubSeq(s2c, n + 1, Len(s2c))
         /\ LET str == SubSeq(s2c, 1, n)
                p == Scan(str)
            IN  \/ /\ p = 1 /\ line_count < Len(lines)
                   /\ SendLine(str)
                \/ p = 1 /\ line_count >= Len(lines) /\ Overrun
                \/ /\ p # 1
                   /\ page' = page \o Shown(str)
                   /\ IF line_count < Len(lines)
                      THEN prompt' = Remembered(p) /\ st' = "read"
                      ELSE prompt' = p /\ st' = "closed"
                   /\ UNCHANGED <<line_count, eof>>
  BY DEF do_read
<1>2. /\ st = "read" /\ UNCHANGED <<lines, c2s, fin, sh, printed, said, heard>>
      /\ Quiet' = Quiet
  BY DEF do_read, shellVars, Quiet
<1>3. n \in Nat /\ n >= 1
  BY ScriptsAssumption
<1>4. Behind /\ Answered
  <2>1. s2c # <<>>
    BY <1>1, <1>3, EmptySeq
  <2> QED BY <1>2, <2>1 DEF InStep, Ahead
<1> DEFINE str == SubSeq(s2c, 1, n)
           S == Tokens \cup DOMAIN Named
<1>5. /\ Shown(str) = str /\ page \o str \in Seq(S) /\ said = (page \o str) \o s2c'
      /\ Len(page \o str) = Len(page) + n /\ Len(said) = Len(page) + Len(s2c)
      /\ \A i \in 1 .. n : said[Len(page) + i] = s2c[i]
      /\ \A i \in 1 .. Len(page) : said[i] = page[i]
  BY <1>0, <1>1, <1>3, <1>4, ReadBehind
<1>6. PICK m \in Nat, k \in Nat, l \in Nat :
         m = Len(page) /\ k = Len(s2c) /\ l = Len(lines) /\ DOMAIN said = 1 .. m + k
  BY <1>0, <1>5, ScriptLines, LenProperties DEF TypeOK
<1>t. str \in Seq(Unquoted) /\ Len(str) = n /\ \A i \in 1 .. n : str[i] = s2c[i]
  BY <1>1, <1>3, RestOf DEF PlainTexts
<1> HIDE DEF str, S
<1>7. CASE Scan(str) = 1 /\ line_count < Len(lines) /\ SendLine(str)
  <2>1. n = Len(s2c) /\ Quiet
    BY <1>0, <1>1, <1>3, <1>4, <1>7, ReadPrompt DEF str
  <2>2. s2c' = <<>>
    BY <1>1, <1>3, <1>6, <2>1, SubSeqEmpty
  <2>3. said = page \o str
    BY <1>5, <2>2, ConcatEmptySeq
  <2>4. line_count + 1 \in 1 .. l
    BY <1>0, <1>6, <1>7 DEF TypeOK
  <2>5. /\ lines[line_count + 1] \in Tokens
        /\ Shown(<<lines[line_count + 1]>>) = <<lines[line_count + 1]>>
    <3>1. lines[line_count + 1] \in Words
      BY <1>0, <1>6, <2>4, LineIsWord DEF TypeOK
    <3>2. lines[line_count + 1] \in Unquoted /\ lines[line_count + 1] \in Tokens
      BY <3>1, UnquotedTokens
    <3>3. <<lines[line_count + 1]>> \in Seq(Unquoted)
      BY <3>2
    <3> QED BY <3>2, <3>3, ShownPlain
  <2>6. page' = Append(said, lines[line_count + 1])
    <3>1. page' = (page \o str) \o <<lines[line_count + 1]>>
      BY <1>5, <1>7, <2>5 DEF SendLine
    <3>2. said \in Seq(Tokens)
      BY <1>0 DEF TypeOK
    <3>3. Append(said, lines[line_count + 1]) = said \o <<lines[line_count + 1]>>
      BY <2>5, <3>2, AppendIsConcat
    <3> QED BY <2>3, <3>1, <3>3, Zenon
  <2>7. st' = "write" /\ prompt' = 0 /\ line_count' = line_count + 1
    BY <1>7 DEF SendLine
  <2>8. Typed'
    <3>1. c2s' = <<>>
      BY <1>2, <1>4 DEF Behind
    <3> QED BY <1>2, <2>1, <2>2, <2>6, <2>7, <3>1 DEF Typed
  <2>9. Answered'
    <3>1. Len(page') = m + k + 1
      <4>1. said \in Seq(Tokens)
        BY <1>0 DEF TypeOK
      <4>2. Len(said) = m + k
        BY <1>5, <1>6
      <4>3. Len(page') = Len(said) + 1
        BY <2>5, <2>6, <4>1, AppendProperties
      <4> QED BY <4>2, <4>3
    <3>2. \A i \in 1 .. m + k : ~ (i > m + k + 1)
      OBVIOUS
    <3>3. \A i \in DOMAIN said' : ~ Unanswered(i)'
      BY <1>2, <1>6, <2>7, <3>1, <3>2 DEF Unanswered
    <3> QED BY <2>7, <3>3 DEF Answered
  <2> QED BY <2>7, <2>8, <2>9 DEF InStep
<1>8. CASE /\ Scan(str) # 1
           /\ page' = page \o Shown(str)
           /\ IF line_count < Len(lines)
              THEN prompt' = Remembered(Scan(str)) /\ st' = "read"
              ELSE prompt' = Scan(str) /\ st' = "closed"
           /\ UNCHANGED <<line_count, eof>>
  <2>1. page' = page \o str /\ Len(page') = m + n
    BY <1>5, <1>6, <1>8
  <2>2. Behind'
    BY <1>2, <1>4, <1>5, <2>1 DEF Behind
  <2>3. \A i \in DOMAIN said' : Unanswered(i)' => i = Len(said') - 1 /\ Quiet'
    <3> SUFFICES ASSUME NEW i \in DOMAIN said', Unanswered(i)'
                 PROVE  i = Len(said') - 1 /\ Quiet'
      OBVIOUS
    <3>1. i \in 1 .. m + k /\ said[i] = "pct" /\ (i > m + n \/ i = m + n)
      BY <1>2, <1>6, <2>1 DEF Unanswered
    <3>2. i > m
      BY <1>3, <3>1
    <3>3. Unanswered(i)
      BY <1>6, <3>1, <3>2 DEF Unanswered
    <3> QED BY <1>2, <1>4, <1>6, <3>1, <3>3 DEF Answered
  <2>4. st' = "read" /\ prompt' = 1 => page' # <<>> /\ page'[Len(page')] = "pct"
    <3> SUFFICES ASSUME st' = "read", prompt' = 1
                 PROVE  page' # <<>> /\ page'[m + n] = "pct"
      BY <2>1
    <3>1. Scan(str) = 2
      BY <1>8 DEF Remembered
    <3>2. str[n] = "pct"
      <4>1. prompt # 2
        BY <1>0, <1>2 DEF TypeOK
      <4> QED BY <1>t, <3>1, <4>1 DEF Scan
    <3>3. said[m + n] = "pct"
      <4>1. n \in 1 .. n
        BY <1>3
      <4> QED BY <1>5, <1>6, <1>t, <3>2, <4>1
    <3>4. page'[m + n] = said[m + n] /\ page' # <<>>
      <4>1. page' \in Seq(S) /\ s2c' \in Seq(S)
        <5>1. s2c \in Seq(Tokens) /\ Tokens \subseteq S
          BY <1>0 DEF TypeOK, S
        <5>2. s2c \in Seq(S)
          BY <5>1
        <5> QED BY <1>1, <1>3, <1>5, <2>1, <5>2, RestOf
      <4>2. \A i \in 1 .. m + n : (page' \o s2c')[i] = page'[i]
        BY <2>1, <4>1, Grows
      <4>3. m + n \in 1 .. m + n /\ m + n # 0
        BY <1>3
      <4>4. said = page' \o s2c'
        BY <1>5, <2>1
      <4>5. page' # <<>>
        BY <2>1, <4>3, EmptySeq
      <4> QED BY <4>2, <4>3, <4>4, <4>5
    <3> QED BY <3>3, <3>4
  <2>5. st' \in {"read", "closed"}
    BY <1>8
  <2>6. st' = "read" => Answered'
    BY <2>3, <2>4 DEF Answered
  <2> QED BY <2>2, <2>5, <2>6 DEF InStep
<1>9. CASE Overrun
  BY <1>0, <1>9 DEF Overrun
<1> QED BY <1>1, <1>7, <1>8, <1>9 DEF str

LEMMA PagesStep == Plain /\ PageInv /\ Inv' /\ [Next]_vars => Pages'
<1> SUFFICES ASSUME Plain, Inv, PlainTexts, Pages, Inv', [Next]_vars, OnlyPrompts'
             PROVE  InStep'
  BY DEF Pages, PageInv
<1>0. TypeOK /\ Script /\ Shell /\ InStep
  <2>1. OnlyPrompts
    BY PromptsStay
  <2> QED BY <2>1 DEF Inv, Pages
<1>i. st \in {"connect", "request", "reply"} => page = <<>> /\ c2s = <<>> /\ prompt = 0 /\ Answered
  BY <1>0 DEF Shell, InStep
\* The steps that leave the texts alone.
<1>s. ASSUME UNCHANGED <<page, s2c, c2s, said, prompt, lines, line_count>>, Quiet => Quiet',
             st' = st \/ st \in {"connect", "request"} \/ (st = "read" /\ st' = "closed"),
             sh = "dead" => sh' = "dead",
             st' \in {"connect", "request", "reply", "closed"} \/ st' = st
      PROVE  InStep'
  <2>1. Behind => Behind'
    BY <1>s DEF Behind
  <2>2. Ahead => Ahead'
    BY <1>s DEF Ahead
  <2>3. Cut => Cut'
    BY <1>s DEF Cut
  <2>4. Typed => Typed'
    BY <1>s DEF Typed
  <2>5. Answered => Answered'
    BY <1>s, StillAnswered
  <2>6. st \in {"connect", "request"} => Behind
    <3> SUFFICES ASSUME st \in {"connect", "request"}
                 PROVE  Behind
      OBVIOUS
    <3>1. said = <<>> /\ page = <<>> /\ s2c = <<>> /\ c2s = <<>>
      BY <1>0 DEF Shell
    <3>2. <<>> \o <<>> = <<>>
      OBVIOUS
    <3> QED BY <3>1, <3>2 DEF Behind
  <2> QED BY <1>0, <1>s, <2>1, <2>2, <2>3, <2>4, <2>5, <2>6 DEF InStep
<1>1. CASE do_connect
  BY <1>1, <1>s DEF do_connect, shellVars, Quiet
<1>2. CASE do_request
  BY <1>2, <1>s DEF do_request, shellVars, Quiet
<1>3. CASE do_reply
  <2>1. /\ st = "reply" /\ st' = "read" /\ said' = s2c' /\ s2c' \in Seq(Tokens)
        /\ UNCHANGED <<page, c2s, prompt, sh, lines, line_count>>
        /\ s2c' = said \/ s2c' = <<"addr">> \o said
        /\ said \in Seq(Tokens) /\ <<"addr">> \in Seq(Tokens)
    BY <1>0, <1>3, ReplyRead
  <2>2. page = <<>> /\ c2s = <<>>
    BY <1>i, <2>1
  <2>3. said' = <<>> \o s2c'
    BY <2>1, ConcatEmptySeq
  <2>4. Behind'
    BY <2>1, <2>2, <2>3, Zenon DEF Behind
  <2>5. Answered'
    <3>1. CASE said' = said
      BY <1>i, <2>1, <3>1, StillAnswered DEF Quiet
    <3>2. CASE said' = <<"addr">> \o said
      <4>1. PICK n \in Nat : n = Len(said) /\ DOMAIN said = 1 .. n
        BY <2>1, LenProperties
      <4>2. /\ DOMAIN said' = 1 .. n + 1 /\ Len(said') = n + 1 /\ said'[1] = "addr"
            /\ \A i \in 1 .. n : said'[i + 1] = said[i]
        BY <2>1, <3>2, <4>1
      <4>3. Len(page) = 0 /\ prompt = 0 /\ page' = page /\ prompt' = 0
        BY <1>i, <2>1, <2>2, EmptySeq
      <4>4. ASSUME NEW i \in 1 .. n + 1, said'[i] = "pct"
            PROVE  i = Len(said') - 1 /\ Quiet'
        <5>1. i # 1
          BY <4>2, <4>4
        <5>2. PICK k \in 1 .. n : i = k + 1
          <6>1. i - 1 \in 1 .. n /\ i = (i - 1) + 1
            BY <5>1
          <6> QED BY <6>1
        <5>3. said[k] = "pct" /\ k > Len(page)
          BY <4>2, <4>3, <4>4, <5>2
        <5>4. k = n - 1 /\ Quiet
          BY <1>i, <2>1, <4>1, <5>3 DEF Answered, Unanswered
        <5> QED BY <2>1, <4>2, <5>2, <5>4 DEF Quiet
      <4> QED BY <4>2, <4>3, <4>4 DEF Answered, Unanswered
    <3> QED BY <2>1, <3>1, <3>2
  <2> QED BY <2>1, <2>4, <2>5 DEF InStep
<1>4. CASE read_error
  <2>1. /\ st \in {"reply", "read"} /\ st' = "closed" /\ fin /\ s2c = <<>>
        /\ UNCHANGED <<page, s2c, c2s, said, prompt, sh>>
        /\ UNCHANGED <<lines, line_count>>
    BY <1>4 DEF read_error, shellVars
  <2>2. CASE st = "read"
    BY <1>s, <2>1, <2>2 DEF Quiet
  <2>3. CASE st = "reply"
    <3>1. said = <<>> /\ page = <<>> /\ c2s = <<>>
      BY <1>0, <2>1, <2>3 DEF Shell
    <3>2. <<>> \o <<>> = <<>>
      OBVIOUS
    <3>3. Behind'
      BY <2>1, <3>1, <3>2 DEF Behind
    <3> QED BY <2>1, <3>3 DEF InStep
  <2> QED BY <2>1, <2>2, <2>3
<1>5. CASE do_read
  BY <1>0, <1>5, ReadInStep
<1>6. CASE do_write
  <2>1. /\ st = "write" /\ UNCHANGED <<page, s2c, said, prompt, sh, fin, lines, line_count>>
    BY <1>6 DEF do_write, shellVars
  <2>2. Typed /\ Answered
    BY <1>0, <2>1 DEF InStep
  <2>3. said \in Seq(Tokens) /\ lines[line_count] \in Tokens
    <3>1. PICK l \in Nat : l = Len(lines)
      BY <1>0, ScriptLines
    <3>2. line_count \in 1 .. l
      BY <1>0, <2>1, <3>1 DEF TypeOK, Script
    <3> QED BY <1>0, <3>1, <3>2, LineText DEF TypeOK
  <2>4. page = said \o <<lines[line_count]>> /\ Len(page) = Len(said) + 1
        /\ \A i \in 1 .. Len(said) : page[i] = said[i]
    BY <2>2, <2>3, AppendIsConcat, AppendProperties DEF Typed
  <2>5. Answered'
    BY <2>1, <2>2, StillAnswered DEF Quiet
  <2>6. CASE c2s' = Append(c2s, lines[line_count]) /\ st' \in {"read", "closed"}
    <3>1. c2s' = <<lines[line_count]>> /\ Len(c2s') = 1
      BY <2>2, <2>6 DEF Typed
    <3>2. Ahead' /\ prompt' = 0
      BY <2>1, <2>2, <2>4, <3>1 DEF Ahead, Typed, Quiet
    <3> QED BY <2>5, <2>6, <3>2 DEF InStep
  <2>7. CASE fin /\ st' = "closed" /\ c2s' = c2s
    <3>1. sh = "dead"
      BY <1>0, <2>2, <2>7 DEF Shell, Typed, Quiet
    <3>2. SubSeq(page, 1, Len(said)) = said
      <4>1. PICK n \in Nat : n = Len(said)
        BY <2>3, LenProperties
      <4>2. \A i \in 1 .. n : page[i] \in Tokens
        BY <2>3, <2>4, <4>1, ElementOfSeq
      <4>3. /\ SubSeq(page, 1, n) \in Seq(Tokens) /\ Len(SubSeq(page, 1, n)) = n
            /\ \A i \in 1 .. n : SubSeq(page, 1, n)[i] = page[i]
        <5>1. 1 \in Int /\ n \in Int
          OBVIOUS
        <5>2. /\ SubSeq(page, 1, n) \in Seq(Tokens)
              /\ Len(SubSeq(page, 1, n)) = IF 1 <= n THEN n - 1 + 1 ELSE 0
              /\ \A i \in 1 .. n - 1 + 1 : SubSeq(page, 1, n)[i] = page[1 + i - 1]
          BY <4>2, <5>1, SubSeqProperties
        <5>3. (IF 1 <= n THEN n - 1 + 1 ELSE 0) = n /\ n - 1 + 1 = n
              /\ \A i \in 1 .. n : 1 + i - 1 = i
          OBVIOUS
        <5> QED BY <5>2, <5>3
      <4> QED BY <2>3, <2>4, <4>1, <4>3, SeqEqual
    <3>3. Cut'
      BY <2>1, <2>2, <2>4, <2>7, <3>1, <3>2 DEF Cut, Typed
    <3> QED BY <2>7, <3>3 DEF InStep
  <2> QED BY <1>6, <2>6, <2>7 DEF do_write
<1>7. CASE SocksReply
  <2>1. st = "reply" /\ UNCHANGED <<st, page, said, prompt>> /\ sh = "off"
    BY <1>7 DEF SocksReply, clientVars
  <2>2. Answered'
    BY <1>i, <2>1, StillAnswered DEF Quiet
  <2> QED BY <2>1, <2>2 DEF InStep
<1>8. CASE ShellPrompt
  <2> DEFINE t == <<"pct", "sp">>
  <2>1. t \in Seq(Tokens) /\ Len(t) = 2 /\ t[1] = "pct" /\ t[2] = "sp"
    <3>1. "pct" \in Tokens /\ "sp" \in Tokens
      BY DEF Tokens
    <3> QED BY <3>1
  <2>2. Say(t) /\ UNCHANGED clientVars /\ UNCHANGED <<lines, c2s>> /\ sh = "prompt" /\ Quiet'
    BY <1>8 DEF ShellPrompt, Quiet
  <2> HIDE DEF t
  <2>3. \A i \in 1 .. Len(t) : t[i] = "pct" => i = Len(t) - 1 /\ Quiet'
    BY <2>1, <2>2
  <2> QED BY <1>0, <2>1, <2>2, <2>3, SayInStep
<1>9. CASE ShellRead
  <2>1. /\ sh = "wait" /\ c2s # <<>> /\ UNCHANGED <<st, page, prompt, s2c>>
        /\ said' = Append(said, Head(c2s)) /\ c2s' = Tail(c2s)
    BY <1>9 DEF ShellRead, clientVars
  <2>2. st \in {"read", "closed"} /\ Ahead /\ (st = "read" => prompt = 0)
    <3>1. st \notin {"connect", "request", "reply"} /\ st # "overrun"
      BY <1>0, <1>i, <2>1 DEF Script
    <3>2. ~Behind /\ ~Typed /\ ~Cut
      BY <2>1 DEF Behind, Typed, Cut
    <3> QED BY <1>0, <3>1, <3>2 DEF InStep, TypeOK
  <2>3. PICK x \in Tokens : c2s = <<x>>
    <3>1. Len(c2s) = 1 /\ c2s \in Seq(Tokens)
      BY <1>0, <2>2 DEF TypeOK, Ahead
    <3>2. c2s[1] \in Tokens /\ c2s = <<c2s[1]>>
      BY <3>1
    <3> QED BY <3>2
  <2>4. said \in Seq(Tokens) /\ Head(c2s) = x /\ Tail(c2s) = <<>>
    BY <1>0, <2>3 DEF TypeOK
  <2>5. page = said' /\ said' \in Seq(Tokens)
    <3>1. Append(said, x) = said \o <<x>> /\ Append(said, x) \in Seq(Tokens)
      BY <2>4, AppendIsConcat, AppendProperties
    <3> QED BY <2>1, <2>2, <2>3, <2>4, <3>1 DEF Ahead
  <2>6. Behind'
    <3>1. s2c' = <<>> /\ c2s' = <<>>
      BY <2>1, <2>2, <2>4 DEF Ahead
    <3>2. said' = page' \o <<>>
      BY <2>1, <2>5, ConcatEmptySeq
    <3> QED BY <3>1, <3>2 DEF Behind
  <2>7. st = "read" => Answered'
    <3> SUFFICES ASSUME st = "read"
                 PROVE  Answered'
      OBVIOUS
    <3>1. prompt' = 0
      BY <2>1, <2>2
    <3>2. PICK n \in Nat : n = Len(page') /\ DOMAIN said' = 1 .. n
      BY <2>1, <2>5, LenProperties
    <3>3. \A i \in DOMAIN said' : ~ Unanswered(i)'
      BY <3>1, <3>2 DEF Unanswered
    <3> QED BY <3>1, <3>3 DEF Answered
  <2> QED BY <2>1, <2>2, <2>6, <2>7 DEF InStep
<1>10. CASE ShellOutput
  <2>1. PICK c \in Output : Say(<<c>>)
    BY <1>10 DEF ShellOutput
  <2> DEFINE t == <<c>>
  <2>2. t \in Seq(Tokens) /\ Len(t) = 1 /\ t[1] = c /\ t # <<>>
    <3>1. c \in Tokens
      BY DEF Tokens
    <3> QED BY <3>1
  <2>3. Say(t) /\ UNCHANGED clientVars /\ UNCHANGED <<lines, c2s>> /\ sh = "run"
    BY <1>10, <2>1 DEF ShellOutput
  <2> HIDE DEF t
  <2>4. c # "pct"
    <3>1. said \in Seq(Tokens) /\ said' = said \o t
      BY <1>0, <2>3 DEF TypeOK, Say
    <3>2. PICK n \in Nat : n = Len(said)
      BY <3>1, LenProperties
    <3>3. said' \in Seq(Tokens) /\ Len(said') = n + 1 /\ said'[n + 1] = c
      <4>1. said \o t \in Seq(Tokens) /\ Len(said \o t) = Len(said) + Len(t)
        BY <2>2, <3>1, ConcatProperties
      <4>2. t # <<>>
        BY <2>2
      <4>3. (said \o t)[Len(said \o t)] = t[Len(t)]
        BY <2>2, <3>1, <4>2, LastOf
      <4> QED BY <2>2, <3>1, <3>2, <4>1, <4>3
    <3>4. n + 1 \in DOMAIN said'
      BY <3>3, LenProperties
    <3> QED BY <3>3, <3>4 DEF OnlyPrompts
  <2>5. \A i \in 1 .. Len(t) : t[i] = "pct" => i = Len(t) - 1 /\ Quiet'
    BY <2>2, <2>4
  <2> QED BY <1>0, <2>2, <2>3, <2>5, SayInStep
<1>11. CASE ShellCommandEnds
  BY <1>11, <1>s DEF ShellCommandEnds, clientVars, Quiet
<1>12. CASE ShellDies
  BY <1>12, <1>s DEF ShellDies, clientVars, Quiet
<1>13. CASE UNCHANGED vars
  BY <1>13, <1>s DEF vars, Quiet
<1> QED BY <1>1, <1>2, <1>3, <1>4, <1>5, <1>6, <1>7, <1>8, <1>9, <1>10, <1>11,
           <1>12, <1>13 DEF Next

\* In every reachable state PageInv holds.
THEOREM PageInvariance == Plain => (Spec => []PageInv)
<1> SUFFICES ASSUME Plain
             PROVE  Spec => []PageInv
  OBVIOUS
<1>1. Init => PageInv
  <2> SUFFICES ASSUME Init
               PROVE  PageInv
    OBVIOUS
  <2>1. Inv
    BY InitInv
  <2>2. PlainTexts
    <3>1. \A S : <<>> \in Seq(S)
      BY EmptySeq
    <3> QED BY <3>1 DEF Init, PlainTexts
  <2>3. Pages
    <3>1. said = <<>> /\ DOMAIN said = {} /\ prompt = 0 /\ st = "connect"
      <4>1. DOMAIN <<>> = 1 .. 0
        OBVIOUS
      <4> QED BY <4>1 DEF Init
    <3> QED BY <3>1 DEF Pages, InStep, Answered
  <2> QED BY <2>1, <2>2, <2>3 DEF PageInv
<1>2. PageInv /\ [Next]_vars => PageInv'
  <2> SUFFICES ASSUME PageInv, [Next]_vars
               PROVE  PageInv'
    OBVIOUS
  <2>1. Inv'
    BY TypeStep, ScriptStep, ShellStep DEF Inv, PageInv
  <2>2. PlainTexts'
    BY PlainStep DEF PageInv
  <2>3. Pages'
    BY <2>1, PagesStep
  <2> QED BY <2>1, <2>2, <2>3 DEF PageInv
<1> QED BY <1>1, <1>2, PTL DEF Spec

\* As long as no quote, no backslash and no CR is sent and the commands do not
\* print what looks like a prompt, the page reads like the terminal of a user who
\* types every line after its prompt, behind the half of the SOCKS reply that
\* do_reply has not taken, if it has not taken all of it (195), for every script, every output and every length of reads, however
\* the text is cut into reads (220-242).
THEOREM PageCorrect == Plain => (Spec => []PageReadsAsTerminal)
<1> SUFFICES ASSUME Plain
             PROVE  Spec => []PageReadsAsTerminal
  OBVIOUS
<1>1. PageInv => PageReadsAsTerminal
  <2> SUFFICES ASSUME PageInv, OnlyPrompts, NoEscapes, NEW i \in DOMAIN page \cap DOMAIN said
               PROVE  page[i] = said[i]
    BY DEF PageReadsAsTerminal
  <2>0. TypeOK /\ Script /\ Shell /\ InStep
    BY DEF PageInv, Pages, Inv
  <2>1. PICK m \in Nat, n \in Nat :
           /\ m = Len(page) /\ n = Len(said)
           /\ DOMAIN page = 1 .. m /\ DOMAIN said = 1 .. n
    BY <2>0, LenProperties DEF TypeOK
  <2>2. i \in 1 .. m /\ i \in 1 .. n
    BY <2>1
  <2>3. CASE st \in {"connect", "request", "reply"}
    BY <2>0, <2>1, <2>2, <2>3 DEF Shell
  <2> DEFINE S == Tokens \cup DOMAIN Named
  <2>4. page \in Seq(S) /\ s2c \in Seq(S) /\ c2s \in Seq(S) /\ said \in Seq(S)
    <3>1. page \in Seq(S)
      BY <2>0 DEF TypeOK
    <3>2. s2c \in Seq(Tokens) /\ c2s \in Seq(Tokens) /\ said \in Seq(Tokens) /\ Tokens \subseteq S
      BY <2>0 DEF TypeOK
    <3> HIDE DEF S
    <3> QED BY <3>1, <3>2
  <2> HIDE DEF S
  <2>5. CASE Behind
    BY <2>1, <2>2, <2>4, <2>5, Grows DEF Behind
  <2>6. CASE Ahead
    BY <2>1, <2>2, <2>4, <2>6, Grows DEF Ahead
  <2>7. CASE Cut
    <3>1. SubSeq(page, 1, n) = said /\ m = n + 1
      BY <2>1, <2>7 DEF Cut
    <3>2. n <= Len(page)
      BY <2>1, <3>1
    <3>3. SubSeq(page, 1, n)[i] = page[i]
      BY <2>2, <2>4, <3>2, RestOf
    <3> QED BY <3>1, <3>3
  <2>8. CASE Typed
    <3>1. page = Append(said, lines[line_count])
      BY <2>8 DEF Typed
    <3> QED BY <2>1, <2>2, <2>4, <3>1
  <2>9. st \in {"connect", "request", "reply", "read", "write", "closed"}
    BY <2>0 DEF TypeOK, Script
  <2> QED BY <2>0, <2>3, <2>5, <2>6, <2>7, <2>8, <2>9 DEF InStep
<1> QED BY <1>1, PageInvariance, PTL

=============================================================================
