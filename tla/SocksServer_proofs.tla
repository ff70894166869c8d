-------------------------- MODULE SocksServer_proofs --------------------------
(***************************************************************************)
(* Proofs about SocksServer for every amount of data, every window and     *)
(* every buffer length: the relay loses, repeats and reorders nothing.     *)
(***************************************************************************)
EXTENDS SocksServer, TLAPS, SequenceTheorems

-----------------------------------------------------------------------------
(***************************************************************************)
(* The inductive invariant.  The bytes of one direction are in three       *)
(* places, written, in the chain's buffer and in the kernel, and together  *)
(* they are all that was sent, until a write fails and its chain stops.    *)
(***************************************************************************)
\* Tokens first + 1, first + 2 ...
Run(q, first) == \A k \in 1 .. Len(q) : q[k] = Data(first + k)

UpStream ==
    /\ UpIntact
    /\ IF cOpen
       THEN /\ Run(up.buf, Len(outS))
            /\ Run(c2p, Len(outS) + Len(up.buf))
            /\ client.sent = Len(outS) + Len(up.buf) + Len(c2p)
       ELSE up = Idle

\* outC begins with n replies.
Replied(n) ==
    /\ n <= Len(outC)
    /\ \A k \in 1 .. n : outC[k].kind = "reply"
    /\ \A k \in (n + 1) .. Len(outC) : outC[k] = Data(k - n)

DownStream ==
    /\ \E n \in 0 .. 2 : /\ Replied(n)
                         /\ n = 2 => cd = 2
                         /\ n < Len(outC) => n = cd
    /\ sOpen => /\ Replied(cd)
                /\ Run(down.buf, Len(outC) - cd)
                /\ Run(s2p, Len(outC) - cd + Len(down.buf))
                /\ server.sent + cd = Len(outC) + Len(down.buf) + Len(s2p)
    /\ st = "session" /\ ~sOpen => down = Idle

\* What has been written when the session starts.
Phase ==
    /\ st \in {"route", "resolve", "connect", "bind"} =>
          /\ cOpen /\ ~sOpen /\ up = Idle
          /\ server.sent = 0 /\ s2p = <<>> /\ outS = <<>>
    /\ st \in {"route", "resolve", "connect"} => outC = <<>>
    /\ st \in {"resolve", "connect"} => cd = 1
    /\ st = "bind" => cd = 2 /\ outC = <<Reply(90)>>
    /\ st = "session" => cd \in {1, 2}

\* What was true at the end of file stays true.
Ended ==
    /\ cause # "none" => st = "exited"
    /\ cause = "client_eof" => client.fin
    /\ cause = "server_eof" => server.fin
    /\ DrainedAtEof

Inv == TypeOK /\ Phase /\ UpStream /\ DownStream /\ Ended

-----------------------------------------------------------------------------
(***************************************************************************)
(* Lemmas about streams and chains.                                        *)
(***************************************************************************)
Token == [kind : {"reply", "data"}, v : Nat]

\* Sums of lengths.
LEMMA Sums ==
    \A a, b, c \in Nat : a + (b + c) = a + b + c
OBVIOUS

\* Replies and data are tokens, and they differ.
LEMMA Tokens ==
    ASSUME NEW k \in Nat
    PROVE  /\ Reply(k) \in Token /\ Data(k) \in Token
           /\ Reply(k).kind = "reply" /\ Data(k).kind = "data"
BY DEF Reply, Data, Token

\* A token added to a stream.
LEMMA StreamAppend ==
    ASSUME NEW q \in Seq(Token), NEW t \in Token
    PROVE  /\ Append(q, t) \in Seq(Token)
           /\ Len(Append(q, t)) = Len(q) + 1
           /\ \A k \in 1 .. Len(q) : Append(q, t)[k] = q[k]
           /\ Append(q, t)[Len(q) + 1] = t
BY AppendProperties, LenProperties

\* The first n tokens of a stream and the rest of it.
LEMMA StreamSplit ==
    ASSUME NEW q \in Seq(Token), NEW n \in 0 .. Len(q)
    PROVE  /\ SubSeq(q, 1, n) \in Seq(Token) /\ Len(SubSeq(q, 1, n)) = n
           /\ \A k \in 1 .. n : SubSeq(q, 1, n)[k] = q[k]
           /\ Drop(q, n) \in Seq(Token) /\ Len(Drop(q, n)) = Len(q) - n
           /\ \A k \in 1 .. (Len(q) - n) : Drop(q, n)[k] = q[n + k]
<1>1. Len(q) \in Nat
  BY LenProperties
<1>2. /\ SubSeq(q, 1, n) \in Seq(Token) /\ Len(SubSeq(q, 1, n)) = n
      /\ \A k \in 1 .. n : SubSeq(q, 1, n)[k] = q[k]
  BY <1>1, SubSeqProperties
<1>3. Drop(q, n) \in Seq(Token)
  BY <1>1, SubSeqProperties DEF Drop
<1>4. Len(Drop(q, n)) = Len(q) - n
  BY <1>1, SubSeqProperties DEF Drop
<1>5. \A k \in 1 .. (Len(q) - n) : Drop(q, n)[k] = q[n + k]
  BY <1>1, SubSeqProperties DEF Drop
<1> QED BY <1>2, <1>3, <1>4, <1>5

\* A chain that writes has a token in its buffer, any other has none; after
\* a write the first one is gone.
LEMMA ChainFacts ==
    /\ Idle \in Chains /\ Reading \in Chains
    /\ Idle.buf = <<>> /\ Reading.buf = <<>>
    /\ \A c \in Chains :
          /\ c.buf \in Seq(Token) /\ Len(c.buf) \in 0 .. BufLen
          /\ c.st # "write" => c.buf = <<>> /\ Len(c.buf) = 0
          /\ c.st = "write" =>
                /\ Len(c.buf) > 0 /\ Head(c.buf) = c.buf[1] /\ c.buf[1] \in Token
                /\ AfterWrite(c) \in Chains
                /\ Len(AfterWrite(c).buf) = Len(c.buf) - 1
                /\ \A k \in 1 .. (Len(c.buf) - 1) : AfterWrite(c).buf[k] = c.buf[k + 1]
<1>1. Idle \in Chains /\ Reading \in Chains /\ Idle.buf = <<>> /\ Reading.buf = <<>>
  BY RelayAssumption, EmptySeq DEF Idle, Reading, Chain, Chains, Streams
<1>2. SUFFICES ASSUME NEW c \in Chains
               PROVE  /\ c.buf \in Seq(Token) /\ Len(c.buf) \in 0 .. BufLen
                      /\ c.st # "write" => c.buf = <<>> /\ Len(c.buf) = 0
                      /\ c.st = "write" =>
                            /\ Len(c.buf) > 0 /\ Head(c.buf) = c.buf[1]
                            /\ c.buf[1] \in Token
                            /\ AfterWrite(c) \in Chains
                            /\ Len(AfterWrite(c).buf) = Len(c.buf) - 1
                            /\ \A k \in 1 .. (Len(c.buf) - 1) :
                                  AfterWrite(c).buf[k] = c.buf[k + 1]
  BY <1>1
<1>3. /\ c.buf \in Seq(Token) /\ Len(c.buf) \in 0 .. BufLen
      /\ c.st # "write" => c.buf = <<>> /\ Len(c.buf) = 0
      /\ c.st = "write" => c.buf # <<>>
  BY RelayAssumption, LenProperties, EmptySeq DEF Chains, Streams, Token
<1>4. ASSUME c.st = "write"
      PROVE  /\ Len(c.buf) > 0 /\ Head(c.buf) = c.buf[1] /\ c.buf[1] \in Token
             /\ Tail(c.buf) \in Seq(Token) /\ Len(Tail(c.buf)) = Len(c.buf) - 1
             /\ \A k \in 1 .. (Len(c.buf) - 1) : Tail(c.buf)[k] = c.buf[k + 1]
  BY <1>3, <1>4, HeadTailProperties, EmptySeq, ElementOfSeq
<1>5. ASSUME c.st = "write", Len(c.buf) = 1
      PROVE  /\ AfterWrite(c) \in Chains /\ Len(AfterWrite(c).buf) = Len(c.buf) - 1
             /\ \A k \in 1 .. (Len(c.buf) - 1) : AfterWrite(c).buf[k] = c.buf[k + 1]
  BY <1>1, <1>5, EmptySeq DEF AfterWrite
<1>6. ASSUME c.st = "write", Len(c.buf) # 1
      PROVE  /\ AfterWrite(c) \in Chains /\ Len(AfterWrite(c).buf) = Len(c.buf) - 1
             /\ \A k \in 1 .. (Len(c.buf) - 1) : AfterWrite(c).buf[k] = c.buf[k + 1]
  <2>1. AfterWrite(c) = [st |-> "write", buf |-> Tail(c.buf)]
    BY <1>6 DEF AfterWrite, Chain
  <2>2. Len(Tail(c.buf)) # 0 /\ Len(Tail(c.buf)) <= BufLen
    <3>1. Len(c.buf) \in Nat /\ BufLen \in Nat /\ Len(c.buf) <= BufLen
      BY <1>3, RelayAssumption
    <3>2. Len(Tail(c.buf)) = Len(c.buf) - 1 /\ Len(c.buf) > 0
      BY <1>4, <1>6
    <3> QED BY <1>6, <3>1, <3>2
  <2>3. Tail(c.buf) \in Streams /\ Tail(c.buf) # <<>>
    BY <1>4, <1>6, <2>2, EmptySeq DEF Streams, Token
  <2>4. AfterWrite(c) \in Chains
    BY <2>1, <2>2, <2>3 DEF Chains
  <2> QED BY <1>4, <1>6, <2>1, <2>4
<1> QED BY <1>3, <1>4, <1>5, <1>6

\* What a read takes from a run of tokens and what it leaves are runs.
LEMMA ReadRun ==
    ASSUME NEW q \in Seq(Token), NEW w \in Nat, Run(q, w), NEW n \in Counts(q)
    PROVE  LET c == Chain("write", SubSeq(q, 1, n))
           IN  /\ c \in Chains
               /\ Run(c.buf, w) /\ Run(Drop(q, n), w + Len(c.buf))
               /\ Drop(q, n) \in Seq(Token)
               /\ w + Len(q) = w + Len(c.buf) + Len(Drop(q, n))
<1> DEFINE c == Chain("write", SubSeq(q, 1, n))
<1>1. /\ Len(q) \in Nat /\ n \in 1 .. BufLen /\ n \in 0 .. Len(q) /\ n > 0
  BY LenProperties, RelayAssumption DEF Counts
<1>2. /\ c.st = "write" /\ c.buf \in Seq(Token) /\ Len(c.buf) = n
      /\ \A k \in 1 .. n : c.buf[k] = q[k]
      /\ Drop(q, n) \in Seq(Token) /\ Len(Drop(q, n)) = Len(q) - n
      /\ \A k \in 1 .. (Len(q) - n) : Drop(q, n)[k] = q[n + k]
  BY <1>1, StreamSplit DEF Chain
<1>3. c \in Chains
  <2>1. c.buf # <<>> /\ Len(c.buf) <= BufLen
    BY <1>1, <1>2, EmptySeq
  <2>2. c \in [st : {"read", "write", "stopped"}, buf : Streams]
    BY <1>2 DEF Chain, Streams, Token
  <2> QED BY <1>2, <2>1, <2>2 DEF Chains
<1> HIDE DEF c
<1>4. Run(c.buf, w) /\ Run(Drop(q, n), w + Len(c.buf))
  <2>1. \A k \in 1 .. Len(q) : q[k] = Data(w + k)
    BY DEF Run
  <2>2. ASSUME NEW k \in 1 .. (Len(q) - n)
        PROVE  Drop(q, n)[k] = Data(w + n + k)
    <3>1. n + k \in 1 .. Len(q) /\ w + (n + k) = w + n + k
      BY <1>1
    <3>2. Drop(q, n)[k] = q[n + k]
      BY <1>2
    <3> QED BY <2>1, <3>1, <3>2
  <2>3. Run(c.buf, w)
    BY <1>1, <1>2, <2>1 DEF Run
  <2>4. Run(Drop(q, n), w + n)
    BY <1>2, <2>2 DEF Run
  <2> QED BY <1>2, <2>3, <2>4
<1>5. w + Len(q) = w + Len(c.buf) + Len(Drop(q, n))
  BY <1>1, <1>2
<1> QED BY <1>2, <1>3, <1>4, <1>5 DEF c

\* The next token that is sent goes on with the run.
LEMMA RunAppend ==
    ASSUME NEW q \in Seq(Token), NEW w \in Nat, Run(q, w), NEW n \in Nat, n = w + Len(q)
    PROVE  Run(Append(q, Data(n + 1)), w) /\ n + 1 = w + Len(Append(q, Data(n + 1)))
<1> DEFINE r == Append(q, Data(n + 1))
<1>1. /\ Len(q) \in Nat /\ Len(r) = Len(q) + 1 /\ r[Len(q) + 1] = Data(w + (Len(q) + 1))
      /\ \A k \in 1 .. Len(q) : r[k] = q[k]
  BY Tokens, StreamAppend, LenProperties
<1> HIDE DEF r
<1>2. \A k \in 1 .. Len(q) : q[k] = Data(w + k)
  BY DEF Run
<1>3. Run(r, w)
  BY <1>1, <1>2 DEF Run
<1>4. n + 1 = w + Len(r)
  BY <1>1
<1> QED BY <1>3, <1>4 DEF r

\* After a write the rest of the buffer and what is in the kernel are runs
\* that begin one token later.
LEMMA WriteRun ==
    ASSUME NEW c \in Chains, c.st = "write", NEW w \in Nat, Run(c.buf, w),
           NEW q \in Seq(Token), Run(q, w + Len(c.buf))
    PROVE  /\ AfterWrite(c) \in Chains
           /\ Head(c.buf) = Data(w + 1)
           /\ Run(AfterWrite(c).buf, w + 1)
           /\ Run(q, w + 1 + Len(AfterWrite(c).buf))
           /\ w + Len(c.buf) = w + 1 + Len(AfterWrite(c).buf)
<1> DEFINE rest == AfterWrite(c).buf
           m == Len(c.buf)
<1>1. m \in 0 .. BufLen /\ BufLen \in Nat
  BY ChainFacts, RelayAssumption
<1>2. /\ m > 0 /\ Head(c.buf) = c.buf[1] /\ AfterWrite(c) \in Chains
      /\ Len(rest) = m - 1 /\ \A k \in 1 .. (m - 1) : rest[k] = c.buf[k + 1]
  BY ChainFacts, Zenon
<1>3. \A k \in 1 .. m : c.buf[k] = Data(w + k)
  BY DEF Run
<1> HIDE DEF rest, m
<1>4. m \in Nat /\ m = Len(rest) + 1 /\ w + m = w + 1 + Len(rest)
  BY <1>1, <1>2
<1>5. Head(c.buf) = Data(w + 1)
  BY <1>2, <1>3, <1>4
<1>6. Run(rest, w + 1)
  <2>1. ASSUME NEW k \in 1 .. Len(rest)
        PROVE  rest[k] = Data(w + 1 + k)
    BY <1>2, <1>3, <1>4
  <2> QED BY <2>1 DEF Run
<1>7. Run(q, w + m)
  BY DEF m
<1> QED BY <1>2, <1>4, <1>5, <1>6, <1>7 DEF rest, m

-----------------------------------------------------------------------------
(***************************************************************************)
(* The invariant holds in the beginning and after every step.              *)
(***************************************************************************)
\* Nothing has been sent or written when the process starts.
LEMMA InvInit == Init => Inv
<1> SUFFICES ASSUME Init PROVE Inv
  OBVIOUS
<1>1. TypeOK
  <2>1. <<>> \in Streams
    BY EmptySeq DEF Streams
  <2>2. Peer \in Peers
    BY DEF Peer, Peers
  <2>3. Idle \in Chains
    BY ChainFacts
  <2>4. denied \in BOOLEAN /\ cOpen \in BOOLEAN /\ sOpen \in BOOLEAN
    BY DEF Init
  <2>5. cd \in 0 .. 3 /\ pendC \in Nat /\ pendS \in Nat
    BY DEF Init
  <2> QED BY <2>1, <2>2, <2>3, <2>4, <2>5, Zenon DEF Init, TypeOK
<1>2. Phase
  BY DEF Init, Phase, Peer
<1>3. UpStream /\ DownStream
  <2>1. Run(<<>>, 0) /\ Replied(0)
    BY DEF Init, Run, Replied
  <2> QED BY <2>1, ChainFacts DEF Init, UpStream, UpIntact, DownStream, Peer
<1>4. Ended
  BY DEF Init, Ended, DrainedAtEof
<1> QED BY <1>1, <1>2, <1>3, <1>4 DEF Inv

\* A direction that a step does not touch stays as it is.
LEMMA UpUnchanged ==
    ASSUME UpStream, UNCHANGED <<cOpen, up, outS, c2p>>, client'.sent = client.sent
    PROVE  UpStream'
BY DEF UpStream, UpIntact, Run

\* The downward half depends on its own variables only.
LEMMA DownUnchanged ==
    ASSUME DownStream, UNCHANGED <<sOpen, down, outC, s2p, cd>>,
           server'.sent = server.sent, st' # "session" \/ st = "session"
    PROVE  DownStream'
BY DEF DownStream, Replied, Run

\* A session that has ended stays ended, and nothing is sent after a fin.
LEMMA EndedUnchanged ==
    ASSUME TypeOK, Ended, UNCHANGED <<cause>>,
           st = "exited" => UNCHANGED <<st, outS, outC, cd>>,
           client.fin => client'.fin /\ client'.sent = client.sent,
           server.fin => server'.fin /\ server'.sent = server.sent
    PROVE  Ended'
BY DEF Ended, DrainedAtEof, TypeOK

\* A reply added to what was written is one more reply as long as there is
\* nothing else.
LEMMA OneMoreReply ==
    ASSUME NEW n \in 0 .. 1, NEW code \in Nat, outC \in Streams,
           Replied(n), Len(outC) = n, Replies(code), pendC \in Nat
    PROVE  Replied(n + 1)' /\ Len(outC') = n + 1 /\ outC' \in Streams /\ pendC' \in Nat
<1>1. Reply(code) \in Token /\ Reply(code).kind = "reply" /\ outC \in Seq(Token)
  BY Tokens DEF Streams, Token
<1>2. /\ outC' \in Seq(Token) /\ Len(outC') = n + 1 /\ outC'[n + 1] = Reply(code)
      /\ \A k \in 1 .. n : outC'[k] = outC[k]
  BY <1>1, StreamAppend DEF Replies
<1> QED BY <1>1, <1>2 DEF Replied, Replies, Streams, Token

\* The steps before the session, and the exits without one or after it.
LEMMA StartInv ==
    ASSUME Inv, \/ \E c \in 1 .. 3 : Route(c)
                \/ RouteError \/ Resolve \/ Connect \/ BindAccept \/ Exit
    PROVE  Inv'
<1> USE DEF Inv
<1>0. /\ Idle \in Chains /\ Reading \in Chains /\ Len(outC) \in Nat /\ outC \in Streams
      /\ Reading.buf = <<>> /\ Idle.buf = <<>> /\ Len(<<>>) = 0
  BY ChainFacts, LenProperties, EmptySeq DEF TypeOK, Streams
<1>1. ASSUME NEW c \in 1 .. 3, Route(c)
      PROVE  Inv'
  <2>1. /\ UNCHANGED <<up, down, cOpen, sOpen, pendS, outS, cause>> /\ UNCHANGED netVars
        /\ st = "route" /\ cd' = c /\ outC = <<>> /\ ~sOpen
    BY <1>1 DEF Route, Phase
  <2>2. Replied(0) /\ Len(outC) = 0
    BY <1>0, <2>1 DEF Replied
  <2>3. UpStream' /\ Ended'
    BY <2>1, UpUnchanged, EndedUnchanged DEF netVars
  <2>4. CASE c = 2
    <3>1. Replies(90) /\ denied' \in BOOLEAN /\ st' \in {"rejecting", "bind"}
      <4>1. ~(c = 1) /\ ~(c \notin {1, 2})
        BY <2>4
      <4>2. denied' \in BOOLEAN /\ Replies(90) /\ st' = IF denied' THEN "rejecting" ELSE "bind"
        BY <1>1, <4>1, Zenon DEF Route
      <4> QED BY <4>2
    <3>2. Replied(1)' /\ Len(outC') = 1 /\ outC' \in Streams /\ pendC' \in Nat
      BY <1>0, <2>2, <3>1, OneMoreReply DEF TypeOK
    <3>3. outC' = <<Reply(90)>>
      BY <2>1, <3>1 DEF Replies
    <3>4. TypeOK'
      BY <1>1, <2>1, <3>1, <3>2 DEF TypeOK, netVars
    <3>5. Phase'
      BY <2>1, <2>4, <3>1, <3>3 DEF Phase, netVars
    <3>6. DownStream'
      BY <2>1, <2>4, <3>1, <3>2 DEF DownStream
    <3> QED BY <2>3, <3>4, <3>5, <3>6
  <2>5. CASE c # 2
    <3>1. UNCHANGED <<outC, pendC, denied>> /\ st' \in {"resolve", "idle"} /\ (st' = "resolve" => c = 1)
      BY <1>1, <2>5 DEF Route
    <3>4. TypeOK'
      BY <1>1, <2>1, <3>1 DEF TypeOK, netVars
    <3>5. Phase'
      BY <2>1, <2>5, <3>1 DEF Phase, netVars
    <3>6. DownStream'
      BY <2>1, <2>2, <3>1 DEF DownStream, Replied
    <3> QED BY <2>3, <3>4, <3>5, <3>6
  <2> QED BY <2>4, <2>5
<1>2. ASSUME RouteError \/ Exit
      PROVE  Inv'
  <2>1. UNCHANGED <<cd, denied, outC>> /\ UNCHANGED relayVars /\ UNCHANGED netVars
    BY <1>2 DEF RouteError, Exit
  <2>2. st' \in {"idle", "exited"} /\ st # "exited"
    BY <1>2 DEF RouteError, Exit
  <2>3. TypeOK'
    BY <2>1, <2>2 DEF TypeOK, netVars, relayVars
  <2>4. Phase'
    BY <2>1, <2>2 DEF Phase, netVars, relayVars
  <2>5. UpStream' /\ DownStream' /\ Ended'
    BY <2>1, <2>2, UpUnchanged, DownUnchanged, EndedUnchanged DEF netVars, relayVars
  <2> QED BY <2>3, <2>4, <2>5
<1>3. ASSUME Resolve
      PROVE  Inv'
  <2>1. /\ UNCHANGED <<cd, up, down, cOpen, sOpen, pendS, outS, cause>> /\ UNCHANGED netVars
        /\ st = "resolve" /\ cd = 1 /\ outC = <<>> /\ ~sOpen
    BY <1>3 DEF Resolve, Phase
  <2>2. Replied(0) /\ Len(outC) = 0
    BY <1>0, <2>1 DEF Replied
  <2>3. UpStream' /\ Ended'
    BY <2>1, UpUnchanged, EndedUnchanged DEF netVars
  <2>4. CASE st' = "rejecting"
    <3>1. Replies(91) /\ denied'
      BY <1>3, <2>4 DEF Resolve
    <3>2. Replied(1)' /\ Len(outC') = 1 /\ outC' \in Streams /\ pendC' \in Nat
      BY <1>0, <2>2, <3>1, OneMoreReply DEF TypeOK
    <3>3. TypeOK'
      BY <1>3, <2>1, <2>4, <3>1, <3>2 DEF TypeOK, netVars, Resolve
    <3>4. Phase' /\ DownStream'
      BY <2>1, <2>4, <3>2 DEF Phase, DownStream
    <3> QED BY <2>3, <3>3, <3>4
  <2>5. CASE st' # "rejecting"
    <3>1. UNCHANGED <<outC, pendC, denied>> /\ st' \in {"connect", "idle"}
      BY <1>3, <2>5 DEF Resolve
    <3>2. TypeOK'
      BY <2>1, <3>1 DEF TypeOK, netVars
    <3>3. Phase' /\ DownStream'
      BY <2>1, <2>2, <3>1 DEF Phase, DownStream, Replied, netVars
    <3> QED BY <2>3, <3>2, <3>3
  <2> QED BY <2>4, <2>5
<1>4. ASSUME StartSession, st \in {"connect", "bind"},
             UNCHANGED <<cd, denied, cOpen, pendS, outS, cause>>, UNCHANGED netVars
      PROVE  Inv'
  <2>1. /\ st' = "session" /\ sOpen' /\ up' = Reading /\ down' = Reading /\ Replies(90)
        /\ cd \in {1, 2} /\ cOpen /\ ~sOpen /\ up = Idle
        /\ server.sent = 0 /\ s2p = <<>> /\ outS = <<>>
    BY <1>4 DEF StartSession, Phase
  <2>2. Len(outC) = cd - 1 /\ Replied(cd - 1)
    <3>1. CASE st = "connect"
      BY <1>0, <3>1 DEF Phase, Replied
    <3>2. CASE st = "bind"
      <4>1. cd = 2 /\ outC = <<Reply(90)>>
        BY <3>2 DEF Phase
      <4>2. Len(outC) = 1 /\ outC[1].kind = "reply"
        BY <4>1, Tokens
      <4> QED BY <4>1, <4>2 DEF Replied
    <3> QED BY <1>4, <3>1, <3>2
  <2>3. Replied(cd)' /\ Len(outC') = cd /\ outC' \in Streams /\ pendC' \in Nat
    <3>1. PICK n \in 0 .. 1 : cd = n + 1 /\ Len(outC) = n /\ Replied(n)
      BY <2>1, <2>2
    <3>2. Replied(n + 1)' /\ Len(outC') = n + 1 /\ outC' \in Streams /\ pendC' \in Nat
      BY <1>0, <2>1, <3>1, OneMoreReply DEF TypeOK
    <3> QED BY <1>4, <3>1, <3>2 DEF Replied
  <2>4. TypeOK'
    BY <1>0, <1>4, <2>1, <2>3 DEF TypeOK, netVars
  <2>5. Phase' /\ Ended'
    BY <1>4, <2>1, EndedUnchanged DEF Phase, netVars
  <2>6. UpStream'
    BY <1>0, <1>4, <2>1 DEF UpStream, UpIntact, Run, netVars
  <2>7. DownStream'
    BY <1>0, <1>4, <2>1, <2>3 DEF DownStream, Run, netVars
  <2> QED BY <2>4, <2>5, <2>6, <2>7
<1>5. ASSUME Connect
      PROVE  Inv'
  <2>1. st = "connect" /\ UNCHANGED <<cd, denied, cOpen, pendS, outS, cause>> /\ UNCHANGED netVars
    BY <1>5 DEF Connect
  <2>2. CASE StartSession
    BY <1>4, <2>1, <2>2
  <2>3. CASE ~StartSession
    <3>1. st' = "idle" /\ UNCHANGED <<up, down, sOpen, pendC, outC>>
      BY <1>5, <2>3 DEF Connect
    <3>2. TypeOK'
      BY <2>1, <3>1 DEF TypeOK, netVars
    <3>3. Phase'
      BY <2>1, <3>1 DEF Phase, netVars
    <3>4. UpStream' /\ DownStream' /\ Ended'
      BY <2>1, <3>1, UpUnchanged, DownUnchanged, EndedUnchanged DEF netVars
    <3> QED BY <3>2, <3>3, <3>4
  <2> QED BY <2>2, <2>3
<1>6. ASSUME BindAccept
      PROVE  Inv'
  BY <1>4, <1>6 DEF BindAccept
<1> QED BY <1>1, <1>2, <1>3, <1>5, <1>6

\* The chain from the client to the destination.
LEMMA UpInv ==
    ASSUME Inv, client_do_read \/ client_read_end \/ server_do_write \/ server_write_error
    PROVE  Inv'
<1> USE DEF Inv
<1>0. /\ c2p \in Seq(Token) /\ outS \in Seq(Token) /\ up \in Chains
      /\ Len(outS) \in Nat /\ DOMAIN outS = 1 .. Len(outS)
      /\ up.st # "write" => Len(up.buf) = 0
  BY LenProperties, ChainFacts DEF TypeOK, Streams, Token
<1>1. ASSUME client_do_read
      PROVE  Inv'
  <2>1. PICK n \in Counts(c2p) : up' = Chain("write", SubSeq(c2p, 1, n)) /\ c2p' = Drop(c2p, n)
    BY <1>1 DEF client_do_read
  <2>2. /\ st = "session" /\ up.st = "read" /\ cOpen
        /\ UNCHANGED <<st, cd, denied, down, cOpen, sOpen, client, server, s2p,
                       pendC, pendS, outC, outS, cause>>
    BY <1>1 DEF client_do_read
  <2>3. Run(c2p, Len(outS)) /\ client.sent = Len(outS) + Len(c2p)
    <3>1. Len(up.buf) = 0 /\ Len(c2p) \in Nat
      BY <1>0, <2>2, LenProperties
    <3>2. Run(c2p, Len(outS) + Len(up.buf)) /\ client.sent = Len(outS) + Len(up.buf) + Len(c2p)
      BY <2>2 DEF UpStream
    <3> QED BY <1>0, <3>1, <3>2
  <2>4. /\ up' \in Chains /\ Run(up'.buf, Len(outS))
        /\ Run(c2p', Len(outS) + Len(up'.buf)) /\ c2p' \in Seq(Token)
        /\ Len(outS) + Len(c2p) = Len(outS) + Len(up'.buf) + Len(c2p')
    BY <1>0, <2>1, <2>3, ReadRun
  <2>5. TypeOK'
    BY <2>2, <2>4 DEF TypeOK, Streams, Token
  <2>6. UpStream'
    <3>1. UpIntact'
      BY <2>2 DEF UpStream, UpIntact
    <3>2. Run(up.buf, Len(outS))' /\ Run(c2p, Len(outS) + Len(up.buf))'
      BY <2>2, <2>4 DEF Run
    <3>3. (client.sent = Len(outS) + Len(up.buf) + Len(c2p))'
      BY <2>2, <2>3, <2>4
    <3> QED BY <2>2, <3>1, <3>2, <3>3 DEF UpStream
  <2>7. Phase' /\ DownStream' /\ Ended'
    BY <2>2, DownUnchanged, EndedUnchanged DEF Phase
  <2> QED BY <2>5, <2>6, <2>7
<1>2. ASSUME client_read_end
      PROVE  Inv'
  <2>1. /\ st = "session" /\ st' = "exited" /\ up.st = "read"
        /\ cause' \in {"client_eof", "error"}
        /\ cause' = "client_eof" => client.fin /\ c2p = <<>> /\ cOpen
        /\ UNCHANGED <<cd, denied, up, down, cOpen, sOpen, client, server, c2p, s2p,
                       pendC, pendS, outC, outS>>
    BY <1>2 DEF client_read_end
  <2>2. TypeOK' /\ Phase'
    BY <2>1 DEF TypeOK, Phase
  <2>3. UpStream' /\ DownStream'
    BY <2>1, UpUnchanged, DownUnchanged
  <2>4. Ended'
    <3>1. ASSUME cause' = "client_eof"
          PROVE  Len(outS) = client.sent
      <4>1. Len(up.buf) = 0 /\ Len(c2p) = 0
        BY <1>0, <2>1, <3>1, EmptySeq
      <4>2. client.sent = Len(outS) + Len(up.buf) + Len(c2p)
        BY <2>1, <3>1 DEF UpStream
      <4> QED BY <1>0, <4>1, <4>2
    <3> QED BY <2>1, <3>1 DEF Ended, DrainedAtEof
  <2> QED BY <2>2, <2>3, <2>4
<1>3. ASSUME server_do_write
      PROVE  Inv'
  <2>1. /\ st = "session" /\ up.st = "write"
        /\ outS' = Append(outS, Head(up.buf)) /\ pendS' = pendS + 1 /\ up' = AfterWrite(up)
        /\ UNCHANGED <<st, cd, denied, down, cOpen, sOpen, pendC, outC, cause>>
        /\ UNCHANGED <<client, server, c2p, s2p>>
    BY <1>3 DEF server_do_write, netVars
  <2>2. /\ cOpen /\ UpIntact /\ Run(up.buf, Len(outS)) /\ Run(c2p, Len(outS) + Len(up.buf))
        /\ client.sent = Len(outS) + Len(up.buf) + Len(c2p)
    BY <2>1 DEF UpStream, Idle, Chain
  <2>3. /\ up' \in Chains /\ Head(up.buf) = Data(Len(outS) + 1)
        /\ Run(up'.buf, Len(outS) + 1) /\ Run(c2p, Len(outS) + 1 + Len(up'.buf))
        /\ Len(outS) + Len(up.buf) = Len(outS) + 1 + Len(up'.buf)
    BY <1>0, <2>1, <2>2, WriteRun
  <2>4. /\ outS' \in Seq(Token) /\ Len(outS') = Len(outS) + 1
        /\ \A k \in 1 .. Len(outS) : outS'[k] = outS[k]
        /\ outS'[Len(outS) + 1] = Data(Len(outS) + 1)
    BY <1>0, <2>1, <2>3, Tokens, StreamAppend
  <2>5. TypeOK'
    BY <2>1, <2>3, <2>4 DEF TypeOK, Streams, Token
  <2>6. UpStream'
    <3>1. UpIntact'
      BY <1>0, <2>2, <2>4, LenProperties DEF UpIntact
    <3>2. Run(up.buf, Len(outS))' /\ Run(c2p, Len(outS) + Len(up.buf))'
      BY <2>1, <2>3, <2>4 DEF Run
    <3>3. (client.sent = Len(outS) + Len(up.buf) + Len(c2p))'
      BY <2>1, <2>2, <2>3, <2>4
    <3> QED BY <2>1, <2>2, <3>1, <3>2, <3>3 DEF UpStream
  <2>7. DownStream' /\ Ended' /\ Phase'
    BY <2>1, DownUnchanged, EndedUnchanged DEF Phase
  <2> QED BY <2>5, <2>6, <2>7
<1>4. ASSUME server_write_error
      PROVE  Inv'
  <2>1. /\ st = "session" /\ cOpen' = FALSE /\ up' = Idle
        /\ UNCHANGED <<st, cd, denied, down, sOpen, pendC, pendS, outC, outS, cause>>
        /\ UNCHANGED <<client, server, c2p, s2p>>
    BY <1>4 DEF server_write_error, netVars
  <2>2. TypeOK'
    BY <2>1, ChainFacts DEF TypeOK
  <2>3. UpStream'
    BY <2>1 DEF UpStream, UpIntact
  <2>4. DownStream' /\ Ended' /\ Phase'
    BY <2>1, DownUnchanged, EndedUnchanged DEF Phase
  <2> QED BY <2>2, <2>3, <2>4
<1> QED BY <1>1, <1>2, <1>3, <1>4

\* The chain from the destination to the client.
LEMMA DownInv ==
    ASSUME Inv, server_do_read \/ server_read_end \/ client_do_write \/ client_write_error
    PROVE  Inv'
<1> USE DEF Inv
<1> DEFINE w == Len(outC) - cd
<1>0. /\ s2p \in Seq(Token) /\ outC \in Seq(Token) /\ down \in Chains /\ cd \in 0 .. 3
      /\ Len(outC) \in Nat /\ down.st # "write" => Len(down.buf) = 0
  BY LenProperties, ChainFacts DEF TypeOK, Streams, Token
<1>a. sOpen => /\ Replied(cd) /\ w \in Nat /\ Len(outC) = cd + w
               /\ Run(down.buf, w) /\ Run(s2p, w + Len(down.buf))
               /\ server.sent + cd = Len(outC) + Len(down.buf) + Len(s2p)
  BY <1>0 DEF DownStream, Replied
<1> HIDE DEF w
<1>1. ASSUME server_do_read
      PROVE  Inv'
  <2>1. PICK n \in Counts(s2p) : down' = Chain("write", SubSeq(s2p, 1, n)) /\ s2p' = Drop(s2p, n)
    BY <1>1 DEF server_do_read
  <2>2. /\ st = "session" /\ down.st = "read" /\ sOpen
        /\ UNCHANGED <<st, cd, denied, up, cOpen, sOpen, client, server, c2p,
                       pendC, pendS, outC, outS, cause>>
    BY <1>1 DEF server_do_read
  <2>3. Run(s2p, w) /\ server.sent + cd = Len(outC) + Len(s2p) /\ w \in Nat /\ Len(outC) = cd + w
    <3>1. Len(down.buf) = 0 /\ Len(s2p) \in Nat
      BY <1>0, <2>2, LenProperties
    <3> QED BY <1>0, <1>a, <2>2, <3>1
  <2>4. /\ down' \in Chains /\ Run(down'.buf, w)
        /\ Run(s2p', w + Len(down'.buf)) /\ s2p' \in Seq(Token)
        /\ w + Len(s2p) = w + Len(down'.buf) + Len(s2p')
    BY <1>0, <2>1, <2>3, ReadRun
  <2>5. TypeOK'
    BY <2>2, <2>4 DEF TypeOK, Streams, Token
  <2>6. DownStream'
    <3>1. w' = w /\ w = Len(outC) - cd
      BY <2>2 DEF w
    <3>2. (\E k \in 0 .. 2 : Replied(k) /\ (k = 2 => cd = 2) /\ (k < Len(outC) => k = cd))'
      BY <2>2 DEF DownStream, Replied
    <3>3. Run(down.buf, Len(outC) - cd)' /\ Run(s2p, Len(outC) - cd + Len(down.buf))'
      BY <2>2, <2>4, <3>1 DEF Run
    <3>4. (server.sent + cd = Len(outC) + Len(down.buf) + Len(s2p))'
      <4>1. Len(s2p) \in Nat /\ Len(down'.buf) \in Nat /\ Len(s2p') \in Nat
        BY <1>0, <2>4, ChainFacts, LenProperties, RelayAssumption
      <4>2. Len(s2p) = Len(down'.buf) + Len(s2p')
        BY <2>3, <2>4, <4>1
      <4>3. server.sent + cd = Len(outC) + (Len(down'.buf) + Len(s2p'))
        BY <2>3, <4>2
      <4> QED BY <1>0, <2>2, <4>1, <4>3, Sums
    <3>5. Replied(cd)'
      BY <1>a, <2>2 DEF Replied
    <3> QED BY <2>2, <3>2, <3>3, <3>4, <3>5 DEF DownStream
  <2>7. Phase' /\ UpStream' /\ Ended'
    BY <2>2, UpUnchanged, EndedUnchanged DEF Phase
  <2> QED BY <2>5, <2>6, <2>7
<1>2. ASSUME server_read_end
      PROVE  Inv'
  <2>1. /\ st = "session" /\ st' = "exited" /\ down.st = "read"
        /\ cause' \in {"server_eof", "error"}
        /\ cause' = "server_eof" => server.fin /\ s2p = <<>> /\ sOpen
        /\ UNCHANGED <<cd, denied, up, down, cOpen, sOpen, client, server, c2p, s2p,
                       pendC, pendS, outC, outS>>
    BY <1>2 DEF server_read_end
  <2>2. TypeOK' /\ Phase'
    BY <2>1 DEF TypeOK, Phase
  <2>3. UpStream' /\ DownStream'
    BY <2>1, UpUnchanged, DownUnchanged
  <2>4. Ended'
    <3>1. ASSUME cause' = "server_eof"
          PROVE  Len(outC) = server.sent + cd
      <4>1. Len(down.buf) = 0 /\ Len(s2p) = 0
        BY <1>0, <2>1, <3>1, EmptySeq
      <4> QED BY <1>0, <1>a, <2>1, <3>1, <4>1
    <3> QED BY <2>1, <3>1 DEF Ended, DrainedAtEof
  <2> QED BY <2>2, <2>3, <2>4
<1>3. ASSUME client_do_write
      PROVE  Inv'
  <2>1. /\ st = "session" /\ down.st = "write"
        /\ outC' = Append(outC, Head(down.buf)) /\ pendC' = pendC + 1 /\ down' = AfterWrite(down)
        /\ UNCHANGED <<st, cd, denied, up, cOpen, sOpen, pendS, outS, cause>>
        /\ UNCHANGED <<client, server, c2p, s2p>>
    BY <1>3 DEF client_do_write, netVars
  <2>2. /\ sOpen /\ Replied(cd) /\ w \in Nat /\ Len(outC) = cd + w
        /\ Run(down.buf, w) /\ Run(s2p, w + Len(down.buf))
        /\ server.sent + cd = Len(outC) + Len(down.buf) + Len(s2p)
    BY <1>a, <2>1 DEF DownStream, Idle, Chain
  <2>3. /\ down' \in Chains /\ Head(down.buf) = Data(w + 1)
        /\ Run(down'.buf, w + 1) /\ Run(s2p, w + 1 + Len(down'.buf))
        /\ w + Len(down.buf) = w + 1 + Len(down'.buf)
    BY <1>0, <2>1, <2>2, WriteRun
  <2>4. /\ outC' \in Seq(Token) /\ Len(outC') = Len(outC) + 1
        /\ \A k \in 1 .. Len(outC) : outC'[k] = outC[k]
        /\ outC'[Len(outC) + 1] = Data(w + 1)
    BY <1>0, <2>1, <2>2, <2>3, Tokens, StreamAppend
  <2>5. TypeOK'
    BY <2>1, <2>3, <2>4 DEF TypeOK, Streams, Token
  <2>6. DownStream'
    <3>1. Len(outC') - cd' = w + 1
      BY <1>0, <2>1, <2>2, <2>4
    <3>2. Replied(cd)'
      <4>1. ASSUME NEW k \in (cd + 1) .. (Len(outC) + 1)
            PROVE  outC'[k] = Data(k - cd)
        <5>1. CASE k = Len(outC) + 1
          <6>1. k - cd = w + 1
            BY <1>0, <2>2, <5>1
          <6> QED BY <2>4, <5>1, <6>1
        <5>2. CASE k # Len(outC) + 1
          BY <1>0, <2>2, <2>4, <5>2 DEF Replied
        <5> QED BY <5>1, <5>2
      <4>2. cd <= Len(outC) + 1 /\ \A k \in 1 .. cd : outC'[k].kind = "reply"
        BY <1>0, <2>2, <2>4 DEF Replied
      <4> QED BY <2>1, <2>4, <4>1, <4>2 DEF Replied
    <3>3. Run(down.buf, Len(outC) - cd)' /\ Run(s2p, Len(outC) - cd + Len(down.buf))'
      BY <2>1, <2>3, <3>1 DEF Run
    <3>4. (server.sent + cd = Len(outC) + Len(down.buf) + Len(s2p))'
      <4>1. Len(down.buf) \in Nat /\ Len(down'.buf) \in Nat /\ Len(s2p) \in Nat
        BY <1>0, <2>3, ChainFacts, LenProperties, RelayAssumption
      <4>2. PICK a, b \in Nat : a = Len(down.buf) /\ b = Len(down'.buf)
        BY <4>1
      <4>3. w + a = w + 1 + b
        BY <2>3, <4>2
      <4>4. a = b + 1
        BY <2>2, <4>3
      <4>5. server.sent + cd = Len(outC) + a + Len(s2p)
        BY <2>2, <4>2
      <4>6. server.sent + cd = (Len(outC) + 1) + b + Len(s2p)
        BY <1>0, <4>1, <4>4, <4>5
      <4> QED BY <2>1, <2>4, <4>2, <4>6
    <3>5. cd \in {1, 2}
      BY <2>1 DEF Phase
    <3>6. (\E n \in 0 .. 2 : Replied(n) /\ (n = 2 => cd = 2) /\ (n < Len(outC) => n = cd))'
      <4>1. PICK n \in {1, 2} : n = cd
        BY <3>5
      <4>2. n' = n /\ cd' = n
        BY <2>1, <4>1
      <4> QED BY <3>2, <4>1, <4>2 DEF Replied
    <3> QED BY <2>1, <2>2, <3>2, <3>3, <3>4, <3>6 DEF DownStream
  <2>7. UpStream' /\ Ended' /\ Phase'
    BY <2>1, UpUnchanged, EndedUnchanged DEF Phase
  <2> QED BY <2>5, <2>6, <2>7
<1>4. ASSUME client_write_error
      PROVE  Inv'
  <2>1. /\ st = "session" /\ sOpen' = FALSE /\ down' = Idle
        /\ UNCHANGED <<st, cd, denied, up, cOpen, pendC, pendS, outC, outS, cause>>
        /\ UNCHANGED <<client, server, c2p, s2p>>
    BY <1>4 DEF client_write_error, netVars
  <2>2. TypeOK'
    BY <2>1, ChainFacts DEF TypeOK
  <2>3. DownStream'
    BY <2>1 DEF DownStream, Replied
  <2>4. UpStream' /\ Ended' /\ Phase'
    BY <2>1, UpUnchanged, EndedUnchanged DEF Phase
  <2> QED BY <2>2, <2>3, <2>4
<1> QED BY <1>1, <1>2, <1>3, <1>4

\* The peers.
LEMMA PeersInv ==
    ASSUME Inv, \/ ClientSend \/ ServerSend \/ ClientClose \/ ServerClose
                \/ ClientRead \/ ServerRead
    PROVE  Inv'
<1> USE DEF Inv
<1>0. /\ c2p \in Seq(Token) /\ s2p \in Seq(Token) /\ Len(c2p) \in Nat /\ Len(s2p) \in Nat
      /\ client.sent \in Nat /\ server.sent \in Nat
  BY LenProperties DEF TypeOK, Streams, Token, Peers
<1>1. ASSUME ClientSend
      PROVE  Inv'
  <2>1. /\ ~client.fin /\ client' = [client EXCEPT !.sent = @ + 1]
        /\ c2p' = Append(c2p, Data(client.sent + 1))
        /\ UNCHANGED <<server, s2p, pendC, pendS>>
        /\ UNCHANGED <<st, cd, denied, up, down, cOpen, sOpen, outC, outS, cause>>
    BY <1>1 DEF ClientSend, processVars
  <2>2. client' \in Peers /\ client'.sent = client.sent + 1
    BY <2>1 DEF TypeOK, Peers
  <2>3. /\ c2p' \in Seq(Token) /\ Len(c2p') = Len(c2p) + 1
        /\ \A k \in 1 .. Len(c2p) : c2p'[k] = c2p[k]
        /\ c2p'[Len(c2p) + 1] = Data(client.sent + 1)
    BY <1>0, <2>1, Tokens, StreamAppend
  <2>4. TypeOK' /\ Phase'
    BY <2>1, <2>2, <2>3 DEF TypeOK, Streams, Token, Phase
  <2>5. UpStream'
    <3>1. CASE ~cOpen
      BY <2>1, <3>1 DEF UpStream, UpIntact
    <3>2. CASE cOpen
      <4> DEFINE w == Len(outS) + Len(up.buf)
      <4>1. w \in Nat
        <5>1. Len(outS) \in Nat /\ Len(up.buf) \in Nat
          BY LenProperties, ChainFacts, RelayAssumption DEF TypeOK, Streams
        <5> QED BY <5>1
      <4>2. UpIntact /\ Run(up.buf, Len(outS)) /\ Run(c2p, w) /\ client.sent = w + Len(c2p)
        BY <3>2 DEF UpStream
      <4>3. w' = w
        BY <2>1
      <4> HIDE DEF w
      <4>4. Run(c2p', w) /\ client'.sent = w + Len(c2p')
        BY <1>0, <2>1, <2>2, <4>1, <4>2, RunAppend
      <4>5. UpIntact' /\ Run(up.buf, Len(outS))'
        BY <2>1, <4>2 DEF UpIntact, Run
      <4>6. Run(c2p, w)' /\ (client.sent = w + Len(c2p))'
        BY <4>3, <4>4 DEF Run
      <4> QED BY <2>1, <3>2, <4>5, <4>6 DEF UpStream, w
    <3> QED BY <3>1, <3>2
  <2>6. DownStream' /\ Ended'
    BY <2>1, DownUnchanged, EndedUnchanged
  <2> QED BY <2>4, <2>5, <2>6
<1>2. ASSUME ServerSend
      PROVE  Inv'
  <2>1. /\ st = "session" /\ ~server.fin /\ server' = [server EXCEPT !.sent = @ + 1]
        /\ s2p' = Append(s2p, Data(server.sent + 1))
        /\ UNCHANGED <<client, c2p, pendC, pendS>>
        /\ UNCHANGED <<st, cd, denied, up, down, cOpen, sOpen, outC, outS, cause>>
    BY <1>2 DEF ServerSend, processVars
  <2>2. server' \in Peers /\ server'.sent = server.sent + 1
    BY <2>1 DEF TypeOK, Peers
  <2>3. /\ s2p' \in Seq(Token) /\ Len(s2p') = Len(s2p) + 1
        /\ \A k \in 1 .. Len(s2p) : s2p'[k] = s2p[k]
        /\ s2p'[Len(s2p) + 1] = Data(server.sent + 1)
    BY <1>0, <2>1, Tokens, StreamAppend
  <2>4. TypeOK' /\ Phase'
    BY <2>1, <2>2, <2>3 DEF TypeOK, Streams, Token, Phase
  <2>5. DownStream'
    <3>1. (\E n \in 0 .. 2 : Replied(n) /\ (n = 2 => cd = 2) /\ (n < Len(outC) => n = cd))'
      BY <2>1 DEF DownStream, Replied
    <3>2. CASE ~sOpen
      BY <2>1, <3>1, <3>2 DEF DownStream
    <3>3. CASE sOpen
      <4> DEFINE w == Len(outC) - cd + Len(down.buf)
      <4>1. w \in Nat /\ Run(s2p, w) /\ server.sent = w + Len(s2p)
        <5>0. cd \in Nat
          BY DEF TypeOK
        <5>1. /\ Replied(cd) /\ Run(s2p, w)
              /\ server.sent + cd = Len(outC) + Len(down.buf) + Len(s2p)
          BY <3>3 DEF DownStream
        <5>2. Len(outC) \in Nat /\ Len(down.buf) \in Nat /\ cd <= Len(outC)
          BY <5>1, LenProperties, ChainFacts, RelayAssumption DEF TypeOK, Streams, Replied
        <5>3. PICK a, b, c, d, e \in Nat :
                 /\ a = server.sent /\ b = Len(outC) /\ c = Len(down.buf)
                 /\ d = cd /\ e = Len(s2p)
          BY <1>0, <5>0, <5>2
        <5>4. w = b - d + c /\ d <= b /\ a + d = b + c + e
          BY <5>1, <5>2, <5>3
        <5>5. w \in Nat /\ a = w + e
          BY <5>4
        <5> QED BY <5>1, <5>3, <5>5
      <4>2. w' = w
        BY <2>1
      <4> HIDE DEF w
      <4>3. Run(s2p', w) /\ server'.sent = w + Len(s2p')
        BY <1>0, <2>1, <2>2, <4>1, RunAppend
      <4>4. Run(down.buf, Len(outC) - cd)' /\ Replied(cd)'
        BY <2>1, <3>3 DEF DownStream, Run, Replied
      <4>5. Run(s2p, w)'
        BY <4>2, <4>3 DEF Run
      <4>6. (server.sent + cd = Len(outC) + Len(down.buf) + Len(s2p))'
        <5>0. cd \in Nat
          BY DEF TypeOK
        <5>1. server.sent + cd = Len(outC) + Len(down.buf) + Len(s2p)
          BY <3>3 DEF DownStream
        <5>2. Len(outC) \in Nat /\ Len(down.buf) \in Nat
          BY LenProperties, ChainFacts, RelayAssumption DEF TypeOK, Streams
        <5>3. PICK a, b, c, d, e \in Nat :
                 /\ a = server.sent /\ b = Len(outC) /\ c = Len(down.buf)
                 /\ d = cd /\ e = Len(s2p)
          BY <1>0, <5>0, <5>2
        <5>4. a + d = b + c + e
          BY <5>1, <5>3
        <5>5. (a + 1) + d = b + c + (e + 1)
          BY <5>4
        <5> QED BY <2>1, <2>2, <2>3, <5>3, <5>5
      <4> QED BY <2>1, <3>1, <3>3, <4>4, <4>5, <4>6 DEF DownStream, w
    <3> QED BY <3>2, <3>3
  <2>6. UpStream' /\ Ended'
    BY <2>1, UpUnchanged, EndedUnchanged
  <2> QED BY <2>4, <2>5, <2>6
<1>3. ASSUME ClientClose \/ ServerClose \/ ClientRead \/ ServerRead
      PROVE  Inv'
  <2>1. /\ UNCHANGED <<c2p, s2p>>
        /\ UNCHANGED <<st, cd, denied, up, down, cOpen, sOpen, outC, outS, cause>>
    BY <1>3 DEF ClientClose, ServerClose, ClientRead, ServerRead, processVars, netVars
  <2>2. /\ client' \in Peers /\ client'.sent = client.sent /\ (client.fin => client'.fin)
        /\ server' \in Peers /\ server'.sent = server.sent /\ (server.fin => server'.fin)
    BY <1>3 DEF ClientClose, ServerClose, ClientRead, ServerRead, netVars, TypeOK, Peers
  <2>3. pendC' \in Nat /\ pendS' \in Nat
    <3>1. CASE ClientClose \/ ServerClose
      BY <3>1 DEF ClientClose, ServerClose, TypeOK
    <3>2. CASE ClientRead
      BY <3>2 DEF ClientRead, TypeOK
    <3>3. CASE ServerRead
      BY <3>3 DEF ServerRead, TypeOK
    <3> QED BY <1>3, <3>1, <3>2, <3>3
  <2>4. TypeOK' /\ Phase'
    BY <2>1, <2>2, <2>3 DEF TypeOK, Phase
  <2>5. UpStream' /\ DownStream' /\ Ended'
    BY <2>1, <2>2, UpUnchanged, DownUnchanged, EndedUnchanged
  <2> QED BY <2>4, <2>5
<1> QED BY <1>1, <1>2, <1>3

\* Every step keeps the invariant.
LEMMA InvNext == Inv /\ [Next]_vars => Inv'
<1> SUFFICES ASSUME Inv, [Next]_vars
             PROVE  Inv'
  OBVIOUS
<1>1. CASE UNCHANGED vars
  BY <1>1, UpUnchanged, DownUnchanged, EndedUnchanged DEF vars, Inv, TypeOK, Phase
<1>2. CASE Next
  BY <1>2, StartInv, UpInv, DownInv, PeersInv DEF Next, Relay
<1> QED BY <1>1, <1>2

\* The invariant holds in every behaviour, with whatever fairness.
THEOREM Invariance == Spec => []Inv
BY InvInit, InvNext, PTL DEF Spec

-----------------------------------------------------------------------------
(***************************************************************************)
(* The properties.                                                         *)
(***************************************************************************)
\* The variables keep their types, and a chain writes exactly while its
\* buffer, which the next read would overwrite, holds something.
THEOREM TypeCorrect == Spec => []TypeOK
<1>1. Inv => TypeOK
  BY DEF Inv
<1> QED BY <1>1, Invariance, PTL

\* What the destination receives is what the client sent, in order, for
\* every amount of data, window and buffer length, however the reads and
\* writes of the two chains interleave and wherever the session is cut.
THEOREM UpCorrect == Spec => []UpIntact
<1>1. Inv => UpIntact
  BY DEF Inv, UpStream
<1> QED BY <1>1, Invariance, PTL

\* What the client receives is the replies to its command and then what the
\* destination sent, in order.
THEOREM DownCorrect == Spec => []DownIntact
<1>1. ASSUME Inv
      PROVE  DownIntact
  <2>1. PICK n \in 0 .. 2 : Replied(n) /\ (n = 2 => cd = 2) /\ (n < Len(outC) => n = cd)
    BY <1>1 DEF Inv, DownStream
  <2>2. DOMAIN outC = 1 .. Len(outC) /\ Len(outC) \in Nat
    BY <1>1, LenProperties DEF Inv, TypeOK, Streams
  <2>3. ASSUME NEW k \in (n + 1) .. Len(outC)
        PROVE  outC[k].kind = "data"
    <3>1. k - n \in Nat /\ outC[k] = Data(k - n)
      BY <2>1, <2>2 DEF Replied
    <3> QED BY <3>1, Tokens
  <2>4. {k \in DOMAIN outC : outC[k].kind = "reply"} = 1 .. n
    BY <2>1, <2>2, <2>3 DEF Replied
  <2> QED BY <2>1, <2>4 DEF DownIntact, Replied
<1> QED BY <1>1, Invariance, PTL

\* A session that ends because a peer closed in good order has passed on all
\* that this peer had sent.
THEOREM DrainedCorrect == Spec => []DrainedAtEof
<1>1. Inv => DrainedAtEof
  BY DEF Inv, Ended
<1> QED BY <1>1, Invariance, PTL

=============================================================================
