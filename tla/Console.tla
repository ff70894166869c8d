------------------------------- MODULE Console -------------------------------
(***************************************************************************)
(* One Client of project4/console.cgi.cpp: it asks a SOCKS server for a    *)
(* connection to a shell, plays a script of lines, one for every prompt it *)
(* recognises, and shows what is said on a page.  (The console of project3 *)
(* is the same without do_request and do_reply.)                           *)
(*                                                                         *)
(* Text is a sequence of tokens: a character ("pct" for %, "sp", "amp", a  *)
(* quote, "bs" for a backslash, "cr", ...), a whole line of the script or  *)
(* half of the SOCKS reply.  The SOCKS server and the shell of project2 at *)
(* the other end are external; the shell prints the prompt "% " whenever   *)
(* it is ready for a line.  A read returns any part of what has arrived,   *)
(* at most BufLen tokens.                                                  *)
(***************************************************************************)
EXTENDS Naturals, Sequences, SequencesExt

CONSTANTS
    Scripts,    \* the test files: sequences of lines
    Output,     \* the characters the commands of the shell print
    MaxOut,     \* bound: characters printed by one command
    BufLen      \* the size of bytes

\* Every file of project3/extra_files/test_case holds the line exit.
ASSUME ScriptsAssumption ==
    /\ Scripts \subseteq Seq(STRING) /\ Output \subseteq STRING
    /\ \A s \in Scripts : \E k \in DOMAIN s : s[k] = "exit"
    /\ MaxOut \in Nat /\ BufLen \in Nat \ {0}

VARIABLES
    st,         \* the operation that is outstanding
    lines, line_count, prompt, eof,
    page,       \* what the browser shows
    s2c, c2s,   \* sent by the far end, by the client, and not read yet
    fin,        \* the far end has closed the connection
    sh, printed,    \* the shell and what its command has printed
    said,       \* history: what do_reply left of the reply, then the session
                \* as the shell has seen it
    heard       \* history: the lines of it, which the shell has read

vars == <<st, lines, line_count, prompt, eof, page, s2c, c2s, fin, sh, printed,
          said, heard>>

clientVars == <<st, line_count, prompt, eof, page>>
shellVars == <<fin, sh, printed, said, heard>>

-----------------------------------------------------------------------------
(***************************************************************************)
(* replaceAll and the seven calls of it.  An entity is "&" and a rest;     *)
(* Rest and Named name the rest by the character a browser reads it as:    *)
(* &#x34; is the digit 4 and &#x22; the double quote.                      *)
(***************************************************************************)
Rest == [amp |-> "#amp", nl |-> "#nl", tab |-> "#tab", dq |-> "#four",
         sq |-> "#dq", lt |-> "#lt", gt |-> "#gt"]

Named == [amp |-> "#amp", nl |-> "#nl", tab |-> "#tab", four |-> "#four",
          dq |-> "#dq", lt |-> "#lt", gt |-> "#gt"]

Read(rest) == CHOOSE c \in DOMAIN Named : Named[c] = rest

replaceAll(text, from) ==
    FlattenSeq([i \in DOMAIN text |->
        IF text[i] = from THEN <<"amp", Rest[from]>> ELSE <<text[i]>>])

\* Mutant of Escape: "&" last.
EscapeAmpLast(text) ==
    LET nl == replaceAll(text, "nl")
        tab == replaceAll(nl, "tab")
        quotes == replaceAll(replaceAll(tab, "dq"), "sq")
        angles == replaceAll(replaceAll(quotes, "lt"), "gt")
    IN  replaceAll(angles, "amp")

Escape(text) ==
    LET amp == replaceAll(text, "amp")
        nl == replaceAll(amp, "nl")
        tab == replaceAll(nl, "tab")
        quotes == replaceAll(replaceAll(tab, "dq"), "sq")
    IN  replaceAll(replaceAll(quotes, "lt"), "gt")

\* What the browser reads an escaped text as.
Browser(esc) ==
    LET entity(i) == /\ i \in 1 .. Len(esc) - 1
                     /\ esc[i] = "amp" /\ esc[i + 1] \in {Rest[c] : c \in DOMAIN Rest}
    IN  FlattenSeq([i \in DOMAIN esc |->
            IF entity(i) THEN <<Read(esc[i + 1])>>
            ELSE IF entity(i - 1) THEN <<>> ELSE <<esc[i]>>])

\* What is sent; a line of a script is not spelt out.
Tokens == DOMAIN Rest \cup Output \cup {"pct", "sp", "granted", "rejected", "addr"}
              \cup UNION {ToSet(s) : s \in Scripts}

\* The same token by token ("&" is escaped, so no entity spans two tokens).
ShownAs == [c \in Tokens |-> Browser(Escape(<<c>>))]

(***************************************************************************)
(* The escaped text stands between the quotes of a JavaScript string, one  *)
(* for every read.  A backslash that none escapes goes, gives the letters  *)
(* n and t a meaning, and hides a CR or the closing quote; a CR that none  *)
(* escapes ends the line.  A string without its end is shown as nothing.   *)
(***************************************************************************)
Escaped(text, i) ==
    \E k \in 1 .. i - 1 :
        /\ k % 2 = 1
        /\ \A m \in i - k .. i - 1 : text[m] = "bs"
        /\ i - k > 1 => text[i - k - 1] # "bs"

Letters == [n |-> "nl", t |-> "tab"]

Unterminated(text) ==
    \/ Escaped(text, Len(text) + 1)
    \/ \E i \in DOMAIN text : text[i] = "cr" /\ ~Escaped(text, i)

Piece(text, i) ==
    IF Escaped(text, i)
    THEN IF text[i] = "cr" THEN <<>>
         ELSE ShownAs[IF text[i] \in DOMAIN Letters THEN Letters[text[i]] ELSE text[i]]
    ELSE IF text[i] = "bs" THEN <<>> ELSE ShownAs[text[i]]

Shown(text) == IF Unterminated(text) THEN <<>>
               ELSE FlattenSeq([i \in DOMAIN text |-> Piece(text, i)])

-----------------------------------------------------------------------------
Init ==
    /\ st = "connect"
    /\ lines \in Scripts
    /\ line_count = 0 /\ prompt = 0 /\ eof = FALSE
    /\ page = <<>>
    /\ s2c = <<>> /\ c2s = <<>> /\ fin = FALSE
    /\ sh = "off" /\ printed = 0
    /\ said = <<>> /\ heard = <<>>

\* do_resolve and do_connect; on an error nothing more is started.
do_connect ==
    /\ st = "connect"
    /\ st' \in {"request", "closed"}
    /\ UNCHANGED <<lines, line_count, prompt, eof, page, s2c, c2s>>
    /\ UNCHANGED shellVars

do_request ==
    /\ st = "request"
    /\ st' = "reply"
    /\ UNCHANGED <<lines, line_count, prompt, eof, page, s2c, c2s>>
    /\ UNCHANGED shellVars

\* reply_data_ is as long as the reply, of which one read takes any part; what
\* it says is not looked at, and the rest of it is text for do_read.
do_reply ==
    /\ st = "reply" /\ s2c # <<>>
    /\ st' = "read"
    /\ \E n \in 1 .. 2 : s2c' = SubSeq(s2c, n + 1, Len(s2c))
    /\ said' = s2c'
    /\ UNCHANGED <<lines, line_count, prompt, eof, page, c2s>>
    /\ UNCHANGED <<fin, sh, printed, heard>>

\* A read fails: the chain of handlers ends.
read_error ==
    /\ st \in {"reply", "read"}
    /\ fin /\ s2c = <<>>
    /\ st' = "closed"
    /\ UNCHANGED <<lines, line_count, prompt, eof, page, s2c, c2s>>
    /\ UNCHANGED shellVars

\* Mutant of Scan: a % at the end of the data counts for nothing.
ScanInside(str) ==
    IF \E j \in 1 .. Len(str) - 1 : str[j] = "pct" THEN 1 ELSE prompt

\* The loop over the data stops at the first %: 2 when it is the last byte.
Scan(str) ==
    IF "pct" \notin ToSet(str) THEN prompt
    ELSE IF str[Len(str)] = "pct" /\ "pct" \notin ToSet(Front(str)) THEN 2
    ELSE 1

\* Mutant of SendLine: eof is not set.
SendLineOn(str) ==
    /\ prompt' = 0
    /\ page' = page \o Shown(str) \o Shown(<<lines[line_count + 1]>>)
    /\ line_count' = line_count + 1
    /\ st' = "write"
    /\ UNCHANGED eof

SendLine(str) ==
    /\ prompt' = 0
    /\ eof' = (eof \/ lines[line_count + 1] = "exit")
    /\ page' = page \o Shown(str) \o Shown(<<lines[line_count + 1]>>)
    /\ line_count' = line_count + 1
    /\ st' = "write"

\* Mutant of Remembered: a % at the end of the data stays 2.
RememberedAsIs(p) == p

\* After a % at the end of the data any further data answers the prompt.
Remembered(p) == IF p = 2 THEN 1 ELSE p

\* lines[line_count] past the end of the vector: undefined, kept apart.
Overrun ==
    /\ st' = "overrun"
    /\ UNCHANGED <<line_count, prompt, eof, page>>

do_read ==
    /\ st = "read"
    /\ \E n \in 1 .. BufLen :
          /\ n <= Len(s2c)
          /\ s2c' = SubSeq(s2c, n + 1, Len(s2c))
          /\ LET str == SubSeq(s2c, 1, n)
                 p == Scan(str)
             IN  \/ /\ p = 1 /\ line_count < Len(lines)
                    /\ SendLine(str)
                 \/ p = 1 /\ line_count >= Len(lines) /\ Overrun
                 \/ /\ p # 1
                    /\ page' = page \o Shown(str)
                    /\ IF line_count < Len(lines)
                       THEN prompt' = Remembered(p) /\ st' = "read"
                       ELSE prompt' = p /\ st' = "closed"
                    /\ UNCHANGED <<line_count, eof>>
    /\ UNCHANGED <<lines, c2s>> /\ UNCHANGED shellVars

do_write ==
    /\ st = "write"
    /\ \/ /\ c2s' = Append(c2s, lines[line_count])
          /\ st' = IF eof THEN "closed" ELSE "read"
       \/ /\ fin                     \* the write fails
          /\ st' = "closed"
          /\ UNCHANGED c2s
    /\ UNCHANGED <<lines, line_count, prompt, eof, page, s2c>>
    /\ UNCHANGED shellVars

-----------------------------------------------------------------------------
\* The far end: the SOCKS server answers, then the shell speaks.
SocksReply ==
    /\ st = "reply" /\ sh = "off" /\ ~fin /\ s2c = <<>>
    /\ \E granted \in BOOLEAN :
          /\ s2c' = <<IF granted THEN "granted" ELSE "rejected", "addr">>
          /\ sh' = IF granted THEN "prompt" ELSE "off"
          /\ fin' = ~granted
    /\ UNCHANGED <<lines, c2s, printed, said, heard>> /\ UNCHANGED clientVars

Say(text) == s2c' = s2c \o text /\ said' = said \o text

ShellPrompt ==
    /\ sh = "prompt"
    /\ Say(<<"pct", "sp">>)
    /\ sh' = "wait"
    /\ UNCHANGED <<lines, c2s, fin, printed, heard>> /\ UNCHANGED clientVars

ShellRead ==
    /\ sh = "wait" /\ c2s # <<>>
    /\ said' = Append(said, Head(c2s)) /\ heard' = Append(heard, Head(c2s))
    /\ c2s' = Tail(c2s)
    /\ IF Head(c2s) = "exit" THEN sh' = "exited" /\ fin' = TRUE
                             ELSE sh' = "run" /\ UNCHANGED fin
    /\ printed' = 0
    /\ UNCHANGED <<lines, s2c>> /\ UNCHANGED clientVars

ShellOutput ==
    /\ sh = "run" /\ printed < MaxOut
    /\ \E c \in Output : Say(<<c>>)
    /\ printed' = printed + 1
    /\ UNCHANGED <<lines, c2s, fin, sh, heard>> /\ UNCHANGED clientVars

ShellCommandEnds ==
    /\ sh = "run"
    /\ sh' = "prompt"
    /\ UNCHANGED <<lines, s2c, c2s, fin, printed, said, heard>> /\ UNCHANGED clientVars

\* The shell is killed, or its connection is reset.
ShellDies ==
    /\ sh \in {"prompt", "wait", "run"}
    /\ sh' = "dead" /\ fin' = TRUE
    /\ UNCHANGED <<lines, s2c, c2s, printed, said, heard>> /\ UNCHANGED clientVars

Next ==
    \/ do_connect \/ do_request \/ do_reply \/ read_error \/ do_read \/ do_write
    \/ SocksReply
    \/ ShellPrompt \/ ShellRead \/ ShellOutput \/ ShellCommandEnds \/ ShellDies

Spec == Init /\ [][Next]_vars

\* Fairness.  io_context runs the handler of a completed operation; a request is
\* answered; the shell serves its connection and its commands end.  The
\* shell need not die.
FairSpec ==
    /\ Spec
    /\ WF_vars(do_connect \/ do_request \/ do_reply \/ read_error \/ do_read \/ do_write)
    /\ WF_vars(SocksReply)
    /\ WF_vars(ShellPrompt) /\ WF_vars(ShellRead) /\ WF_vars(ShellCommandEnds)

-----------------------------------------------------------------------------
(***************************************************************************)
(* Type and safety.                                                        *)
(***************************************************************************)
\* Types of the variables; a % that ended the data is remembered as 1 by the
\* time the client reads again (239-242), so 2 is left only when it closes.
TypeOK ==
    /\ st \in {"connect", "request", "reply", "read", "write", "closed", "overrun"}
    /\ lines \in Scripts /\ line_count \in Nat
    /\ prompt \in 0 .. 2 /\ (prompt = 2 => st = "closed")
    /\ eof \in BOOLEAN
    /\ page \in Seq(Tokens \cup DOMAIN Named)
    /\ s2c \in Seq(Tokens) /\ c2s \in Seq(Tokens)
    /\ said \in Seq(Tokens) /\ heard \in Seq(Tokens)
    /\ fin \in BOOLEAN /\ printed \in 0 .. MaxOut
    /\ sh \in {"off", "prompt", "wait", "run", "exited", "dead"}

\* What the shell has read and what is on its way to it are the first lines of
\* the script, in order, none twice and none skipped, and nothing follows the
\* first exit (231-237, 251-266), so that no line beyond the script is asked for
\* either, however many % the commands print.
SentInOrder ==
    LET sent == heard \o c2s
    IN  /\ st # "overrun"
        /\ IsPrefix(sent, lines)
        /\ \A k \in 1 .. Len(sent) - 1 : sent[k] # "exit"

\* No command has printed a %: each one is the first character of a prompt.
OnlyPrompts ==
    \A i \in DOMAIN said :
        said[i] = "pct" => i < Len(said) /\ said[i + 1] = "sp"

\* Nothing was said that means something else in a JavaScript string.
NoEscapes == \A i \in DOMAIN said : said[i] \notin {"bs", "cr"}

\* As long as no command has printed a %, a backslash or a CR, the page reads
\* like the terminal of a user who types every line after its prompt, behind
\* the part of the SOCKS reply that do_reply has not taken: page and session
\* agree as far as both go, however the text was cut into reads (195-242).
PageReadsAsTerminal ==
    OnlyPrompts /\ NoEscapes =>
        \A i \in DOMAIN page \cap DOMAIN said : page[i] = said[i]

(***************************************************************************)
(* Liveness.                                                               *)
(***************************************************************************)
\* A session whose shell stays alive ends with exit sent and the socket closed:
\* no prompt is overlooked, even one that is cut between two reads (222-242),
\* or comes after a % that is no prompt.
SessionCompletes ==
    sh = "prompt" ~> (sh = "dead" \/ (st = "closed" /\ c2s = <<>> /\ sh = "exited"))

=============================================================================
