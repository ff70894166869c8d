# TLA+ models of the NYCU network programming projects

The repository holds four projects: a shell with *numbered pipes* (project1), three servers that
give remote users that shell (project2), an HTTP server with a CGI *console* that plays scripts
against those shells (project3), and a SOCKS4 server with a console that goes through it (project4).
The models are translated from the source; where a line is cited it is a line of the file
named in `PROJECT.json` ("map" gives it for every definition).

## Inventory

| part | state it keeps | operations | interacts with |
|---|---|---|---|
| `project1/npshell.cpp` | `pipe_table`, `pipe_clock`, the pipe of the stage before, `kidpid`; the kernel's pipes and children | read a line, fork a stage, decrement the clocks, `waitpid`, SIGCHLD handler | its children, over pipes and signals |
| `project2/np_simple.cpp`, `npshell1.cpp` | the same, one process per client | the same; builtins `continue` | one TCP client |
| `project2/np_single_proc.cpp` | `id_table`, `user_info`, `afds`; per user: numbered pipes, user pipes, environment | select, accept, login, logout, promotion from the waiting room | `npshell2` by calls, all users over their sockets |
| `project2/npshell2.cpp` | `cin`'s state, descriptors 0-2, the tables above | one line of one user: commands, `name`, `tell`, `yell`, `who`, user pipes | its children, the other users' sockets |
| `project2/np_multi_proc.cpp`, `npshell3.cpp` | shared memory (`Client_info`), named semaphores, FIFOs | login, message by SIGUSR1, user pipe by FIFO, logout | processes of the users, over shared memory and signals |
| `project3/http_server.cpp` (also project4) | one `Session` per connection | read a request, write the status, fork and exec a CGI program | browser, CGI programs |
| `project4/console.cgi.cpp`, `project3/console.cgi.cpp` | per session: script, `line_count`, `prompt`, `eof` | connect, SOCKS request, read, recognise a prompt, send a line, show text | shells of project2, SOCKS server, browser |
| `project4/socks_server.cpp` | one process per connection: the operation under way, two relay chains | request, firewall, resolve, connect, bind, relay | SOCKS client, destination |

What is hard in each, and what makes it correct:

* **npshell.** A numbered pipe lives over several lines while unrelated programs are forked; each
  fork copies every descriptor. Correct: a line reads exactly the lines due to it, no descriptor
  copy hides an end of file, the prompt comes when the line is done and always comes, no zombie stays.
* **np_single_proc.** One thread serves everybody from tables that change while the loop over
  the readable descriptors runs. Correct: sockets, slots and the select set agree, users are
  admitted in order, each slot holds its own user's data, names are unique. All users also share one
  descriptor table, kept as bare numbers. Correct: a number in use stands for one thing, nothing leaks from
  user to user, and the thread, which serves nobody while it waits for a program, comes back.
* **socks_server.** Two concurrent chains share two sockets and a process that either may end.
  Correct: each direction is relayed whole and in order, the reply comes first, an orderly close
  loses nothing of the side that closed, the process ends. What has been read of a request is decoded as it was
  sent, and the firewall lets through what a rule allows.
* **console.** Reads cut the text anywhere and the prompt is a `%`. Correct: the script is sent in
  order, to its end and not past it, and the page reads like the session.
* **np_multi_proc.** Semaphores taken by one process and posted by another's signal handler.
  Correct: a message is read before the next one overwrites it, nobody blocks for ever, a slot is one process's.
* **http_server.** Handlers of several sessions interleave in one process with one environment; a forked program
  holds every socket of the server, and a child whose `exec` fails goes on in the event loop.
  Correct: one status line and one page per connection, the program sees its own request, the client sees the end.

## Modules

| module | models | composes with |
|---|---|---|
| `NumberedPipes` | what numbered pipes promise (abstract) | |
| `NpShell` | `npshell.cpp`, and `npshell1.cpp` with `BuiltinWaits = FALSE` | implements `NumberedPipes` |
| `Admission` | first-come-first-served admission (abstract) | |
| `WaitingRoom` | `np_single_proc.cpp` with the parts of `npshell2.cpp` that touch users | implements `Admission` |
| `Descriptors` | the descriptor table of `np_single_proc.cpp` with the pipes of `npshell2.cpp` | what `WaitingRoom` leaves out of `npshell2` |
| `MultiProc` | `np_multi_proc.cpp` and `npshell3.cpp`: slots, semaphores, signals, user pipes | |
| `SocksServer` | one connection of `socks_server.cpp`, with its client and destination | |
| `Console` | one session of `console.cgi.cpp`, with the SOCKS server and the shell at the far end | |
| `Socks4` | the bytes of a SOCKS4 request, how `Router` takes them apart, and `firewall()` | refines what `SocksServer` leaves open: the command and the firewall's answer |
| `HttpServer` | `http_server.cpp` with its clients and programs | |
| `NpShell_proofs`, `WaitingRoom_proofs`, `Descriptors_proofs`, `MultiProc_proofs`, `SocksServer_proofs`, `Console_proofs`, `Socks4_proofs`, `HttpServer_proofs` | theorems about the module of that name | extends it |
| `MCNpShell`, `MCWaitingRoom`, `MCConsole`, `MCSocks4` | values for TLC | |

### NpShell

State: `pipe_table`, `pipe_clock`, `nptmp`, `kidpid` are the code's; `pc` says where `main` is
(`read` at getline, `fork` in the loop over the stages, `tick` before line 298, `wait` at
`waitpid`). A pipe is a number in the order of the `pipe()` calls and `buf` counts its tokens;
`shfd` are the pipes the shell has open; `procs` records for every child what it has as input and
output and which pipes it keeps open besides. Indices are counted from 1, and 0 stands for the code's -1.
Actions: `ReadLine` (parser, builtins, empty line, exit), `Fork` (one iteration of the loop over the stages, with
the pipes made and closed), `EndLine`, `Wait`, `signalHandler`, and the children's `Exec`, `Read`,
`Write`, `Sigpipe`, `Finish`, `Quit`. They interleave freely, so a child may run at any time
after its fork.

Abstractions: a line is its kind, number of stages and count; `!` differs from `|` in the stream
only; `> file` is a stage that reads its input to the end. A pipe is identified by its `pipe()`
call and not by descriptor number; this is sound here because the shell never closes a
number twice (a consequence of `OneReader` and `ShellDescriptors`). Lines are well formed: a builtin
or an empty line does not end in `|N` (it would push a clock without a table entry), `|0` is not
counted as a numbered pipe, and `printenv` without argument, which in `npshell1.cpp` continues before the tick, is an empty line.
A failing `fork` or `pipe` is left out.

`Due` and `Fed` map a state to the abstract one: line *p* is due at line *t* if it has the pipe of a
clock that reaches 0 at *t*, and was fed to the line of the process that has the pipe as its input.

### WaitingRoom

`id_table`, `user_info`, `afds`, `rfds` are the code's; `sock` says whose socket a descriptor is, and
`user_info` carries, as a history, the client the entry was written for. `pc` is the position in
one iteration of the main loop; `Current` is the descriptor the `for` loop comes to, `rfds` those it
has not come to. `Logout` is the whole of lines 169-231: clear, close, promotion, shift. An
uninitialized `User_info` (npshell2.cpp:57) is any value of `Garbage`, its `id` any of `JunkIds`, which may be
slots or not; a promotion copies it and then sets it (226-229 and 191-192), and no property needs it of a slot that no
user is in. `SigPipe` is a write to a connection that is gone, which ends the server. Pipes, and what `clear` closes of them,
are in `Descriptors`; `Line` is a turn of the loop in which nobody logs out and no name
changes (167-169): what the shell does in it besides is not this module's.

### Descriptors

`fdt` is the server's descriptor table: what each number stands for. Number 1 is the first that `accept` can
give out (0 to 2 and the listening socket are never free). `id_table`, `npipe` (`npipe_table` with `npipe_clock`)
and `upipe` hold numbers as in the code; each pipe entry also has, as a history, the pipe `p` it was made for. A
program (`kids`) has an input, an output and the pipe ends it holds besides (`hold`), computed from the closes
of the child (npshell2.cpp:524-609) by number, as the code does. The three numbers in which a line saves
descriptors 0 to 2 are skipped when pipes are allocated and are free again after it.
`Program` is one line from the parser to line 675: the checks of `<j` and `>k`, `pipe`, `fork`, the closes of child
and parent, the clocks. `Builtin` is a line that starts no program, `Wait` the return of `waitpid`, `Exit` and `Eof`
the two ways to log out, with the whole of `clear`. Programs end at any time (`Die`), and do end when they have
read and written everything (`Finish`): a writer goes on as long as its output is a socket, is read by somebody
who goes on, or can be read by nobody.

`fault` is a history variable. It says that a number was used that stands for something else: `receive` (a `<j`
that is not refused) or `clear` (a logout that closes another user's number). Nothing happens after that, because
nothing is claimed after that. Left out: pipelines within a line (`NpShell`), `|N` and `>k` on one line, an empty line
(it changes nothing), more users than slots (`WaitingRoom`), a failing `pipe` or `dup`, input that a program takes
from the user's socket.

### MultiProc

`id`, `kidpid`, `mode`, `upipe` are `Client_info`'s, `sem` the named semaphores. A line is the list of semaphores it
takes (`todo`), each with its purpose: a message to all takes every slot in turn (`ToAll`), `exit` does that and then
takes its own slot to clear it. `GoOn` is `sem_open` of the next semaphore, `Wait` is `sem_wait`, and one action for
each purpose is the code up to the signal or the post. `semory` is the global that holds the semaphore opened last,
and `reg` the one `sem_wait` is called with. `client_handler` runs between any two steps of its process; while
it waits in `open` of a FIFO (`hnd = "reading"`) the process does nothing else. `Rendezvous` is the FIFO: both opens
return together. The server has the same handler. A connection may break at any time. The process then ends where it
next uses it, and its slot is not cleared: at the prompt (`Eof`), or at a write, for SIGPIPE is not ignored
(`SigPipe`; np_multi_proc.cpp:67-69). `Writes` says where that is: the message in the handler before it posts
(109-110), the news or the error of a user pipe while a semaphore is taken (498, 502, 553, 558, 563), and what is printed
before the first semaphore of a message to all. A semaphore that is taken, or about to be posted by the handler, is then
lost (`harm = "broken"`).

`harm` is the history of the known faults (see below); nothing is typed after one. Left out: programs, numbered
pipes and what flows through user pipes; nicknames, which are compared slot by slot without a lock over the whole, so
that two users can take the same name at once; `exit_handler`, which removes the semaphores on Ctrl-C; more than
30 connections at once (`set_id` then returns an uninitialized `id`). np_multi_proc.cpp includes "npshell.cpp", which
is in the repository as npshell3.cpp.

### SocksServer

`st` is the operation the process has outstanding; `up` and `down` are the two chains, each reading,
writing what it read, or stopped after an error. `c2p`, `s2p` hold what the peers have sent, `pendC`, `pendS`
count what they have not read, and `outC`, `outS` are the history of what was written to them.
`firewall()` and the resolver answer nondeterministically; a request is its command. A reset may
lose data that has arrived. `exit(0)` is the state `exited`.

### Console

`st` is the outstanding operation; `lines`, `line_count`, `prompt`, `eof` are the code's. A read
returns any non-empty part of what has arrived. `page` is what a browser shows, computed through the
code's seven replacements and the meaning of the character references it writes. The far end is
external: the SOCKS server's reply, and a shell that prints `% ` when it is ready.
`said` is what `do_reply` left of the SOCKS reply, of which its one read takes any part (195-196), and then the session
as the shell has seen it; `heard` are the lines in it that the shell has read.

The escaped text of each read stands in a JavaScript string of its own (108-109, 120-121). `Shown` is what that string
puts on the page: a backslash goes and gives the next character another meaning (of the letters, `\n` and `\t` are
modelled; the digits of `\u` and `\x` are not), and with a bare CR, or a backslash before the closing quote, the script does
not parse and the whole read is lost. Text is a sequence of characters: one of several bytes that is cut
between two reads is not modelled.

### Socks4

One request from its bytes to the verdict. `do_router` reads once, any number of bytes (`got`), and decodes the
fields from them and from what the memory held in place of the first eight (`Junk`); `Ignore` is a command
that is neither CONNECT nor BIND. `firewall` fixes the address that is judged (a domain resolves to any IPv4 address) and what the
locals of its loop hold at first (`JunkRules`); `JudgeLine` is one iteration over socks.conf with these locals, `rule`, that
outlive it. A line has any number of its fields: none is a blank line, fewer than five a half one. `firewall_ipv6` is a domain
that resolves to an IPv6 address, whose text `sscanf` writes past the end of `my_ip[0]` (30): `overflow`, with
any verdict. `get_domain` says what the loop of 322-335 returns; `MCSocks4` has the loop itself (`DomainLoop`), and
TLC evaluates on every run that both agree (`LoopAgrees`). Octets are numbers and `*` is 256. Fields of a line that are
longer than their arrays (`mode` holds one letter, an octet three) are left out.

### HttpServer

`sess[p][c]` is what process *p* has of connection *c*: `accepted` (accepted, handler waiting), `read` (a read is
outstanding), `got` (read, handler waiting), `write` (status written, handler waiting), or `leaked`, a socket that a
program inherited. `std[p]` is the connection on descriptors 0 to 2, `env[p]` the request the environment
is from, `busy[p]` the session whose handler is in the fork loop. `Fork` is lines 63-88 of both parent and child: with
`run` the child becomes a program, without it (`execlp` fails) a second server with copies of the
other sessions. Asio tries an operation when it is started and queues the handler, which is why
operation and handler are two steps. Each process is given its own event queue: in fact a failed child
shares the parent's epoll instance, which holds pointers into the other process; what that does is not
modelled, so nothing is claimed after a failed `exec` but that the status line comes first.

## Runs

| run | shows | bounds, and why they are enough |
|---|---|---|
| `NpShell_safety` | types, tables, descriptors, one reader per pipe, zombies, `PromptAfterLast`, the refinement of `NumberedPipes` | every session of 3 lines out of 8 kinds (1 or 2 stages, counts 0, 1, 2, builtin, empty, exit): two producers for one line, a pipe waiting over a line that forks, a builtin at clock 0. Programs write one token, so a pipe never fills here |
| `NpShell_live` | `LineReturns`, `ChildrenEnd` | 3 lines of 5 kinds; programs write 2 tokens into pipes of 1, so writers block |
| `NpShell1_live` | `PromptReturns` with `BuiltinWaits = FALSE` | as above |
| `WaitingRoom` | agreement of the tables, order of admission, names, refinement of `Admission` | 2 user slots, 5 descriptors, 6 interchangeable clients: three in the waiting room, one turned away by `accept` |
| `SocksServer` | integrity of both directions, replies, draining, end of the process, delivery | 3 tokens up, 2 down, kernel buffers and reads of 2: full buffers, partial writes, and a peer that never reads |
| `SocksServer_denied` | a rejected BIND is told "granted" (violation) | |
| `Console` | `SentInOrder`, `SessionCompletes`; `PageReadsAsTerminal` for sessions without a backslash in which only prompts are a `%` | scripts of 1 and 3 lines, one that goes on after `exit` (as t1.txt does), up to 3 characters per command, `%`, newline and backslash, reads of at most 3: every cut of a prompt |
| `Console_quotes` | quotes are shown as other characters (violation) | 1 character per command |
| `Socks4` | `DecodedIsSent`, `PermitsByRules` | ports at 0, 80, 255, 256, above 32767 and 65535; user ids and hosts of no, one and two bytes; reads of every length, from one byte to the whole request; files of up to 3 lines out of 7 kinds, among them a blank line, a half one and one with a star in front of an octet, in any place; memory that holds no rule, or one for every address. Of the longer requests only those with an empty file (`MCInit`) |
| `HttpServer` | `AnswerInOrder`, `OwnEnvironment`, `ResponseEnds` | 2 clients, requests in 2 pieces, 3 children: both sessions in flight while the other's child is forked, a failed child that forks again, and processes running out |
| `Descriptors` | `Accounted`, `OthersDueOnly`, `ServerReturns` | 2 users, 4 lines with counts 1 and 2, 13 numbers, which is enough for four pipes: two producers for one line, numbers of one user's pipe reused by the other's, a program that holds the other's due pipe and blocks the server; 4 lines are the least for a logout that closes the reused number of a numbered pipe |
| `MultiProc` | `SlotsOwned`, `OneHolder`, `LinesReturn` | 3 connections in 2 slots, so that a slot has a second owner while messages to the first are on their way; 2 lines besides the logins (each of which is a message to all): a message during a message, pipes in both directions, an exit during a message, a connection that breaks in any of these. With 3 lines the two invariants hold as well (1.9 million states) |

Deadlock is not checked in runs whose system stops: a session ends, a process exits, or the bound on lines is
reached.

**Fairness.** NpShell: the shell continues unless blocked, a pending signal is delivered, every
child is scheduled; nobody has to type and no program has to end early. SocksServer and Console: `io_context::run`
runs the handler of every completed operation, one weak fairness condition per chain of handlers; the
resolver and `connect` answer, the shell's commands end. A peer of the SOCKS server need not read: `SessionEnds` and
`Delivered` name the one peer whose reads they need. HttpServer: every handler of every process runs, and programs end. MultiProc: each process
runs when it is not blocked, and a pending signal is delivered; somebody who can take a semaphore, and goes on being
able to, does. Descriptors: `waitpid` returns, and a program whose input has ended and whose output is taken
ends. No fairness is assumed for peers
that send, read, close, reset, or connect to a bound port.

**Findings.** `Bind::do_reject` (socks_server.cpp:192) sends code 90 where the log says "Reject" and
`Connect::do_reject` sends 91. The consoles write `"` as `&#x34;` (the digit 4) and `'` as `&#x22;` (a double quote),
unlike the sample console.

**A known limit of npshell.cpp.** `PromptReturns` is checked for `npshell1.cpp` only. In `npshell.cpp` a
builtin reaches `waitpid` with a `kidpid` it never set; if that is the pid of the producer of
a waiting numbered pipe which has filled the pipe, the session hangs: TLC finds this at once with
`BuiltinWaits = TRUE`, which is why `LineReturns` speaks of lines of programs.

**Known limits of np_single_proc.cpp**, which `Descriptors` has and its properties leave out by their premises.
User pipes do not work: the server closes both ends as soon as the writer is forked (659-660) but keeps the
numbers, so `<n` reads from a closed number or from something else, and closes it (`fault = "receive"`). A logout
closes the numbers of pipes that were closed long ago (53, 61-68), also if they belong to another user by then
(`fault = "clear"`). A program that is started while a pipe of another user is due holds that pipe (592); if it does
not end, for example because it writes to a numbered pipe whose reader cannot be typed, the reader never
sees the end of its input and the server serves nobody (`HeldByOthers`). A builtin may wait for the program of an
earlier line (`WaitsForWriter`). Each end of file costs three descriptors, and after the first one every line of every
user ends in a logout.

**Known limits of npshell3.cpp**: the values of `harm` in `MultiProc`, and `Crossed`. `race`: the handler runs between
`sem_open` and `sem_wait` or `sem_post` of the interrupted code and changes `semory` (96), so that the wrong
semaphore is taken or posted. `gone`: the process that is signalled has ended without `client_clear` (157), or had
ended before its `kidpid` was written (np_multi_proc.cpp:146); nobody posts the semaphore. `broken`: SIGPIPE ends a
process that has taken a semaphore, or has a message and has not posted (109, 502, 563); nobody posts it. `group`: `tell` and `>k`
do not look at `kidpid` under the semaphore (342-365, 552-572) and may call `kill(0, ...)`, which signals every process
of the server. `Crossed`: users who pipe to each other at once, or to themselves, wait in `open` for writers that
their own handlers suspend (104, 573). `OneHolder` says that a semaphore has exactly one holder, or is free, until
`harm` is not empty, and never more than one in spite of `gone` and `broken`; `LinesReturn` holds unless one of the five
happens, and `SlotsOwned` always.

**Known limits of console.cgi.cpp** besides the quotes: a backslash or a CR in the output changes what is shown (`NoEscapes`
in `PageReadsAsTerminal`), and what `do_reply` leaves of the SOCKS reply is shown as if the shell had said it. A script
without `exit` is read past its end (`Overrun`, `ScriptsAssumption`).

**Known limits of socks_server.cpp**: a request that arrives in pieces is decoded from the first alone, the host cut
short or, below eight bytes, command, port and address made of memory; `DecodedIsSent` says how many bytes each field
needs. An IPv6 address overflows `my_ip[0]`. A rule with a star in front of an octet, a half line and a blank first
line allow more than they say (`WellFormed` in `PermitsByRules`). A destination that never reads keeps the process of a
client that has closed (`SessionEnds` needs its reads). `DrainedAtEof` ends at the socket: `exit(0)` with data unread makes the
kernel reset the other connection, which may drop what was written there.

**Known limits of http_server.cpp**, which the model has and `ResponseEnds`, `AnswerInOrder` and `OwnEnvironment`
leave out by their premises: after a failed `exec` a request may be answered by two processes; zombies are
never waited for, so that the fork loop may never end (`FreePids = {}`); `remote_endpoint` throws on a reset
connection and ends the server (`Throw`); without a `?` in the URI `QUERY_STRING` is uninitialized (`Plain`).

## Proofs

Each theorem holds for every value of the constants that satisfies the module's named assumption, which TLC evaluates
in every run. The form is the same everywhere: an invariant that is inductive (called `Inv`; for npshell's pipes
`PipesInv`, for the console's page `PageInv`), which TLC checked on the run's instance before it was proved, the theorem `Invariance`, and one theorem for each
property that a run checks. The lemmas follow the actions: one for each action, or each action and conjunct of the
invariant. What the invariants add to the properties is what the properties need in the middle of a step sequence:

| theorems | property | what makes it inductive |
|---|---|---|
| `NpShell_proofs` `TypeCorrect`, `ClocksAndTableCorrect`, `NoZombieLost`, `PromptAfterLastCorrect` | `TypeOK`, `ClocksAndTable`, `NoLostZombie`, `PromptAfterLast` | that `kidpid` is a process and that `pipe_table[nptmp]` exists when a stage writes to a reused pipe needs `ClocksAndTable`; that needs `Forking`, what is known of `line`, `j`, `nptmp` and the newest clock while a line is being forked; `KidIsLast`: at `waitpid` after a line of programs `kidpid` is the process forked last |
| `NpShell_proofs` `OneReaderCorrect`, `EndOfInputCorrect`, `DescriptorsCorrect` | `OneReader`, `EndOfInputVisible`, `ShellDescriptors` | what the shell has open belongs to an entry of `pipe_table` that still waits, or lies between the last stage and the next, and nobody reads it yet (`Opened`); what a child keeps besides its input and output was missed and will never be read (`Kept`) |
| `NpShell_proofs` `NumberedPipesCorrect` | `ImplementsNumberedPipes` | `LineInv`: which pipes the programs of the current line write to and read from, so that the step at the end of the line is the abstract one and every other step a stutter |
| `WaitingRoom_proofs` `TypeCorrect`, `TablesCorrect`, `NoGapCorrect`, `ServedCorrect`, `InfoCorrect`, `NamesCorrect` | `TypeOK`, `TablesAgree`, `NoGap`, `ServedAreLogged`, `InfoMatches`, `NamesUnique` | each needs the others; besides, a client has one socket, only users have names, and `set_id` finds a slot because there are as many slots as descriptors (pigeonhole) |
| `WaitingRoom_proofs` `AdmissionCorrect` | `ImplementsAdmission` | the same invariant: without a gap the shift after a logout keeps the order of those who wait |
| `Descriptors_proofs` `AccountedCorrect`, `OthersCorrect` | `Accounted`, `OthersDueOnly` | as long as no stale number was used: pipes in the tables are different pipes that were made (`AllMade`, `Distinct`), an open end stands at its entry's number, and a program holds of a user's pipes what was due when it was forked (`Holding`). The numbers a line allocates are the lowest free ones, up to the fifth |
| `MultiProc_proofs` `SlotsCorrect` | `SlotsOwned` | types; a `kidpid` is that of a process that has, or had, the slot (`Owner`); an empty slot is only given away by the server, which `Login` follows from `set_id` to the write of `kidpid` |
| `MultiProc_proofs` `HolderCorrect` | `OneHolder` | the semaphore's turn (`Turn`): free, held by one process, to be posted by one handler, or, after a broken connection, none of these; `reg` is the semaphore the line meant, and nobody has a signal and a handler at once (`Calm`) |
| `SocksServer_proofs` `TypeCorrect`, `UpCorrect`, `DownCorrect`, `DrainedCorrect` | `TypeOK`, `UpIntact`, `DownIntact`, `DrainedAtEof` | what was sent is, in this order, what was written, what is in the chain's buffer and what is in the kernel (`UpStream`, `DownStream`), until a write fails and its chain stops |
| `Console_proofs` `TypeCorrect`, `ScriptCorrect` | `TypeOK`, `SentInOrder` | `Script`: `eof` tells whether the line counted last is `exit`, and the lines before it hold none, so that a script that has an `exit` is never overrun |
| `Console_proofs` `PageCorrect` | `PageReadsAsTerminal` | `InStep`: the page lacks exactly what was not read yet (`Behind`), or is ahead by the line that was typed, and then the shell is silent; a prompt that the client has not answered is the last thing the shell said (`Answered`), so that a line is only typed when everything said is on the page. Besides, what `Escape`, a JavaScript string and a browser make of a read (`ShownToken`): without quotes, backslashes and CRs, itself |
| `Socks4_proofs` `DecodedCorrect` | `DecodedIsSent` | none but the types: the layout of the bytes, of any first part of which (`DomainOfPart`) the first 0 after the address ends the user id, and two octets make a port |
| `Socks4_proofs` `PermitsCorrect` | `PermitsByRules` | `ReadTo`: the lines left are the end of the file, none of those read allows the request, and, if the file is well formed, `rule`, which a blank line is judged by, is one of them |
| `HttpServer_proofs` `TypeCorrect`, `EnvironmentCorrect`, `AnswerCorrect` | `TypeOK`, `OwnEnvironment`, `AnswerInOrder` | from `setenv` to `exec` the environment is that of the session in the fork loop; a connection is with the kernel, with one session of the server or with one program (`Answer`), as long as no `exec` failed |

`SlotsOwned`, the types and the streams need no premise about failures; `Accounted`, `OthersDueOnly`, `OneHolder`, the second half of `PermitsByRules` and
the second half of `AnswerInOrder` are proved under the premises they state (`fault`, `harm`, `WellFormed`, `Failed`), which are the known limits above.
`PageCorrect` has the premise `Plain`: nothing that is sent is a quote (`Console_quotes` shows that quotes are not shown as
they are), a backslash or a CR, no line is a single `%`, and the commands do not print both `%` and a space, which no client could tell from a prompt.
But for the backslash, the instance of the run `Console` satisfies it; there `NoEscapes` leaves out the sessions that have one.

Changes of form made the models fit for proofs, none of meaning: `OthersLater` in `Descriptors`, `get_domain` in `Socks4`
(a fold before, see there), the seven calls in `Console`'s `Escape` one after the other (a fold before)
with its history `heard`, and the sets `PortNumber`, `Octet` and `RuleLines`, which name what the assumption of `Socks4` said.

**Only model-checked.** Liveness (`LineReturns`, `ChildrenEnd`, `PromptReturns`, `SessionEnds`, `Delivered`,
`SessionCompletes`, `ServerReturns`, `LinesReturn`, `ResponseEnds`): it needs fairness and ENABLED, which the prover does not have.
That each of `Socks4`'s loops ends is not stated.

## Plan

All modules of the plan are written, and every invariant and every refinement that a run checks is proved. What is left
is type correctness of `Descriptors` and `MultiProc` as theorems of their own (it is part of their `Inv`).

Not modelled: the environments of np_single_proc's users (`setenv`, `ukey`, `uval`: strings that only programs
see), `exit_handler` of np_multi_proc, the Windows `cgi_server` named by project3's Makefile (no source in the repository), forms and sample
programs under `extra_files` (no state), the wording of messages, and the text of the HTML frame.
