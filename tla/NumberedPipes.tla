---------------------------- MODULE NumberedPipes ----------------------------
(***************************************************************************)
(* What the numbered pipes of npshell promise, without pipes, descriptors  *)
(* or processes.  Every command line that reaches the tick at the end of   *)
(* the main loop (npshell.cpp:298) has a number.  A line that ends in |N   *)
(* or !N is due to be read by the line N numbers later, whatever the lines *)
(* between them do, and that line reads all the lines due to it and no     *)
(* other.                                                                  *)
(***************************************************************************)
EXTENDS Naturals

CONSTANT Counts     \* the counts N that may be typed, 0: no numbered pipe

VARIABLES
    now,   \* the number of the next line
    due,   \* {<<p, t>>}: line p is to be read by line t, not executed yet
    fed    \* {<<p, t>>}: line t read, or is reading, the output of line p

npVars == <<now, due, fed>>

NPInit ==
    /\ now = 0
    /\ due = {}
    /\ fed = {}

\* The lines due to the next one.
Arriving == {d \in due : d[2] = now}

\* A line that starts programs reads what is due to it; n > 0 when it ends
\* in a numbered pipe itself.
ExecLine(n) ==
    /\ now' = now + 1
    /\ fed' = fed \cup Arriving
    /\ due' = (due \ Arriving) \cup (IF n = 0 THEN {} ELSE {<<now, now + n>>})

\* A builtin counts as a line but has no input: what was due to it is lost.
BuiltinLine ==
    /\ now' = now + 1
    /\ due' = due \ Arriving
    /\ UNCHANGED fed

NPNext ==
    \/ \E n \in Counts : ExecLine(n)
    \/ BuiltinLine

NPSpec == NPInit /\ [][NPNext]_npVars

=============================================================================
