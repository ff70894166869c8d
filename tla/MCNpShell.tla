------------------------------ MODULE MCNpShell ------------------------------
\* Command lines for the runs of NpShell.
EXTENDS NpShell

Exec_(stages, np) == [kind |-> "exec", stages |-> stages, np |-> np]
Other(kind) == [kind |-> kind, stages |-> 0, np |-> 0]

\* "cmd", "cmd | cmd", "cmd |1", "cmd | cmd |1", "cmd |2", a builtin, an empty line, "exit".
SafetyLines == {Exec_(1, 0), Exec_(2, 0), Exec_(1, 1), Exec_(2, 1), Exec_(1, 2),
                Other("builtin"), Other("empty"), Other("exit")}

LiveLines == {Exec_(2, 0), Exec_(1, 1), Exec_(1, 2),
              Other("builtin"), Other("exit")}

=============================================================================
