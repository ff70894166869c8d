------------------------------ MODULE MCConsole ------------------------------
EXTENDS Console

\* Scripts like those of project3/extra_files/test_case; t1.txt goes on after exit.
TestScripts == {<<"exit">>, <<"ls", "cat", "exit">>, <<"ls", "exit", "cat">>}

=============================================================================
