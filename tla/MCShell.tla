------------------------------- MODULE MCShell ------------------------------
EXTENDS Shell

\* Single commands; pipelines of two; pipelines of three, of which MAX_ARGS = 2
\* leaves the last stage out; lines with an argument, one word more than
\* stages; a command and a pipeline with redirections to and from files that
\* can and cannot be opened.
MCLines ==
  LET line(s, w, in, out) == [stages |-> s, words |-> w, infile |-> in, outfile |-> out]
      found  == {"ls", "cat", "nosuch"}
      single == {<<c>> : c \in Commands}
      double == {<<c, d>> : c \in found \cup {"cd", "./cat"}, d \in found \cup {"exit"}}
      triple == {<<"ls", "cd", "cat">>, <<"nosuch", "ls", "cat">>}
  IN  {line(s, Len(s), "none", "none") : s \in single \cup double \cup triple}
        \cup {line(s, Len(s) + 1, "none", "none") : s \in {<<"ls">>, <<"cat">>, <<"ls", "cat">>}}
        \cup {line(<<"cat">>, 1, in, out) : in \in Lookup, out \in Lookup}
        \cup {line(<<"ls", "cat">>, 2, in, out) : in \in Lookup, out \in Lookup}
=============================================================================
