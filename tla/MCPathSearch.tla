---------------------------- MODULE MCPathSearch ----------------------------
EXTENDS PathSearch

A == <<"a">>
B == <<"a", "b">>

arg(k, p) == [kind |-> k, path |-> p]

MCDirs == {<<>>, A, B}

MCRemovable == {B}

MCArgs == {arg("none", <<>>), arg("absolute", B), arg("dash", <<>>),
           arg("up", <<>>), arg("dot", <<>>), arg("dot", <<"b">>), arg("name", <<"b">>)}

MCFields == {Empty, arg("absolute", A), arg("name", <<"b">>)}

\* BOUND is 2: paths that are shorter, as long and longer.
MCPaths == {<<f>> : f \in MCFields} \cup (MCFields \X MCFields)
             \cup {<<arg("absolute", A), arg("name", <<"b">>), arg("absolute", <<>>)>>,
                   <<arg("absolute", <<>>), arg("absolute", B), arg("absolute", A)>>}
=============================================================================
