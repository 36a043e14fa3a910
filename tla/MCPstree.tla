------------------------------ MODULE MCPstree ------------------------------
(* A small process tree for Pstree.                                         *)
EXTENDS Pstree

\* 1 and 2 come from process 0; 1 has started 3 and 6, 2 has 7, 3 has 4 and 5.
MCParent == (1 :> 0) @@ (2 :> 0) @@ (3 :> 1) @@ (4 :> 3) @@ (5 :> 3)
              @@ (6 :> 1) @@ (7 :> 2)
MCKids == (0 :> <<1, 2>>) @@ (1 :> <<3, 6>>) @@ (2 :> <<7>>)
            @@ (3 :> <<4, 5>>) @@ [p \in {4, 5, 6, 7} |-> <<>>]

\* Every form of argument; number 9 is nobody's.
AllArgs == {Arg("none", -1), Arg("c", -1), Arg("p", -1), Arg("s", -1),
            Arg("none", 3), Arg("s", 3), Arg("p", 9), Arg("s", 9), Arg("x", 1)}
\* A walk that ends at process 2, beside one from 4 up to 1.
DownAndUp == {Arg("none", 2), Arg("p", 4)}
\* The same, beside one along the list of 4.
DownAndAlong == {Arg("none", 2), Arg("s", 4)}

Env(atonce, exits, args, stray) ==
    [atonce |-> atonce, exits |-> exits, args |-> args, stray |-> stray]
NoWord == [p \in 0 .. 7 |-> 0]

\* Requests that meet; processes that exit, those with children too, beside a
\* walk over all of the tree, up or along a list; requests one after the other
\* and one exit; a word that is the number of another process, or of the
\* process itself.
MCEnvironments == {Env(2, 0, DownAndUp, NoWord), Env(2, 0, DownAndAlong, NoWord),
                   Env(1, 2, {Arg("c", -1)}, NoWord),
                   Env(1, 2, {Arg("p", 4)}, NoWord),
                   Env(1, 2, {Arg("s", 5)}, NoWord),
                   Env(1, 1, {Arg("c", -1), Arg("p", 4), Arg("s", 5)}, NoWord),
                   Env(1, 0, AllArgs, NoWord),
                   Env(1, 0, AllArgs, [NoWord EXCEPT ![3] = 6]),
                   Env(1, 0, AllArgs, [NoWord EXCEPT ![3] = 3])}

=============================================================================
