------------------------------- MODULE MCHttp -------------------------------
(* Trees, requests and environments for Http.                               *)
EXTENDS Http

Env(threads, races, nfds, nodes) ==
    [threads |-> threads, races |-> races, nfds |-> nfds, nodes |-> nodes]

MCWords == {"", "t", "f", "odd", "bare", "d", "e", "g", "h", "i", "a", "b", "c"}

T == <<"t">>
Below(names) == [i \in DOMAIN names |-> Nm(names[i])]

\* A directory with one file of each kind ...
Flat == (T :> Dir(<<"odd", "f">>)) @@ (<<"t", "odd">> :> File("odd"))
          @@ (<<"t", "f">> :> File("file"))

\* ... with a directory between two files ...
Nested == (T :> Dir(<<"d", "f">>)) @@ (<<"t", "f">> :> File("file"))
            @@ (<<"t", "d">> :> Dir(<<"g", "h">>))
            @@ (<<"t", "d", "g">> :> File("file"))
            @@ (<<"t", "d", "h">> :> File("file"))

\* ... an empty one, one that is listed last ...
DirLast == (T :> Dir(<<"f", "e">>)) @@ (<<"t", "f">> :> File("file"))
             @@ (<<"t", "e">> :> Dir(<<>>))

\* ... a file in a directory in a directory, and one behind that directory.
Deep == (T :> Dir(<<"a", "f">>)) @@ (<<"t", "f">> :> File("file"))
          @@ (<<"t", "a">> :> Dir(<<"b", "c">>))
          @@ (<<"t", "a", "c">> :> File("file"))
          @@ (<<"t", "a", "b">> :> Dir(<<"g">>))
          @@ (<<"t", "a", "b", "g">> :> File("file"))

\* Files enough in a directory below to fill the server's query.
Wide == (T :> Dir(<<"d", "f">>)) @@ (<<"t", "f">> :> File("file"))
          @@ (<<"t", "d">> :> Dir(<<"g", "h", "i">>))
          @@ (<<"t", "d", "g">> :> File("file"))
          @@ (<<"t", "d", "h">> :> File("file"))
          @@ (<<"t", "d", "i">> :> File("file"))

\* A file without a dot in its name.
Bare == (T :> Dir(<<"bare", "f">>)) @@ (<<"t", "bare">> :> File("bare"))
          @@ (<<"t", "f">> :> File("file"))

MCTrees == {Flat, Nested, DirLast, Deep, Wide, Bare}
MCQueries == {Below(T), Below(<<"t", "f">>), <<>>}

\* One worker whose steps interleave with the acceptor's; two that take
\* turns; one that is short of descriptors.
MCEnvironments == {Env(1, TRUE, 12, 16), Env(2, FALSE, 12, 16),
                   Env(1, FALSE, 2, 4)}

MCCalm   == {Env(1, FALSE, 12, 16)}
MCRacing == {Env(1, TRUE, 12, 16)}
MCFlat   == {Flat}
MCNested == {Nested}
MCFiles  == {Below(<<"t", "f">>), Below(<<"t", "odd">>)}
MCTop    == {Below(T)}

=============================================================================
