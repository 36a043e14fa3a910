------------------------------ MODULE HttpNet ------------------------------
(***************************************************************************)
(* What the server and the client of hw2-simple-my-http-server share: the  *)
(* files below the server's root, the paths in requests, the connections   *)
(* between the two, and the environment one behaviour runs in.             *)
(*                                                                         *)
(* A path is a sequence of names, each with a mark nl that a newline       *)
(* follows the name: the newline that ends a directory listing stays glued *)
(* to the last entry, and the client asks for it that way.                 *)
(*                                                                         *)
(* Definitions called Bad... are faulty variants of the one that follows   *)
(* them: each breaks one of the properties.                                *)
(***************************************************************************)
EXTENDS Integers, Sequences, SequencesExt

CONSTANTS
    Words,          \* what stands between the slashes of a path
    FileSystems,    \* the trees the server may serve
    Environments    \* see env

VARIABLES
    env,        \* threads: number of workers; nfds: size of the descriptor
                \* table; races: can two threads be inside enQueue() or
                \* deQueue() at once?  nodes bounds what the acceptor ever
                \* allocates
    fs,         \* from the names of a path to what is there
    asked,      \* asked[c]: the path sent on connection c
    answers,    \* answers[c]: what the server has written to c, in order
    backlog,    \* connections not accepted yet
    shut,       \* connections the server has closed
    up          \* "up", or how the server ended: "crashed", "exited"

netVars == <<env, fs, asked, answers, backlog, shut, up>>

\* A file is "odd" when its type is not in extensions[], "bare" when its name
\* has no dot; the entries of a directory have the order of readdir().
Dir(list)  == [kind |-> "dir", list |-> list]
File(kind) == [kind |-> kind, list |-> <<>>]

Names == [name : Words, nl : BOOLEAN]
Paths == Seq(Names)

FileKinds == {"dir", "file", "odd", "bare"}

ASSUME WordAssumption == "" \in Words

\* A tree is finite, a directory has whatever it lists, only directories list
\* anything, and a file lies in a directory; the root itself has no names.
ASSUME FileAssumption ==
    \A tree \in FileSystems :
        /\ IsFiniteSet(DOMAIN tree)
        /\ \A names \in DOMAIN tree :
              /\ names \in Seq(Words) /\ names # <<>>
              /\ tree[names].kind \in FileKinds
              /\ tree[names].list \in Seq(Words)
              /\ tree[names].kind # "dir" => tree[names].list = <<>>
              /\ \A i \in DOMAIN tree[names].list :
                    /\ tree[names].list[i] # ""
                    /\ Append(names, tree[names].list[i]) \in DOMAIN tree
              /\ Len(names) > 1 => /\ Front(names) \in DOMAIN tree
                                   /\ tree[Front(names)].kind = "dir"

ASSUME EnvironmentAssumption ==
    Environments \subseteq [threads : Nat, races : BOOLEAN,
                            nfds : Nat, nodes : Nat]

Threads     == 1 .. env.threads
Connections == DOMAIN asked

Nm(name) == [name |-> name, nl |-> FALSE]

\* sscanf("%s") stops at the first newline; an empty name between slashes
\* leads nowhere.
ServerSees(path) ==
    LET sees[i \in 0 .. Len(path)] ==
            IF i = 0 THEN <<>>
            ELSE IF path[i].name = "" \/ \E j \in 1 .. i - 1 : path[j].nl
                 THEN sees[i - 1]
                 ELSE Append(sees[i - 1], path[i].name)
    IN  sees[Len(path)]

\* The entries as the client's safestrtok() finds them: those of a directory
\* are separated by spaces and end with a newline, even if there are none.
BadTokens(list) ==
    <<Nm("")>> \o [i \in DOMAIN list |-> [name |-> list[i],
                                          nl |-> i = Len(list)]]
Tokens(list) ==
    IF list = <<>> THEN <<[name |-> "", nl |-> TRUE]>>
    ELSE [i \in DOMAIN list |-> [name |-> list[i], nl |-> i = Len(list)]]

\* The code of an answer, and whose content or listing follows it.
Answer(code, of) == [code |-> code, of |-> of]
Codes == {"ok", "directory", "unsupported", "bad", "missing"}
NotFound == Answer("missing", <<>>)

\* What response() makes of a path, given descriptors enough.  The path of
\* the query "/" reaches the server empty: the client strips the slash.
Served(path) ==
    LET names == ServerSees(path)
    IN  IF path = <<>> THEN Answer("bad", <<>>)
        ELSE IF names \notin DOMAIN fs THEN NotFound
        ELSE CASE fs[names].kind = "dir"  -> Answer("directory", names)
               [] fs[names].kind = "file" -> Answer("ok", names)
               [] OTHER                   -> Answer("unsupported", <<>>)

\* A client connects and sends its request; connections have numbers.
Connect(path) ==
    /\ asked' = Append(asked, path)
    /\ answers' = Append(answers, <<>>)
    /\ backlog' = Append(backlog, Len(asked) + 1)

NetInit ==
    /\ env \in Environments
    /\ fs \in FileSystems
    /\ asked = <<>>
    /\ answers = <<>>
    /\ backlog = <<>>
    /\ shut = {}
    /\ up = "up"

=============================================================================
