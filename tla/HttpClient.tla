----------------------------- MODULE HttpClient -----------------------------
(***************************************************************************)
(* The client of hw2-simple-my-http-server: asks for a path and, when it   *)
(* is a directory, for every entry, each in a thread that it joins.        *)
(*                                                                         *)
(* So one thread of a client runs at a time, and the calls of              *)
(* socketAndWrite() and processResponse() that are under way form a stack. *)
(* A frame is the rest of its listing, the entries not asked for yet.      *)
(*                                                                         *)
(* Definitions called Bad... are faulty variants of the one that follows   *)
(* them: each breaks one of the properties.                                *)
(***************************************************************************)
EXTENDS HttpNet

CONSTANTS
    Users,          \* client processes
    Queries,        \* what their users ask for
    Concurrent,     \* may one start while another is running?
    MaxPath         \* names in a path that fills newquery[500]

\* No user types a newline.
ASSUME QueryAssumption ==
    \A path \in Queries :
        path \in Paths /\ \A i \in DOMAIN path : ~path[i].nl

VARIABLES
    client,         \* client[u]: state; query, main's copy of the path;
                    \* newquery, the global; stack; wait, its connection
    saved           \* files written: where, and whose content

clientVars == <<client, saved>>

ClientStates == {"off", "waiting", "walking", "done", "crashed"}

ClientInit ==
    /\ client = [u \in Users |->
                   [state |-> "off", query |-> <<>>, newquery |-> <<>>,
                    stack |-> <<>>, wait |-> 0]]
    /\ saved = {}

\* The end of a call: without a frame left, main() returns.
Return(u) == [client[u] EXCEPT !.state =
                 IF client[u].stack = <<>> THEN "done" ELSE "walking"]

Crashed(u) == client' = [client EXCEPT ![u].state = "crashed"]

\* processResponse()'s oldquery: main() passes its own buffer, every thread
\* the global.
BadOldQuery(u) == client[u].query
OldQuery(u) == IF client[u].stack = <<>> THEN client[u].query
               ELSE client[u].newquery

\* main() up to its request.
Start(u, path) ==
    /\ client[u].state = "off"
    /\ Concurrent \/ \A v \in Users : client[v].state \in {"off", "done"}
    /\ up = "up"
    /\ Connect(path)
    /\ client' = [client EXCEPT ![u].state = "waiting", ![u].query = path,
                                ![u].wait = Len(asked) + 1]
    /\ UNCHANGED <<saved, env, fs, shut, up>>

\* read() returns 0 once the connection is closed.
Closed(c) == c \in shut \/ up # "up"

\* A response was read to its end.  Of two, the one read last counts.
Waiting(u) == client[u].state = "waiting" /\ Closed(client[u].wait)
Responses(u) == {answers[client[u].wait][i] : i \in DOMAIN answers[client[u].wait]}

\* 400, 404, 415: nothing to do.
ReceiveError(u) ==
    /\ Waiting(u)
    /\ \E a \in Responses(u) : a.code \notin {"ok", "directory"}
    /\ client' = [client EXCEPT ![u] = Return(u)]
    /\ UNCHANGED <<saved, netVars>>

ReceiveDirectory(u) ==
    /\ Waiting(u)
    /\ \E a \in Responses(u) :
          /\ a.code = "directory"
          /\ client' = [client EXCEPT ![u].state = "walking",
                           ![u].stack = <<Tokens(fs[a.of].list)>> \o @]
    /\ UNCHANGED <<saved, netVars>>

\* The directories on the way are made as needed.  A file saved under a
\* shorter path is in the way, and so is the directory of a longer one.
InTheWay(path) ==
    \E s \in saved : /\ s.at # path
                     /\ IsPrefix(s.at, path) \/ IsPrefix(path, s.at)

ReceiveFile(u) ==
    /\ Waiting(u)
    /\ \E a \in Responses(u) :
          /\ a.code = "ok"
          /\ ~InTheWay(OldQuery(u))
          /\ saved' = {s \in saved : s.at # OldQuery(u)}
                        \cup {[at |-> OldQuery(u), content |-> a.of]}
    /\ client' = [client EXCEPT ![u] = Return(u)]
    /\ UNCHANGED netVars

\* fopen() fails and fprintf() is given NULL.
ReceiveNoRoom(u) ==
    /\ Waiting(u)
    /\ \E a \in Responses(u) : a.code = "ok" /\ InTheWay(OldQuery(u))
    /\ Crashed(u)
    /\ UNCHANGED <<saved, netVars>>

\* Closed without a response: the code that is tested was never set.  If it
\* happens to be 200, there is no header to find the end of.
ReceiveNothing(u) ==
    /\ Waiting(u)
    /\ Responses(u) = {}
    /\ \/ client' = [client EXCEPT ![u] = Return(u)]
       \/ Crashed(u)
    /\ UNCHANGED <<saved, netVars>>

\* The next entry: strcpy(newquery, oldquery), "/", token; then a thread.
\* The loop of a frame below the first copies newquery onto itself.
BadFrameQuery(u) == IF client[u].newquery = <<>> THEN client[u].query
                    ELSE client[u].newquery
FrameQuery(u) == IF Len(client[u].stack) = 1 THEN client[u].query
                 ELSE client[u].newquery
NewQuery(u) == Append(FrameQuery(u), Head(Head(client[u].stack)))
NextFrame(u) == [client[u] EXCEPT !.newquery = NewQuery(u),
                                  !.stack = <<Tail(Head(@))>> \o Tail(@)]

AtEntry(u) == client[u].state = "walking" /\ Head(client[u].stack) # <<>>

AskEntry(u) ==
    /\ AtEntry(u)
    /\ Len(NewQuery(u)) <= MaxPath
    /\ up = "up"
    /\ Connect(NewQuery(u))
    /\ client' = [client EXCEPT ![u] = [NextFrame(u) EXCEPT
                     !.state = "waiting", !.wait = Len(asked) + 1]]
    /\ UNCHANGED <<saved, env, fs, shut, up>>

\* "Connect Failed": the entry is skipped.
SkipEntry(u) ==
    /\ AtEntry(u)
    /\ Len(NewQuery(u)) <= MaxPath
    /\ up # "up"
    /\ client' = [client EXCEPT ![u] = NextFrame(u)]
    /\ UNCHANGED <<saved, netVars>>

\* newquery is full: strcat() writes behind it.
Overflow(u) ==
    /\ AtEntry(u)
    /\ Len(NewQuery(u)) > MaxPath
    /\ Crashed(u)
    /\ UNCHANGED <<saved, netVars>>

\* No entry left: the thread ends and is joined, or main() returns.
EndFrame(u) ==
    /\ client[u].state = "walking"
    /\ Head(client[u].stack) = <<>>
    /\ client' = [client EXCEPT ![u].stack = Tail(@),
                     ![u].state = IF Len(client[u].stack) = 1 THEN "done"
                                  ELSE "walking"]
    /\ UNCHANGED <<saved, netVars>>

ClientStep(u) == \/ ReceiveError(u) \/ ReceiveDirectory(u) \/ ReceiveFile(u)
                 \/ ReceiveNoRoom(u) \/ ReceiveNothing(u) \/ AskEntry(u)
                 \/ SkipEntry(u) \/ Overflow(u) \/ EndFrame(u)

=============================================================================
