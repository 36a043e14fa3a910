--------------------------- MODULE TaskLifecycle ---------------------------
(***************************************************************************)
(* What the scheduling simulator promises about its tasks: each goes       *)
(* through the states below, at most one runs, a task that has ended stays *)
(* ended, and none disappears unless it is removed from the shell.         *)
(***************************************************************************)
CONSTANT Tasks

VARIABLES state,   \* state[t]: where task t is in its life
          shell    \* is the user at the shell's prompt?

States == {"absent", "READY", "RUNNING", "WAITING", "TERMINATED", "removed"}

\* A running task stops running, suspends itself or ends; a waiting one is
\* woken; a ready one is picked.
Moves == {<<"READY", "RUNNING">>, <<"RUNNING", "READY">>,
          <<"RUNNING", "WAITING">>, <<"RUNNING", "TERMINATED">>,
          <<"WAITING", "READY">>}

OneRuns(st) == \A t, u \in Tasks :
                  st[t] = "RUNNING" /\ st[u] = "RUNNING" => t = u

Init == /\ state = [t \in Tasks |-> "absent"]
        /\ shell = TRUE

Create(t) == /\ state[t] = "absent"
             /\ state' = [state EXCEPT ![t] = "READY"]
             /\ UNCHANGED shell

Remove(t) == /\ shell
             /\ state[t] # "absent"
             /\ state' = [state EXCEPT ![t] = "removed"]
             /\ UNCHANGED shell

Run == /\ state' \in [Tasks -> States]
       /\ \A t \in Tasks : state'[t] # state[t] =>
                              <<state[t], state'[t]>> \in Moves
       /\ OneRuns(state')
       /\ shell' \in BOOLEAN

Next == Run \/ \E t \in Tasks : Create(t) \/ Remove(t)

Spec == Init /\ [][Next]_<<state, shell>>

=============================================================================
