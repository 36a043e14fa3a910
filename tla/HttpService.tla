---------------------------- MODULE HttpService ----------------------------
(***************************************************************************)
(* What an HTTP server promises to its clients: a request is answered at   *)
(* most once, and as this request deserves, whatever else was asked.       *)
(***************************************************************************)
EXTENDS HttpNet

Ask ==
    /\ Len(asked') = Len(asked) + 1
    /\ IsPrefix(asked, asked')
    /\ answers' = Append(answers, <<>>)

Reply ==
    /\ \E c \in DOMAIN asked :
          /\ answers[c] = <<>>
          /\ answers' = [answers EXCEPT ![c] = <<Served(asked[c])>>]
    /\ UNCHANGED asked

Spec == /\ asked = <<>>
        /\ answers = <<>>
        /\ [][Ask \/ Reply]_<<asked, answers>>

=============================================================================
