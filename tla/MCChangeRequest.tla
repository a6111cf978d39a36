--------------------------- MODULE MCChangeRequest ---------------------------
(* Instances of ChangeRequest for TLC. *)
EXTENDS ChangeRequest, TLC

CONSTANTS contributor, r1, r2

\* Keys of commands before the behaviour begins.
Key(n) == MaxCommands + n

H(n, a, to) == [key |-> Key(n), actor |-> a, to |-> to]

Submitted == H(1, contributor, "submitted")
Reviewed == H(2, r1, "in_review")
SentBack == H(3, r1, "changes_requested")
Resubmitted == H(4, contributor, "submitted")

Earlier(state, reviewer, history, revisions) ==
    [key |-> Key(1), submitter |-> contributor, reviewer |-> reviewer, state |-> state,
     version |-> Len(history), history |-> history, comments |-> << >>,
     revisions |-> revisions]

\* A proposal that r1 reviews, and one that was sent back and revised.
Proposals ==
    {Earlier("in_review", r1, <<Submitted, Reviewed>>, <<Key(1)>>),
     Earlier("submitted", Nobody, <<Submitted, Reviewed, SentBack, Resubmitted>>,
             <<Key(1), Key(4)>>)}

MCInit ==
    \/ Init
    \/ \E d \in Proposals :
          /\ docs = <<d>>
          /\ audit = [i \in DOMAIN d.history |-> [doc |-> 1, key |-> d.history[i].key]]
          /\ cmd = << >>
          /\ handler = [h \in Handlers |-> Idle]
          /\ answers = [c \in 1..MaxCommands |-> {}]
          /\ resends = 0
          /\ unread = {}

MCSpec == MCInit /\ [][Next]_vars

Symmetry == Permutations(Handlers)
=============================================================================
