---------------------------- MODULE MCSessionRouter ----------------------------
(* Small instances of SessionRouter. *)
EXTENDS SessionRouter, TLC

CONSTANTS p1, p2, k1, k2, t1, t2, t3

Request(mark, p, k) == [mark |-> mark, pid |-> p, token |-> k]

\* A process with the token of a recording, one without a token, and a mark
\* from a process that may or may not be recorded.
AllRequests == {Request(FALSE, p2, k1), Request(FALSE, p1, NoToken),
                Request(TRUE, p2, NoToken)}

\* Bound: each token is that of recordings of one pid; the other pid may be
\* that of its descendant.
TokensOfPids ==
    \A s \in Sessions : /\ session[s].token = k1 => session[s].pid = p1
                        /\ session[s].token = k2 => session[s].pid = p2

Perms == Permutations(Threads)
=============================================================================
