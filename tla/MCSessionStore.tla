---------------------------- MODULE MCSessionStore ----------------------------
(***************************************************************************)
(* SessionStore for TLC: operations of two sessions whose loss would show, *)
(* on two processes.                                                       *)
(***************************************************************************)
EXTENDS SessionStore, TLC

CONSTANTS p1, p2, s1, s2, c1, c2

BindOp(s, c, h) ==
    [kind |-> "bind", s |-> s, c |-> c, baseline |-> [known |-> TRUE, of |-> h]]

\* Two sessions, every kind of operation that may write.
MixedOps ==
    {BindOp(s1, c1, <<1>>), BindOp(s2, c2, <<2>>),
     [kind |-> "rebind", s |-> s1, c |-> c1], [kind |-> "rebindAll", s |-> s2],
     [kind |-> "prune"]}
=============================================================================
