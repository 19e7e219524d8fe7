---------------------------- MODULE MCAuthorization ----------------------------
(* Instances of Authorization for TLC.                                        *)
EXTENDS Authorization, TLC

CONSTANTS p1, p2, ann, bob, mail, drive

Flow(kind, want, ask) == [kind |-> kind, want |-> want, ask |-> ask]

\* Ann is to be added, for mail or, without a state to compare or by a server of
\* its own, for drive; Bob may answer.
SomeFlows ==
  (p1 :> {Flow(kind, ann, mail) : kind \in {"print", "redeem", "manage"}}
           \cup {Flow("loose", ann, drive)})
    @@ (p2 :> {Flow("paste", ann, mail), Flow("browser", ann, drive)})
=============================================================================
