---------------------------- MODULE MCEnrollment ----------------------------
(* Three nodes: n1 founds the cluster, n2 joins through n1, n3 through        *)
(* either.                                                                  *)
EXTENDS Enrollment, TLC

CONSTANTS n1, n2, n3

MCNode     == {n1, n2, n3}
MCSponsors == (n1 :> {} @@ n2 :> {n1}) @@ (n3 :> {n1, n2})
=============================================================================
