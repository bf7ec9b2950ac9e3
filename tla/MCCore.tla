------------------------------- MODULE MCCore -------------------------------
(* Instances of Core for TLC: the sets a cfg cannot write. *)
EXTENDS CoreProperties

\* A clock that may stand still or step back between two orders.
CoarseTicks == {-1, 0, 1}

\* A volume that is not positive, which the server accepts, and one that is.
OddVolumes == {-1, 2}

=============================================================================
