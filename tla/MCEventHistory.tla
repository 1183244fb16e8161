--------------------------- MODULE MCEventHistory ---------------------------
(***************************************************************************)
(* Up to three events around the boundary of a second, with and without a  *)
(* fraction, two of them possibly at the same instant.                     *)
(***************************************************************************)
EXTENDS EventHistory

At(s, m) == [sec |-> s, micro |-> m]

MCTimestamp == { At(11, 0), At(11, 500000), At(11, 999999),
                 At(12, 0), At(12, 500000) }
=============================================================================
