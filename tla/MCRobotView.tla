----------------------------- MODULE MCRobotView -----------------------------
(* Instances of RobotView for TLC. *)
EXTENDS RobotView

\* A target that directSeek hits exactly from 0, one that it steps over, and
\* one that is not a number.
AllTargets == {5, 17, NaN}
HitTargets == {5}
OverTargets == {17}
=============================================================================
