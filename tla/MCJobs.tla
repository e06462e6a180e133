------------------------------- MODULE MCJobs -------------------------------
(***************************************************************************)
(* Instances of Jobs for TLC: two invocations f and g.                     *)
(***************************************************************************)
EXTENDS Jobs, TLC

CONSTANTS f, g

\* Two permission changes, or one beside a method that is no job.
FsAndPlain == {f :> "fs" @@ g :> "fs", f :> "fs" @@ g :> "plain"}
TwoFs      == {f :> "fs" @@ g :> "fs"}
OnePlain   == {f :> "plain"}
=============================================================================
