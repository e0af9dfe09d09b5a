--------------------------- MODULE MCRenderJobs ---------------------------
(***************************************************************************)
(* Instances of RenderJobs for TLC: one job renders the small scale, the   *)
(* other both, as a request for one scale and one for the default scales.  *)
(***************************************************************************)
EXTENDS RenderJobs, TLC

CONSTANTS one, both, s1, s2

ScalesOfJobs == (one :> {s1}) @@ (both :> {s1, s2})
ScalesOfSame == (one :> {s1}) @@ (both :> {s1})

Symmetry == Permutations(Workers) \cup Permutations(Callers)

=============================================================================
