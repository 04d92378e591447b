-------------------------- MODULE MCQuotaAdmission --------------------------
(* Small instances of QuotaAdmission for TLC. *)
EXTENDS QuotaAdmission, TLC

CONSTANTS w1, w2

Allow(w, c, s) == [workspaces |-> w, compute |-> c, storage |-> s]

\* Tight in every dimension.
TightQuotas == {Allow(1, 3, 1), Allow(2, 3, 2)}

Ask(request, limit, root) == [request |-> request, limit |-> limit, root |-> root]

\* Less than the default under an image that runs as root, and the default under one
\* that does not: what is stated is charged.
ChargedShapes == {Ask(1, 0, TRUE), Ask(2, 0, FALSE)}

\* Less than the default under either image.
SmallShapes == {Ask(1, 0, TRUE), Ask(1, 0, FALSE)}

\* excused is never reset, and OverQuotaNeedsRace and BackstopAgrees say
\* nothing of the states after it is set: they are checked, not explored.
Unexcused == ~excused

Symmetry == Permutations(Names)

=============================================================================
