-------------------------------- MODULE MCChat --------------------------------
(* A team with one workspace and its seeded room, two people, one agent. *)
EXTENDS Chat, TLC

CONSTANTS team, workspace, home, p1, p2, a1, r1, r2, assistant

MCRole == (p1 :> "superadmin") @@ (p2 :> "team_member")
RequestSymmetry == Permutations({r1, r2})

=============================================================================
