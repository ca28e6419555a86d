-------------------------- MODULE MCTeamController --------------------------
(* Values for the constants of TeamController in TLC's runs. *)
EXTENDS TeamController

Owner  == [role |-> "owner", users |-> {"u"}, groups |-> {}]
Viewer == [role |-> "viewer", users |-> {"u"}, groups |-> {"g"}]

Plain == [name |-> "default", roles |-> <<Owner>>, allowDestroy |-> FALSE,
          orphan |-> FALSE, suspend |-> FALSE]

Shared    == [Plain EXCEPT !.roles = <<Owner, Viewer>>]
Orphaned  == [Plain EXCEPT !.orphan = TRUE]
Suspended == [Plain EXCEPT !.suspend = TRUE]
Reserved  == [Plain EXCEPT !.name = "main"]
Released  == [Reserved EXCEPT !.allowDestroy = TRUE]

SpecsTeam == {Plain, Shared, Orphaned, Suspended, Reserved, Released}
=============================================================================
