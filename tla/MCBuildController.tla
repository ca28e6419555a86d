-------------------------- MODULE MCBuildController --------------------------
(* Values for the constants of BuildController in TLC's runs. *)
EXTENDS BuildController

Plain == [jobRef |-> "local", suspend |-> FALSE, canceled |-> FALSE,
          buildID |-> 0, comment |-> ""]

Canceled  == [Plain EXCEPT !.canceled = TRUE]
Suspended == [Plain EXCEPT !.suspend = TRUE]
Legacy    == [Plain EXCEPT !.jobRef = "none"]
Adopting  == [Plain EXCEPT !.buildID = 1]
Noted     == [Plain EXCEPT !.comment = "c1", !.jobRef = "remote"]

SpecsPlain  == {Plain}
SpecsNoted  == {Noted}
SpecsCancel == {Plain, Canceled}
SpecsOnce   == {Plain, Noted, Adopting}
SpecsGuards == {Noted, Suspended, Canceled, Legacy}
=============================================================================
