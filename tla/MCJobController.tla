--------------------------- MODULE MCJobController ---------------------------
(* Values for the constants of JobController in TLC's runs. *)
EXTENDS JobController

Plain == [paused |-> FALSE, successLimit |-> 1, failLimit |-> 0,
          remote |-> FALSE, suspend |-> FALSE]

Paused    == [Plain EXCEPT !.paused = TRUE, !.successLimit = 0, !.failLimit = 1]
Suspended == [Plain EXCEPT !.suspend = TRUE]

SpecsJob   == {Plain, Paused, Suspended}
SpecsPlain == {Plain}

\* Every Build is created at a time of its own, or all in the same second.
Distinct == [b \in Builds |-> b]
Together == [b \in Builds |-> 1]
=============================================================================
