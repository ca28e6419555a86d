------------------------ MODULE MCInstanceController ------------------------
(* Values for the constants of InstanceController in TLC's runs. *)
EXTENDS InstanceController, TLC

Plain == [url |-> "u1", auth |-> TRUE, wall |-> "", suspend |-> FALSE,
          allowed |-> TRUE]

Walled    == [Plain EXCEPT !.wall = "m1"]
Rewalled  == [Plain EXCEPT !.wall = "m2"]
Suspended == [Walled EXCEPT !.suspend = TRUE]
Legacy    == [Walled EXCEPT !.auth = FALSE]

SpecsPlain  == {Plain}
SpecsMoved  == {[Plain EXCEPT !.url = u] : u \in Urls}
SpecsGuards == {Walled, Rewalled, Suspended, Legacy}
SpecsClear  == {Plain, Walled}

\* The consumers run the same code, and no URL is special in SpecsMoved.
Symmetry == Permutations(Consumers) \cup Permutations(Urls)
=============================================================================
