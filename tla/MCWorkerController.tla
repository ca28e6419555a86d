------------------------- MODULE MCWorkerController -------------------------
(* Values for the constants of WorkerController in TLC's runs. *)
EXTENDS WorkerController

Plain == [lifecycle |-> "Running", remote |-> FALSE, suspend |-> FALSE]

Draining  == [Plain EXCEPT !.lifecycle = "Draining"]
Removed   == [Plain EXCEPT !.lifecycle = "Removed"]
Suspended == [Plain EXCEPT !.suspend = TRUE]
Remote    == [Draining EXCEPT !.remote = TRUE]

SpecsWorker == {Plain, Draining, Removed, Suspended, Remote}
=============================================================================
