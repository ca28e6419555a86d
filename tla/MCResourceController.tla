------------------------ MODULE MCResourceController ------------------------
(* Values for the constants of ResourceController in TLC's runs. *)
EXTENDS ResourceController

Plain == [pin |-> NoVersion, comment |-> "", disabled |-> {}, interval |-> "unset",
          remote |-> FALSE, suspend |-> FALSE]

Pinned    == [Plain EXCEPT !.pin = 2, !.comment = "c"]
Disabling == [Plain EXCEPT !.disabled = {1, 2}, !.pin = 1, !.interval = "set"]
Dropping  == [Plain EXCEPT !.disabled = {2}, !.interval = "zero"]
Suspended == [Plain EXCEPT !.suspend = TRUE]
Remote    == [Plain EXCEPT !.remote = TRUE]

SpecsResource == {Plain, Pinned, Disabling, Dropping, Suspended, Remote}
=============================================================================
