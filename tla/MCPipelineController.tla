------------------------ MODULE MCPipelineController ------------------------
(* Values for the constants of PipelineController in TLC's runs. *)
EXTENDS PipelineController

Plain == [config |-> "c1", name |-> "default", archived |-> FALSE,
          paused |-> FALSE, exposed |-> FALSE, orphan |-> FALSE,
          suspend |-> FALSE]

Changed   == [Plain EXCEPT !.config = "c2", !.paused = TRUE, !.exposed = TRUE]
Archived  == [Plain EXCEPT !.archived = TRUE, !.orphan = TRUE]
Mapped    == [Plain EXCEPT !.config = "configMap"]
Suspended == [Plain EXCEPT !.suspend = TRUE]
Renamed   == [Plain EXCEPT !.name = "other"]

SpecsSync   == {Plain, Changed, Archived, Mapped, Suspended}
SpecsRename == {Plain, Renamed}
=============================================================================
