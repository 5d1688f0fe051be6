--------------------------- MODULE MCVolumeAccess ---------------------------
(* Every switch that guards the destination is given and left out, each with *)
(* and without a shadow copy of the source.                                  *)
EXTENDS VolumeAccess

Plain == [writes |-> TRUE, write |-> TRUE, shadow |-> FALSE, writers |-> FALSE,
          blank |-> FALSE, forceSrc |-> FALSE, forceDest |-> FALSE,
          allowMounted |-> FALSE, allowDifferent |-> FALSE]

MCCommandLines ==
  { Plain,
    [Plain EXCEPT !.shadow = TRUE],
    [Plain EXCEPT !.shadow = TRUE, !.writers = TRUE, !.allowMounted = TRUE],
    [Plain EXCEPT !.blank = TRUE, !.forceDest = TRUE],
    [Plain EXCEPT !.write = FALSE, !.forceSrc = TRUE, !.allowDifferent = TRUE],
    [Plain EXCEPT !.writes = FALSE, !.shadow = TRUE] }
=============================================================================
