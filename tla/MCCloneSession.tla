--------------------------- MODULE MCCloneSession ---------------------------
(* A system file and an ordinary one on a volume of two data clusters,      *)
(* changed up to three times between or under the sessions.                 *)
EXTENDS CloneSession

Run(mode, action) ==
  [mode |-> mode, action |-> action, listing |-> FALSE, shadow |-> TRUE,
   blankOverwrite |-> FALSE, exitCode |-> TRUE]
Locking(s) == [s EXCEPT !.shadow = FALSE]
Blank(s)   == [s EXCEPT !.blankOverwrite = TRUE]
Listing(s) == [s EXCEPT !.listing = TRUE]

MCSessions ==
  { Run("mft", "rcw"), Locking(Run("mft", "copy")), Blank(Run("bitmap", "copy")),
    Listing(Locking(Run("all", "rcw"))), Locking(Run("antimft", "compare")) }

MCUpdates == { Run("mft", "rcw"), Listing(Locking(Run("mft", "copy"))) }

MCListings == { Listing(Run(mode, "compare")) : mode \in {"all", "bitmap", "mft"} }
=============================================================================
