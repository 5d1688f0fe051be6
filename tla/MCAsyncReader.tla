--------------------------- MODULE MCAsyncReader ---------------------------
(* A ring of three slots used by up to five requests of two kinds: slots    *)
(* are used again, and head and tail wrap around at different               *)
(* moments while a read is outstanding, lent or failed.                     *)
EXTENDS AsyncReader
=============================================================================
