--------------------------- MODULE MCAsyncWriter ---------------------------
(* A ring of two slots and up to four writes of two kinds: push_back finds  *)
(* the ring full twice and both slots are reused.                           *)
EXTENDS AsyncWriter
=============================================================================
