--------------------------- MODULE MCLabReaders ---------------------------
(* The instances of MCLabManager with a request followed through its calls. *)
EXTENDS MCLabManager, LabReaders
=============================================================================
