-------------------------------- MODULE Python --------------------------------
(* The value the modules of the integration share.                         *)
CONSTANT None  \* Python's None

=============================================================================
