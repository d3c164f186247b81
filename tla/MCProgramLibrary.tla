-------------------------- MODULE MCProgramLibrary --------------------------
(***************************************************************************)
(* Small instances of ProgramLibrary: id 1 is shipped, 2 and 3 are for     *)
(* uploads, and one of the images ships a program under an upload's id.    *)
(***************************************************************************)
EXTENDS ProgramLibrary

Tidy    == [id \in {1} |-> "p"]
Strayed == [id \in {1, 2} |-> "p"]

OneImage == {Tidy}
TwoImages == {Tidy, Strayed}
=============================================================================
