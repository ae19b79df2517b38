------------------------------ MODULE MCTravis ------------------------------
(***************************************************************************)
(* Travis with two files, of which the second may have a relative path.    *)
(***************************************************************************)
EXTENDS Travis

CONSTANTS dex1, dex2

MCName == {dex1, dex2}
MCRelatives == {{}, {dex2}}
=============================================================================
