------------------------------- MODULE MCApi --------------------------------
(* An instance of Api for TLC.                                             *)
EXTENDS Api, TLC

CONSTANTS t1, t2
=============================================================================
