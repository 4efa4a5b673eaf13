---------------------------- MODULE MCMetaClient ----------------------------
(* Three accounts in Graph batches of two, with one error of every class and *)
(* one whose subcode alone looks like a checkpoint.                          *)
EXTENDS MetaClient
E(code, subcode) == [code |-> code, subcode |-> subcode]
MCErrors == {E(1, 0), E(80004, 0), E(190, 0), E(190, 459), E(100, 459)}
=============================================================================
