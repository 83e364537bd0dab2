-------------------------------- MODULE MCFs --------------------------------
(* An instance of ShFs with three journals: each child has its first block *)
(* in the journal with its number, the file is in journal 1, and the later *)
(* blocks of the data are in two of the journals.                          *)
EXTENDS ShFs, TLC

MCHome == [n \in Names |-> n]

(* The processes are alike.                                                *)
Alike == Permutations(Procs)

(* The processes are followed until a chain is damaged.                    *)
Undamaged == harm = {}
=============================================================================
