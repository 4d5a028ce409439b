------------------------------ MODULE MCMenuBar ------------------------------
(* How many events of each kind.                                            *)
EXTENDS MenuBar

Events == [records |-> 3, clears |-> 1, stops |-> 2, changes |-> 2, presses |-> 2,
           launches |-> 2, failures |-> 1]
=============================================================================
