------------------------------ MODULE MCMailbox ------------------------------
(* Model-checking instance of Mailbox: the safety runs treat clients as    *)
(* interchangeable.                                                        *)
EXTENDS Mailbox

ClientSymmetry == Permutations(Clients)
=============================================================================
