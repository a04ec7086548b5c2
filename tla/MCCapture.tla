------------------------------ MODULE MCCapture ------------------------------
(* Instances of Capture: a capture that says when it was made, with a       *)
(* former price that is none, and one with a key of its own.                *)
EXTENDS Capture

Stamped == [sound |-> TRUE, page |-> 1, price |-> 2, was |-> 2, stamp |-> 1, key |-> None]
Keyed == [sound |-> TRUE, page |-> 1, price |-> 1, was |-> 2, stamp |-> None, key |-> 7]

Retried == {Stamped, Keyed}

=============================================================================
