--------------------------- MODULE MCInputService ---------------------------
(* The input service with the two contacts of the board.                    *)
EXTENDS InputService

MCInputPins == <<"Ok", "Back">>
MCDeltas == {-3, 1}
=============================================================================
