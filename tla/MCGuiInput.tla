----------------------------- MODULE MCGuiInput -----------------------------
(* Two contacts, with one direction of an encoder or without.              *)
EXTENDS GuiInput

MCKeys == {"Ok", "Back", "Right"}
MCTwoKeys == {"Ok", "Back"}
=============================================================================
