------------------------------- MODULE Submenu -------------------------------
(***************************************************************************)
(* The submenu: a cursor in a list of items and a window of rows on the    *)
(* list.  The application moves the cursor by keys; the CAN scene rebuilds *)
(* the list on every tick, item by item, with the GUI thread free to draw  *)
(* between two calls.                                                      *)
(*                                                                         *)
(* Positions are size_t: a difference wraps at WordSize.  Keys find at     *)
(* least one item: scenes fill the list in the callback that resets it.    *)
(***************************************************************************)
EXTENDS Naturals

CONSTANTS
    MaxItems,    (* DASHBOARD_CAN_MAX_IDS: most items of a list             *)
    WordSize     (* 2^32                                                    *)

ASSUME SubmenuAssumption ==
    MaxItems \in Nat \ {0} /\ WordSize \in Nat /\ WordSize > MaxItems + 4

VARIABLES
    size,        (* items in the list                                       *)
    header,      (* the header is not empty                                 *)
    position,    (* model->position                                         *)
    window,      (* model->window_position                                  *)
    filling      (* items still to be added by a rebuild; "no" when shown   *)

submenuVars == <<size, header, position, window, filling>>

SubmenuInit ==
    size = 0 /\ header = FALSE /\ position = 0 /\ window = 0 /\ filling = 0
-----------------------------------------------------------------------------
Rows == IF header THEN 3 ELSE 4
Minus(m, n) == IF m >= n THEN m - n ELSE (m + WordSize) - n

(* submenu_reset, and then the header of the scene: the CAN scene has one,  *)
(* the settings have none.                                                  *)
Rebuild ==
    /\ filling = 0
    /\ size' = 0 /\ position' = 0 /\ window' = 0 /\ header' = FALSE
    /\ filling' \in 1 .. MaxItems

SetHeader ==
    /\ filling > 0 /\ size = 0 /\ header' = TRUE
    /\ UNCHANGED <<size, position, window, filling>>

AddItem ==
    /\ filling > 0 /\ size < MaxItems
    /\ size' = size + 1 /\ filling' = filling - 1
    /\ UNCHANGED <<header, position, window>>

(* submenu_set_selected_item: an item that is not found is the first one.   *)
FaultSetSelectedItem(n) ==
    /\ filling = 0 /\ size > 0
    /\ position' = IF n >= size THEN 0 ELSE n
    /\ window' = LET above == IF position' > 0 THEN position' - 1 ELSE 0
                     last == Minus(size, Rows)
                 IN  IF above > last THEN last ELSE above
    /\ UNCHANGED <<size, header, filling>>
SetSelectedItem(n) ==
    /\ filling = 0 /\ size > 0
    /\ position' = IF n >= size THEN 0 ELSE n
    /\ window' = LET above == IF position' > 0 THEN position' - 1 ELSE 0
                     last == Minus(size, Rows)
                 IN  IF size <= Rows THEN 0 ELSE IF above > last THEN last ELSE above
    /\ UNCHANGED <<size, header, filling>>

ProcessUp ==
    /\ filling = 0 /\ size > 0
    /\ IF position > 0
       THEN /\ position' = position - 1
            /\ window' = IF position' = window /\ window > 0 THEN window - 1 ELSE window
       ELSE /\ position' = Minus(size, 1)
            /\ window' = IF position' > Rows - 1 THEN position' - (Rows - 1) ELSE window
    /\ UNCHANGED <<size, header, filling>>

ProcessDown ==
    /\ filling = 0 /\ size > 0
    /\ IF position < Minus(size, 1)
       THEN /\ position' = position + 1
            /\ window' = IF /\ Minus(position', window) > Rows - 2
                            /\ window < Minus(size, Rows)
                         THEN window + 1 ELSE window
       ELSE position' = 0 /\ window' = 0
    /\ UNCHANGED <<size, header, filling>>
-----------------------------------------------------------------------------
SubmenuNext ==
    \/ Rebuild \/ SetHeader \/ AddItem \/ ProcessUp \/ ProcessDown
    \/ \E n \in 0 .. MaxItems : SetSelectedItem(n)
SubmenuSpec == SubmenuInit /\ [][SubmenuNext]_submenuVars
-----------------------------------------------------------------------------
SubmenuTypeOK ==
    /\ size \in 0 .. MaxItems /\ header \in BOOLEAN
    /\ position \in Nat /\ window \in Nat
    /\ filling \in 0 .. MaxItems /\ size + filling <= MaxItems

(* The cursor is on an item, on one of the rows that are drawn, and the     *)
(* window does not run past the list, whatever keys, selections and         *)
(* rebuilds to another length came before, and though differences wrap.     *)
CursorVisible ==
    /\ SubmenuTypeOK
    /\ position < size \/ (size = 0 /\ position = 0)
    /\ window <= position /\ position < window + Rows
    /\ window + Rows <= size \/ window = 0
=============================================================================
