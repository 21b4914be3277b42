----------------------------- MODULE ViewHolder -----------------------------
(***************************************************************************)
(* A view holder between two threads.  Its owner, the dialogs thread or a  *)
(* scene, makes it, shows a view, waits for the answer, hides the view and *)
(* frees first the holder, then the view and what its callbacks use.  The  *)
(* GUI thread draws the view and gives it events, with its mutex held.     *)
(*                                                                         *)
(* view_port_enabled_set, view_port_update and view_port_draw wait for the *)
(* mutex of the port for two ticks only and go on without it, so here they *)
(* exclude nothing; only the mutex of the GUI does.                        *)
(***************************************************************************)
EXTENDS Naturals, FiniteSets

CONSTANTS
    HolderKeys,         (* physical keys                                    *)
    MaxHolderPresses    (* bound: presses that reach the port               *)

ASSUME HolderAssumption == IsFiniteSet(HolderKeys) /\ MaxHolderPresses \in Nat

VARIABLES
    owning,      (* where the owner is, by the name of its next step        *)
    allocated,   (* of "holder" and "view": what is not freed               *)
    entered,     (* view_enter was called, view_exit was not                *)
    shown,       (* view_holder->view is not NULL                           *)
    portOn,      (* view_port->is_enabled                                   *)
    attached,    (* the port is in a layer of the GUI                       *)
    guiMutex,    (* the GUI thread has gui->mutex                           *)
    using,       (* what the GUI thread uses: "none", "holder", "view"      *)
    answered,    (* the lock of the dialog is open                          *)
    pressed,     (* keys held, with ongoing_input_view_port this one's      *)
    holderInput, (* view_holder->ongoing_input                              *)
    event,       (* the event in view_holder_input_callback                 *)
    strikes      (* presses so far                                          *)

guiUse == <<guiMutex, using, event>>
ownerVars == <<owning, allocated, entered, shown, portOn, attached>>
holderVars == <<ownerVars, guiUse, answered, pressed, holderInput, strikes>>

HolderInit ==
    /\ owning = "alloc" /\ allocated = {} /\ entered = FALSE /\ shown = FALSE
    /\ portOn = FALSE /\ attached = FALSE /\ guiMutex = FALSE /\ using = "none"
    /\ answered = FALSE /\ pressed = {} /\ holderInput = {} /\ strikes = 0
    /\ event = "none"
-----------------------------------------------------------------------------
Goes(from, to) == owning = from /\ owning' = to /\ UNCHANGED <<guiUse, strikes>>
Step(from, to) == Goes(from, to) /\ UNCHANGED pressed

(* Both are made; the port is added under the mutex.                        *)
AllocHolder ==
    /\ Step("alloc", "set")
    /\ ~ guiMutex /\ attached' = TRUE
    /\ allocated' = {"holder", "view"} /\ answered' = FALSE /\ holderInput' = {}
    /\ UNCHANGED <<entered, shown, portOn>>

(* view_holder_set_view(view)                                               *)
SetView ==
    /\ Step("set", "enter") /\ shown' = TRUE
    /\ UNCHANGED <<allocated, entered, portOn, attached, answered, holderInput>>
EnterView ==
    /\ Step("enter", "enable") /\ entered' = TRUE
    /\ UNCHANGED <<allocated, shown, portOn, attached, answered, holderInput>>
EnableHolder ==
    /\ Step("enable", "answer") /\ portOn' = TRUE
    /\ UNCHANGED <<allocated, entered, shown, attached, answered, holderInput>>

(* api_lock_wait_unlock                                                     *)
Answered ==
    /\ Step("answer", "drain") /\ answered
    /\ UNCHANGED <<allocated, entered, shown, portOn, attached, answered, holderInput>>

(* view_holder_set_view(NULL)                                               *)
DrainHolder ==
    /\ Step("drain", "exit") /\ holderInput = {}
    /\ UNCHANGED <<allocated, entered, shown, portOn, attached, answered, holderInput>>
ExitView ==
    /\ Step("exit", "unset") /\ entered' = FALSE
    /\ UNCHANGED <<allocated, shown, portOn, attached, answered, holderInput>>
UnsetView ==
    /\ Step("unset", "disable") /\ shown' = FALSE
    /\ UNCHANGED <<allocated, entered, portOn, attached, answered, holderInput>>
DisableHolder ==
    /\ Step("disable", "remove") /\ portOn' = FALSE
    /\ UNCHANGED <<allocated, entered, shown, attached, answered, holderInput>>

(* view_holder_free, with gui_remove_view_port, then the view.              *)
FaultRemoveHolder ==
    /\ Goes("remove", "free") /\ attached' = FALSE /\ pressed' = {}
    /\ UNCHANGED <<allocated, entered, shown, portOn, answered, holderInput>>
RemoveHolder ==
    /\ Goes("remove", "free") /\ ~ guiMutex /\ attached' = FALSE /\ pressed' = {}
    /\ UNCHANGED <<allocated, entered, shown, portOn, answered, holderInput>>
FreeHolder ==
    /\ Step("free", "freeView") /\ allocated' = allocated \ {"holder"}
    /\ UNCHANGED <<entered, shown, portOn, attached, answered, holderInput>>
FreeHeld ==
    /\ Step("freeView", "alloc") /\ allocated' = allocated \ {"view"}
    /\ UNCHANGED <<entered, shown, portOn, attached, answered, holderInput>>
-----------------------------------------------------------------------------
(* The GUI thread.  With its mutex it finds the port on top enabled, and    *)
(* calls back; the holder counts the key, then reads its view.              *)
Busy(with) == guiMutex' = TRUE /\ using' = "holder" /\ event' = with
TakeHolderInput(k) ==
    /\ ~ guiMutex /\ attached /\ UNCHANGED <<ownerVars, answered>>
    /\ \/ /\ portOn /\ k \notin pressed /\ strikes < MaxHolderPresses
          /\ pressed' = pressed \cup {k} /\ strikes' = strikes + 1
          /\ holderInput' = holderInput \cup {k} /\ Busy("Press")
       \/ /\ k \in pressed /\ pressed' = pressed \ {k} /\ UNCHANGED strikes
          /\ holderInput' = holderInput \ {k} /\ Busy("Release")
       \/ /\ portOn /\ k \in pressed /\ k \in holderInput
          /\ UNCHANGED <<pressed, strikes, holderInput>> /\ Busy("Short")

TakeHolderDraw ==
    /\ ~ guiMutex /\ attached /\ portOn /\ Busy("Draw")
    /\ UNCHANGED <<ownerVars, answered, pressed, holderInput, strikes>>

ReadView ==
    /\ using = "holder"
    /\ using' = IF shown THEN "view" ELSE "callback"
    /\ UNCHANGED <<ownerVars, guiMutex, event, answered, pressed, holderInput, strikes>>

(* The view, or the back callback, may open the lock for its owner; the     *)
(* callback is still running then.                                          *)
CallView ==
    /\ using \in {"view", "callback"} /\ using' = "return"
    /\ IF event = "Short" THEN answered' \in {answered, TRUE} ELSE UNCHANGED answered
    /\ UNCHANGED <<ownerVars, guiMutex, event, pressed, holderInput, strikes>>

ReturnToGui ==
    /\ using = "return" /\ using' = "none" /\ guiMutex' = FALSE /\ event' = "none"
    /\ UNCHANGED <<ownerVars, answered, pressed, holderInput, strikes>>
-----------------------------------------------------------------------------
HolderNext ==
    \/ AllocHolder \/ SetView \/ EnterView \/ EnableHolder \/ Answered \/ DrainHolder
    \/ ExitView \/ UnsetView \/ DisableHolder \/ RemoveHolder \/ FreeHolder \/ FreeHeld
    \/ TakeHolderDraw \/ ReadView \/ CallView \/ ReturnToGui
    \/ \E k \in HolderKeys : TakeHolderInput(k)
HolderSpec == HolderInit /\ [][HolderNext]_holderVars
-----------------------------------------------------------------------------
HolderTypeOK ==
    /\ owning \in {"alloc", "set", "enter", "enable", "answer", "drain", "exit",
                   "unset", "disable", "remove", "free", "freeView"}
    /\ allocated \subseteq {"holder", "view"}
    /\ {entered, shown, portOn, attached, guiMutex, answered} \subseteq BOOLEAN
    /\ using \in {"none", "holder", "view", "callback", "return"}
    /\ pressed \subseteq HolderKeys /\ holderInput \subseteq HolderKeys /\ strikes \in Nat
    /\ event \in {"none", "Press", "Release", "Short", "Draw"}

(* Whatever the GUI thread is using has not been freed, though the keys are *)
(* polled without a lock: a press after the poll of view_holder_set_view    *)
(* finds the view gone, or holds the mutex until the view has done with it. *)
(* And a view is not used before it was entered.                            *)
NotYetEntered == owning \in {"set", "enter"}
UseSafe ==
    /\ HolderTypeOK
    /\ using # "none" => guiMutex /\ allocated = {"holder", "view"} /\ ~ NotYetEntered
    /\ attached => "holder" \in allocated
=============================================================================
