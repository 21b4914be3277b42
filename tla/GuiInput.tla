------------------------------ MODULE GuiInput ------------------------------
(***************************************************************************)
(* The path of an input event through the GUI service while dialogs come   *)
(* and go.  Three threads: the GUI thread takes events from its queue and, *)
(* under the GUI mutex, hands each to a view port; the application takes   *)
(* events from the bounded queue of its view dispatcher and, in the About  *)
(* scene, waits for one dialog after the other; the dialogs thread shows a *)
(* dialog and answers.  The view port of a view holder is called in place, *)
(* the one of the application by a blocking put.                           *)
(*                                                                         *)
(* View port mutexes are left out: nothing blocks while it holds one, but  *)
(* the put, where the GUI mutex is held as well.  Faults are Fault...      *)
(***************************************************************************)
EXTENDS Naturals, Sequences, FiniteSets, SequencesExt

CONSTANTS
    Keys,            (* input keys: Ok opens About, the others end a dialog *)
    InputQueueSize,  (* capacity of the GUI's input queue                   *)
    AppQueueSize,    (* VIEW_DISPATCHER_QUEUE_LEN                           *)
    MaxPresses       (* bound: presses                                      *)

ASSUME GuiInputAssumption ==
    /\ {"Ok", "Back"} \subseteq Keys
    /\ InputQueueSize \in Nat \ {0, 1} /\ AppQueueSize \in Nat \ {0}
    /\ MaxPresses \in Nat

VARIABLES
    held,        (* keys pressed and not let go                             *)
    presses,     (* presses so far                                          *)
    inputQueue,  (* gui->input_queue                                        *)
    gpc,         (* the GUI thread: "take", "route" or "deliver"            *)
    event,       (* the event it took                                       *)
    target,      (* the view port it delivers to                            *)
    ongoing,     (* gui->ongoing_input                                      *)
    ongoingPort, (* gui->ongoing_input_view_port                            *)
    holder,      (* holder of gui->mutex: the GUI thread or nobody          *)
    layer,       (* gui->layers[GuiLayerFullscreen], the top one last       *)
    enabled,     (* view ports with is_enabled                              *)
    told,        (* keys whose Press a view port got and not their Release: *)
                 (* ongoing_input of a view holder, history of the app's    *)
    appQueue,    (* view_dispatcher->input_queue                            *)
    apc,         (* program counter of the application                      *)
    selected,    (* custom events that wait to open About                   *)
    dpc,         (* program counter of the dialogs thread                   *)
    result       (* the dialog's result, once there is one                  *)

environment == <<held, presses>>
gui == <<gpc, event, target, ongoing, ongoingPort, holder>>
ports == <<layer, enabled>>
application == <<apc, selected>>
dialogs == <<dpc, result>>
vars == <<environment, inputQueue, gui, ports, told, appQueue, application, dialogs>>

Ports == {"app", "about", "dialog"}
Types == {"Press", "Short", "Release"}
Events == [key : Keys, type : Types]
NoEvent == [key |-> "none", type |-> "none"]
-----------------------------------------------------------------------------
Init ==
    /\ held = {} /\ presses = 0 /\ inputQueue = <<>>
    /\ gpc = "take" /\ event = NoEvent /\ target = "none"
    /\ ongoing = {} /\ ongoingPort = "none" /\ holder = "free"
    /\ layer = <<"app">> /\ enabled = {"app"} /\ told = [p \in Ports |-> {}]
    /\ appQueue = <<>> /\ apc = "loop" /\ selected = 0
    /\ dpc = "idle" /\ result = "none"

(* The input service publishes; it waits for room in the queue.             *)
InputRoom(n) == Len(inputQueue) + n <= InputQueueSize

Press(k) ==
    /\ k \notin held /\ presses < MaxPresses /\ InputRoom(1)
    /\ held' = held \cup {k} /\ presses' = presses + 1
    /\ inputQueue' = Append(inputQueue, [key |-> k, type |-> "Press"])
    /\ UNCHANGED <<gui, ports, told, appQueue, application, dialogs>>

LetGo(k) ==
    /\ k \in held /\ InputRoom(2)
    /\ held' = held \ {k}
    /\ inputQueue' = inputQueue \o <<[key |-> k, type |-> "Short"], [key |-> k, type |-> "Release"]>>
    /\ UNCHANGED <<presses, gui, ports, told, appQueue, application, dialogs>>
-----------------------------------------------------------------------------
(* gui_input.  A Short of a key that is not held is discarded.              *)
GuiTake ==
    /\ gpc = "take" /\ inputQueue # <<>>
    /\ LET e == Head(inputQueue)
       IN  /\ ongoing' = CASE e.type = "Release" -> ongoing \ {e.key}
                           [] e.type = "Press" -> ongoing \cup {e.key}
                           [] e.type = "Short" -> ongoing
           /\ IF e.type = "Short" /\ e.key \notin ongoing
              THEN UNCHANGED <<gpc, event>>
              ELSE gpc' = "route" /\ event' = e
    /\ inputQueue' = Tail(inputQueue)
    /\ UNCHANGED <<environment, target, ongoingPort, holder, ports, told, appQueue, application,
                   dialogs>>

(* gui_view_port_find_enabled on the layer.                                 *)
TopPort ==
    LET Top(i) == layer[i] \in enabled /\ \A j \in i + 1 .. Len(layer) : layer[j] \notin enabled
    IN  IF \E i \in 1 .. Len(layer) : Top(i)
        THEN layer[CHOOSE i \in 1 .. Len(layer) : Top(i)]
        ELSE "none"

(* The port of the first press keeps the input until every key is let go.   *)
FaultFirst(e) == e.type = "Press"
First(e) == e.type = "Press" /\ ongoing \subseteq {e.key}

(* To the port on top if it has the input, a Release to the one that has.   *)
Recipient(e, owner) == IF TopPort = owner \/ e.type = "Release" THEN owner ELSE "none"

GuiRoute ==
    /\ gpc = "route" /\ holder = "free"
    /\ LET owner == IF First(event) THEN TopPort ELSE ongoingPort
           to == Recipient(event, owner)
       IN  /\ ongoingPort' = owner
           /\ IF to = "none"
              THEN gpc' = "take" /\ event' = NoEvent /\ UNCHANGED <<target, holder>>
              ELSE gpc' = "deliver" /\ target' = to /\ holder' = "gui" /\ UNCHANGED event
    /\ UNCHANGED <<environment, inputQueue, ongoing, ports, told, appQueue, application, dialogs>>

Told(p, e) ==
    told' = [told EXCEPT ![p] = CASE e.type = "Press" -> @ \cup {e.key}
                                  [] e.type = "Release" -> @ \ {e.key}
                                  [] e.type = "Short" -> @]

Room == Len(appQueue) < AppQueueSize

(* gui_unlock at the end of gui_input.                                      *)
FaultUnlock(e) == holder' = IF e.type = "Release" THEN holder ELSE "free"
Unlock(e) == holder' = "free"

(* Under the mutex: a put that waits for room, or the view holder's         *)
(* callback, which ends a dialog on a Short of a key it was pressed with.   *)
GuiDeliver ==
    /\ gpc = "deliver"
    /\ \/ /\ target = "app" /\ Room
          /\ appQueue' = Append(appQueue, event)
          /\ UNCHANGED result
       \/ /\ target # "app" /\ UNCHANGED appQueue
          /\ result' = IF target = "dialog" /\ event.type = "Short" /\ event.key # "Ok"
                             /\ event.key \in told["dialog"]
                          THEN event.key ELSE result
    /\ Told(target, event) /\ Unlock(event)
    /\ gpc' = "take" /\ event' = NoEvent /\ target' = "none"
    /\ UNCHANGED <<environment, inputQueue, ongoing, ongoingPort, ports, application, dpc>>
-----------------------------------------------------------------------------
(* A view holder h: attached, given a view, relieved of it once no key is   *)
(* held in it, and freed.                                                   *)
AttachPort(h) ==
    /\ holder = "free"
    /\ layer' = Append(layer, h)
    /\ told' = [told EXCEPT ![h] = {}]
    /\ UNCHANGED <<enabled, gui>>

EnablePort(h) == enabled' = enabled \cup {h} /\ UNCHANGED <<layer, told, gui>>

Drained(h) == told[h] = {}

DisablePort(h) == enabled' = enabled \ {h} /\ UNCHANGED <<layer, told, gui>>

FaultRemovePort(h) ==
    /\ holder = "free"
    /\ \E i \in 1 .. Len(layer) : layer[i] = h /\ layer' = RemoveAt(layer, i)
    /\ UNCHANGED <<enabled, told, gui>>
RemovePort(h) ==
    /\ holder = "free"
    /\ \E i \in 1 .. Len(layer) : layer[i] = h /\ layer' = RemoveAt(layer, i)
    /\ ongoingPort' = IF ongoingPort = h THEN "none" ELSE ongoingPort
    /\ UNCHANGED <<enabled, told, gpc, event, target, ongoing, holder>>

(* What an action of the application, or of the dialogs thread, leaves.     *)
NotApp == UNCHANGED <<environment, inputQueue, dialogs>>
NotDialogs == UNCHANGED <<environment, inputQueue, appQueue, application>>
-----------------------------------------------------------------------------
(* The dispatcher handles an event; Ok may choose the item that posts the   *)
(* custom event of About, whose scene runs in the thread of the loop.       *)
AppTake ==
    /\ apc = "loop" /\ appQueue # <<>>
    /\ appQueue' = Tail(appQueue)
    /\ \/ UNCHANGED selected
       \/ Head(appQueue) = [key |-> "Ok", type |-> "Short"] /\ selected' = selected + 1
    /\ UNCHANGED <<apc, gui, ports, told>> /\ NotApp

AppEnter ==
    /\ apc = "loop" /\ selected > 0 /\ selected' = selected - 1
    /\ apc' = "attach"
    /\ UNCHANGED <<appQueue, gui, ports, told>> /\ NotApp

(* view_holder_attach_to_gui.                                               *)
AppAttach ==
    /\ apc = "attach" /\ apc' = "show"
    /\ AttachPort("about")
    /\ UNCHANGED <<selected, appQueue>> /\ NotApp

AppShow ==
    /\ apc = "show" /\ apc' = "ask"
    /\ EnablePort("about")
    /\ UNCHANGED <<selected, appQueue>> /\ NotApp

(* dialog_message_show: a message to the dialogs thread, and the answer.    *)
AppAsk ==
    /\ apc = "ask" /\ apc' = "wait"
    /\ dpc' = "attach" /\ result' = "none"
    /\ UNCHANGED <<environment, inputQueue, selected, appQueue, gui, ports, told>>

AppAnswered ==
    /\ apc = "wait" /\ dpc = "answered" /\ dpc' = "idle"
    /\ apc' = IF result = "Back" THEN "drain" ELSE "ask"
    /\ UNCHANGED <<environment, inputQueue, result, selected, appQueue, gui, ports, told>>

AppDrain ==
    /\ apc = "drain" /\ Drained("about") /\ apc' = "hide"
    /\ UNCHANGED <<selected, appQueue, gui, ports, told>> /\ NotApp

AppHide ==
    /\ apc = "hide" /\ apc' = "remove"
    /\ DisablePort("about")
    /\ UNCHANGED <<selected, appQueue>> /\ NotApp

AppRemove ==
    /\ apc = "remove" /\ apc' = "loop"
    /\ RemovePort("about")
    /\ UNCHANGED <<selected, appQueue>> /\ NotApp

(* dialogs_app_process_module_message.                                      *)
DialogAttach == dpc = "attach" /\ dpc' = "show" /\ AttachPort("dialog") /\ UNCHANGED result /\ NotDialogs
DialogShow == dpc = "show" /\ dpc' = "open" /\ EnablePort("dialog") /\ UNCHANGED result /\ NotDialogs

DialogResult ==
    /\ dpc = "open" /\ result # "none" /\ dpc' = "drain"
    /\ UNCHANGED <<result, gui, ports, told>> /\ NotDialogs

DialogDrain ==
    /\ dpc = "drain" /\ Drained("dialog") /\ dpc' = "hide"
    /\ UNCHANGED <<result, gui, ports, told>> /\ NotDialogs

DialogHide == dpc = "hide" /\ dpc' = "remove" /\ DisablePort("dialog") /\ UNCHANGED result /\ NotDialogs
FaultDialogRemove ==
    dpc = "remove" /\ dpc' = "answered" /\ UNCHANGED <<gui, ports, told, result>> /\ NotDialogs
DialogRemove ==
    dpc = "remove" /\ dpc' = "answered" /\ RemovePort("dialog") /\ UNCHANGED result /\ NotDialogs
-----------------------------------------------------------------------------
Gui == GuiTake \/ GuiRoute \/ GuiDeliver
App ==
    \/ AppTake \/ AppEnter \/ AppAttach \/ AppShow \/ AppAsk \/ AppAnswered \/ AppDrain \/ AppHide
    \/ AppRemove
Dialogs ==
    DialogAttach \/ DialogShow \/ DialogResult \/ DialogDrain \/ DialogHide \/ DialogRemove
Next == Gui \/ App \/ Dialogs \/ \E k \in Keys : Press(k) \/ LetGo(k)

Spec == Init /\ [][Next]_vars
(* Threads of equal priority share the processor, and who holds a key lets  *)
(* it go.                                                                   *)
FairSpec ==
    /\ Spec /\ WF_vars(Gui) /\ WF_vars(App) /\ WF_vars(Dialogs)
    /\ \A k \in Keys : WF_vars(LetGo(k))
-----------------------------------------------------------------------------
TypeOK ==
    /\ held \subseteq Keys /\ presses \in 0 .. MaxPresses
    /\ inputQueue \in Seq(Events) /\ Len(inputQueue) <= InputQueueSize
    /\ gpc \in {"take", "route", "deliver"} /\ event \in (IF gpc = "take" THEN {NoEvent} ELSE Events)
    /\ target \in Ports \cup {"none"} /\ ongoing \subseteq Keys
    /\ ongoingPort \in Ports \cup {"none"} /\ holder \in {"free", "gui"}
    /\ layer \in Seq(Ports) /\ enabled \subseteq Ports /\ told \in [Ports -> SUBSET Keys]
    /\ appQueue \in Seq(Events) /\ Len(appQueue) <= AppQueueSize
    /\ apc \in {"loop", "attach", "show", "ask", "wait", "drain", "hide", "remove"} /\ selected \in Nat
    /\ dpc \in {"idle", "attach", "show", "open", "drain", "hide", "remove", "answered"}
    /\ result \in (Keys \ {"Ok"}) \cup {"none"}

(* view_port.c:225 checks that the port still belongs to a GUI: the port of *)
(* the ongoing input is forgotten when it is removed, so none is called     *)
(* after its dialog was torn down.                                          *)
TargetAttached == gpc = "deliver" => target \in ToSet(layer)

(* A view port that got a Press gets the Release, whatever port is on top   *)
(* by then: only the port of the ongoing input waits for one, and only of   *)
(* keys that are down.  A view holder would never close otherwise.          *)
PortsBalanced ==
    \A p \in ToSet(layer) :
        told[p] # {} => p = ongoingPort /\ told[p] \subseteq ongoing \cup {event.key}

(* Back in its loop the application has the screen for itself, and while a  *)
(* dialog may be on the screen it waits for the answer.                     *)
ScreenRestored ==
    /\ apc = "loop" => layer = <<"app">> /\ enabled = {"app"}
    /\ "dialog" \in ToSet(layer) \cup enabled => apc = "wait"

(* Every event leaves the GUI thread, as long as the application's queue    *)
(* has room for what comes in while it shows a dialog.                      *)
GuiComesBack == (gpc # "take") ~> (gpc = "take")

(* Screens that were answered close, whatever was held when they opened:    *)
(* the key that a view holder waits for is reported to it.                  *)
ScreensClose ==
    /\ (dpc = "drain") ~> (dpc = "idle")
    /\ (apc = "drain") ~> (apc = "loop")

(* Neither the GUI thread nor an answered screen waits for ever.            *)
NothingHangs == GuiComesBack /\ ScreensClose

(* gui.c:561, of the loop that gives events to gui_input: "Process till     *)
(* queue become empty".  It is not while the GUI thread, with the mutex,    *)
(* waits for room in the queue of an application that waits for that mutex, *)
(* or for a dialog that needs it: releases of keys that the application was *)
(* told of fill its queue while it shows About, and no event is processed   *)
(* any more.                                                                *)
ProcessedTillEmpty == (inputQueue # <<>>) ~> (inputQueue = <<>>)
=============================================================================
