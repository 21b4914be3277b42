--------------------------- MODULE ViewDispatcher ---------------------------
(***************************************************************************)
(* A view dispatcher between two threads: the GUI thread draws its current *)
(* view and puts the events of its view port in a queue, the application   *)
(* takes them, gives them to views, switches views, and at the end removes *)
(* and frees them.                                                         *)
(*                                                                         *)
(* A step of the application is one callback of its event loop, or what it *)
(* does between two operations on the mutex of the GUI.  No view of the    *)
(* program is of another orientation, so the rotation of the port is left  *)
(* out; types of events other than press and release are one, "Other".     *)
(***************************************************************************)
EXTENDS Naturals, Sequences, SequencesExt, FiniteSets

CONSTANTS
    Keys,        (* physical keys                                           *)
    Views,       (* the views of the application                            *)
    None,        (* no view: NULL                                           *)
    QueueLen,    (* VIEW_DISPATCHER_QUEUE_LEN                               *)
    MaxPresses   (* bound: presses of keys                                  *)

ASSUME DispatcherAssumption ==
    /\ IsFiniteSet(Keys) /\ Views # {} /\ None \notin Views
    /\ QueueLen \in Nat \ {0} /\ MaxPresses \in Nat

Events == [key : Keys, type : {"Press", "Release", "Other"}]

VARIABLES
    down,        (* keys held, gui->ongoing_input                           *)
    letGo,       (* keys let go, whose release the GUI has not taken        *)
    presses,     (* presses so far                                          *)
    ours,        (* gui->ongoing_input_view_port is the port of this one    *)
    enabled,     (* view_port->is_enabled; no other port is on top          *)
    mutex,       (* holder of gui->mutex: "none", "gui" or "app"            *)
    routed,      (* the event in view_dispatcher_input_callback, or none    *)
    redraw,      (* a redraw was asked for                                  *)
    drawn,       (* the view in view_dispatcher_draw_callback, or None      *)
    inputs,      (* input_queue                                             *)
    app,         (* "run", "drain", "end", "remove" or "free"               *)
    views,       (* views registered                                        *)
    alive,       (* views allocated                                         *)
    removing,    (* the view that is being removed and freed                *)
    current,     (* current_view                                            *)
    target,      (* ongoing_input_view                                      *)
    ongoing,     (* ongoing_input                                           *)
    seen         (* history: keys a view saw pressed and not released       *)

keysSide == <<down, letGo, presses, ours>>
guiSide == <<keysSide, routed, drawn>>
appSide == <<app, views, alive, removing>>
inputSide == <<current, target, ongoing, seen, enabled, redraw>>
dispatcherVars == <<guiSide, mutex, inputs, appSide, inputSide>>

DispatcherInit ==
    /\ down = {} /\ letGo = {} /\ presses = 0 /\ ours = FALSE /\ mutex = "none"
    /\ routed = <<>> /\ drawn = None /\ inputs = <<>>
    /\ app = "run" /\ views = Views /\ alive = Views /\ removing = None
    /\ current \in Views /\ target = None /\ ongoing = {}
    /\ enabled = TRUE /\ redraw = TRUE
    /\ seen = [v \in Views |-> {}]
-----------------------------------------------------------------------------
(* The GUI thread.  gui_input: the first press binds all the keys that are  *)
(* held to the port on top; a port that is not on top gets releases only.   *)
Taken(e, isOurs) ==
    /\ mutex = "none" /\ ours' = isOurs
    /\ IF isOurs /\ (enabled \/ e.type = "Release")
       THEN routed' = <<e>> /\ mutex' = "gui"
       ELSE UNCHANGED <<routed, mutex>>
    /\ UNCHANGED <<drawn, inputs, appSide, inputSide>>

TakePress(k) ==
    /\ k \notin down /\ presses < MaxPresses
    /\ down' = down \cup {k} /\ presses' = presses + 1 /\ UNCHANGED letGo
    /\ Taken([key |-> k, type |-> "Press"], IF down = {} THEN enabled ELSE ours)

TakeOther(k) ==
    /\ k \in down \ letGo /\ UNCHANGED <<down, letGo, presses>>
    /\ Taken([key |-> k, type |-> "Other"], ours)

TakeRelease(k) ==
    /\ k \in letGo /\ letGo' = letGo \ {k} /\ down' = down \ {k} /\ UNCHANGED presses
    /\ Taken([key |-> k, type |-> "Release"], ours)

LetGo(k) ==
    /\ k \in down \ letGo /\ letGo' = letGo \cup {k}
    /\ UNCHANGED <<down, presses, ours, routed, drawn, mutex, inputs, appSide, inputSide>>

PutInput ==
    /\ routed # <<>> /\ Len(inputs) < QueueLen
    /\ inputs' = inputs \o routed /\ routed' = <<>> /\ mutex' = "none"
    /\ UNCHANGED <<keysSide, drawn, appSide, inputSide>>

DrawBegin ==
    /\ mutex = "none" /\ redraw /\ redraw' = FALSE
    /\ enabled /\ current # None
    /\ mutex' = "gui" /\ drawn' = current
    /\ UNCHANGED <<keysSide, routed, inputs, appSide, current, target, ongoing, seen, enabled>>

DrawEnd ==
    /\ drawn # None /\ drawn' = None /\ mutex' = "none"
    /\ UNCHANGED <<keysSide, routed, inputs, appSide, inputSide>>
-----------------------------------------------------------------------------
(* The application.  What a view or a scene makes of an event may switch to *)
(* another view, or stop the loop.                                          *)
Held(e) ==
    CASE e.type = "Press"   -> ongoing \cup {e.key}
      [] e.type = "Release" -> ongoing \ {e.key}
      [] OTHER              -> ongoing

FaultBound(e) == IF e.type = "Press" THEN current ELSE target
Bound(e) ==
    IF e.type = "Press" /\ ongoing \subseteq {e.key} THEN current ELSE target

Shown(v, e) ==
    seen' = [seen EXCEPT ![v] = CASE e.type = "Press"   -> @ \cup {e.key}
                                  [] e.type = "Release" -> @ \ {e.key}
                                  [] OTHER              -> @]

HandleInput ==
    /\ app = "run" /\ inputs # <<>> /\ inputs' = Tail(inputs)
    /\ LET e == Head(inputs)
       IN  /\ ongoing' = Held(e)
           /\ IF e.type = "Other" /\ e.key \notin ongoing
              THEN UNCHANGED <<app, current, target, seen, redraw>>
              ELSE /\ target' = Bound(e)
                   /\ \/ target' = current /\ Shown(current, e)
                         /\ \/ UNCHANGED <<app, current>>
                            \/ e.type = "Other" /\ current' \in views /\ UNCHANGED app
                            \/ e.type = "Other" /\ app' = "drain" /\ UNCHANGED current
                         /\ redraw' = (redraw \/ current' # current)
                      \/ /\ target' # current
                         /\ IF target' # None /\ e.type = "Release"
                            THEN Shown(target, e) ELSE UNCHANGED seen
                         /\ UNCHANGED <<app, current, redraw>>
    /\ UNCHANGED <<guiSide, mutex, views, alive, removing, enabled>>

(* A custom event: a callback of the application switches the view.         *)
HandleCustom ==
    /\ app = "run" /\ current' \in views /\ redraw' = TRUE
    /\ UNCHANGED <<guiSide, mutex, inputs, appSide, target, ongoing, seen, enabled>>

(* The end of view_dispatcher_run: keys that are held are waited for.       *)
FaultDrainInput ==
    /\ app = "drain"
    /\ IF ongoing = {} THEN app' = "end" /\ UNCHANGED <<inputs, ongoing>>
       ELSE /\ inputs # <<>> /\ inputs' = Tail(inputs) /\ UNCHANGED app
            /\ ongoing' = ongoing \cup {Head(inputs).key}
    /\ UNCHANGED <<guiSide, mutex, views, alive, removing, current, target, seen, enabled, redraw>>
DrainInput ==
    /\ app = "drain"
    /\ IF ongoing = {} THEN app' = "end" /\ UNCHANGED <<inputs, ongoing>>
       ELSE /\ inputs # <<>> /\ inputs' = Tail(inputs) /\ UNCHANGED app
            /\ ongoing' = Held(Head(inputs))
    /\ UNCHANGED <<guiSide, mutex, views, alive, removing, current, target, seen, enabled, redraw>>

(* view_dispatcher_remove_view, under the mutex, and the end of the view.   *)
FaultRemoveLock(v) ==
    /\ app = "end" /\ v \in views /\ app' = "remove" /\ removing' = v
    /\ UNCHANGED <<guiSide, mutex, inputs, views, alive, inputSide>>
RemoveLock(v) ==
    /\ app = "end" /\ v \in views /\ app' = "remove" /\ removing' = v
    /\ mutex = "none" /\ mutex' = "app"
    /\ UNCHANGED <<guiSide, inputs, views, alive, inputSide>>

RemoveView ==
    /\ app = "remove" /\ app' = "free" /\ mutex' = "none"
    /\ views' = views \ {removing}
    /\ current' = IF current = removing THEN None ELSE current
    /\ enabled' = (enabled /\ current # removing)
    /\ redraw' = (redraw \/ current = removing)
    /\ target' = IF target = removing THEN None ELSE target
    /\ UNCHANGED <<guiSide, inputs, alive, removing, ongoing, seen>>

FreeView ==
    /\ app = "free" /\ app' = "end"
    /\ alive' = alive \ {removing} /\ removing' = None
    /\ UNCHANGED <<guiSide, mutex, inputs, views, inputSide>>
-----------------------------------------------------------------------------
GuiThread == PutInput \/ DrawEnd
Application == HandleInput \/ DrainInput \/ RemoveView \/ FreeView
DispatcherNext ==
    \/ GuiThread \/ DrawBegin \/ Application \/ HandleCustom
    \/ \E k \in Keys : TakePress(k) \/ TakeOther(k) \/ LetGo(k) \/ TakeRelease(k)
    \/ \E v \in Views : RemoveLock(v)

(* Every key is let go in the end, and the GUI thread takes each event.     *)
DispatcherFairness ==
    /\ WF_dispatcherVars(GuiThread) /\ WF_dispatcherVars(Application)
    /\ WF_dispatcherVars(\E k \in Keys : TakeRelease(k))
    /\ \A k \in Keys : WF_dispatcherVars(LetGo(k))
DispatcherSpec == DispatcherInit /\ [][DispatcherNext]_dispatcherVars
-----------------------------------------------------------------------------
DispatcherTypeOK ==
    /\ letGo \subseteq down /\ down \subseteq Keys /\ presses \in Nat
    /\ {ours, enabled, redraw} \subseteq BOOLEAN
    /\ mutex \in {"none", "gui", "app"}
    /\ routed \in Seq(Events) /\ Len(routed) <= 1
    /\ inputs \in Seq(Events) /\ Len(inputs) <= QueueLen
    /\ app \in {"run", "drain", "end", "remove", "free"}
    /\ views \subseteq Views /\ alive \subseteq Views
    /\ {removing, current, target, drawn} \subseteq Views \cup {None}
    /\ ongoing \subseteq Keys /\ seen \in [Views -> SUBSET Keys]

(* No freed view is drawn, though switching takes no lock: the GUI thread   *)
(* may still draw the view before the last, and only the mutex in           *)
(* view_dispatcher_remove_view holds its removal back.  No pointer to a     *)
(* removed view is left in the dispatcher.                                  *)
ViewsAlive ==
    /\ DispatcherTypeOK
    /\ {drawn, current, target} \subseteq alive \cup {None}
    /\ drawn # None => mutex = "gui" /\ drawn \in views
    /\ {current, target} \subseteq views \cup {None}

(* A view that saw a key go down will see it go up, whatever views were     *)
(* switched and keys pressed in between: the release is still to be made,   *)
(* on its way, or in the queue, and will be given to that view.             *)
OnItsWay(k) ==
    \/ k \in down /\ ours
    \/ Contains(inputs \o routed, [key |-> k, type |-> "Release"])
Balanced ==
    app = "run" =>
        \A v \in Views : \A k \in seen[v] : target = v /\ k \in ongoing /\ OnItsWay(k)

(* view_dispatcher_run comes back once the keys are let go: what it waits   *)
(* for is never lost, though the port may be disabled or keys still pressed.*)
RunReturns == app = "drain" ~> app = "end"
=============================================================================
