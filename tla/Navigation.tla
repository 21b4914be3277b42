------------------------------ MODULE Navigation ------------------------------
(***************************************************************************)
(* The thread of the dashboard application: its view dispatcher, which     *)
(* gives input events to the view shown, its custom event queue, its scene *)
(* manager, and the scenes that open one another.  Views answer Ok by a    *)
(* custom event to their own thread, so inputs may be handled between what *)
(* a user chose and the handler of the scene.  Both queues are objects of  *)
(* one event loop, which serves them in the order of its waiting list.     *)
(*                                                                         *)
(* Left and up, the page of the dashboard, the backlight and the page of   *)
(* About are left out.  The GUI gives or withholds events while About      *)
(* covers the application (GuiInput).  Faults are Fault...                 *)
(***************************************************************************)
EXTENDS Naturals, Sequences, FiniteSets, SequencesExt

CONSTANTS
    Ids,         (* CAN ids on the bus                                      *)
    QueueLength  (* VIEW_DISPATCHER_QUEUE_LEN                               *)

ASSUME NavigationAssumption ==
    /\ Ids \subseteq Nat /\ IsFiniteSet(Ids)
    /\ QueueLength \in Nat \ {0, 1}

VARIABLES
    phase,     (* of each key: "up", "down", "clicked" or "long"            *)
    shown,     (* keys whose Press the GUI gave to the application          *)
    inputs,    (* view_dispatcher->input_queue                              *)
    events,    (* view_dispatcher->event_queue, with sender and choice      *)
    waiting,   (* waiting list of the event loop                            *)
    pc,        (* the thread: "wait", "about", or the key about to send     *)
    held,      (* view_dispatcher->ongoing_input                            *)
    target,    (* view_dispatcher->ongoing_input_view                       *)
    pressedIn, (* the view that got the Press of a key and not its Release  *)
    app        (* scenes, current view and what the scenes keep             *)

keys == <<phase, shown>>
dispatcher == <<held, target, pressedIn>>
vars == <<keys, inputs, events, waiting, pc, dispatcher, app>>

Encoders == {"right", "down"}
Keys == {"ok", "back"} \cup Encoders
Types == {"Press", "Short", "Long", "Repeat", "Release"}
(* DashboardAppCustomEvent, and InputKeyOk that the dashboard view sends.   *)
CanIdSelected == 1
MenuSelected == 2
SettingsSelected == 3
FaultKeyNumber == [down |-> 0, right |-> 1, ok |-> 2, back |-> 3]
KeyNumber == [down |-> 1, right |-> 2, ok |-> 4, back |-> 5]

ViewOf == [Dashboard |-> "dashboard", Menu |-> "menu", Canbus |-> "canbusSubmenu",
           CanbusDetail |-> "canbus", Settings |-> "submenu", SettingsLcd |-> "list",
           SettingsAbout |-> "submenu"]
Scenes == DOMAIN ViewOf
Views == {ViewOf[s] : s \in Scenes}
-----------------------------------------------------------------------------
(* The scenes.  a is the state of the application.  A snapshot of the table *)
(* of the CAN worker is sorted by id; frames come at any time, and no id    *)
(* leaves the table.                                                        *)
Top(a) == Last(a.scenes)
Snapshots ==
    {items \in UNION {[1 .. n -> Ids] : n \in 0 .. Cardinality(Ids)} :
        /\ \A i, j \in DOMAIN items : i < j => items[i] < items[j]
        /\ ToSet(app.items) \subseteq ToSet(items)}

(* Without messages the submenu has one item, with number 0.                *)
SelectedId(a) == IF a.items = <<>> THEN 0 ELSE a.items[a.canbus + 1]

FaultRebuilt(a, items, id) == [a EXCEPT !.items = items]
Rebuilt(a, items, id) ==
    [a EXCEPT !.items = items,
              !.canbus = IF Contains(items, id) THEN (CHOOSE n \in 1 .. Len(items) : items[n] = id) - 1
                         ELSE 0]

(* view_dispatcher_switch_to_view                                           *)
Showing(a, s) == [a EXCEPT !.view = ViewOf[s]]

MenuOnEnter(a) == Showing([a EXCEPT !.menu = a.state.Menu], "Menu")
MenuOnExit(a) == [a EXCEPT !.state.Menu = a.menu, !.menu = 0]
SettingsOnEnter(a) == Showing([a EXCEPT !.settings = a.state.Settings], "Settings")
SettingsOnExit(a) == [a EXCEPT !.state.Settings = a.settings]
FaultCanbusOnEnter(a, items) == Rebuilt(a, items, a.state.Canbus)
CanbusOnEnter(a, items) == Showing(Rebuilt(a, items, a.state.Canbus), "Canbus")
CanbusOnExit(a) == [a EXCEPT !.state.Canbus = SelectedId(a)]

OnExit(a, s) ==
    CASE s = "Menu" -> MenuOnExit(a) [] s = "Settings" -> SettingsOnExit(a)
      [] s = "Canbus" -> CanbusOnExit(a) [] OTHER -> a

(* About runs its dialogs in its on_enter and switches to no view.          *)
OnEnter(a, s, items) ==
    CASE s = "Menu" -> MenuOnEnter(a) [] s = "Settings" -> SettingsOnEnter(a)
      [] s = "Canbus" -> CanbusOnEnter(a, items) [] s = "SettingsAbout" -> a
      [] OTHER -> Showing(a, s)

NextScene(a, s, items) ==
    OnEnter([OnExit(a, Top(a)) EXCEPT !.scenes = Append(@, s)], s, items)
PreviousScene(a, items) ==
    LET back == [a EXCEPT !.scenes = Front(@)]
    IN  OnEnter(OnExit(back, Top(a)), Top(back), items)

(* Where the scene on top goes on a custom event: to a scene above it, back *)
(* to the one below, or nowhere.                                            *)
MenuGoal(a) == <<"below", "Canbus", "Settings">>[a.state.Menu + 1]
SettingsGoal(a) == <<"SettingsLcd", "SettingsAbout">>[a.state.Settings + 1]
Goal(a, code) ==
    CASE Top(a) = "Dashboard" /\ code = KeyNumber.ok -> "Menu"
      [] Top(a) = "Menu" /\ code = MenuSelected -> MenuGoal(a)
      [] Top(a) = "Settings" /\ code = SettingsSelected -> SettingsGoal(a)
      [] Top(a) = "Canbus" /\ code = CanIdSelected -> "CanbusDetail"
      [] OTHER -> "none"

OnCustom(a, code, items) ==
    LET goal == Goal(a, code)
        kept == IF goal = "CanbusDetail" THEN [a EXCEPT !.state.Canbus = a.id] ELSE a
    IN  CASE goal = "none" -> a
          [] goal = "below" -> PreviousScene(a, items)
          [] OTHER -> NextScene(kept, goal, items)

(* The dashboard consumes Back, every other scene is left.                  *)
OnBack(a, items) == IF Top(a) = "Dashboard" THEN a ELSE PreviousScene(a, items)
-----------------------------------------------------------------------------
(* The views.                                                               *)
Step(at, count) == IF at + 1 < count THEN at + 1 ELSE 0
MenuMoved(a, i) == IF i.key = "right" THEN [a EXCEPT !.menu = Step(@, 3)] ELSE a
SubmenuMoved(a, v, i) ==
    IF i.key # "down" THEN a
    ELSE IF v = "submenu" THEN [a EXCEPT !.settings = Step(@, 2)]
    ELSE [a EXCEPT !.canbus = Step(@, IF a.items = <<>> THEN 1 ELSE Len(a.items))]
Moved(a, v, i) ==
    IF i.type \notin {"Short", "Repeat"} THEN a
    ELSE CASE v = "menu" -> MenuMoved(a, i)
           [] v \in {"submenu", "canbusSubmenu"} -> SubmenuMoved(a, v, i)
           [] OTHER -> a

(* The view has a callback that sends an event, and the number it sends.    *)
Sends(a, v, i) ==
    /\ i.key = "ok"
    /\ \/ v = "dashboard" /\ i.type \in {"Short", "Repeat"}
       \/ v \in {"menu", "submenu"} /\ i.type = "Short"
       \/ v = "canbusSubmenu" /\ i.type = "Short" /\ a.items # <<>>

Number(v, key) ==
    CASE v = "dashboard" -> KeyNumber[key] [] v = "menu" -> MenuSelected
      [] v = "submenu" -> SettingsSelected [] v = "canbusSubmenu" -> CanIdSelected

(* The choice the cursor is on, and what the callback stores of it before   *)
(* it sends the event.                                                      *)
Choice(a, v) ==
    CASE v = "menu" -> a.menu [] v = "submenu" -> a.settings
      [] v = "canbusSubmenu" -> SelectedId(a) [] OTHER -> 0
Chosen(a, v) ==
    CASE v = "menu" -> [a EXCEPT !.state.Menu = a.menu]
      [] v = "submenu" -> [a EXCEPT !.state.Settings = a.settings]
      [] v = "canbusSubmenu" -> [a EXCEPT !.id = SelectedId(a)]
      [] OTHER -> a
-----------------------------------------------------------------------------
Init ==
    /\ phase = [k \in Keys |-> "up"] /\ shown = {}
    /\ inputs = <<>> /\ events = <<>> /\ waiting = <<>> /\ pc = "wait"
    /\ held = {} /\ target = "none" /\ pressedIn = [k \in Keys |-> "none"]
    /\ app = [scenes |-> <<"Dashboard">>, view |-> "dashboard",
               state |-> [Menu |-> 0, Settings |-> 0, Canbus |-> 0],
               menu |-> 0, settings |-> 0, canbus |-> 0, items |-> <<>>, id |-> 0]

(* An item that has messages goes to the back of the list, once.            *)
FaultLinkedOnEdge(list, item, queue) ==
    IF Len(queue) # 1 \/ Contains(list, item) THEN list ELSE Append(list, item)
FaultLinked(list, item, queue) ==
    IF queue = <<>> \/ Contains(list, item) THEN list ELSE <<item>> \o list
Linked(list, item, queue) ==
    IF queue = <<>> \/ Contains(list, item) THEN list ELSE Append(list, item)
-----------------------------------------------------------------------------
(* Environment: the keys and the GUI.  The service publishes the   *)
(* three events of a detent, and the Short and Release of a contact, one    *)
(* after the other; only contacts are held down.                            *)
After(type) == CASE type = "Press" -> "down" [] type = "Short" -> "clicked"
                 [] type = "Release" -> "up" [] OTHER -> "long"
Publishing(k) == phase[k] = "clicked" \/ (k \in Encoders /\ phase[k] = "down")
KeyEvent(k, type) ==
    /\ CASE type = "Press" -> phase[k] = "up" [] type = "Short" -> phase[k] = "down"
         [] type = "Long" -> phase[k] = "down" /\ k \notin Encoders
         [] type = "Repeat" -> phase[k] = "long"
         [] type = "Release" -> phase[k] \in {"clicked", "long"}
    /\ \A other \in Keys \ {k} : ~ Publishing(other)
    /\ phase' = [phase EXCEPT ![k] = After(type)]

Put(k, type) ==
    /\ KeyEvent(k, type)
    /\ Len(inputs) < QueueLength
    /\ inputs' = Append(inputs, [key |-> k, type |-> type])
    /\ waiting' = Linked(waiting, "input", inputs')
    /\ shown' = CASE type = "Press" -> shown \cup {k} [] type = "Release" -> shown \ {k}
                  [] OTHER -> shown
    /\ UNCHANGED <<events, pc, dispatcher, app>>

(* While the ports of About are in front the GUI keeps what it likes, but   *)
(* the Release of a Press it gave (GuiInput).                               *)
Withhold(k, type) ==
    /\ KeyEvent(k, type)
    /\ pc = "about" \/ (type # "Press" /\ k \notin shown)
    /\ ~ (type = "Release" /\ k \in shown)
    /\ UNCHANGED <<shown, inputs, events, waiting, pc, dispatcher, app>>

-----------------------------------------------------------------------------
(* The thread.                                                              *)
Complementary(i) == i.type \in {"Press", "Release"} \/ i.key \in held

HeldAfter(i) == CASE i.type = "Press" -> held \cup {i.key} [] i.type = "Release" -> held \ {i.key}
                  [] OTHER -> held
FaultTargetAfter(i) == IF i.type = "Press" THEN app.view ELSE target
TargetAfter(i) == IF i.type = "Press" /\ HeldAfter(i) = {i.key} THEN app.view ELSE target

(* The view that gets the event, if one does.                               *)
Recipient(i) ==
    IF TargetAfter(i) = app.view \/ i.type = "Release" THEN TargetAfter(i) ELSE "none"

Delivered(i, v) ==
    IF v = "none" THEN pressedIn
    ELSE CASE i.type = "Press" -> [pressedIn EXCEPT ![i.key] = v]
           [] i.type = "Release" -> [pressedIn EXCEPT ![i.key] = IF @ = v THEN "none" ELSE @]
           [] OTHER -> pressedIn

NavigatesBack(i, v) == v = app.view /\ i.key = "back" /\ i.type \in {"Short", "Long"}

TakeInput ==
    /\ pc = "wait" /\ waiting # <<>> /\ Head(waiting) = "input"
    /\ inputs' = Tail(inputs)
    /\ LET i == Head(inputs)
            v == Recipient(i)
            sends == v = app.view /\ Sends(app, v, i)
        IN  IF ~ Complementary(i)
            THEN /\ waiting' = Linked(Tail(waiting), "input", inputs')
                 /\ UNCHANGED <<events, pc, dispatcher, app>>
            ELSE /\ held' = HeldAfter(i)
                 /\ target' = TargetAfter(i)
                 /\ pressedIn' = Delivered(i, v)
                 /\ pc' = IF sends THEN i.key ELSE "wait"
                 /\ waiting' = IF sends THEN Tail(waiting)
                               ELSE Linked(Tail(waiting), "input", inputs')
                 /\ IF NavigatesBack(i, v)
                    THEN \E items \in Snapshots : app' = OnBack(app, items)
                    ELSE app' = IF sends THEN Chosen(app, v) ELSE Moved(app, v, i)
                 /\ events' = events
    /\ UNCHANGED keys

(* The callback of the view sends its event, and the dispatcher returns to  *)
(* the loop.  The event remembers its sender and the choice.                *)
Send ==
    /\ pc \in Keys
    /\ Len(events) < QueueLength
    /\ events' = Append(events, [code |-> Number(app.view, pc), from |-> Top(app),
                                 choice |-> Choice(app, app.view)])
    /\ waiting' = Linked(Linked(waiting, "event", events'), "input", inputs)
    /\ pc' = "wait"
    /\ UNCHANGED <<keys, inputs, dispatcher, app>>

TakeEvent ==
    /\ pc = "wait" /\ waiting # <<>> /\ Head(waiting) = "event"
    /\ events' = Tail(events)
    /\ \E items \in Snapshots : app' = OnCustom(app, Head(events).code, items)
    /\ IF Top(app') = "SettingsAbout"
       THEN pc' = "about" /\ waiting' = Tail(waiting)
       ELSE pc' = pc /\ waiting' = Linked(Tail(waiting), "event", events')
    /\ UNCHANGED <<keys, inputs, dispatcher>>

(* The user leaves the dialogs of About, which closes itself.               *)
AboutReturn ==
    /\ pc = "about"
    /\ \E items \in Snapshots : app' = PreviousScene(app, items)
    /\ pc' = "wait"
    /\ waiting' = Linked(waiting, "event", events)
    /\ UNCHANGED <<keys, inputs, events, dispatcher>>

(* The thread has waited for a tick with nothing to do.  Of what is here,   *)
(* only the list of CAN messages changes.                                   *)
Tick ==
    /\ pc = "wait" /\ waiting = <<>>
    /\ IF Top(app) = "Canbus"
       THEN \E items \in Snapshots : app' = Rebuilt(app, items, SelectedId(app))
       ELSE app' = app
    /\ UNCHANGED <<keys, inputs, events, waiting, pc, dispatcher>>

Loop == TakeInput \/ Send \/ TakeEvent
Next ==
    \/ \E k \in Keys, type \in Types : Put(k, type) \/ Withhold(k, type)
    \/ TakeInput \/ Send \/ TakeEvent \/ AboutReturn \/ Tick

Spec == Init /\ [][Next]_vars /\ WF_vars(Loop)
-----------------------------------------------------------------------------
Event == [code : 1 .. 5, from : Scenes, choice : Ids \cup (0 .. 2)]

(* State stays in its domain; no cursor leaves its list.                    *)
TypeOK ==
    /\ phase \in [Keys -> {"up", "down", "clicked", "long"}]
    /\ shown \subseteq Keys /\ held \subseteq Keys
    /\ inputs \in Seq([key : Keys, type : Types]) /\ Len(inputs) <= QueueLength
    /\ events \in Seq(Event) /\ Len(events) <= QueueLength
    /\ waiting \in Seq({"input", "event"}) /\ IsInjective(waiting)
    /\ pc \in Keys \cup {"wait", "about"}
    /\ target \in Views \cup {"none"} /\ pressedIn \in [Keys -> Views \cup {"none"}]
    /\ app.menu \in 0 .. 2 /\ app.settings \in 0 .. 1
    /\ app.canbus \in 0 .. Len(app.items) /\ app.canbus # 0 => app.canbus < Len(app.items)

(* The scenes on the stack are a path of the menu tree, whose root is never *)
(* left, and the current view is the one of the scene on top: what the user *)
(* sees and the handler of its events belong together.                      *)
Parent == [Menu |-> "Dashboard", Canbus |-> "Menu", CanbusDetail |-> "Canbus",
           Settings |-> "Menu", SettingsLcd |-> "Settings", SettingsAbout |-> "Settings"]
PathLegal ==
    /\ TypeOK
    /\ app.scenes # <<>> /\ app.scenes[1] = "Dashboard"
    /\ \A n \in 2 .. Len(app.scenes) :
          /\ app.scenes[n] \in DOMAIN Parent
          /\ Parent[app.scenes[n]] = app.scenes[n - 1]
    /\ app.view = ViewOf[Top(app)]

(* view_dispatcher_send_custom_event waits for ever for room in the queue   *)
(* that the same thread empties: there is always room.                      *)
NeverBlocksItself == pc \in Keys => Len(events) < QueueLength

(* A view gets Short, Long and Repeat only of a Press that it got itself: a *)
(* click begun in one view is never finished in another.  And the Release   *)
(* of a Press that a view got is still to come, whatever view is shown.     *)
Acts(i) == Complementary(i) /\ Recipient(i) # "none" /\ i.type \in {"Short", "Long", "Repeat"}
ClickWhole ==
    /\ [](\A k \in Keys : pressedIn[k] # "none" => k \in held)
    /\ [][inputs # <<>> /\ inputs' = Tail(inputs) /\ Acts(Head(inputs))
            => pressedIn[Head(inputs).key] = Recipient(Head(inputs))]_vars

(* What was under the cursor when the user pressed Ok is what opens, though *)
(* inputs are handled between the two.  An event whose sender is no longer  *)
(* on top changes nothing: its number means nothing to the scene that gets  *)
(* it.                                                                      *)
Opens(e, a) ==
    CASE e.from = "Dashboard" -> Top(a) = "Menu"
      [] e.from = "Menu" -> Top(a) = <<"Dashboard", "Canbus", "Settings">>[e.choice + 1]
      [] e.from = "Settings" -> Top(a) = <<"SettingsLcd", "SettingsAbout">>[e.choice + 1]
      [] e.from = "Canbus" -> Top(a) = "CanbusDetail" /\ a.id = e.choice
OpensChosen ==
    [][events # <<>> /\ events' = Tail(events)
         => IF Head(events).from = Top(app) THEN Opens(Head(events), app') ELSE app' = app]_vars

(* The list of CAN ids is rebuilt on every tick and on the way back from    *)
(* the details of one, and ids that come move the others: the cursor stays  *)
(* on its id.                                                               *)
SelectionKept ==
    [][/\ Tick /\ Top(app) = "Canbus" /\ app.items # <<>> => SelectedId(app') = SelectedId(app)
       /\ Top(app) = "CanbusDetail" /\ Top(app') = "Canbus"
            => SelectedId(app') = app.id]_vars

(* Once the keys are left alone, every input and every event is handled and *)
(* the thread sleeps, or waits in the dialogs of About.                     *)
Idle == inputs = <<>> /\ events = <<>> /\ waiting = <<>> /\ pc = "wait"
Quiet == <>[](\A k \in Keys : phase[k] = "up") => []<>(Idle \/ pc = "about")
=============================================================================
