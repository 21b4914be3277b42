--------------------------- MODULE GuiInputProofs ---------------------------
(***************************************************************************)
(* Proofs about GuiInput, for every set of keys and every capacity of the  *)
(* queues.  The inductive invariant has three parts: what is on the screen *)
(* at each point of the two threads that change it, the alternation of     *)
(* presses and releases in the input queue, and the routing itself.        *)
(***************************************************************************)
EXTENDS GuiInput, TLAPS

(* What is on the screen at each point of the application and of the        *)
(* dialogs thread.                                                          *)
DialogIn == dpc \in {"show", "open", "drain", "hide", "remove"}
OnScreen ==
    /\ apc = "wait" <=> dpc # "idle"
    /\ layer = IF apc \in {"loop", "attach"} THEN <<"app">>
               ELSE IF DialogIn THEN <<"app", "about", "dialog">> ELSE <<"app", "about">>
    /\ "about" \in enabled <=> apc \in {"ask", "wait", "drain", "hide"}
    /\ "dialog" \in enabled <=> dpc \in {"open", "drain", "hide"}
    /\ "app" \in enabled

(* A key that is down, in the view of the GUI (position 0) or by a press in *)
(* the queue, is released in the queue before its next press, and before    *)
(* the end of the queue once it was let go.                                 *)
Pressed(i, k) ==
    IF i = 0 THEN k \in ongoing ELSE inputQueue[i] = [key |-> k, type |-> "Press"]
ReleasedIn(i, j, k) == \E m \in i + 1 .. j : inputQueue[m] = [key |-> k, type |-> "Release"]
Alternation ==
    \A k \in Keys, i \in 0 .. Len(inputQueue) : Pressed(i, k) =>
        /\ \A j \in i + 1 .. Len(inputQueue) :
              inputQueue[j] = [key |-> k, type |-> "Press"] => ReleasedIn(i, j - 1, k)
        /\ k \notin held => ReleasedIn(i, Len(inputQueue), k)

(* Deliveries go to the port of the ongoing input, which is the only one    *)
(* that waits for releases: of keys that are down, or of the one at hand.   *)
Owed == IF gpc # "take" /\ event.type = "Release" THEN {event.key} ELSE {}
Routing ==
    /\ gpc = "deliver" <=> holder = "gui"
    /\ gpc = "deliver" => target = ongoingPort /\ target # "none"
    /\ ongoingPort \in ToSet(layer) \cup {"none"}
    /\ gpc # "take" /\ event.type = "Press" => event.key \in ongoing
    /\ \A p \in ToSet(layer) :
          told[p] # {} => p = ongoingPort /\ told[p] \subseteq ongoing \cup Owed
    /\ gpc = "route" /\ event.type = "Press" => \A p \in ToSet(layer) : event.key \notin told[p]

(* Every state has the types of TypeOK.                                     *)
THEOREM GuiInputTypeCorrect == Spec => []TypeOK
<1>1. Init => TypeOK
  BY GuiInputAssumption DEF Init, TypeOK, Ports
<1>2. TypeOK /\ [Next]_vars => TypeOK'
  <2> SUFFICES ASSUME TypeOK, [Next]_vars PROVE TypeOK'
    OBVIOUS
  <2> USE GuiInputAssumption
  <2> USE DEF TypeOK, environment, gui, ports, application, dialogs
  <2>1. ASSUME NEW k \in Keys, Press(k) PROVE TypeOK'
    BY <2>1 DEF Press, InputRoom, Events, Types
  <2>2. ASSUME NEW k \in Keys, LetGo(k) PROVE TypeOK'
    <3>1. <<[key |-> k, type |-> "Short"], [key |-> k, type |-> "Release"]>> \in Seq(Events)
      BY DEF Events, Types
    <3>2. QED
      BY <2>2, <3>1 DEF LetGo, InputRoom
  <2>3. CASE GuiTake
    <3>1. Head(inputQueue) \in Events /\ Tail(inputQueue) \in Seq(Events)
             /\ Len(Tail(inputQueue)) <= InputQueueSize
      BY <2>3 DEF GuiTake
    <3>2. Head(inputQueue).key \in Keys /\ Head(inputQueue).type \in Types
      BY <3>1 DEF Events
    <3>3. ongoing' \subseteq Keys
      BY <2>3, <3>2 DEF GuiTake, Types
    <3>4. QED
      BY <2>3, <3>1, <3>3 DEF GuiTake
  <2>4. CASE GuiRoute
    <3>1. TopPort \in Ports \cup {"none"}
      <4> DEFINE Top(i) == layer[i] \in enabled /\ \A j \in i + 1 .. Len(layer) : layer[j] \notin enabled
      <4>1. CASE \E i \in 1 .. Len(layer) : Top(i)
        <5>1. (CHOOSE i \in 1 .. Len(layer) : Top(i)) \in 1 .. Len(layer)
          BY <4>1
        <5>2. QED
          BY <4>1, <5>1 DEF TopPort
      <4>2. CASE ~\E i \in 1 .. Len(layer) : Top(i)
        BY <4>2 DEF TopPort
      <4>3. QED
        BY <4>1, <4>2
    <3>2. QED
      BY <2>4, <3>1 DEF GuiRoute, Recipient, First
  <2>5. CASE GuiDeliver
    <3>1. event \in Events /\ event.key \in Keys /\ event.type \in Types
      BY <2>5 DEF GuiDeliver, Events, NoEvent
    <3>2. told' \in [Ports -> SUBSET Keys]
      BY <2>5, <3>1 DEF GuiDeliver, Told, Types
    <3>3. appQueue' \in Seq(Events) /\ Len(appQueue') <= AppQueueSize
      <4>1. CASE appQueue' = Append(appQueue, event) /\ Len(appQueue) < AppQueueSize
        BY <3>1, <4>1
      <4>2. CASE appQueue' = appQueue
        BY <4>2
      <4>3. QED
        BY <2>5, <4>1, <4>2 DEF GuiDeliver, Room
    <3>4. result' \in (Keys \ {"Ok"}) \cup {"none"}
      BY <2>5, <3>1 DEF GuiDeliver
    <3>5. QED
      BY <2>5, <3>2, <3>3, <3>4 DEF GuiDeliver, Unlock
  <2>6. ASSUME NEW h \in {"about", "dialog"}, RemovePort(h) PROVE layer' \in Seq(Ports)
    BY <2>6 DEF RemovePort, RemoveAt
  <2>7. ASSUME NEW h \in {"about", "dialog"}, AttachPort(h)
         PROVE  layer' \in Seq(Ports) /\ told' \in [Ports -> SUBSET Keys]
    <3>1. h \in Ports
      BY DEF Ports
    <3>2. layer' = Append(layer, h)
      BY <2>7 DEF AttachPort
    <3>3. told' = [told EXCEPT ![h] = {}]
      BY <2>7 DEF AttachPort
    <3>4. QED
      BY <3>1, <3>2, <3>3
  <2>8. CASE App
    <3>1. CASE AppTake
      BY <2>8, <3>1 DEF AppTake, NotApp
    <3>2. CASE AppAttach
      BY <2>7, <3>2 DEF AppAttach, AttachPort, NotApp
    <3>3. CASE AppShow \/ AppHide
      <4>1. enabled' \subseteq Ports
        BY <3>3 DEF AppShow, AppHide, EnablePort, DisablePort, Ports
      <4>2. QED
        BY <3>3, <4>1 DEF AppShow, AppHide, EnablePort, DisablePort, NotApp
    <3>4. CASE AppEnter \/ AppAsk \/ AppAnswered \/ AppDrain
      BY <3>4 DEF AppEnter, AppAsk, AppAnswered, AppDrain, NotApp
    <3>5. CASE AppRemove
      BY <2>6, <3>5 DEF AppRemove, RemovePort, NotApp
    <3>6. QED
      BY <2>8, <3>1, <3>2, <3>3, <3>4, <3>5 DEF App
  <2>9. CASE Dialogs
    <3>1. CASE DialogAttach
      BY <2>7, <3>1 DEF DialogAttach, AttachPort, NotDialogs
    <3>2. CASE DialogShow \/ DialogHide
      <4>1. enabled' \subseteq Ports
        BY <3>2 DEF DialogShow, DialogHide, EnablePort, DisablePort, Ports
      <4>2. QED
        BY <3>2, <4>1 DEF DialogShow, DialogHide, EnablePort, DisablePort, NotDialogs
    <3>3. CASE DialogResult \/ DialogDrain
      BY <3>3 DEF DialogResult, DialogDrain, NotDialogs
    <3>4. CASE DialogRemove
      BY <2>6, <3>4 DEF DialogRemove, RemovePort, NotDialogs
    <3>5. QED
      BY <2>9, <3>1, <3>2, <3>3, <3>4 DEF Dialogs
  <2>10. CASE UNCHANGED vars
    BY <2>10 DEF vars
  <2>11. QED
    BY <2>1, <2>2, <2>3, <2>4, <2>5, <2>8, <2>9, <2>10 DEF Next, Gui
<1>3. QED
  BY <1>1, <1>2, PTL DEF Spec

(* The two threads that change the screen leave it as OnScreen says.        *)
THEOREM OnScreenHolds == Spec => []OnScreen
<1>1. Init => OnScreen
  BY DEF Init, OnScreen, DialogIn
<1>2. TypeOK /\ OnScreen /\ [Next]_vars => OnScreen'
  <2> SUFFICES ASSUME TypeOK, OnScreen, [Next]_vars PROVE OnScreen'
    OBVIOUS
  <2> USE DEF OnScreen, DialogIn
  <2>1. CASE UNCHANGED <<layer, enabled, apc, dpc>>
    BY <2>1
  <2>2. /\ layer = <<"app", "about">> /\ RemovePort("about") => layer' = <<"app">>
        /\ layer = <<"app", "about", "dialog">> /\ RemovePort("dialog")
              => layer' = <<"app", "about">>
    BY DEF RemovePort, RemoveAt
  <2>3. CASE AppAttach
    BY <2>3 DEF AppAttach, AttachPort, NotApp, dialogs
  <2>4. CASE AppShow \/ AppHide
    BY <2>4 DEF AppShow, AppHide, EnablePort, DisablePort, NotApp, dialogs
  <2>5. CASE AppEnter \/ AppAsk \/ AppAnswered \/ AppDrain
    BY <2>5 DEF AppEnter, AppAsk, AppAnswered, AppDrain, NotApp, dialogs, ports
  <2>6. CASE AppRemove
    BY <2>2, <2>6 DEF AppRemove, RemovePort, NotApp, dialogs
  <2>7. CASE DialogAttach
    BY <2>7 DEF DialogAttach, AttachPort, NotDialogs, application
  <2>8. CASE DialogShow \/ DialogHide
    BY <2>8 DEF DialogShow, DialogHide, EnablePort, DisablePort, NotDialogs, application
  <2>9. CASE DialogResult \/ DialogDrain
    BY <2>9 DEF DialogResult, DialogDrain, NotDialogs, application, ports
  <2>10. CASE DialogRemove
    BY <2>2, <2>10 DEF DialogRemove, RemovePort, NotDialogs, application
  <2>11. QED
    BY <2>1, <2>3, <2>4, <2>5, <2>6, <2>7, <2>8, <2>9, <2>10
    DEF Next, Gui, App, Dialogs, Press, LetGo, GuiTake, GuiRoute, GuiDeliver, AppTake, ports,
        application, dialogs, NotApp, vars
<1>3. QED
  BY <1>1, <1>2, GuiInputTypeCorrect, PTL DEF Spec

(* The application gets the screen back as it left it, and no dialog is on  *)
(* it that nobody waits for.                                                *)
THEOREM ScreenGivenBack == Spec => []ScreenRestored
<1>1. TypeOK /\ OnScreen => ScreenRestored
  <2> SUFFICES ASSUME TypeOK, OnScreen PROVE ScreenRestored
    OBVIOUS
  <2>1. apc = "loop" => layer = <<"app">> /\ enabled = {"app"}
    BY DEF TypeOK, OnScreen, Ports
  <2>2. "dialog" \in ToSet(layer) => DialogIn
    BY DEF OnScreen, ToSet
  <2>3. DialogIn \/ "dialog" \in enabled => apc = "wait"
    BY DEF OnScreen, DialogIn
  <2>4. QED
    BY <2>1, <2>2, <2>3 DEF ScreenRestored
<1>2. QED
  BY <1>1, OnScreenHolds, GuiInputTypeCorrect, PTL

(* Presses and releases of a key alternate in the input queue.              *)
THEOREM AlternationHolds == Spec => []Alternation
<1>1. Init => Alternation
  BY DEF Init, Alternation, Pressed
<1>2. TypeOK /\ Alternation /\ [Next]_vars => Alternation'
  <2> SUFFICES ASSUME TypeOK, Alternation, [Next]_vars PROVE Alternation'
    OBVIOUS
  <2> DEFINE q == inputQueue
             release(k) == [key |-> k, type |-> "Release"]
             press(k) == [key |-> k, type |-> "Press"]
  <2>1. ASSUME NEW a \in Keys, Press(a) PROVE Alternation'
    <3>1. /\ Len(q) \in Nat /\ Len(q') = Len(q) + 1 /\ q'[Len(q) + 1] = press(a)
          /\ \A m \in 1 .. Len(q) : q'[m] = q[m]
          /\ ongoing' = ongoing /\ held' = held \cup {a} /\ a \notin held
      BY <2>1 DEF Press, TypeOK, Events, gui
    <3>2. SUFFICES ASSUME NEW k \in Keys, NEW i \in 0 .. Len(q'), Pressed(i, k)'
                   PROVE  /\ \A j \in i + 1 .. Len(q') : q'[j] = press(k) => ReleasedIn(i, j - 1, k)'
                          /\ k \notin held' => \E m \in i + 1 .. Len(q') : q'[m] = release(k)
      BY <3>1 DEF Alternation, ReleasedIn
    <3>3. CASE i = Len(q) + 1
      <4>1. i # 0
        BY <3>1, <3>3
      <4>2. k = a
        BY <3>1, <3>2, <3>3, <4>1 DEF Pressed
      <4>3. QED
        BY <3>1, <3>3, <4>2
    <3>4. CASE i \in 0 .. Len(q)
      <4>1. Pressed(i, k)
        BY <3>1, <3>2, <3>4 DEF Pressed
      <4>2. /\ \A j \in i + 1 .. Len(q) : q[j] = press(k) => ReleasedIn(i, j - 1, k)
            /\ k \notin held => ReleasedIn(i, Len(q), k)
        BY <3>4, <4>1 DEF Alternation
      <4>3. ASSUME NEW n \in 0 .. Len(q), ReleasedIn(i, n, k) PROVE ReleasedIn(i, n, k)'
        BY <3>1, <3>4, <4>3 DEF ReleasedIn
      <4>4. ASSUME NEW j \in i + 1 .. Len(q'), q'[j] = press(k) PROVE ReleasedIn(i, j - 1, k)'
        <5>1. CASE j = Len(q) + 1
          <6>1. k = a
            BY <3>1, <4>4, <5>1
          <6>2. QED
            BY <3>1, <4>2, <4>3, <5>1, <6>1
        <5>2. CASE j \in i + 1 .. Len(q)
          BY <3>1, <3>4, <4>2, <4>3, <4>4, <5>2
        <5>3. QED
          BY <3>1, <3>4, <4>4, <5>1, <5>2
      <4>5. k \notin held' => \E m \in i + 1 .. Len(q') : q'[m] = release(k)
        BY <3>1, <3>4, <4>2 DEF ReleasedIn
      <4>6. QED
        BY <4>4, <4>5
    <3>5. QED
      BY <3>1, <3>3, <3>4
  <2>2. ASSUME NEW a \in Keys, LetGo(a) PROVE Alternation'
    <3>1. /\ Len(q) \in Nat /\ Len(q') = Len(q) + 2 /\ q'[Len(q) + 1] = [key |-> a, type |-> "Short"]
          /\ q'[Len(q) + 2] = release(a)
          /\ \A m \in 1 .. Len(q) : q'[m] = q[m]
          /\ ongoing' = ongoing /\ held' = held \ {a}
      BY <2>2 DEF LetGo, TypeOK, Events, gui
    <3>2. SUFFICES ASSUME NEW k \in Keys, NEW i \in 0 .. Len(q'), Pressed(i, k)'
                   PROVE  /\ \A j \in i + 1 .. Len(q') : q'[j] = press(k) => ReleasedIn(i, j - 1, k)'
                          /\ k \notin held' => \E m \in i + 1 .. Len(q') : q'[m] = release(k)
      BY <3>1 DEF Alternation, ReleasedIn
    <3>3. i \in 0 .. Len(q)
      <4>1. i # Len(q) + 1 /\ i # Len(q) + 2
        BY <3>1, <3>2 DEF Pressed
      <4>2. QED
        BY <3>1, <4>1
    <3>4. Pressed(i, k)
      BY <3>1, <3>2, <3>3 DEF Pressed
    <3>5. /\ \A j \in i + 1 .. Len(q) : q[j] = press(k) => ReleasedIn(i, j - 1, k)
          /\ k \notin held => ReleasedIn(i, Len(q), k)
      BY <3>3, <3>4 DEF Alternation
    <3>6. ASSUME NEW n \in 0 .. Len(q), NEW l \in n .. Len(q'), ReleasedIn(i, n, k)
          PROVE  ReleasedIn(i, l, k)'
      BY <3>1, <3>3, <3>6 DEF ReleasedIn
    <3>7. ASSUME NEW j \in i + 1 .. Len(q'), q'[j] = press(k) PROVE ReleasedIn(i, j - 1, k)'
      <4>1. j # Len(q) + 1 /\ j # Len(q) + 2
        BY <3>1, <3>7
      <4>2. j \in i + 1 .. Len(q)
        BY <3>1, <3>3, <4>1
      <4>3. QED
        BY <3>1, <3>3, <3>5, <3>6, <3>7, <4>2
    <3>8. k \notin held' => \E m \in i + 1 .. Len(q') : q'[m] = release(k)
      <4>1. CASE k = a
        BY <3>1, <3>3, <4>1 DEF ReleasedIn
      <4>2. CASE k # a
        BY <3>1, <3>3, <3>5, <4>2 DEF ReleasedIn
      <4>3. QED
        BY <4>1, <4>2
    <3>9. QED
      BY <3>7, <3>8
  <2>3. CASE GuiTake
    <3> DEFINE e == Head(q)
    <3>1. /\ Len(q) \in Nat \ {0} /\ Len(q') = Len(q) - 1 /\ \A m \in 1 .. Len(q') : q'[m] = q[m + 1]
          /\ held' = held /\ e = q[1] /\ e \in Events
      BY <2>3 DEF GuiTake, TypeOK, environment
    <3>2. \A k \in Keys : k \in ongoing' <=> \/ k \in ongoing /\ e # release(k)
                                            \/ e = press(k)
      BY <2>3, <3>1 DEF GuiTake, Events, Types
    <3>3. SUFFICES ASSUME NEW k \in Keys, NEW i \in 0 .. Len(q'), Pressed(i, k)'
                   PROVE  /\ \A j \in i + 1 .. Len(q') : q'[j] = press(k) => ReleasedIn(i, j - 1, k)'
                          /\ k \notin held' => \E m \in i + 1 .. Len(q') : q'[m] = release(k)
      BY <3>1 DEF Alternation, ReleasedIn
    <3>4. PICK p \in {i + 1, 0} : /\ Pressed(p, k)
                                  /\ p = 0 => i = 0 /\ q[1] # release(k)
      <4>1. CASE i = 0
        <5>1. \/ k \in ongoing /\ e # release(k)
              \/ e = press(k)
          BY <3>2, <3>3, <4>1 DEF Pressed
        <5>2. QED
          BY <3>1, <4>1, <5>1 DEF Pressed
      <4>2. CASE i # 0
        <5>1. q[i + 1] = press(k)
          BY <3>1, <3>3, <4>2 DEF Pressed
        <5>2. QED
          BY <4>2, <5>1 DEF Pressed
      <4>3. QED
        BY <4>1, <4>2
    <3>5. /\ \A j \in p + 1 .. Len(q) : q[j] = press(k) => ReleasedIn(p, j - 1, k)
          /\ k \notin held => ReleasedIn(p, Len(q), k)
      BY <3>1, <3>4 DEF Alternation
    <3>6. ASSUME NEW n \in 0 .. Len(q) - 1, ReleasedIn(p, n + 1, k) PROVE ReleasedIn(i, n, k)'
      <4>1. PICK m \in p + 1 .. n + 1 : q[m] = release(k)
        BY <3>6 DEF ReleasedIn
      <4>2. m - 1 \in i + 1 .. n
        BY <3>4, <4>1
      <4>3. q'[m - 1] = release(k)
        BY <3>1, <4>1, <4>2
      <4>4. QED
        BY <4>2, <4>3 DEF ReleasedIn
    <3>7. ASSUME NEW j \in i + 1 .. Len(q'), q'[j] = press(k) PROVE ReleasedIn(i, j - 1, k)'
      <4>1. q[j + 1] = press(k) /\ j + 1 \in p + 1 .. Len(q) /\ j - 1 \in 0 .. Len(q) - 1
        BY <3>1, <3>4, <3>7
      <4>2. ReleasedIn(p, (j - 1) + 1, k)
        BY <3>5, <4>1
      <4>3. QED
        BY <3>6, <4>1, <4>2
    <3>8. k \notin held' => \E m \in i + 1 .. Len(q') : q'[m] = release(k)
      <4>1. SUFFICES ASSUME k \notin held' PROVE \E m \in i + 1 .. Len(q') : q'[m] = release(k)
        OBVIOUS
      <4>2. PICK m \in p + 1 .. Len(q) : q[m] = release(k)
        BY <3>1, <3>5, <4>1 DEF ReleasedIn
      <4>3. m - 1 \in i + 1 .. Len(q')
        BY <3>1, <3>4, <4>2
      <4>4. q'[m - 1] = release(k)
        BY <3>1, <4>2, <4>3
      <4>5. QED
        BY <4>3, <4>4
    <3>9. QED
      BY <3>7, <3>8
  <2>4. CASE UNCHANGED <<held, inputQueue, ongoing>>
    BY <2>4 DEF Alternation, Pressed, ReleasedIn
  <2>5. QED
    BY <2>1, <2>2, <2>3, <2>4
    DEF Next, Gui, App, Dialogs, GuiRoute, GuiDeliver, AppTake, AppEnter, AppAttach, AppShow,
        AppAsk, AppAnswered, AppDrain, AppHide, AppRemove, DialogAttach, DialogShow, DialogResult,
        DialogDrain, DialogHide, DialogRemove, AttachPort, EnablePort, DisablePort, RemovePort,
        NotApp, NotDialogs, environment, gui, vars
<1>3. QED
  BY <1>1, <1>2, GuiInputTypeCorrect, PTL DEF Spec

(* The port on top is one of the layer.                                     *)
LEMMA TopPortInLayer == ASSUME layer \in Seq(Ports) PROVE TopPort \in ToSet(layer) \cup {"none"}
<1> DEFINE Top(i) == layer[i] \in enabled /\ \A j \in i + 1 .. Len(layer) : layer[j] \notin enabled
<1>1. CASE \E i \in 1 .. Len(layer) : Top(i)
  <2>1. (CHOOSE i \in 1 .. Len(layer) : Top(i)) \in 1 .. Len(layer)
    BY <1>1
  <2>2. TopPort = layer[CHOOSE i \in 1 .. Len(layer) : Top(i)]
    BY <1>1 DEF TopPort
  <2>3. 1 .. Len(layer) = DOMAIN layer
    OBVIOUS
  <2>4. QED
    BY <2>1, <2>2, <2>3 DEF ToSet
<1>2. CASE ~\E i \in 1 .. Len(layer) : Top(i)
  BY <1>2 DEF TopPort
<1>3. QED
  BY <1>1, <1>2

(* The view ports of the three layers of OnScreen.                          *)
LEMMA LayerSets ==
    /\ ToSet(<<"app">>) = {"app"}
    /\ ToSet(<<"app", "about">>) = {"app", "about"}
    /\ ToSet(<<"app", "about", "dialog">>) = {"app", "about", "dialog"}
BY DEF ToSet

(* The routing part of the invariant.  That a press is never of a key the   *)
(* port was already told of rests on the alternation in the queue; that the *)
(* port of the ongoing input is on the screen rests on its removal.         *)
THEOREM RoutingHolds == Spec => []Routing
<1>1. Init => Routing
  <2> SUFFICES ASSUME Init PROVE Routing
    OBVIOUS
  <2>1. \A p \in ToSet(layer) : told[p] = {}
    BY LayerSets DEF Init, Ports
  <2>2. QED
    BY <2>1 DEF Init, Routing
<1>2. TypeOK /\ OnScreen /\ OnScreen' /\ TypeOK' /\ Alternation /\ Routing /\ [Next]_vars => Routing'
  <2> SUFFICES ASSUME TypeOK, OnScreen, OnScreen', TypeOK', Alternation, Routing, [Next]_vars
               PROVE  Routing'
    OBVIOUS
  <2> DEFINE L == ToSet(layer)
  <2>1. CASE GuiTake
    <3> DEFINE e == Head(inputQueue)
    <3>1. /\ e \in Events /\ e.key \in Keys /\ e.type \in Types /\ e = inputQueue[1]
          /\ Len(inputQueue) \in Nat \ {0}
      <4>1. e \in Events /\ e = inputQueue[1] /\ Len(inputQueue) \in Nat \ {0}
        BY <2>1 DEF GuiTake, TypeOK
      <4>2. QED
        BY <4>1 DEF Events
    <3>2. gpc = "take" /\ UNCHANGED <<layer, told, ongoingPort, holder, target>>
      BY <2>1 DEF GuiTake, ports
    <3>3. e.type = "Press" => e.key \notin ongoing
      <4>1. SUFFICES ASSUME e = [key |-> e.key, type |-> "Press"], e.key \in ongoing PROVE FALSE
        BY <3>1 DEF Events
      <4>2. Pressed(0, e.key) /\ 0 \in 0 .. Len(inputQueue) /\ 1 \in 0 + 1 .. Len(inputQueue)
        BY <3>1, <3>2, <4>1 DEF Pressed
      <4>3. inputQueue[1] = [key |-> e.key, type |-> "Press"]
        BY <3>1, <3>2, <4>1
      <4>4. ReleasedIn(0, 1 - 1, e.key)
        BY <3>1, <3>2, <4>2, <4>3 DEF Alternation
      <4>5. QED
        BY <4>4 DEF ReleasedIn
    <3>4. \A p \in L : told[p] # {} => p = ongoingPort /\ told[p] \subseteq ongoing
      BY <3>2 DEF Routing, Owed
    <3>5. CASE gpc' = "take"
      <4>1. ongoing' = ongoing
        BY <2>1, <3>1, <3>2, <3>5 DEF GuiTake, Types
      <4>2. QED
        BY <3>1, <3>2, <3>4, <3>5, <4>1 DEF Routing, Owed
    <3>6. CASE gpc' = "route" /\ event' = e
      <4>1. ongoing \subseteq ongoing' \cup Owed'
        BY <2>1, <3>1, <3>2, <3>6 DEF GuiTake, Types, Owed
      <4>2. e.type = "Press" => e.key \in ongoing' /\ \A p \in L : e.key \notin told[p]
        BY <2>1, <3>1, <3>2, <3>3, <3>4 DEF GuiTake
      <4>3. QED
        BY <3>1, <3>2, <3>4, <3>6, <4>1, <4>2 DEF Routing
    <3>7. QED
      BY <2>1, <3>1, <3>2, <3>5, <3>6 DEF GuiTake
  <2>2. CASE GuiRoute
    <3> DEFINE owner == IF First(event) THEN TopPort ELSE ongoingPort
    <3>1. /\ gpc = "route" /\ ongoingPort' = owner /\ UNCHANGED <<layer, told, ongoing>>
          /\ event \in Events
      BY <2>2 DEF GuiRoute, TypeOK, ports
    <3>2. owner \in L \cup {"none"}
      BY TopPortInLayer DEF Routing, TypeOK
    <3>3. \A p \in L : told[p] # {} => p = owner /\ told[p] \subseteq ongoing \cup Owed
      <4>1. CASE First(event)
        <5>1. Owed = {} /\ event.type = "Press" /\ ongoing \subseteq {event.key}
          BY <4>1 DEF Owed, First
        <5>2. \A p \in L : told[p] = {}
          BY <3>1, <5>1 DEF Routing
        <5>3. QED
          BY <5>2
      <4>2. CASE ~First(event)
        BY <4>2 DEF Routing
      <4>3. QED
        BY <4>1, <4>2
    <3>4. Recipient(event, owner) \in {owner, "none"}
      BY DEF Recipient
    <3>5. CASE Recipient(event, owner) = "none"
      <4>1. Owed # {} => owner = "none"
        BY <3>5 DEF Owed, Recipient
      <4>2. "none" \notin L
        BY LayerSets DEF OnScreen
      <4>3. \A p \in L : told[p] # {} => p = owner /\ told[p] \subseteq ongoing
        BY <3>3, <4>1, <4>2
      <4>4. gpc' = "take" /\ UNCHANGED <<target, holder>>
        BY <2>2, <3>5 DEF GuiRoute
      <4>5. QED
        BY <3>1, <3>2, <4>3, <4>4 DEF Routing, Owed
    <3>6. CASE Recipient(event, owner) = owner /\ owner # "none"
      <4>1. gpc' = "deliver" /\ target' = owner /\ holder' = "gui" /\ event' = event
        BY <2>2, <3>6 DEF GuiRoute
      <4>2. Owed' = Owed
        BY <3>1, <4>1 DEF Owed
      <4>3. QED
        BY <3>1, <3>2, <3>3, <3>6, <4>1, <4>2 DEF Routing
    <3>7. QED
      BY <3>4, <3>5, <3>6
  <2>3. CASE GuiDeliver
    <3>1. /\ gpc = "deliver" /\ gpc' = "take" /\ holder' = "free" /\ target = ongoingPort
          /\ UNCHANGED <<layer, ongoing, ongoingPort>> /\ event \in Events /\ event.type \in Types
      BY <2>3 DEF GuiDeliver, Unlock, Routing, TypeOK, ports, Events
    <3>2. told' = [told EXCEPT ![ongoingPort] = CASE event.type = "Press" -> @ \cup {event.key}
                                                  [] event.type = "Release" -> @ \ {event.key}
                                                  [] event.type = "Short" -> @]
      BY <2>3, <3>1 DEF GuiDeliver, Told
    <3>3. ASSUME NEW p \in L, told'[p] # {} PROVE p = ongoingPort /\ told'[p] \subseteq ongoing
      <4>1. p \in Ports
        BY DEF TypeOK, ToSet
      <4>2. CASE p # ongoingPort
        <5>1. told'[p] = told[p]
          BY <3>2, <4>1, <4>2 DEF TypeOK
        <5>2. QED
          BY <3>3, <4>2, <5>1 DEF Routing
      <4>3. CASE p = ongoingPort
        <5>1. told[p] \subseteq ongoing \cup Owed
          BY DEF Routing
        <5>2. CASE event.type = "Press"
          BY <3>1, <3>2, <4>1, <4>3, <5>1, <5>2 DEF Owed, Routing, TypeOK
        <5>3. CASE event.type = "Release"
          BY <3>1, <3>2, <4>1, <4>3, <5>1, <5>3 DEF Owed, TypeOK
        <5>4. CASE event.type = "Short"
          BY <3>1, <3>2, <4>1, <4>3, <5>1, <5>4 DEF Owed, TypeOK
        <5>5. QED
          BY <3>1, <4>3, <5>2, <5>3, <5>4 DEF Types
      <4>4. QED
        BY <4>2, <4>3
    <3>4. QED
      BY <3>1, <3>3 DEF Routing, Owed
  <2>4. ASSUME NEW h \in {"about", "dialog"}, AttachPort(h), h \notin L, ToSet(layer') = L \cup {h}
        PROVE  Routing'
    <3>1. UNCHANGED gui /\ h \in Ports /\ told' = [told EXCEPT ![h] = {}]
      BY <2>4 DEF AttachPort, Ports
    <3>2. \A p \in L : told'[p] = told[p]
      BY <2>4, <3>1 DEF TypeOK, ToSet
    <3>3. told'[h] = {}
      BY <3>1 DEF TypeOK
    <3>4. QED
      BY <2>4, <3>1, <3>2, <3>3 DEF Routing, Owed, gui
  <2>5. ASSUME NEW h \in {"about", "dialog"}, RemovePort(h), ToSet(layer') = L \ {h}
        PROVE  Routing'
    <3>1. /\ holder = "free" /\ UNCHANGED <<told, gpc, event, target, ongoing, holder>>
          /\ ongoingPort' = IF ongoingPort = h THEN "none" ELSE ongoingPort
      BY <2>5 DEF RemovePort
    <3>2. Owed' = Owed
      BY <3>1 DEF Owed
    <3>3. gpc # "deliver"
      BY <3>1 DEF Routing
    <3>4. QED
      BY <2>5, <3>1, <3>2, <3>3 DEF Routing
  <2>6. CASE UNCHANGED <<layer, told, gui>>
    BY <2>6 DEF Routing, Owed, gui
  <2>7. CASE AppAttach
    <3>1. apc = "attach" /\ apc' = "show" /\ dpc' = dpc /\ AttachPort("about")
      BY <2>7 DEF AppAttach, NotApp, dialogs
    <3>2. dpc = "idle"
      BY <3>1 DEF OnScreen
    <3>3. L = {"app"} /\ ToSet(layer') = {"app", "about"}
      BY <3>1, <3>2, LayerSets DEF OnScreen, DialogIn
    <3>4. QED
      BY <2>4, <3>1, <3>3
  <2>8. CASE AppRemove
    <3>1. apc = "remove" /\ apc' = "loop" /\ dpc' = dpc /\ RemovePort("about")
      BY <2>8 DEF AppRemove, NotApp, dialogs
    <3>2. dpc = "idle"
      BY <3>1 DEF OnScreen
    <3>3. L = {"app", "about"} /\ ToSet(layer') = {"app"}
      BY <3>1, <3>2, LayerSets DEF OnScreen, DialogIn
    <3>4. QED
      BY <2>5, <3>1, <3>3
  <2>9. CASE DialogAttach
    <3>1. dpc = "attach" /\ dpc' = "show" /\ apc' = apc /\ AttachPort("dialog")
      BY <2>9 DEF DialogAttach, NotDialogs, application
    <3>2. apc = "wait"
      BY <3>1 DEF OnScreen
    <3>3. L = {"app", "about"} /\ ToSet(layer') = {"app", "about", "dialog"}
      BY <3>1, <3>2, LayerSets DEF OnScreen, DialogIn
    <3>4. QED
      BY <2>4, <3>1, <3>3
  <2>10. CASE DialogRemove
    <3>1. dpc = "remove" /\ dpc' = "answered" /\ apc' = apc /\ RemovePort("dialog")
      BY <2>10 DEF DialogRemove, NotDialogs, application
    <3>2. apc = "wait"
      BY <3>1 DEF OnScreen
    <3>3. L = {"app", "about", "dialog"} /\ ToSet(layer') = {"app", "about"}
      BY <3>1, <3>2, LayerSets DEF OnScreen, DialogIn
    <3>4. QED
      BY <2>5, <3>1, <3>3
  <2>11. QED
    BY <2>1, <2>2, <2>3, <2>6, <2>7, <2>8, <2>9, <2>10
    DEF Next, Gui, App, Dialogs, Press, LetGo, AppTake, AppEnter, AppShow, AppAsk, AppAnswered, AppDrain,
        AppHide, DialogShow, DialogResult, DialogDrain, DialogHide, EnablePort, DisablePort,
        ports, vars
<1>3. QED
  BY <1>1, <1>2, GuiInputTypeCorrect, OnScreenHolds, AlternationHolds, PTL DEF Spec

(* No view port is called after it was removed: the check of view_port.c:225 *)
(* never fails.                                                             *)
THEOREM NoCallAfterRemoval == Spec => []TargetAttached
<1>1. Routing => TargetAttached
  BY DEF Routing, TargetAttached
<1>2. QED
  BY <1>1, RoutingHolds, PTL

(* Every port gets the release of what it was pressed with.                 *)
THEOREM ReleaseReachesPort == Spec => []PortsBalanced
<1>1. Routing => PortsBalanced
  BY DEF Routing, PortsBalanced, Owed
<1>2. QED
  BY <1>1, RoutingHolds, PTL
=============================================================================
