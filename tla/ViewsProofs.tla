---------------------------- MODULE ViewsProofs -----------------------------
(***************************************************************************)
(* Proofs about the parts of the GUI: the wake-ups of its thread, the      *)
(* holder of a dialog, the views of a dispatcher and the cursor of a list. *)
(* They share nothing and are kept in one module; each is for all values of *)
(* its constants.                                                          *)
(***************************************************************************)
EXTENDS GuiWake, ViewHolder, ViewDispatcher, Submenu, DashboardView, SequenceTheorems, TLAPS
-----------------------------------------------------------------------------
(* The wake-ups of the GUI thread: the screen is never left old.            *)

(* Every state has the types of TypeOK.                                     *)
THEOREM WakeTypeCorrect == Spec => []TypeOK
<1>1. Init => TypeOK
  BY GuiWakeAssumption DEF Init, TypeOK, Flags
<1>2. TypeOK /\ [Next]_vars => TypeOK'
  <2> SUFFICES ASSUME TypeOK, [Next]_vars PROVE TypeOK'
    OBVIOUS
  <2> USE GuiWakeAssumption DEF TypeOK, Flags
  <2>1. CASE InputPut
    BY <2>1 DEF InputPut, Room, gui, drawing
  <2>2. CASE InputSignal
    BY <2>2 DEF InputSignal, gui, drawing
  <2>3. ASSUME NEW d \in Drawers, Change(d) PROVE TypeOK'
    BY <2>3 DEF Change, gui, input
  <2>4. ASSUME NEW d \in Drawers, Update(d) PROVE TypeOK'
    BY <2>4 DEF Update, gui, input
  <2>5. CASE Wait
    BY <2>5 DEF Wait, input, drawing
  <2>6. CASE Drain
    BY <2>6 DEF Drain, input, drawing
  <2>7. CASE NoDraw
    BY <2>7 DEF NoDraw, input, drawing
  <2>8. CASE ClearQuery
    BY <2>8 DEF ClearQuery, input, drawing
  <2>9. CASE ClearOverwrite
    BY <2>9 DEF ClearOverwrite, input, drawing
  <2>10. CASE Redraw
    BY <2>10 DEF Redraw, input, drawing
  <2>11. CASE UNCHANGED vars
    BY <2>11 DEF vars
  <2>12. QED
    BY <2>1, <2>2, <2>3, <2>4, <2>5, <2>6, <2>7, <2>8, <2>9, <2>10, <2>11 DEF Next, Gui, Input
<1>3. QED
  BY <1>1, <1>2, PTL DEF Spec

(* The clear of the draw flag may swallow a request, but never one that the *)
(* redraw after it does not serve.                                          *)
THEOREM ScreenNeverOld == Spec => []ScreenFresh
<1>1. Init => ScreenFresh
  BY DEF Init, ScreenFresh
<1>2. TypeOK /\ ScreenFresh /\ [Next]_vars => ScreenFresh'
  <2> SUFFICES ASSUME TypeOK, ScreenFresh, [Next]_vars,
                      NEW d \in Drawers, screen'[d] # content'[d]
               PROVE  dpc'[d] = "update" \/ RedrawDue'
    BY DEF ScreenFresh
  <2> USE DEF RedrawDue
  <2>1. CASE screen[d] = content[d]
    <3>1. ASSUME NEW e \in Drawers, Change(e) PROVE dpc'[d] = "update"
      BY <2>1, <3>1 DEF Change, TypeOK
    <3>2. ~Redraw
      BY DEF Redraw, drawing
    <3>3. QED
      BY <2>1, <3>1, <3>2
      DEF Next, Gui, Input, InputPut, InputSignal, Update, Wait, Drain, NoDraw, ClearQuery,
          ClearOverwrite, drawing, vars
  <2>2. CASE screen[d] # content[d]
    <3>1. dpc[d] = "update" \/ RedrawDue
      BY <2>2 DEF ScreenFresh
    <3>2. CASE InputPut \/ InputSignal
      BY <3>1, <3>2 DEF InputPut, InputSignal, gui, drawing
    <3>3. ASSUME NEW e \in Drawers, Change(e) PROVE dpc'[d] = "update" \/ RedrawDue'
      BY <3>1, <3>3 DEF Change, gui, TypeOK
    <3>4. ASSUME NEW e \in Drawers, Update(e) PROVE dpc'[d] = "update" \/ RedrawDue'
      BY <3>4 DEF Update
    <3>5. CASE Wait
      BY <3>1, <3>5 DEF Wait, drawing
    <3>6. CASE Drain
      BY <3>1, <3>6 DEF Drain, drawing
    <3>7. CASE NoDraw
      BY <3>1, <3>7 DEF NoDraw, drawing
    <3>8. CASE ClearQuery \/ ClearOverwrite
      BY <3>1, <3>8 DEF ClearQuery, ClearOverwrite, drawing
    <3>9. ~Redraw
      BY DEF Redraw, drawing
    <3>10. CASE UNCHANGED vars
      BY <3>1, <3>10 DEF vars
    <3>11. QED
      BY <3>2, <3>3, <3>4, <3>5, <3>6, <3>7, <3>8, <3>9, <3>10 DEF Next, Gui, Input
  <2>3. QED
    BY <2>1, <2>2
<1>3. QED
  BY <1>1, <1>2, WakeTypeCorrect, PTL DEF Spec
-----------------------------------------------------------------------------
(* The view holder: what the GUI thread uses of it is not freed.            *)

(* The inductive invariant: a callback runs with the mutex of the GUI, and  *)
(* only for a port that is attached; the port is attached from the end of   *)
(* its allocation to its removal, and nothing leads to a callback before it *)
(* was enabled: no key is bound to it.                                      *)
Detached == {"alloc", "free", "freeView"}
Enabled == {"answer", "drain", "exit", "unset", "disable"}
HolderInv ==
    /\ HolderTypeOK
    /\ using # "none" <=> guiMutex
    /\ guiMutex => attached
    /\ attached <=> owning \notin Detached
    /\ attached => allocated = {"holder", "view"}
    /\ portOn => owning \in Enabled
    /\ ~ attached \/ NotYetEntered => pressed = {} /\ ~ guiMutex

(* The invariant holds at first and at every step.                          *)
THEOREM HolderInvariant == HolderSpec => []HolderInv
<1> USE DEF HolderInv, HolderTypeOK, NotYetEntered, Detached, Enabled
<1>1. HolderInit => HolderInv
  <2> SUFFICES ASSUME HolderInit PROVE HolderInv
    OBVIOUS
  <2>1. {entered, shown, portOn, attached, guiMutex, answered} \subseteq BOOLEAN
    BY Zenon DEF HolderInit
  <2>2. ~ attached /\ ~ guiMutex /\ ~ portOn
    BY Zenon DEF HolderInit
  <2>3. /\ owning = "alloc" /\ allocated = {} /\ using = "none" /\ event = "none"
        /\ pressed = {} /\ holderInput = {} /\ strikes = 0
    BY DEF HolderInit
  <2>4. QED
    BY <2>1, <2>2, <2>3
<1>2. HolderInv /\ [HolderNext]_holderVars => HolderInv'
  <2> SUFFICES ASSUME HolderInv, [HolderNext]_holderVars PROVE HolderInv'
    OBVIOUS
  <2> USE DEF Goes, Step, guiUse, ownerVars
  <2>1. CASE AllocHolder
    BY <2>1 DEF AllocHolder
  <2>2. CASE SetView
    BY <2>2 DEF SetView
  <2>3. CASE EnterView
    BY <2>3 DEF EnterView
  <2>4. CASE EnableHolder
    BY <2>4 DEF EnableHolder
  <2>5. CASE Answered
    BY <2>5 DEF Answered
  <2>6. CASE DrainHolder
    BY <2>6 DEF DrainHolder
  <2>7. CASE ExitView
    BY <2>7 DEF ExitView
  <2>8. CASE UnsetView
    BY <2>8 DEF UnsetView
  <2>9. CASE DisableHolder
    BY <2>9 DEF DisableHolder
  <2>10. CASE RemoveHolder
    BY <2>10 DEF RemoveHolder
  <2>11. CASE FreeHolder
    BY <2>11 DEF FreeHolder
  <2>12. CASE FreeHeld
    BY <2>12 DEF FreeHeld
  <2>13. CASE TakeHolderDraw
    BY <2>13 DEF TakeHolderDraw, Busy
  <2>14. CASE ReadView
    BY <2>14 DEF ReadView
  <2>15. CASE CallView
    BY <2>15 DEF CallView
  <2>16. CASE ReturnToGui
    BY <2>16 DEF ReturnToGui
  <2>17. ASSUME NEW k \in HolderKeys, TakeHolderInput(k) PROVE HolderInv'
    <3>1. /\ ~ guiMutex /\ attached /\ k \in HolderKeys /\ (portOn \/ pressed # {})
          /\ UNCHANGED <<ownerVars, answered>>
          /\ guiMutex' = TRUE /\ using' = "holder" /\ event' \in {"Press", "Release", "Short"}
      BY <2>17 DEF TakeHolderInput, Busy
    <3>2. strikes' \in Nat /\ pressed' \subseteq HolderKeys /\ holderInput' \subseteq HolderKeys
      BY <2>17 DEF TakeHolderInput, Busy
    <3>3. owning \notin {"alloc", "set", "enter", "free", "freeView"}
      BY <3>1
    <3>4. QED
      BY <3>1, <3>2, <3>3
  <2>18. CASE UNCHANGED holderVars
    BY <2>18 DEF holderVars
  <2>19. QED
    BY <2>1, <2>2, <2>3, <2>4, <2>5, <2>6, <2>7, <2>8, <2>9, <2>10, <2>11, <2>12,
       <2>13, <2>14, <2>15, <2>16, <2>17, <2>18 DEF HolderNext
<1>3. QED
  BY <1>1, <1>2, PTL DEF HolderSpec

(* Whatever the GUI thread is using has not been freed, though the keys are *)
(* polled without a lock.                                                   *)
THEOREM HolderUseSafe == HolderSpec => []UseSafe
<1>1. HolderInv => UseSafe
  BY DEF HolderInv, UseSafe, NotYetEntered, Detached
<1>2. QED
  BY <1>1, HolderInvariant, PTL
-----------------------------------------------------------------------------
(* The list: the cursor is on an item and on the screen.                    *)

(* A difference that does not go below zero does not wrap.                  *)
LEMMA MinusExact == ASSUME NEW m \in Nat, NEW n \in Nat, m >= n PROVE Minus(m, n) = m - n
BY DEF Minus

(* The inductive invariant: once the window has left the top of the list,  *)
(* the row above the cursor is drawn too, so a step up never leaves the     *)
(* window before the window follows.                                        *)
CursorInv == CursorVisible /\ (window < position \/ window = 0)

(* Whatever keys, selections and rebuilds come, the item under the cursor   *)
(* is one of the rows that are drawn, and no row past the list is.          *)
THEOREM CursorStaysVisible == SubmenuSpec => []CursorVisible
<1> USE SubmenuAssumption DEF SubmenuAssumption
<1>1. SubmenuInit => CursorInv
  <2>1. SubmenuInit => Rows = 4 /\ header \in BOOLEAN
    BY Zenon DEF SubmenuInit, Rows
  <2>2. QED
    BY <2>1 DEF SubmenuInit, CursorInv, CursorVisible, SubmenuTypeOK
<1>2. CursorInv /\ [SubmenuNext]_submenuVars => CursorInv'
  <2> SUFFICES ASSUME CursorInv, [SubmenuNext]_submenuVars PROVE CursorInv'
    OBVIOUS
  <2> USE DEF CursorInv, CursorVisible, SubmenuTypeOK
  <2>1. Rows \in 3 .. 4
    BY DEF Rows
  <2>2. CASE Rebuild
    <3>1. Rows' = 4 /\ header' \in BOOLEAN
      BY <2>2, Zenon DEF Rebuild, Rows
    <3>2. PICK f \in 1 .. MaxItems : filling' = f
      BY <2>2, Zenon DEF Rebuild
    <3>3. size' = 0 /\ position' = 0 /\ window' = 0
      BY <2>2, Zenon DEF Rebuild
    <3>4. QED
      BY <3>1, <3>2, <3>3
  <2>3. CASE SetHeader
    <3>1. Rows' = 3 /\ header' \in BOOLEAN
      BY <2>3, Zenon DEF SetHeader, Rows
    <3>2. QED
      BY <2>3, <3>1 DEF SetHeader
  <2>4. CASE AddItem
    <3>1. Rows' = Rows
      BY <2>4 DEF AddItem, Rows
    <3>2. QED
      BY <2>1, <2>4, <3>1 DEF AddItem
  <2>5. ASSUME NEW n \in 0 .. MaxItems, SetSelectedItem(n) PROVE CursorInv'
    <3>1. Rows' = Rows
      BY <2>5 DEF SetSelectedItem, Rows
    <3>2. CASE size <= Rows
      BY <2>1, <2>5, <3>1, <3>2 DEF SetSelectedItem
    <3>3. CASE size > Rows
      <4>1. Minus(size, Rows) = size - Rows
        BY <2>1, <3>3, MinusExact
      <4>2. QED
        BY <2>1, <2>5, <3>1, <3>3, <4>1 DEF SetSelectedItem
    <3>4. QED
      BY <2>1, <3>2, <3>3
  <2>6. CASE ProcessUp
    <3>1. Rows' = Rows
      BY <2>6, Zenon DEF ProcessUp, Rows
    <3>2. Minus(size, 1) = size - 1
      BY <2>6, MinusExact DEF ProcessUp
    <3>3. CASE position > 0
      <4>1. position' = position - 1
        BY <2>6, <3>3 DEF ProcessUp
      <4>2. window' = IF position - 1 = window /\ window > 0 THEN window - 1 ELSE window
        BY <2>6, <3>3, <4>1 DEF ProcessUp
      <4>3. size' = size /\ header' = header /\ filling' = filling
        BY <2>6 DEF ProcessUp
      <4>4. QED
        BY <2>1, <3>1, <3>3, <4>1, <4>2, <4>3
    <3>4. CASE position = 0
      <4>1. position' = size - 1 /\ window = 0
        BY <2>6, <3>2, <3>4 DEF ProcessUp
      <4>2. window' = IF size > Rows THEN size - Rows ELSE 0
        BY <2>1, <2>6, <3>4, <4>1 DEF ProcessUp
      <4>3. QED
        BY <2>1, <2>6, <3>1, <4>1, <4>2 DEF ProcessUp
    <3>5. QED
      BY <3>3, <3>4
  <2>7. CASE ProcessDown
    <3>1. Rows' = Rows
      BY <2>7, Zenon DEF ProcessDown, Rows
    <3>2. Minus(size, 1) = size - 1
      BY <2>7, MinusExact DEF ProcessDown
    <3>3. CASE position >= size - 1
      BY <2>1, <2>7, <3>1, <3>2, <3>3 DEF ProcessDown
    <3>4. CASE position < size - 1
      <4>1. Minus(position + 1, window) = position + 1 - window
        BY <3>4, MinusExact
      <4>2. CASE size >= Rows
        <5>1. Minus(size, Rows) = size - Rows
          BY <2>1, <4>2, MinusExact
        <5>2. QED
          BY <2>1, <2>7, <3>1, <3>2, <3>4, <4>1, <4>2, <5>1 DEF ProcessDown
      <4>3. CASE size < Rows
        <5>1. window = 0 /\ position + 1 <= Rows - 2
          BY <2>1, <3>4, <4>3
        <5>2. QED
          BY <2>1, <2>7, <3>1, <3>2, <3>4, <4>1, <4>3, <5>1 DEF ProcessDown
      <4>4. QED
        BY <2>1, <4>2, <4>3
    <3>5. QED
      BY <3>3, <3>4
  <2>8. CASE UNCHANGED submenuVars
    BY <2>8 DEF submenuVars, Rows
  <2>9. QED
    BY <2>2, <2>3, <2>4, <2>5, <2>6, <2>7, <2>8 DEF SubmenuNext
<1>3. CursorInv => CursorVisible
  BY DEF CursorInv
<1>4. QED
  BY <1>1, <1>2, <1>3, PTL DEF SubmenuSpec
-----------------------------------------------------------------------------
(* The dispatcher: no view that was freed is drawn.                         *)

(* The inductive invariant.  The mutex of the GUI is held by the GUI thread *)
(* while an event is routed or a view is drawn, by the application while a  *)
(* view is removed; a view is registered as long as it is removed, and not  *)
(* any more when it is freed.                                               *)
Shares ==
    /\ drawn # None => mutex = "gui" /\ drawn \in views /\ routed = <<>>
    /\ routed # <<>> => mutex = "gui"
    /\ mutex = "app" <=> app = "remove"
Registered ==
    /\ views \subseteq alive
    /\ {current, target} \subseteq views \cup {None}
    /\ app = "remove" => removing \in views
    /\ app = "free" => removing \notin views
ViewsInv == DispatcherTypeOK /\ Shares /\ Registered

(* The invariant holds at first and at every step.                          *)
THEOREM ViewsInvariant == DispatcherSpec => []ViewsInv
<1> USE DispatcherAssumption DEF DispatcherAssumption, ViewsInv
<1>1. DispatcherInit => ViewsInv
  <2> SUFFICES ASSUME DispatcherInit PROVE ViewsInv
    OBVIOUS
  <2>1. {ours, enabled, redraw} \subseteq BOOLEAN
    BY Zenon DEF DispatcherInit
  <2>2. DispatcherTypeOK
    BY <2>1 DEF DispatcherInit, DispatcherTypeOK
  <2>3. QED
    BY <2>2 DEF DispatcherInit, Shares, Registered
<1>2. ViewsInv /\ [DispatcherNext]_dispatcherVars => ViewsInv'
  <2> SUFFICES ASSUME ViewsInv, [DispatcherNext]_dispatcherVars PROVE ViewsInv'
    OBVIOUS
  <2> USE DEF DispatcherTypeOK, guiSide, keysSide, appSide, inputSide
  <2>1. ASSUME NEW e \in Events, NEW b \in BOOLEAN, Taken(e, b),
               letGo' \subseteq down', down' \subseteq Keys, presses' \in Nat
        PROVE  ViewsInv'
    <3>1. DispatcherTypeOK'
      <4>1. {ours, enabled, redraw}' \subseteq BOOLEAN
        BY <2>1 DEF Taken
      <4>2. routed' \in Seq(Events) /\ Len(routed') <= 1 /\ mutex' \in {"none", "gui", "app"}
        <5>1. <<e>> \in Seq(Events) /\ Len(<<e>>) = 1
          BY <2>1
        <5>2. routed' \in {routed, <<e>>} /\ mutex' \in {mutex, "gui"}
          BY <2>1, Zenon DEF Taken
        <5>3. routed' \in Seq(Events) /\ Len(routed') <= 1
          <6>1. CASE routed' = <<e>>
            BY <5>1, <6>1
          <6>2. CASE routed' = routed
            BY <6>2
          <6>3. QED
            BY <5>2, <6>1, <6>2
        <5>4. mutex' \in {"none", "gui", "app"}
          BY <5>2
        <5>5. QED
          BY <5>3, <5>4
      <4>3. QED
        BY <2>1, <4>1, <4>2 DEF Taken
    <3>2. Shares' /\ Registered'
      BY <2>1 DEF Taken, Shares, Registered
    <3>3. QED
      BY <3>1, <3>2
  <2>2. ASSUME NEW k \in Keys, TakePress(k) PROVE ViewsInv'
    <3>1. [key |-> k, type |-> "Press"] \in Events
      BY DEF Events
    <3>2. (IF down = {} THEN enabled ELSE ours) \in BOOLEAN
      OBVIOUS
    <3>3. letGo' \subseteq down' /\ down' \subseteq Keys /\ presses' \in Nat
      BY <2>2 DEF TakePress
    <3>4. QED
      BY <2>1, <2>2, <3>1, <3>2, <3>3 DEF TakePress
  <2>3. ASSUME NEW k \in Keys, TakeOther(k) PROVE ViewsInv'
    <3>1. [key |-> k, type |-> "Other"] \in Events
      BY DEF Events
    <3>2. letGo' \subseteq down' /\ down' \subseteq Keys /\ presses' \in Nat
      BY <2>3 DEF TakeOther
    <3>3. QED
      BY <2>1, <2>3, <3>1, <3>2 DEF TakeOther
  <2>4. ASSUME NEW k \in Keys, TakeRelease(k) PROVE ViewsInv'
    <3>1. [key |-> k, type |-> "Release"] \in Events
      BY DEF Events
    <3>2. letGo' \subseteq down' /\ down' \subseteq Keys /\ presses' \in Nat
      BY <2>4 DEF TakeRelease
    <3>3. QED
      BY <2>1, <2>4, <3>1, <3>2 DEF TakeRelease
  <2>5. ASSUME NEW k \in Keys, LetGo(k) PROVE ViewsInv'
    BY <2>5 DEF LetGo, Shares, Registered
  <2>6. CASE PutInput
    <3>1. inputs' \in Seq(Events) /\ Len(inputs') <= QueueLen
      BY <2>6 DEF PutInput
    <3>2. QED
      BY <2>6, <3>1 DEF PutInput, Shares, Registered
  <2>7. CASE DrawBegin
    BY <2>7 DEF DrawBegin, Shares, Registered
  <2>8. CASE DrawEnd
    BY <2>8 DEF DrawEnd, Shares, Registered
  <2>9. CASE HandleInput
    <3> DEFINE e == Head(inputs)
    <3>1. e \in Events /\ inputs' \in Seq(Events) /\ Len(inputs') <= QueueLen
      BY <2>9 DEF HandleInput
    <3>2. e.key \in Keys
      BY <3>1 DEF Events
    <3>3. ongoing' = Held(e) /\ ongoing' \subseteq Keys
      BY <2>9, <3>2 DEF HandleInput, Held
    <3>4. seen' \in [Views -> SUBSET Keys]
      BY <2>9, <3>2 DEF HandleInput, Shown
    <3>5. target' \in {current, target} /\ current' \in views \cup {None}
      BY <2>9 DEF HandleInput, Bound, Registered
    <3>6. app' \in {"run", "drain"} /\ app = "run"
      BY <2>9 DEF HandleInput
    <3>7. redraw' \in BOOLEAN
      BY <2>9 DEF HandleInput
    <3>8. UNCHANGED <<guiSide, mutex, views, alive, removing, enabled>>
      BY <2>9 DEF HandleInput
    <3>9. DispatcherTypeOK'
      BY <3>1, <3>3, <3>4, <3>5, <3>6, <3>7, <3>8 DEF Registered
    <3>10. Shares' /\ Registered'
      BY <3>5, <3>6, <3>8 DEF Shares, Registered
    <3>11. QED
      BY <3>9, <3>10
  <2>10. CASE HandleCustom
    BY <2>10 DEF HandleCustom, Shares, Registered
  <2>11. CASE DrainInput
    <3>1. inputs' \in Seq(Events) /\ Len(inputs') <= QueueLen /\ ongoing' \subseteq Keys
      <4>1. CASE ongoing = {}
        BY <2>11, <4>1 DEF DrainInput
      <4>2. CASE ongoing # {}
        <5> DEFINE e == Head(inputs)
        <5>1. /\ inputs # <<>> /\ inputs' = Tail(inputs) /\ ongoing' = Held(e)
          BY <2>11, <4>2 DEF DrainInput
        <5>2. e \in Events /\ inputs' \in Seq(Events) /\ Len(inputs') <= QueueLen
          BY <5>1
        <5>3. ongoing' \subseteq Keys
          BY <5>1, <5>2 DEF Held, Events
        <5>4. QED
          BY <5>2, <5>3
      <4>3. QED
        BY <4>1, <4>2
    <3>2. app = "drain" /\ app' \in {"drain", "end"}
      BY <2>11 DEF DrainInput
    <3>3. QED
      BY <2>11, <3>1, <3>2 DEF DrainInput, Shares, Registered
  <2>12. ASSUME NEW v \in Views, RemoveLock(v) PROVE ViewsInv'
    BY <2>12 DEF RemoveLock, Shares, Registered
  <2>13. CASE RemoveView
    <3>1. {ours, enabled, redraw}' \subseteq BOOLEAN
      BY <2>13 DEF RemoveView
    <3>2. QED
      BY <2>13, <3>1 DEF RemoveView, Shares, Registered
  <2>14. CASE FreeView
    BY <2>14 DEF FreeView, Shares, Registered
  <2>15. CASE UNCHANGED dispatcherVars
    BY <2>15 DEF dispatcherVars, Shares, Registered
  <2>16. QED
    BY <2>2, <2>3, <2>4, <2>5, <2>6, <2>7, <2>8, <2>9, <2>10, <2>11, <2>12, <2>13, <2>14, <2>15
       DEF DispatcherNext, GuiThread, Application
<1>3. QED
  BY <1>1, <1>2, PTL DEF DispatcherSpec

(* No freed view is drawn, and the dispatcher keeps no pointer to a view    *)
(* that was removed, though views are switched without a lock.              *)
THEOREM DispatcherViewsAlive == DispatcherSpec => []ViewsAlive
<1>1. ViewsInv => ViewsAlive
  BY DEF ViewsInv, Shares, Registered, ViewsAlive
<1>2. QED
  BY <1>1, ViewsInvariant, PTL

(* A key that is down, in the view of the dispatcher (position 0) or by a   *)
(* press on its way to it, is released on the way before its next press,    *)
(* and before the end unless the GUI thread still owes the release: the key *)
(* is down and the port is that of the ongoing input.                       *)
Way == inputs \o routed
Owing == IF ours THEN down ELSE {}
PressedAt(q, known, i, k) ==
    IF i = 0 THEN k \in known ELSE q[i] = [key |-> k, type |-> "Press"]
ReleasedOn(q, i, j, k) == \E m \in i + 1 .. j : q[m] = [key |-> k, type |-> "Release"]
Alternates(q, known, owing) ==
    \A k \in Keys, i \in 0 .. Len(q) : PressedAt(q, known, i, k) =>
        /\ \A j \in i + 1 .. Len(q) :
              q[j] = [key |-> k, type |-> "Press"] => ReleasedOn(q, i, j - 1, k)
        /\ k \notin owing => ReleasedOn(q, i, Len(q), k)
SeenByTarget ==
    app = "run" => \A v \in Views : \A k \in seen[v] : target = v /\ k \in ongoing
BalanceInv == Alternates(Way, ongoing, Owing) /\ SeenByTarget

(* An event that joins the way keeps it alternating, if a press comes only  *)
(* for a key that was not owed, and what is not owed afterwards was not     *)
(* before or is released by the event.                                      *)
LEMMA AlternatesAppend ==
    ASSUME NEW q \in Seq(Events), NEW e \in Events, NEW known, NEW owing, NEW owed,
           Alternates(q, known, owing),
           e.type = "Press" => e.key \notin owing /\ e.key \in owed,
           \A k \in Keys : k \in owing /\ k \notin owed => e = [key |-> k, type |-> "Release"]
    PROVE  Alternates(Append(q, e), known, owed)
<1> DEFINE r == Append(q, e)
<1>1. /\ r \in Seq(Events) /\ Len(r) = Len(q) + 1 /\ Len(q) \in Nat
      /\ r[Len(q) + 1] = e /\ \A i \in 1 .. Len(q) : r[i] = q[i]
  OBVIOUS
<1> HIDE DEF r
<1> SUFFICES ASSUME NEW k \in Keys, NEW i \in 0 .. Len(r), PressedAt(r, known, i, k)
             PROVE  /\ \A j \in i + 1 .. Len(r) :
                          r[j] = [key |-> k, type |-> "Press"] => ReleasedOn(r, i, j - 1, k)
                    /\ k \notin owed => ReleasedOn(r, i, Len(r), k)
  BY DEF Alternates, r
<1>2. CASE i = Len(q) + 1
  <2>1. e = [key |-> k, type |-> "Press"]
    BY <1>1, <1>2 DEF PressedAt
  <2>2. k \in owed
    BY <2>1
  <2>3. QED
    BY <1>1, <1>2, <2>2
<1>3. CASE i \in 0 .. Len(q)
  <2>1. PressedAt(q, known, i, k)
    BY <1>1, <1>3 DEF PressedAt
  <2>2. /\ \A j \in i + 1 .. Len(q) :
              q[j] = [key |-> k, type |-> "Press"] => ReleasedOn(q, i, j - 1, k)
        /\ k \notin owing => ReleasedOn(q, i, Len(q), k)
    BY <1>3, <2>1 DEF Alternates
  <2>3. \A j \in 0 .. Len(q) : ReleasedOn(q, i, j, k) => ReleasedOn(r, i, j, k)
    BY <1>1, <1>3 DEF ReleasedOn
  <2>4. ReleasedOn(q, i, Len(q), k) => ReleasedOn(r, i, Len(r), k)
    BY <1>1, <1>3 DEF ReleasedOn
  <2>5. ASSUME NEW j \in i + 1 .. Len(r), r[j] = [key |-> k, type |-> "Press"]
        PROVE  ReleasedOn(r, i, j - 1, k)
    <3>1. CASE j = Len(r)
      <4>1. e.type = "Press" /\ e.key = k
        BY <1>1, <2>5, <3>1
      <4>2. j - 1 = Len(q)
        BY <1>1, <3>1
      <4>3. QED
        BY <1>1, <2>2, <2>3, <4>1, <4>2
    <3>2. CASE j \in i + 1 .. Len(q)
      BY <1>1, <1>3, <2>2, <2>3, <2>5, <3>2
    <3>3. QED
      BY <1>1, <3>1, <3>2
  <2>6. ASSUME k \notin owed PROVE ReleasedOn(r, i, Len(r), k)
    <3>1. CASE k \notin owing
      BY <2>2, <2>4, <3>1
    <3>2. CASE k \in owing
      <4>1. r[Len(r)] = [key |-> k, type |-> "Release"]
        BY <1>1, <2>6, <3>2
      <4>2. QED
        BY <1>1, <1>3, <4>1 DEF ReleasedOn
    <3>3. QED
      BY <3>1, <3>2
  <2>7. QED
    BY <2>5, <2>6
<1>4. QED
  BY <1>1, <1>2, <1>3

(* Taking the first event keeps the rest alternating, when a key is known   *)
(* afterwards only if the event presses it, or it was and is not released.  *)
LEMMA AlternatesTail ==
    ASSUME NEW q \in Seq(Events), q # <<>>, NEW known, NEW owing, NEW after,
           Alternates(q, known, owing),
           \A k \in Keys : k \in after =>
               \/ Head(q) = [key |-> k, type |-> "Press"]
               \/ k \in known /\ Head(q) # [key |-> k, type |-> "Release"]
    PROVE  /\ Alternates(Tail(q), after, owing)
           /\ Head(q).type = "Press" => Head(q).key \notin known
<1> DEFINE r == Tail(q)
           e == Head(q)
<1>1. /\ r \in Seq(Events) /\ Len(q) = Len(r) + 1 /\ Len(r) \in Nat
      /\ e = q[1] /\ e \in Events /\ \A i \in 1 .. Len(r) : r[i] = q[i + 1]
  OBVIOUS
<1>0. \A k \in Keys : k \in after =>
         \/ e = [key |-> k, type |-> "Press"]
         \/ k \in known /\ e # [key |-> k, type |-> "Release"]
  OBVIOUS
<1> HIDE DEF r, e
<1>2. e.type = "Press" => e.key \notin known
  <2> SUFFICES ASSUME e.type = "Press", e.key \in known PROVE FALSE
    OBVIOUS
  <2>1. e.key \in Keys /\ q[1] = [key |-> e.key, type |-> "Press"]
    BY <1>1 DEF Events
  <2>2. PressedAt(q, known, 0, e.key)
    BY DEF PressedAt
  <2>3. 0 \in 0 .. Len(q) /\ 1 \in 0 + 1 .. Len(q)
    BY <1>1
  <2>4. \A j \in 0 + 1 .. Len(q) :
           q[j] = [key |-> e.key, type |-> "Press"] => ReleasedOn(q, 0, j - 1, e.key)
    BY <2>1, <2>2, <2>3 DEF Alternates
  <2>5. ReleasedOn(q, 0, 1 - 1, e.key)
    BY <2>1, <2>3, <2>4
  <2>6. QED
    BY <2>5 DEF ReleasedOn
<1>3. ASSUME NEW k \in Keys, NEW i \in 0 .. Len(r), PressedAt(r, after, i, k)
      PROVE  /\ \A j \in i + 1 .. Len(r) :
                   r[j] = [key |-> k, type |-> "Press"] => ReleasedOn(r, i, j - 1, k)
             /\ k \notin owing => ReleasedOn(r, i, Len(r), k)
  <2>1. PICK n \in {i, i + 1} :
           /\ PressedAt(q, known, n, k) /\ n \in 0 .. Len(q)
           /\ n = i => i = 0 /\ q[1] # [key |-> k, type |-> "Release"]
    <3>1. CASE i > 0
      <4>1. PressedAt(q, known, i + 1, k) /\ i + 1 \in 0 .. Len(q)
        BY <1>1, <1>3, <3>1 DEF PressedAt
      <4>2. QED
        BY <3>1, <4>1
    <3>2. CASE i = 0
      <4>1. k \in after
        BY <1>3, <3>2 DEF PressedAt
      <4>2. CASE e = [key |-> k, type |-> "Press"]
        <5>1. PressedAt(q, known, i + 1, k) /\ i + 1 \in 0 .. Len(q)
          <6>1. i + 1 = 1 /\ q[1] = [key |-> k, type |-> "Press"] /\ 1 \in 0 .. Len(q)
            BY <1>1, <3>2, <4>2
          <6>2. PressedAt(q, known, 1, k)
            BY <6>1 DEF PressedAt
          <6>3. QED
            BY <6>1, <6>2
        <5>2. QED
          BY <3>2, <5>1
      <4>3. CASE k \in known /\ e # [key |-> k, type |-> "Release"]
        BY <1>1, <3>2, <4>3 DEF PressedAt
      <4>4. QED
        BY <1>0, <4>1, <4>2, <4>3
    <3>3. QED
      BY <3>1, <3>2
  <2>2. /\ \A j \in n + 1 .. Len(q) :
              q[j] = [key |-> k, type |-> "Press"] => ReleasedOn(q, n, j - 1, k)
        /\ k \notin owing => ReleasedOn(q, n, Len(q), k)
    BY <2>1 DEF Alternates
  <2>3. ASSUME NEW j \in i .. Len(r), ReleasedOn(q, n, j + 1, k) PROVE ReleasedOn(r, i, j, k)
    <3>1. PICK m \in n + 1 .. j + 1 : q[m] = [key |-> k, type |-> "Release"]
      BY <2>3 DEF ReleasedOn
    <3>2. m - 1 \in i + 1 .. j /\ r[m - 1] = q[m]
      BY <1>1, <2>1, <3>1
    <3>3. QED
      BY <3>1, <3>2 DEF ReleasedOn
  <2>4. ASSUME NEW j \in i + 1 .. Len(r), r[j] = [key |-> k, type |-> "Press"]
        PROVE  ReleasedOn(r, i, j - 1, k)
    <3>1. q[j + 1] = [key |-> k, type |-> "Press"] /\ j + 1 \in n + 1 .. Len(q)
      BY <1>1, <2>1, <2>4
    <3>2. ReleasedOn(q, n, (j - 1) + 1, k) /\ j - 1 \in i .. Len(r)
      BY <1>1, <2>2, <3>1
    <3>3. QED
      BY <2>3, <3>2
  <2>5. k \notin owing => ReleasedOn(r, i, Len(r), k)
    BY <1>1, <2>2, <2>3
  <2>6. QED
    BY <2>4, <2>5
<1>4. Alternates(r, after, owing)
  BY <1>3 DEF Alternates
<1>5. QED
  BY <1>2, <1>4 DEF r, e

(* A view that saw a key go down sees it go up, whatever views were         *)
(* switched and keys pressed meanwhile: the release is on its way or still  *)
(* to be made, and is given to that view.                                   *)
THEOREM DispatcherBalanced == DispatcherSpec => []Balanced
<1> USE DispatcherAssumption DEF DispatcherAssumption
<1>1. DispatcherInit => BalanceInv
  <2> SUFFICES ASSUME DispatcherInit PROVE BalanceInv
    OBVIOUS
  <2>1. Way = <<>> /\ ongoing = {} /\ \A v \in Views : seen[v] = {}
    BY DEF DispatcherInit, Way
  <2>2. Alternates(Way, ongoing, Owing)
    BY <2>1 DEF Alternates, PressedAt
  <2>3. QED
    BY <2>1, <2>2 DEF BalanceInv, SeenByTarget
<1>2. ViewsInv /\ BalanceInv /\ [DispatcherNext]_dispatcherVars => BalanceInv'
  <2> SUFFICES ASSUME ViewsInv, BalanceInv, [DispatcherNext]_dispatcherVars PROVE BalanceInv'
    OBVIOUS
  <2> USE DEF guiSide, keysSide, appSide, inputSide
  <2>1. /\ inputs \in Seq(Events) /\ routed \in Seq(Events) /\ Way \in Seq(Events)
        /\ letGo \subseteq down /\ down \subseteq Keys /\ ours \in BOOLEAN /\ enabled \in BOOLEAN
        /\ mutex = "none" => routed = <<>>
        /\ seen \in [Views -> SUBSET Keys]
        /\ Alternates(Way, ongoing, Owing) /\ SeenByTarget
    BY DEF ViewsInv, DispatcherTypeOK, Shares, Way, BalanceInv
  <2>2. ASSUME NEW e \in Events, NEW b \in BOOLEAN, Taken(e, b),
               e.type = "Press" => e.key \notin Owing /\ (b => e.key \in Owing'),
               \A k \in Keys : k \in Owing /\ k \notin Owing' =>
                   b /\ e = [key |-> k, type |-> "Release"]
        PROVE  BalanceInv'
    <3>1. UNCHANGED <<inputs, app, ongoing, target, seen>> /\ routed = <<>> /\ Way = inputs
      BY <2>1, <2>2 DEF Taken, Way
    <3>2. CASE b /\ (enabled \/ e.type = "Release")
      <4>1. routed' = <<e>>
        BY <2>2, <3>2 DEF Taken
      <4>2. Way' = Append(Way, e)
        BY <2>1, <3>1, <4>1 DEF Way
      <4>3. Alternates(Append(Way, e), ongoing, Owing')
        BY <2>1, <2>2, <3>2, AlternatesAppend
      <4>4. QED
        BY <2>1, <3>1, <4>2, <4>3 DEF BalanceInv, SeenByTarget, Alternates
    <3>3. CASE ~ (b /\ (enabled \/ e.type = "Release"))
      <4>1. Way' = Way
        BY <2>2, <3>1, <3>3 DEF Taken, Way
      <4>2. \A k \in Keys : k \in Owing => k \in Owing'
        BY <2>2, <3>3
      <4>3. Alternates(Way, ongoing, Owing')
        BY <2>1, <4>2 DEF Alternates
      <4>4. QED
        BY <2>1, <3>1, <4>1, <4>3 DEF BalanceInv, SeenByTarget
    <3>4. QED
      BY <3>2, <3>3
  <2>3. ASSUME NEW k \in Keys, TakePress(k) PROVE BalanceInv'
    <3> DEFINE e == [key |-> k, type |-> "Press"]
               b == IF down = {} THEN enabled ELSE ours
    <3>1. e \in Events /\ b \in BOOLEAN /\ e.key = k /\ Taken(e, b)
      BY <2>1, <2>3 DEF Events, TakePress
    <3>2. ours' = b /\ down' = down \cup {k} /\ k \notin down
      BY <2>3, <3>1 DEF TakePress, Taken
    <3>3. k \notin Owing /\ (b => k \in Owing') /\ \A u \in Keys : u \in Owing => u \in Owing'
      BY <3>2 DEF Owing
    <3>4. QED
      BY <2>2, <3>1, <3>3
  <2>4. ASSUME NEW k \in Keys, TakeOther(k) PROVE BalanceInv'
    <3> DEFINE e == [key |-> k, type |-> "Other"]
    <3>1. e \in Events /\ e.type = "Other" /\ Taken(e, ours) /\ ours \in BOOLEAN
      BY <2>1, <2>4 DEF Events, TakeOther
    <3>2. Owing' = Owing
      BY <2>4, <3>1 DEF Owing, TakeOther, Taken
    <3>3. QED
      BY <2>2, <3>1, <3>2
  <2>5. ASSUME NEW k \in Keys, TakeRelease(k) PROVE BalanceInv'
    <3> DEFINE e == [key |-> k, type |-> "Release"]
    <3>1. e \in Events /\ e.type = "Release" /\ Taken(e, ours) /\ ours \in BOOLEAN
      BY <2>1, <2>5 DEF Events, TakeRelease
    <3>2. \A u \in Keys : u \in Owing /\ u \notin Owing' => ours /\ u = k
      BY <2>5, <3>1 DEF Owing, TakeRelease, Taken
    <3>3. QED
      BY <2>2, <3>1, <3>2
  <2>6. ASSUME Way' = Way, UNCHANGED <<ongoing, target, seen>>, Owing' = Owing,
               app' = "run" => app = "run"
        PROVE  BalanceInv'
    BY <2>1, <2>6 DEF BalanceInv, SeenByTarget
  <2>7. CASE PutInput
    <3>1. Way' = Way
      BY <2>1, <2>7 DEF PutInput, Way
    <3>2. QED
      BY <2>6, <2>7, <3>1 DEF PutInput, Owing
  <2>8. ASSUME inputs # <<>>, inputs' = Tail(inputs), UNCHANGED <<routed, ours, down>>,
               \A k \in Keys : k \in ongoing' =>
                   \/ Head(inputs) = [key |-> k, type |-> "Press"]
                   \/ k \in ongoing /\ Head(inputs) # [key |-> k, type |-> "Release"]
        PROVE  /\ Alternates(Way, ongoing, Owing)'
               /\ Head(inputs).type = "Press" => Head(inputs).key \notin ongoing
    <3>1. Way # <<>> /\ Head(Way) = Head(inputs) /\ Way' = Tail(Way) /\ Owing' = Owing
      BY <2>1, <2>8 DEF Way, Owing
    <3>2. /\ Alternates(Tail(Way), ongoing', Owing)
          /\ Head(Way).type = "Press" => Head(Way).key \notin ongoing
      BY <2>1, <2>8, <3>1, AlternatesTail
    <3>3. QED
      BY <3>1, <3>2
  <2>9. CASE HandleInput
    <3> DEFINE e == Head(inputs)
    <3>1. /\ app = "run" /\ inputs # <<>> /\ inputs' = Tail(inputs) /\ ongoing' = Held(e)
          /\ UNCHANGED <<routed, ours, down>> /\ e \in Events
      BY <2>1, <2>9 DEF HandleInput
    <3>2. \A k \in Keys : k \in ongoing' =>
              \/ e = [key |-> k, type |-> "Press"]
              \/ k \in ongoing /\ e # [key |-> k, type |-> "Release"]
      BY <3>1 DEF Held, Events
    <3>3. Alternates(Way, ongoing, Owing)' /\ (e.type = "Press" => e.key \notin ongoing)
      BY <2>8, <3>1, <3>2
    <3>4. SeenByTarget'
      <4> SUFFICES ASSUME app' = "run", NEW v \in Views, NEW k \in seen'[v]
                   PROVE  target' = v /\ k \in ongoing'
        BY DEF SeenByTarget
      <4>1. /\ \A u \in Views : \A w \in seen[u] : target = u /\ w \in ongoing
            /\ e.key \in Keys /\ e.type \in {"Press", "Release", "Other"}
        BY <2>1, <3>1 DEF SeenByTarget, Events
      <4>2. CASE e.type = "Other"
        <5>1. ongoing' = ongoing /\ target' = target /\ seen' = seen
          <6>1. ongoing' = ongoing
            BY <3>1, <4>2 DEF Held
          <6>2. target' = target
            BY <2>9, <4>2 DEF HandleInput, Bound
          <6>3. Shown(current, e) => seen' = seen
            BY <2>1, <4>2 DEF Shown
          <6>4. seen' = seen
            BY <2>9, <4>2, <6>3 DEF HandleInput
          <6>5. QED
            BY <6>1, <6>2, <6>4
        <5>2. QED
          BY <4>1, <5>1
      <4>3. CASE e.type = "Release"
        <5>1. target' = target /\ ongoing' = ongoing \ {e.key}
          BY <2>9, <3>1, <4>3 DEF HandleInput, Bound, Held
        <5>2. \/ target = current /\ Shown(current, e)
              \/ target # current /\ target # None /\ Shown(target, e)
              \/ target = None /\ seen' = seen
          BY <2>9, <4>3, <5>1 DEF HandleInput
        <5>3. target = v => Shown(v, e) \/ target = None
          BY <5>2
        <5>4. CASE target = v
          <6>1. Shown(v, e)
            BY <5>3, <5>4
          <6>2. seen'[v] = seen[v] \ {e.key}
            BY <2>1, <4>3, <6>1 DEF Shown
          <6>3. QED
            BY <4>1, <5>1, <6>2
        <5>5. CASE target # v
          <6>1. seen'[v] = seen[v]
            BY <2>1, <5>2, <5>5 DEF Shown
          <6>2. QED
            BY <4>1, <5>5, <6>1
        <5>6. QED
          BY <5>4, <5>5
      <4>4. CASE e.type = "Press"
        <5>1. e.key \notin ongoing /\ ongoing' = ongoing \cup {e.key}
          BY <3>1, <3>3, <4>4 DEF Held
        <5>2. target' = IF ongoing = {} THEN current ELSE target
          <6>1. ongoing \subseteq {e.key} <=> ongoing = {}
            BY <5>1
          <6>2. QED
            BY <2>9, <4>4, <6>1 DEF HandleInput, Bound
        <5>3. (target' = current /\ Shown(current, e)) \/ seen' = seen
          BY <2>9, <4>4 DEF HandleInput
        <5>4. ongoing = {} => \A u \in Views : seen[u] = {}
          BY <4>1
        <5>5. CASE seen' = seen
          BY <4>1, <5>1, <5>2, <5>4, <5>5
        <5>6. CASE target' = current /\ Shown(current, e)
          <6>1. CASE current = v
            <7>1. seen'[v] = seen[v] \cup {e.key}
              BY <2>1, <4>4, <5>6, <6>1 DEF Shown
            <7>2. QED
              BY <4>1, <5>1, <5>6, <6>1, <7>1
          <6>2. CASE current # v
            <7>1. seen'[v] = seen[v]
              BY <2>1, <5>6, <6>2 DEF Shown
            <7>2. k \in seen[v] /\ target = v /\ ongoing # {}
              BY <4>1, <7>1
            <7>3. QED
              BY <4>1, <5>1, <5>2, <7>1, <7>2
          <6>3. QED
            BY <6>1, <6>2
        <5>7. QED
          BY <5>3, <5>5, <5>6
      <4>5. QED
        BY <4>1, <4>2, <4>3, <4>4
    <3>5. QED
      BY <3>3, <3>4 DEF BalanceInv
  <2>10. CASE DrainInput
    <3>1. app' # "run" /\ app = "drain" /\ SeenByTarget' /\ UNCHANGED <<target, seen, routed, ours, down>>
      BY <2>10 DEF DrainInput, SeenByTarget
    <3>2. CASE ongoing = {}
      <4>1. UNCHANGED <<inputs, ongoing>>
        BY <2>10, <3>2 DEF DrainInput
      <4>2. QED
        BY <2>6, <3>1, <4>1 DEF Way, Owing
    <3>3. CASE ongoing # {}
      <4> DEFINE e == Head(inputs)
      <4>1. inputs # <<>> /\ inputs' = Tail(inputs) /\ ongoing' = Held(e) /\ e \in Events
        BY <2>1, <2>10, <3>3 DEF DrainInput
      <4>2. \A k \in Keys : k \in ongoing' =>
                \/ e = [key |-> k, type |-> "Press"]
                \/ k \in ongoing /\ e # [key |-> k, type |-> "Release"]
        BY <4>1 DEF Held, Events
      <4>3. QED
        BY <2>8, <3>1, <4>1, <4>2 DEF BalanceInv
    <3>4. QED
      BY <3>2, <3>3
  <2>11. CASE DrawBegin \/ DrawEnd \/ HandleCustom
    BY <2>6, <2>11 DEF DrawBegin, DrawEnd, HandleCustom, Way, Owing
  <2>12. ASSUME NEW k \in Keys, LetGo(k) PROVE BalanceInv'
    BY <2>6, <2>12 DEF LetGo, Way, Owing
  <2>13. ASSUME NEW v \in Views, RemoveLock(v) PROVE BalanceInv'
    BY <2>6, <2>13 DEF RemoveLock, Way, Owing
  <2>14. CASE RemoveView
    <3>1. app' # "run" /\ UNCHANGED <<inputs, routed, ongoing, ours, down>>
      BY <2>14 DEF RemoveView
    <3>2. QED
      BY <2>1, <3>1 DEF BalanceInv, SeenByTarget, Way, Owing
  <2>15. CASE FreeView
    BY <2>6, <2>15 DEF FreeView, Way, Owing
  <2>16. CASE UNCHANGED dispatcherVars
    BY <2>6, <2>16 DEF dispatcherVars, Way, Owing
  <2>17. QED
    BY <2>3, <2>4, <2>5, <2>7, <2>9, <2>10, <2>11, <2>12, <2>13, <2>14, <2>15, <2>16
       DEF DispatcherNext, GuiThread, Application
<1>3. ViewsInv /\ BalanceInv => Balanced
  <2> SUFFICES ASSUME ViewsInv, BalanceInv, app = "run",
                      NEW v \in Views, NEW k \in seen[v]
               PROVE  target = v /\ k \in ongoing /\ OnItsWay(k)
    BY DEF Balanced
  <2>1. target = v /\ k \in ongoing /\ k \in Keys /\ Way \in Seq(Events)
    BY DEF BalanceInv, SeenByTarget, ViewsInv, DispatcherTypeOK, Way
  <2>2. k \notin Owing => ReleasedOn(Way, 0, Len(Way), k)
    <3>1. PressedAt(Way, ongoing, 0, k) /\ 0 \in 0 .. Len(Way)
      BY <2>1 DEF PressedAt
    <3>2. QED
      BY <2>1, <3>1 DEF BalanceInv, Alternates
  <2>3. QED
    <3>1. ASSUME k \in Owing PROVE OnItsWay(k)
      BY <3>1 DEF Owing, OnItsWay
    <3>2. ASSUME k \notin Owing PROVE OnItsWay(k)
      <4>1. PICK m \in 0 + 1 .. Len(Way) : Way[m] = [key |-> k, type |-> "Release"]
        BY <2>2, <3>2 DEF ReleasedOn
      <4>2. Contains(Way, [key |-> k, type |-> "Release"])
        <5>1. m \in 1 .. Len(Way)
          BY <2>1, <4>1
        <5>2. QED
          BY <4>1, <5>1, Zenon DEF Contains
      <4>3. QED
        BY <4>2 DEF OnItsWay, Way
    <3>3. QED
      BY <2>1, <3>1, <3>2
<1>4. QED
  BY <1>1, <1>2, <1>3, ViewsInvariant, PTL DEF DispatcherSpec
-----------------------------------------------------------------------------
(* The dashboard: rows of one page of one state, and no old ones at rest.   *)

(* While rows are drawn the model is locked; what is on the screen at rest  *)
(* is whole; and a model that is not on the screen has a request to come.   *)
FullPage(m) == Len(Pages[m.page])
DrawnSoFar ==
    /\ rows = SubSeq(PageTexts(painted), 1, Len(rows))
    /\ Len(rows) \in 0 .. FullPage(painted)
DrawingInv ==
    /\ model.page \in DOMAIN Pages /\ painted.page \in DOMAIN Pages
    /\ step \in {"loop", "model", "port", "ask"} /\ painter \in {"wait", "port", "model", "rows"}
    /\ DrawnSoFar
    /\ painter = "rows" => painted = model
    /\ painter = "wait" /\ ~ asked => Len(rows) = FullPage(painted)
    /\ painter = "wait" /\ ~ asked /\ step \in {"loop", "model"} => painted = model

(* The pages are sequences of rows.                                         *)
LEMMA PagesListed ==
    /\ DOMAIN Pages = 1 .. Len(Pages) /\ Len(Pages) \in Nat \ {0}
    /\ \A p \in DOMAIN Pages : Len(Pages[p]) \in Nat /\ DOMAIN Pages[p] = 1 .. Len(Pages[p])
<1>1. DOMAIN Pages = 1 .. 14 /\ Len(Pages) = 14
  BY DEF Pages
<1>2. \A p \in 1 .. 14 : Len(Pages[p]) \in {2, 5}
  BY DEF Pages
<1>3. \A p \in 1 .. 14 : DOMAIN Pages[p] = 1 .. Len(Pages[p])
  BY DEF Pages
<1>4. ASSUME NEW p \in DOMAIN Pages
      PROVE  Len(Pages[p]) \in Nat /\ DOMAIN Pages[p] = 1 .. Len(Pages[p])
  <2>1. p \in 1 .. 14
    BY <1>1
  <2>2. Len(Pages[p]) \in Nat
    BY <1>2, <2>1
  <2>3. QED
    BY <1>3, <2>1, <2>2
<1>5. Len(Pages) \in Nat \ {0} /\ DOMAIN Pages = 1 .. Len(Pages)
  BY <1>1
<1>6. QED
  BY <1>4, <1>5

(* The texts of a page are a sequence too.                                  *)
LEMMA TextsListed ==
    ASSUME NEW m, m.page \in DOMAIN Pages
    PROVE  /\ PageTexts(m) \in Seq({Text(Pages[m.page][r], TableAfter[m.state]) : r \in DOMAIN Pages[m.page]})
           /\ Len(PageTexts(m)) = FullPage(m) /\ FullPage(m) \in Nat
           /\ \A r \in 1 .. FullPage(m) : PageTexts(m)[r] = Text(Pages[m.page][r], TableAfter[m.state])
BY PagesListed DEF PageTexts, FullPage

(* A row more, and the texts so far are still those of the page.            *)
LEMMA RowDrawn ==
    ASSUME NEW T, NEW texts \in Seq(T), NEW painting, painting = SubSeq(texts, 1, Len(painting)),
           Len(painting) \in Nat, Len(painting) < Len(texts),
           NEW next, next = Append(painting, texts[Len(painting) + 1])
    PROVE  next = SubSeq(texts, 1, Len(next)) /\ Len(next) = Len(painting) + 1
<1> DEFINE n == Len(painting)
<1>1. n \in Nat /\ n < Len(texts) /\ Len(texts) \in Nat /\ painting = SubSeq(texts, 1, n)
  OBVIOUS
<1> HIDE DEF n
<1>2. SubSeq(texts, 1, n) \in Seq(T) /\ Len(SubSeq(texts, 1, n)) = n
      /\ \A i \in 1 .. n : SubSeq(texts, 1, n)[i] = texts[i]
  BY <1>1, SubSeqProperties
<1>3. SubSeq(texts, 1, n + 1) \in Seq(T) /\ Len(SubSeq(texts, 1, n + 1)) = n + 1
      /\ \A i \in 1 .. n + 1 : SubSeq(texts, 1, n + 1)[i] = texts[i]
  BY <1>1, SubSeqProperties
<1>4. painting \in Seq(T) /\ texts[n + 1] \in T /\ next = Append(painting, texts[n + 1]) /\ Len(painting) = n
  BY <1>1, <1>2 DEF n
<1>5. next \in Seq(T) /\ Len(next) = n + 1 /\ \A i \in 1 .. n + 1 : next[i] = texts[i]
  BY <1>1, <1>2, <1>4
<1>6. next = SubSeq(texts, 1, n + 1)
  BY <1>3, <1>5, SeqEqual
<1>7. QED
  BY <1>1, <1>4, <1>5, <1>6

(* A turn of the page leads to a page.                                      *)
LEMMA TurnedIsPage == \A p \in DOMAIN Pages : Turned(p) \in DOMAIN Pages
<1> SUFFICES ASSUME NEW p \in DOMAIN Pages PROVE Turned(p) \in DOMAIN Pages
  OBVIOUS
<1> DEFINE N == Len(Pages)
<1>1. N \in Nat \ {0} /\ DOMAIN Pages = 1 .. N
  BY PagesListed
<1> HIDE DEF N
<1>2. Turned(p) = IF job = "left" THEN IF p = 1 THEN N ELSE p - 1 ELSE (p % N) + 1
  BY DEF Turned, N
<1>3. p \in Nat /\ p % N \in 0 .. N - 1
  BY <1>1
<1>4. QED
  BY <1>1, <1>2, <1>3

(* The rows of the dashboard are kept in order, whatever the locks.         *)
THEOREM DrawingInvariant == DashboardSpec => []DrawingInv
<1>1. DashboardInit => DrawingInv
  <2> SUFFICES ASSUME DashboardInit PROVE DrawingInv
    OBVIOUS
  <2>1. PICK p \in StartPages : model = Screen(0, p)
    BY DEF DashboardInit
  <2>2. p \in DOMAIN Pages /\ model.page = p /\ painted = model
    BY <2>1, DashboardAssumption DEF Screen, DashboardInit
  <2>3. rows = <<>> /\ Len(rows) = 0
    BY DEF DashboardInit
  <2>4. FullPage(painted) \in Nat
    BY <2>2, PagesListed DEF FullPage
  <2>5. SubSeq(PageTexts(painted), 1, 0) = <<>>
    BY <2>2, TextsListed, SubSeqProperties
  <2>6. DrawnSoFar
    BY <2>3, <2>4, <2>5 DEF DrawnSoFar
  <2>7. QED
    BY <2>2, <2>6 DEF DashboardInit, DrawingInv
<1>2. DrawingInv /\ [DashboardNext]_dashboardVars => DrawingInv'
  <2> SUFFICES ASSUME DrawingInv, [DashboardNext]_dashboardVars PROVE DrawingInv'
    OBVIOUS
  <2> USE DEF DrawingInv
  <2>1. ASSUME UNCHANGED <<rows, painted>> PROVE DrawnSoFar'
    BY <2>1 DEF DrawnSoFar
  <2>2. CASE Receive \/ DecodeTick \/ Turn \/ UNCHANGED dashboardVars
    BY <2>1, <2>2 DEF Receive, DecodeTick, Turn, dashboardVars, appVars, paintVars
  <2>3. CASE WriteModel
    <3>1. model'.page \in DOMAIN Pages
      BY <2>3, TurnedIsPage DEF WriteModel, Screen
    <3>2. painter # "rows" /\ step' = "port" /\ UNCHANGED <<rows, painted, painter, asked>>
      BY <2>3 DEF WriteModel, paintVars
    <3>3. QED
      BY <2>1, <3>1, <3>2
  <2>4. CASE UpdatePort \/ AskRedraw
    BY <2>1, <2>4 DEF UpdatePort, AskRedraw, paintVars
  <2>5. CASE TakeRedraw \/ PaintPort
    BY <2>1, <2>5 DEF TakeRedraw, PaintPort, appVars
  <2>6. CASE PaintModel
    <3>1. /\ rows' = <<>> /\ painted' = model /\ painter' = "rows"
          /\ UNCHANGED <<model, step, asked>>
      BY <2>6 DEF PaintModel, appVars
    <3>2. FullPage(painted') \in Nat
      BY <3>1, PagesListed DEF FullPage
    <3>3. SubSeq(PageTexts(painted'), 1, 0) = <<>>
      BY <3>1, TextsListed, SubSeqProperties
    <3>4. PageTexts(painted)' = PageTexts(painted')
      BY DEF PageTexts
    <3>5. DrawnSoFar'
      BY <3>1, <3>2, <3>3, <3>4 DEF DrawnSoFar
    <3>6. QED
      BY <3>1, <3>5
  <2>7. CASE PaintRow
    <3> DEFINE texts == PageTexts(painted)
               T == {Text(Pages[painted.page][r], TableAfter[painted.state]) : r \in DOMAIN Pages[painted.page]}
               n == Len(rows)
    <3>1. /\ painter = "rows" /\ painted = model /\ n < FullPage(painted)
          /\ rows' = Append(rows, Text(Pages[painted.page][n + 1], TableAfter[painted.state]))
          /\ UNCHANGED <<model, step, painter, painted, asked>>
      BY <2>7 DEF PaintRow, appVars, FullPage
    <3>2. n \in Nat /\ FullPage(painted) \in Nat /\ n + 1 \in 1 .. FullPage(painted)
      <4>1. FullPage(painted) \in Nat
        BY TextsListed
      <4>2. n \in 0 .. FullPage(painted)
        BY DEF DrawnSoFar
      <4> HIDE DEF n
      <4>3. QED
        BY <3>1, <4>1, <4>2
    <3>3. /\ texts \in Seq(T) /\ Len(texts) = FullPage(painted)
          /\ texts[n + 1] = Text(Pages[painted.page][n + 1], TableAfter[painted.state])
      BY <3>2, TextsListed
    <3>4. rows = SubSeq(texts, 1, n)
      BY DEF DrawnSoFar
    <3>5. rows' = Append(rows, texts[n + 1])
      BY <3>1, <3>3
    <3> HIDE DEF texts, T
    <3>6. rows' = SubSeq(texts, 1, Len(rows')) /\ Len(rows') = n + 1
      BY <3>1, <3>2, <3>3, <3>4, <3>5, RowDrawn
    <3>7. PageTexts(painted)' = texts
      BY <3>1 DEF PageTexts, texts
    <3>8. DrawnSoFar'
      BY <3>1, <3>2, <3>6, <3>7 DEF DrawnSoFar, FullPage
    <3>9. QED
      BY <3>1, <3>8
  <2>8. CASE PaintEnd
    BY <2>1, <2>8 DEF PaintEnd, appVars, FullPage
  <2>9. QED
    BY <2>2, <2>3, <2>4, <2>5, <2>6, <2>7, <2>8 DEF DashboardNext, AppRuns, Painting
<1>3. QED
  BY <1>1, <1>2, PTL DEF DashboardSpec

(* What is on the screen is one page of one state, and at rest the current. *)
(* TextsTrue speaks of the decoder alone and of no state; that its texts    *)
(* say what was sent is a hypothesis here, which every run evaluates.       *)
THEOREM ReadingsAreDrawn == ASSUME TextsTrue PROVE DashboardSpec => []ReadingsDrawn
<1>1. DrawingInv => ReadingsDrawn
  <2> SUFFICES ASSUME DrawingInv PROVE ReadingsDrawn
    OBVIOUS
  <2>1. rows = SubSeq(PageTexts(painted), 1, Len(rows))
    BY DEF DrawingInv, DrawnSoFar
  <2>2. ASSUME Settled PROVE painted = model /\ rows = PageTexts(model)
    <3>1. painted = model /\ Len(rows) = FullPage(model) /\ model.page \in DOMAIN Pages
      BY <2>2 DEF Settled, DrawingInv
    <3> DEFINE texts == PageTexts(model)
               T == {Text(Pages[model.page][r], TableAfter[model.state]) : r \in DOMAIN Pages[model.page]}
    <3>2. texts \in Seq(T) /\ Len(texts) = Len(rows)
      BY <3>1, TextsListed
    <3>3. rows = SubSeq(texts, 1, Len(texts))
      BY <2>1, <3>1, <3>2
    <3> HIDE DEF texts, T
    <3>4. /\ SubSeq(texts, 1, Len(texts)) \in Seq(T)
          /\ Len(SubSeq(texts, 1, Len(texts))) = Len(texts)
          /\ \A i \in 1 .. Len(texts) : SubSeq(texts, 1, Len(texts))[i] = texts[i]
      BY <3>2, SubSeqProperties
    <3>5. SubSeq(texts, 1, Len(texts)) = texts
      BY <3>2, <3>4, SeqEqual
    <3>6. QED
      BY <3>1, <3>3, <3>5 DEF texts
  <2>3. QED
    BY <2>1, <2>2 DEF ReadingsDrawn
<1>2. QED
  BY <1>1, DrawingInvariant, PTL
=============================================================================
