------------------------------ MODULE MCParts -------------------------------
(***************************************************************************)
(* Small components that share nothing, checked one beside the other: a    *)
(* behaviour is one of the component that `part' names from the start, and *)
(* the others stay as they began.                                          *)
(***************************************************************************)
EXTENDS GuiWake, ViewHolder, ViewDispatcher, Submenu, Threads, Records, Heap,
        DashboardView

VARIABLE part

wakeVars == vars
Leave(p) ==
    /\ part = p /\ UNCHANGED part
    /\ p # "wake" => UNCHANGED wakeVars
    /\ p # "holder" => UNCHANGED holderVars
    /\ p # "dispatcher" => UNCHANGED dispatcherVars
    /\ p # "submenu" => UNCHANGED submenuVars
    /\ p # "threads" => UNCHANGED threadVars
    /\ p # "records" => UNCHANGED recordVars
    /\ p # "heap" => UNCHANGED heapVars
    /\ p # "dashboard" => UNCHANGED dashboardVars

PartsInit ==
    /\ part \in {"wake", "holder", "dispatcher", "submenu", "threads", "records", "heap",
                "dashboard"}
    /\ Init /\ HolderInit /\ DispatcherInit /\ SubmenuInit /\ ThreadsInit /\ RecordsInit
    /\ HeapInit /\ DashboardInit
    /\ part # "dispatcher" => current = CHOOSE v \in Views : TRUE
    /\ part # "dashboard" => model = CHOOSE m \in {Screen(0, p) : p \in StartPages} : TRUE

PartsNext ==
    \/ Leave("wake") /\ Next
    \/ Leave("holder") /\ HolderNext
    \/ Leave("dispatcher") /\ DispatcherNext
    \/ Leave("submenu") /\ SubmenuNext
    \/ Leave("threads") /\ ThreadsNext
    \/ Leave("records") /\ RecordsNext
    \/ Leave("heap") /\ HeapNext
    \/ Leave("dashboard") /\ DashboardNext

(* Where the parts "wake" and "dispatcher" stay at their initial states,    *)
(* nothing of theirs is enabled that their fairness would ask for.  The     *)
(* dashboard begins with a redraw to do, so it says when it is fair.        *)
PartsSpec ==
    /\ PartsInit
    /\ [][PartsNext]_<<part, wakeVars, holderVars, dispatcherVars, submenuVars, threadVars,
                       recordVars, heapVars, dashboardVars>>
    /\ WakeFairness /\ DispatcherFairness
    /\ WF_dashboardVars(part = "dashboard" /\ AppRuns)
    /\ WF_dashboardVars(part = "dashboard" /\ Painting)

(* What begins is finished: a change of the screen is drawn, a reading      *)
(* arrives on it, and a dispatcher that was stopped lets its thread go.     *)
PartsProceed == Drawn /\ RunReturns /\ ReadingsArrive
-----------------------------------------------------------------------------
(* The records of the program and who uses them, in the order of the calls. *)
(* "driver" is a record that is destroyed and made again.                   *)
Call(c, n) == [call |-> c, name |-> n]
MCClients == {"input", "gui", "dialogs", "app", "driver"}
MCNames == {"input_events", "gui", "dialogs", "driver"}
MCProgram ==
    [input   |-> <<Call("create", "input_events")>>,
     gui     |-> <<Call("open", "input_events"), Call("create", "gui")>>,
     dialogs |-> <<Call("create", "dialogs"), Call("open", "gui"), Call("close", "gui")>>,
     app     |-> <<Call("open", "gui"), Call("open", "dialogs"), Call("open", "gui"),
                   Call("open", "driver"), Call("close", "driver"),
                   Call("close", "dialogs"), Call("close", "gui")>>,
     driver  |-> <<Call("create", "driver"), Call("destroy", "driver")>>]
MCArrivals == <<[frame |-> 1, data |-> <<16, 39, 156, 255, 100, 7, 0>>],
                [frame |-> 7, data |-> <<16, 39>>]>>
MCLoopFrom == [input |-> 2, gui |-> 3, dialogs |-> 2, app |-> 2, driver |-> 1]
=============================================================================
