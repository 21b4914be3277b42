---------------------------- MODULE DashboardView ----------------------------
(***************************************************************************)
(* The dashboard on the screen.  On every tick the application decodes the *)
(* frames and writes the result into the model of the view; the user turns *)
(* its pages; the GUI thread draws the rows of one page of it.  The model  *)
(* has a mutex.  The mutex of the view port is waited for two ticks and    *)
(* then done without, by the drawing and by the request for it.            *)
(*                                                                         *)
(* A decoded state is kept as the number of frames it was decoded from.    *)
(* Labels and units are left out.                                          *)
(***************************************************************************)
EXTENDS EcuDecoder

CONSTANTS
    Arrivals,    (* what the controller sends: frame and data, in order     *)
    StartPages,  (* pages the dashboard may be entered on                   *)
    MaxTurns     (* bound: turns of the page                                *)

ASSUME DashboardAssumption ==
    /\ \A i \in DOMAIN Arrivals :
        Arrivals[i].frame \in FrameIndex /\ Arrivals[i].data \in Seq(0 .. 255)
    /\ StartPages \subseteq DOMAIN Pages /\ MaxTurns \in Nat

VARIABLES
    sent,        (* frames that the worker has put into its table           *)
    reading,     (* app->ecu_state                                          *)
    model,       (* the model: state and page                               *)
    turns,       (* turns so far                                            *)
    job,         (* what the application does: "tick", "left", "right"      *)
    step,        (* where it is: "loop", "model", "port", "ask"             *)
    painter,     (* the GUI thread: "wait", "port", "model", "rows"         *)
    portMutex,   (* owner of view_port->mutex: "free", "app", "gui"         *)
    asked,       (* a redraw was asked for                                  *)
    rows,        (* texts of the rows drawn                                 *)
    painted      (* what the model was when the drawing began               *)

appVars == <<reading, model, turns, job, step>>
paintVars == <<painter, rows, painted>>
dashboardVars == <<sent, appVars, paintVars, portMutex, asked>>

Screen(s, p) == [state |-> s, page |-> p]
TableAfter[n \in 0 .. Len(Arrivals)] ==
    IF n = 0 THEN Nothing
    ELSE [TableAfter[n - 1] EXCEPT ![Arrivals[n].frame] = Arrivals[n].data]
PageTexts(m) ==
    [r \in DOMAIN Pages[m.page] |-> Text(Pages[m.page][r], TableAfter[m.state])]

(* The dashboard is entered: its view is switched to, which asks for a      *)
(* redraw.  Nothing of it is on the screen yet.                            *)
DashboardInit ==
    /\ sent = 0 /\ reading = 0 /\ turns = 0
    /\ \E p \in StartPages : model = Screen(0, p)
    /\ job = "tick" /\ step = "loop" /\ painter = "wait"
    /\ portMutex = "free" /\ asked = TRUE
    /\ rows = <<>> /\ painted = model
-----------------------------------------------------------------------------
Receive ==
    /\ sent < Len(Arrivals) /\ sent' = sent + 1
    /\ UNCHANGED <<appVars, paintVars, portMutex, asked>>

(* The tick of the scene copies the frames, which the worker allows in one  *)
(* piece, and decodes them.                                                 *)
DecodeTick ==
    /\ step = "loop" /\ job' = "tick" /\ step' = "model"
    /\ reading' = sent
    /\ UNCHANGED <<sent, model, turns, paintVars, portMutex, asked>>

Turn ==
    /\ step = "loop" /\ turns < MaxTurns
    /\ turns' = turns + 1 /\ step' = "model"
    /\ job' \in {"left", "right"}
    /\ UNCHANGED <<sent, reading, model, paintVars, portMutex, asked>>

Turned(p) ==
    IF job = "left" THEN IF p = 1 THEN Len(Pages) ELSE p - 1
    ELSE (p % Len(Pages)) + 1

(* with_view_model: the model is locked, written and unlocked, which no     *)
(* other thread sees as more than one step.                                 *)
FaultWriteModel ==
    /\ step = "model" /\ step' = "port"
    /\ model' = IF job = "tick" THEN Screen(reading, model.page)
                ELSE Screen(model.state, Turned(model.page))
    /\ UNCHANGED <<sent, reading, turns, job, paintVars, portMutex, asked>>
WriteModel ==
    /\ step = "model" /\ painter # "rows" /\ step' = "port"
    /\ model' = IF job = "tick" THEN Screen(reading, model.page)
                ELSE Screen(model.state, Turned(model.page))
    /\ UNCHANGED <<sent, reading, turns, job, paintVars, portMutex, asked>>

(* view_port_update: the mutex of the port, or none after two ticks, then   *)
(* the request.  A mutex that was not had is not given back.                *)
Acquired(owner) == IF portMutex = "free" THEN owner ELSE portMutex
Released(owner) == IF portMutex = owner THEN "free" ELSE portMutex

UpdatePort ==
    /\ step = "port" /\ step' = "ask"
    /\ portMutex' = Acquired("app")
    /\ UNCHANGED <<sent, reading, model, turns, job, paintVars, asked>>

AskRedraw ==
    /\ step = "ask" /\ step' = "loop"
    /\ asked' = TRUE /\ portMutex' = Released("app")
    /\ UNCHANGED <<sent, reading, model, turns, job, paintVars>>
-----------------------------------------------------------------------------
(* The GUI thread.                                                          *)
TakeRedraw ==
    /\ painter = "wait" /\ asked
    /\ asked' = FALSE /\ painter' = "port"
    /\ UNCHANGED <<sent, appVars, portMutex, rows, painted>>

PaintPort ==
    /\ painter = "port" /\ painter' = "model"
    /\ portMutex' = Acquired("gui")
    /\ UNCHANGED <<sent, appVars, asked, rows, painted>>

(* view_draw locks the model, and the canvas is cleared.                    *)
PaintModel ==
    /\ painter = "model" /\ painter' = "rows"
    /\ rows' = <<>> /\ painted' = model
    /\ UNCHANGED <<sent, appVars, portMutex, asked>>

(* The page is read once, each value when its row is drawn.                 *)
PaintRow ==
    /\ painter = "rows" /\ Len(rows) < Len(Pages[painted.page])
    /\ rows' = Append(rows, Text(Pages[painted.page][Len(rows) + 1], TableAfter[model.state]))
    /\ UNCHANGED <<sent, appVars, painter, painted, portMutex, asked>>

PaintEnd ==
    /\ painter = "rows" /\ Len(rows) = Len(Pages[painted.page])
    /\ painter' = "wait" /\ portMutex' = Released("gui")
    /\ UNCHANGED <<sent, appVars, rows, painted, asked>>
-----------------------------------------------------------------------------
AppRuns == WriteModel \/ UpdatePort \/ AskRedraw
Painting == TakeRedraw \/ PaintPort \/ PaintModel \/ PaintRow \/ PaintEnd
DashboardNext == Receive \/ DecodeTick \/ Turn \/ AppRuns \/ Painting

DashboardSpec == DashboardInit /\ [][DashboardNext]_dashboardVars
DashboardFairness == WF_dashboardVars(AppRuns) /\ WF_dashboardVars(Painting)
-----------------------------------------------------------------------------
(* The screen shows one page of one state of the engine, never rows of two, *)
(* and no old one while the GUI thread has nothing to do: the mutex that is *)
(* done without is not the one that this needs.  What the texts say is true *)
(* of what was sent.                                                        *)
Settled == painter = "wait" /\ ~asked /\ step \in {"loop", "model"}
ReadingsDrawn ==
    /\ rows = SubSeq(PageTexts(painted), 1, Len(rows))
    /\ Settled => painted = model /\ rows = PageTexts(model)
    /\ TextsTrue

(* What was decoded, and the page that was chosen, get to the screen.       *)
ReadingsArrive ==
    /\ \A n \in 1 .. Len(Arrivals) : reading = n ~> painted.state >= n
    /\ step = "model" ~> step = "loop"
=============================================================================
