------------------------------ MODULE GuiWake -------------------------------
(***************************************************************************)
(* How the GUI thread is woken: the loop of gui_srv, its two thread flags, *)
(* the input queue, threads that change what is shown and ask for a redraw *)
(* and the input service, which puts an event and then sets a flag.        *)
(*                                                                         *)
(* Setting flags and waiting for them are one step each in the kernel;     *)
(* furi_thread_flags_clear is two, a query and an overwrite.               *)
(***************************************************************************)
EXTENDS Naturals, FiniteSets

CONSTANTS
    Drawers,     (* threads that change what is on the screen               *)
    QueueSize,   (* capacity of gui->input_queue                            *)
    MaxEvents,   (* bound: input events                                     *)
    MaxChanges   (* bound: changes of every drawer                          *)

ASSUME GuiWakeAssumption ==
    /\ IsFiniteSet(Drawers)
    /\ QueueSize \in Nat \ {0} /\ MaxEvents \in Nat /\ MaxChanges \in Nat

VARIABLES
    flags,     (* thread flags of the GUI thread                            *)
    waiting,   (* events in gui->input_queue                                *)
    gpc,       (* program counter of the GUI thread                         *)
    taken,     (* flags the last wait returned                              *)
    query,     (* cflags: what the clear will write                         *)
    ipc,       (* the publisher: "put" or "signal"                          *)
    events,    (* events published so far                                   *)
    dpc,       (* each drawer: "change" or "update"                         *)
    content,   (* number of changes of each drawer                          *)
    screen     (* the content last drawn                                    *)

vars == <<flags, waiting, gpc, taken, query, ipc, events, dpc, content, screen>>
Flags == {"DRAW", "INPUT"}
gui == <<gpc, taken, query>>
input == <<ipc, events>>
drawing == <<dpc, content>>

Init ==
    /\ flags = {} /\ waiting = 0 /\ gpc = "wait" /\ taken = {} /\ query = {}
    /\ ipc = "put" /\ events = 0
    /\ dpc = [d \in Drawers |-> "change"]
    /\ content = [d \in Drawers |-> 0] /\ screen = content
-----------------------------------------------------------------------------
(* gui_input_events_callback: a put that waits for room, then the flag.     *)
Room == waiting < QueueSize

InputPut ==
    /\ ipc = "put" /\ events < MaxEvents /\ Room
    /\ waiting' = waiting + 1 /\ events' = events + 1 /\ ipc' = "signal"
    /\ UNCHANGED <<flags, gui, drawing, screen>>

InputSignal ==
    /\ ipc = "signal" /\ ipc' = "put"
    /\ flags' = flags \cup {"INPUT"}
    /\ UNCHANGED <<waiting, gui, events, drawing, screen>>

(* A drawer changes its model, then view_port_update asks for a redraw.     *)
Change(d) ==
    /\ dpc[d] = "change" /\ content[d] < MaxChanges
    /\ content' = [content EXCEPT ![d] = @ + 1]
    /\ dpc' = [dpc EXCEPT ![d] = "update"]
    /\ UNCHANGED <<flags, waiting, gui, input, screen>>

FaultUpdate(d) ==
    /\ dpc[d] = "update" /\ dpc' = [dpc EXCEPT ![d] = "change"]
    /\ flags' = IF gpc = "wait" THEN flags \cup {"DRAW"} ELSE flags
    /\ UNCHANGED <<waiting, gui, input, content, screen>>
Update(d) ==
    /\ dpc[d] = "update" /\ dpc' = [dpc EXCEPT ![d] = "change"]
    /\ flags' = flags \cup {"DRAW"}
    /\ UNCHANGED <<waiting, gui, input, content, screen>>
-----------------------------------------------------------------------------
(* The loop of gui_srv.                                                     *)
Wait ==
    /\ gpc = "wait" /\ flags # {}
    /\ taken' = flags /\ flags' = {}
    /\ gpc' = IF "INPUT" \in flags THEN "drain" ELSE "draw"
    /\ UNCHANGED <<waiting, query, input, drawing, screen>>

FaultDrain ==
    /\ gpc = "drain"
    /\ waiting' = IF waiting = 0 THEN 0 ELSE waiting - 1
    /\ gpc' = IF waiting > 1 THEN "drain" ELSE "wait"
    /\ UNCHANGED <<flags, taken, query, input, drawing, screen>>
Drain ==
    /\ gpc = "drain"
    /\ \/ waiting > 0 /\ waiting' = waiting - 1 /\ UNCHANGED gpc
       \/ waiting = 0 /\ gpc' = "draw" /\ UNCHANGED waiting
    /\ UNCHANGED <<flags, taken, query, input, drawing, screen>>

NoDraw ==
    /\ gpc = "draw" /\ "DRAW" \notin taken /\ gpc' = "wait"
    /\ UNCHANGED <<flags, waiting, taken, query, input, drawing, screen>>

(* furi_thread_flags_clear(DRAW): a query, then an overwrite.               *)
ClearQuery ==
    /\ gpc = "draw" /\ "DRAW" \in taken /\ gpc' = "overwrite"
    /\ query' = flags \ {"DRAW"}
    /\ UNCHANGED <<flags, waiting, taken, input, drawing, screen>>

ClearOverwrite ==
    /\ gpc = "overwrite" /\ gpc' = "redraw"
    /\ flags' = query
    /\ UNCHANGED <<waiting, taken, query, input, drawing, screen>>

Redraw ==
    /\ gpc = "redraw" /\ gpc' = "wait"
    /\ screen' = content
    /\ UNCHANGED <<flags, waiting, taken, query, input, drawing>>
-----------------------------------------------------------------------------
Gui == Wait \/ Drain \/ NoDraw \/ ClearQuery \/ ClearOverwrite \/ Redraw
Input == InputPut \/ InputSignal
Next == Gui \/ Input \/ \E d \in Drawers : Change(d) \/ Update(d)

Spec == Init /\ [][Next]_vars
WakeFairness ==
    /\ WF_vars(Gui) /\ WF_vars(InputSignal)
    /\ \A d \in Drawers : WF_vars(Update(d))
-----------------------------------------------------------------------------
TypeOK ==
    /\ flags \subseteq Flags /\ taken \subseteq Flags /\ query \subseteq Flags
    /\ waiting \in 0 .. QueueSize
    /\ gpc \in {"wait", "drain", "draw", "overwrite", "redraw"}
    /\ ipc \in {"put", "signal"} /\ events \in 0 .. MaxEvents
    /\ dpc \in [Drawers -> {"change", "update"}]
    /\ content \in [Drawers -> 0 .. MaxChanges] /\ screen \in [Drawers -> 0 .. MaxChanges]

(* The screen is never left old: a change that was not drawn is about to be *)
(* announced, or is announced, or the redraw is still to come.  A request   *)
(* that the clear swallows is served by the redraw that follows it.         *)
RedrawDue == "DRAW" \in flags \/ gpc = "redraw" \/ (gpc # "wait" /\ "DRAW" \in taken)
ScreenFresh ==
    \A d \in Drawers : screen[d] # content[d] => dpc[d] = "update" \/ RedrawDue

(* Every change reaches the screen.                                         *)
Drawn == \A d \in Drawers, n \in 1 .. MaxChanges : (content[d] = n) ~> (screen[d] >= n)

(* gui.c:561: "Process till queue become empty".  A flag that is set        *)
(* between the query and the overwrite of the clear is lost, and its event  *)
(* stays in the queue while the thread waits.                               *)
QueueEmptied ==
    gpc = "wait" /\ flags = {} /\ ipc = "put" => waiting = 0
=============================================================================
