------------------------------ MODULE Desktop -------------------------------
(***************************************************************************)
(* The desktop application (wg_client/gui.py) next to the CLI: the UI      *)
(* thread's handlers, one worker thread at a time for the operations of    *)
(* ClientConnect, the worker's signals queued to the UI thread, and the    *)
(* status table.                                                           *)
(***************************************************************************)
EXTENDS ClientConnect

CONSTANT Gui    \* the frontend that is the GUI's worker thread

ASSUME DesktopAssumption == Gui \in Frontends

VARIABLES
    open,       \* the application runs
    thread,     \* the worker thread: "none", "running" or "ending"
    buttons,    \* the window's buttons are enabled
    signals,    \* the workers' outcomes queued for the UI thread
    dialogs,    \* warnings on screen, one event loop nested in another
    shown       \* rows of the status table

ui == <<open, thread, buttons, signals, dialogs, shown>>
desktop == <<vars, ui>>

\* ops.status: the recorded tunnels, and whether the interface is there.
Status == {<<i, records[i], i \in Up>> : i \in Recorded}

DesktopTypeOK ==
    /\ TypeOK
    /\ open \in BOOLEAN /\ buttons \in BOOLEAN
    /\ thread \in {"none", "running", "ending"}
    /\ thread = "running" <=> ~Idle(Gui)
    /\ signals \in Seq({"succeeded", "failed"})
    /\ dialogs \in Nat
    /\ \A row \in shown : row \in Ifaces \X Gateways \X BOOLEAN

\* The window has just been made and has read the status.
FreshUi ==
    /\ open = TRUE /\ thread = "none" /\ buttons = TRUE
    /\ signals = <<>> /\ dialogs = 0

DesktopInit == Init /\ FreshUi /\ shown = Status

busy == thread # "none"

\* refresh_status: nothing while busy, and an exception on a truncated file.
Refresh == shown' = IF busy \/ torn THEN shown ELSE Status

-----------------------------------------------------------------------------
(* The worker.                                                             *)

\* run_op, from a button or, the identity aside, from the tray: the tray's
\* entries are not disabled.  A worker that has ended is dropped for the new
\* one, and with it, or not, the outcome it had queued.
RunOp(op) ==
    /\ open /\ ~busy
    /\ op = "identity" => buttons /\ dialogs = 0
    /\ Start(Gui, op)
    /\ thread' = "running" /\ buttons' = FALSE
    /\ signals' \in {signals, <<>>}
    /\ UNCHANGED <<open, dialogs, shown>>

\* Mutant of Outcome: an exception that is no OpError ends the thread only.
OutcomeOfSuccess == IF pc[Gui] \in {"fetch", "rollback"} THEN <<>> ELSE <<"succeeded">>

\* What run() emits when the operation ends from where it is.
Outcome ==
    CASE pc[Gui] \in {"fetch", "rollback"} -> <<"failed">>
      [] pc[Gui] = "load" /\ torn          -> <<"failed">>
      [] OTHER                             -> <<"succeeded">>

\* A step of the operation; with the last one run() emits its outcome, with
\* an OSError of the records' file the failure.
Work ==
    /\ \/ /\ Step(Gui)
          /\ IF Idle(Gui)'
             THEN /\ thread' = "ending"
                  /\ \/ signals' = signals \o Outcome
                     \/ pc[Gui] = "identity" /\ signals' = Append(signals, "failed")
             ELSE UNCHANGED <<thread, signals>>
       \/ FileFails(Gui) /\ thread' = "ending" /\ signals' = Append(signals, "failed")
    /\ UNCHANGED <<open, buttons, dialogs, shown>>

\* isRunning() turns false some time after the signal was emitted.
ThreadEnds ==
    /\ thread = "ending" /\ thread' = "none"
    /\ UNCHANGED <<vars, open, buttons, signals, dialogs, shown>>

-----------------------------------------------------------------------------
(* The UI thread.                                                          *)

\* _op_done
Succeeded ==
    /\ open /\ signals # <<>> /\ Head(signals) = "succeeded"
    /\ signals' = Tail(signals)
    /\ buttons' = TRUE
    /\ Refresh
    /\ UNCHANGED <<vars, open, thread, dialogs>>

\* _op_failed: the warning's own event loop runs until the user closes it.
Failed ==
    /\ open /\ signals # <<>> /\ Head(signals) = "failed"
    /\ signals' = Tail(signals)
    /\ buttons' = TRUE
    /\ dialogs' = dialogs + 1
    /\ UNCHANGED <<vars, open, thread, shown>>

CloseWarning ==
    /\ open /\ dialogs > 0
    /\ dialogs' = dialogs - 1
    /\ Refresh
    /\ UNCHANGED <<vars, open, thread, buttons, signals>>

\* Mutant of Timer: it does not fire under a warning.
TimerWaits ==
    /\ open /\ dialogs = 0
    /\ Refresh
    /\ UNCHANGED <<vars, open, thread, buttons, signals, dialogs>>

\* Every STATUS_REFRESH_MS, under a warning too.
Timer ==
    /\ open
    /\ Refresh
    /\ UNCHANGED <<vars, open, thread, buttons, signals, dialogs>>

\* Mutant of Quit: the dead worker still counts as running.
QuitForgetsWorker ==
    /\ open
    /\ open' = FALSE /\ buttons' = TRUE
    /\ signals' = <<>> /\ dialogs' = 0 /\ shown' = {}
    /\ IF Idle(Gui) THEN Counted("quits") /\ UNCHANGED <<alive, iface, file, lost, pc, locals>>
                    ELSE Kill(Gui)
    /\ UNCHANGED thread

\* quit does not ask whether busy: a running worker dies with the process.
Quit ==
    /\ open
    /\ open' = FALSE /\ thread' = "none" /\ buttons' = TRUE
    /\ signals' = <<>> /\ dialogs' = 0 /\ shown' = {}
    /\ IF Idle(Gui) THEN Counted("quits") /\ UNCHANGED <<alive, iface, file, lost, pc, locals>>
                    ELSE Kill(Gui)

\* main: the window reads the status; on a truncated file it does not open.
Launch ==
    /\ ~open /\ ~torn
    /\ open' = TRUE
    /\ Refresh
    /\ UNCHANGED <<vars, thread, buttons, signals, dialogs>>

-----------------------------------------------------------------------------
Operations == {"connect", "reconnect", "disconnect", "identity"}

Handlers == ThreadEnds \/ Succeeded \/ Failed \/ CloseWarning \/ Timer \/ Quit \/ Launch

\* The CLI's commands, and the network.
Elsewhere ==
    /\ UNCHANGED ui
    /\ \/ \E p \in Frontends \ {Gui} :
             \/ Step(p) \/ Interrupt(p) \/ FileFails(p) \/ Kill(p)
             \/ \E op \in Operations : Start(p, op)
       \/ \E g \in Usable : Flip(g)

DesktopNext == Elsewhere \/ Work \/ Handlers \/ \E op \in Operations : RunOp(op)

\* A frontend that is not killed runs its next command, and Qt delivers what
\* is queued; nobody has to close a warning.
Fairness ==
    /\ \A p \in Frontends \ {Gui} : WF_desktop(Step(p) /\ UNCHANGED ui)
    /\ WF_desktop(Work) /\ WF_desktop(ThreadEnds)
    /\ WF_desktop(Succeeded \/ Failed) /\ WF_desktop(Timer)

DesktopSpec == DesktopInit /\ [][DesktopNext]_desktop /\ Fairness

-----------------------------------------------------------------------------
(* What must hold.                                                         *)

\* Once an operation has disabled the buttons they come back, however it ends
\* and whatever the tray starts before its outcome is handled.
ButtonsReturn == ~buttons ~> buttons

\* When no operation of its own runs any more the open window shows what is
\* recorded and up, although the refresh after an operation is skipped while
\* its thread still runs, and whatever the CLI has done meanwhile.
StatusCatchesUp == (open /\ ~busy) ~> (~open \/ busy \/ torn \/ shown = Status)
=============================================================================
