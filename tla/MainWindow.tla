----------------------------- MODULE MainWindow -----------------------------
(***************************************************************************)
(* The whole MainWindow: the Session composed with the dialog that asks    *)
(* for the target of a migration (MigrationModal in a Modal), its cancel   *)
(* protocol and the migration request of the driver.                       *)
(*                                                                         *)
(* The handlers of the dialog run on the UI goroutine and may block it:    *)
(* handleCancel hands a signal to a goroutine, MigrateKernelReplica waits  *)
(* for an rpc.  While they do, no frame is rendered, no event and no       *)
(* dispatched closure is handled; the other goroutines go on.              *)
(***************************************************************************)
EXTENDS Session

CONSTANTS
    Replicas,   \* replicas with a row in the kernel list
    NoReplica

ASSUME NoReplicaAssumption == NoReplica \notin Replicas

VARIABLES
    migarateModalOpen,
    replicaToMigrate,
    dialog,     \* the replica of the MigrationModal on display, or NoReplica
    ui,         \* the UI goroutine: "idle", "clearing" or "migrating"
    receiver    \* handleCancel's goroutine waits for done

dialogVars == <<migarateModalOpen, replicaToMigrate, dialog, ui, receiver>>
windowVars == <<vars, dialogVars>>

WindowInit ==
    /\ Init
    /\ migarateModalOpen = FALSE
    /\ replicaToMigrate = NoReplica
    /\ dialog = NoReplica
    /\ ui = "idle"
    /\ receiver = FALSE

\* The replica whose dialog the flags ask for.
Wanted == IF migarateModalOpen THEN replicaToMigrate ELSE NoReplica

-----------------------------------------------------------------------------
(* The steps of the session.  Those of the UI goroutine wait for it; a     *)
(* Render ends by mounting, updating or removing the dialogs.              *)

Elsewhere == FetchConfig \/ MountRefresh \/ QueryFails
             \/ \E c \in Clicks : Proceed(c) \/ Dial(c)

GoroutineStep == Elsewhere /\ UNCHANGED dialogVars

Event == Dispatched \/ Touch \/ CloseErrorModal \/ \E c \in Clicks : Click(c)

UIStep == ui = "idle" /\ Event /\ UNCHANGED dialogVars

RenderStep ==
    /\ ui = "idle"
    /\ Render
    /\ dialog' = IF render' = "idle" THEN Wanted ELSE dialog
    /\ UNCHANGED <<migarateModalOpen, replicaToMigrate, ui, receiver>>

-----------------------------------------------------------------------------
(* The handlers of the dialog. *)

Ready == ~crashed /\ render = "idle" /\ ui = "idle"

\* The Migrate button in the row of a replica.  go-app updates the components
\* around the source of an event.
OnMigrateButtonClicked(r) ==
    /\ Ready
    /\ shown = "three"
    /\ migarateModalOpen' = TRUE
    /\ replicaToMigrate' = r
    /\ dirty' = TRUE
    /\ UNCHANGED <<spoof, request, dispatched, configured, err, render,
                   pageVars, pc, driverVars, crashed, dialog, ui, receiver>>

\* The Cancel button, the X, a click beside the dialog or the Escape key.
Cancels == Ready /\ dialog # NoReplica

\* Mutant: nobody is there to receive the signal.
HandleCancelAlone ==
    /\ Cancels
    /\ migarateModalOpen' = FALSE
    /\ ui' = "clearing"
    /\ UNCHANGED <<vars, replicaToMigrate, dialog, receiver>>

\* handleCancel starts its goroutine and calls OnCancel, which confirms and
\* sends clear.  The dialog is never dirty.
HandleCancel ==
    /\ Cancels
    /\ receiver' = TRUE
    /\ migarateModalOpen' = FALSE
    /\ ui' = "clearing"
    /\ UNCHANGED <<vars, replicaToMigrate, dialog>>

\* Mutant: OnCancel returns without an Update.
SignalQuietly ==
    /\ ~crashed
    /\ ui = "clearing"
    /\ receiver
    /\ receiver' = FALSE
    /\ ui' = "idle"
    /\ UNCHANGED <<vars, migarateModalOpen, replicaToMigrate, dialog>>

\* The signal is handed over, the goroutine clears the dialog and OnCancel
\* updates the window.
Signal ==
    /\ ~crashed
    /\ ui = "clearing"
    /\ receiver
    /\ receiver' = FALSE
    /\ ui' = "idle"
    /\ dirty' = TRUE
    /\ UNCHANGED <<spoof, request, dispatched, configured, err, render,
                   pageVars, pc, driverVars, crashed, migarateModalOpen,
                   replicaToMigrate, dialog>>

\* Enter submits the form: OnSubmit asks the driver for the migration of the
\* replica on display.
OnMigrateSubmit ==
    /\ Ready
    /\ dialog # NoReplica
    /\ ui' = "migrating"
    /\ UNCHANGED <<vars, migarateModalOpen, replicaToMigrate, dialog, receiver>>

\* MigrateKernelReplica: refused in spoof mode and without a connection; else
\* the rpc, a nil client being a panic.  rpcCallTimeout is never assigned, so
\* the deadline has passed and the rpc fails.
MigrateKernelReplica ==
    /\ ~crashed
    /\ ui = "migrating"
    /\ ui' = "idle"
    /\ IF spoof \/ ~connected \/ client
          THEN HandleError("migration") /\ UNCHANGED crashed
          ELSE Panic /\ UNCHANGED <<err, dirty>>
    /\ UNCHANGED <<spoof, request, dispatched, configured, render, pageVars, pc,
                   driverVars, migarateModalOpen, replicaToMigrate, dialog,
                   receiver>>

-----------------------------------------------------------------------------
WindowNext ==
    \/ GoroutineStep \/ UIStep \/ RenderStep
    \/ \E r \in Replicas : OnMigrateButtonClicked(r)
    \/ HandleCancel \/ Signal \/ OnMigrateSubmit \/ MigrateKernelReplica

WindowSpec == WindowInit /\ [][WindowNext]_windowVars

\* As for the Session.  Frames too compete with events for the UI goroutine,
\* and a handler that blocks it holds them up: strong fairness.
WindowFairness ==
    /\ WF_windowVars(FetchConfig /\ UNCHANGED dialogVars)
    /\ SF_windowVars(ui = "idle" /\ Dispatched /\ UNCHANGED dialogVars)
    /\ SF_windowVars(RenderStep)
    /\ WF_windowVars(MountRefresh /\ UNCHANGED dialogVars)
    /\ \A c \in Clicks : WF_windowVars(Proceed(c) /\ UNCHANGED dialogVars)
    /\ \A c \in Clicks : WF_windowVars(Dial(c) /\ UNCHANGED dialogVars)
    /\ WF_windowVars(Signal)
    /\ WF_windowVars(MigrateKernelReplica)

FairWindowSpec == WindowSpec /\ WindowFairness

-----------------------------------------------------------------------------
(* Properties. *)

\* Type correctness of the session and of the dialog.
WindowTypeOK ==
    /\ TypeOK
    /\ migarateModalOpen \in BOOLEAN
    /\ replicaToMigrate \in Replicas \cup {NoReplica}
    /\ dialog \in Replicas \cup {NoReplica}
    /\ ui \in {"idle", "clearing", "migrating"}
    /\ receiver \in BOOLEAN

\* No handler of the dialog blocks the UI goroutine for ever: handleCancel's
\* send finds its goroutine and the rpc of a migration returns.
HandlersReturn == ui # "idle" ~> ui = "idle" \/ crashed

\* What is given to HandleError, by whichever goroutine, comes to be the error
\* on display, unless a later call replaces it or the user closes the modal of
\* an earlier error first.
LatestErrorIsShown ==
    \A e \in Errors : err = e ~> modal = e \/ err # e \/ crashed

\* The dialog on display comes to be the one that the last click on Migrate or
\* the last cancel asked for.
DialogFollowsChoice ==
    \A d \in Replicas \cup {NoReplica} :
        Wanted = d ~> dialog = d \/ Wanted # d \/ crashed

-----------------------------------------------------------------------------
(* The inductive invariant of the session and of the dialog.                *)

\* handleCancel's send finds its goroutine, and none is left behind.
SignalIsReceived == receiver <=> ui = "clearing"

\* A handler of the dialog runs between Renders and while its dialog is on
\* display, which is on the dashboard.
DialogOnDashboard ==
    /\ ui # "idle" => render = "idle" /\ dialog # NoReplica
    /\ migarateModalOpen \/ dialog # NoReplica => shown = "three"

\* A page at rest shows the dialog that was asked for; a cancel in progress has
\* still to update it.
DialogIsCurrent == Rendered => dialog = Wanted \/ ui = "clearing"

DialogInv == SignalIsReceived /\ DialogOnDashboard /\ DialogIsCurrent

WindowIInv == IInv /\ UpdatesArrive /\ WindowTypeOK /\ DialogInv
=============================================================================
