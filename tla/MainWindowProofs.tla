-------------------------- MODULE MainWindowProofs --------------------------
(* Theorems about MainWindow and the Session it is composed with, for every *)
(* set of clicks and of replicas.                                           *)
EXTENDS MainWindow, SequenceTheorems, TLAPS

Closures == {"error", "config", "invalidConfig"}

\* The actions of the configuration request, of the page and of a click.
ConfigStep == FetchConfig \/ Dispatched
PageStep == Render \/ Touch \/ CloseErrorModal \/ MountRefresh \/ QueryFails
ClickStep(c) == Click(c) \/ Proceed(c) \/ Dial(c)

LEMMA NextCases ==
    ASSUME Next
    PROVE  ConfigStep \/ PageStep \/ \E c \in Clicks : ClickStep(c)
BY DEF Next, ConfigStep, PageStep, ClickStep

LEMMA HandleErrorType ==
    ASSUME NEW e \in Errors \cup {"none"}, HandleError(e)
    PROVE  err' \in Errors \cup {"none"} /\ dirty' \in BOOLEAN
BY DEF HandleError

-----------------------------------------------------------------------------
(* The steps of the session preserve its inductive invariant. *)

LEMMA SessionInit == Init => IInv
<1> SUFFICES ASSUME Init PROVE IInv
    OBVIOUS
<1>1. dispatched \in Seq(Closures)
      BY DEF Init, Closures
<1>2. TypeOK
      BY <1>1 DEF Init, TypeOK, Closures, Errors, Providers
<1>3. QED BY <1>2 DEF Init, IInv, NeverUndetermined, ConditionsHold, DisplayHolds,
                      ClientStored

\* The configuration request touches neither phases nor clients, except that
\* the page may become configured.
LEMMA ConfigPreserves ==
    ASSUME IInv, ConfigStep
    PROVE  IInv'
<1> USE DEF IInv, TypeOK, NeverUndetermined, ConditionsHold, DisplayHolds,
            ClientStored, uiVars, pageVars, driverVars, Panic
<1>1. "config" \in Errors /\ "none" \in Errors \cup {"none"}
      BY DEF Errors
<1>2. CASE ConfigDialFails
      BY <1>1, <1>2, HandleErrorType DEF ConfigDialFails
<1>3. ASSUME NEW l \in Seq(Closures), ConfigReply(l) PROVE IInv'
  <2>1. dispatched' \in Seq(Closures)
        BY <1>3 DEF ConfigReply, Closures
  <2>2. QED BY <1>3, <2>1 DEF ConfigReply, Closures
<1>4. CASE ConfigFails \/ ConfigArrives \/ ConfigRefused
  <2>1. /\ <<"error">> \in Seq(Closures)
        /\ <<"config">> \in Seq(Closures)
        /\ <<"invalidConfig">> \in Seq(Closures)
        BY DEF Closures
  <2>2. QED BY <1>3, <1>4, <2>1 DEF ConfigFails, ConfigArrives, ConfigRefused
<1>5. CASE ConfigUnreadable
      BY <1>5 DEF ConfigUnreadable
<1>6. ASSUME NEW kind, NextClosure(kind)
      PROVE  dispatched' \in Seq(Closures)
      BY <1>6 DEF NextClosure, Closures
<1>7. CASE ReportError
  <2>1. dispatched' \in Seq(Closures)
        BY <1>6, <1>7 DEF ReportError
  <2>2. err' \in Errors \cup {"none"} /\ dirty' \in BOOLEAN
        BY <1>1, <1>7, HandleErrorType DEF ReportError
  <2>3. QED BY <1>7, <2>1, <2>2 DEF ReportError, Closures
<1>8. CASE OnConfigReceived
  <2>1. dispatched' \in Seq(Closures)
        BY <1>6, <1>8 DEF OnConfigReceived
  <2>2. QED BY <1>8, <2>1 DEF OnConfigReceived, Closures
<1>9. CASE OnInvalidConfig
  <2>1. dispatched' \in Seq(Closures)
        BY <1>6, <1>9 DEF OnInvalidConfig
  <2>2. QED BY <1>9, <2>1 DEF OnInvalidConfig, Closures
<1>10. QED BY <1>2, <1>4, <1>5, <1>7, <1>8, <1>9
       DEF ConfigStep, FetchConfig, Dispatched

\* A Render shows what its conditions still say.
LEMMA PagePreserves ==
    ASSUME IInv, PageStep
    PROVE  IInv'
<1> USE DEF IInv, TypeOK, NeverUndetermined, ConditionsHold, DisplayHolds,
            ClientStored, pageVars, driverVars
<1>1. "gateway" \in Errors \cup {"none"} /\ "none" \in Errors \cup {"none"}
      BY DEF Errors
<1>2. CASE CheckPhaseOne
      BY <1>2 DEF CheckPhaseOne, Show
<1>3. CASE CheckPhaseTwo
      BY <1>3 DEF CheckPhaseTwo, Show
<1>4. CASE CheckPhaseThree
      BY <1>4 DEF CheckPhaseThree, ShowThree, Show
<1>5. CASE Touch
      BY <1>5 DEF Touch
<1>6. CASE CloseErrorModal
      BY <1>6 DEF CloseErrorModal, Recover
<1>7. CASE MountRefresh
      BY <1>7 DEF MountRefresh
<1>8. CASE QueryFails
      BY <1>1, <1>8, HandleErrorType DEF QueryFails
<1>9. QED BY <1>2, <1>3, <1>4, <1>5, <1>6, <1>7, <1>8 DEF PageStep, Render

\* A connect goroutine stores the client before it raises the flag, and never
\* lowers it.
LEMMA ClickPreserves ==
    ASSUME IInv, NEW c \in Clicks, ClickStep(c)
    PROVE  IInv'
<1> USE DEF IInv, TypeOK, NeverUndetermined, ConditionsHold, DisplayHolds,
            ClientStored, Goto, uiVars, pageVars, driverVars
<1>1. "gateway" \in Errors \cup {"none"}
      BY DEF Errors
<1>2. CASE Click(c)
      BY <1>2 DEF Click
<1>3. CASE DialFails(c)
      BY <1>1, <1>3, HandleErrorType DEF DialFails
<1>4. CASE DialSucceeds(c)
      BY <1>4 DEF DialSucceeds
<1>5. CASE SetConnected(c)
      BY <1>5 DEF SetConnected
<1>6. CASE StartKernels(c)
      BY <1>6 DEF StartKernels, Providers
<1>7. CASE StartNodes(c)
      BY <1>7 DEF StartNodes, Providers
<1>8. CASE StartFails(c)
      BY <1>8 DEF StartFails
<1>9. CASE ConnectReturns(c)
      BY <1>9 DEF ConnectReturns
<1>10. QED BY <1>2, <1>3, <1>4, <1>5, <1>6, <1>7, <1>8, <1>9
       DEF ClickStep, Proceed, Dial

LEMMA SessionNext == IInv /\ [Next]_vars => IInv'
<1> SUFFICES ASSUME IInv, [Next]_vars PROVE IInv'
    OBVIOUS
<1>1. CASE UNCHANGED vars
      BY <1>1 DEF vars, uiVars, pageVars, driverVars, IInv, TypeOK,
                  NeverUndetermined, ConditionsHold, DisplayHolds, ClientStored
<1>2. QED BY <1>1, NextCases, ConfigPreserves, PagePreserves, ClickPreserves

-----------------------------------------------------------------------------
(* No update of the page is lost. *)

LEMMA UpdatesInit == Init => UpdatesArrive
BY DEF Init, UpdatesArrive, ConnectsWhenConfigured, ErrorIsCurrent, PhaseIsCurrent,
       Rendered

\* A step that schedules a Render, or changes nothing a Render looks at.
LEMMA UpdateScheduled ==
    ASSUME IInv, UpdatesArrive,
           UNCHANGED <<connected, pc, render, shown, modal>>,
           \/ dirty' = TRUE /\ (configured => configured')
           \/ UNCHANGED <<configured, err, dirty>>
    PROVE  UpdatesArrive'
BY DEF UpdatesArrive, ConnectsWhenConfigured, ErrorIsCurrent, PhaseIsCurrent, Rendered

LEMMA ConfigUpdates ==
    ASSUME IInv, UpdatesArrive, ConfigStep
    PROVE  UpdatesArrive'
<1>1. UNCHANGED <<connected, pc, render, shown, modal>>
      BY DEF ConfigStep, FetchConfig, ConfigDialFails, ConfigFails, ConfigArrives,
             ConfigRefused, ConfigReply, ConfigUnreadable, Dispatched, ReportError,
             OnConfigReceived, OnInvalidConfig, driverVars, uiVars, pageVars
<1>2. CASE FetchConfig
  <2>1. \/ dirty' = TRUE /\ (configured => configured')
        \/ UNCHANGED <<configured, err, dirty>>
        BY <1>2 DEF FetchConfig, ConfigDialFails, HandleError, ConfigFails,
                    ConfigArrives, ConfigRefused, ConfigReply, ConfigUnreadable,
                    uiVars
  <2>2. QED BY <1>1, <2>1, UpdateScheduled
<1>3. CASE Dispatched
  <2>1. \/ dirty' = TRUE /\ (configured => configured')
        \/ UNCHANGED <<configured, err, dirty>>
        BY <1>3 DEF Dispatched, ReportError, HandleError, OnConfigReceived,
                    OnInvalidConfig, uiVars
  <2>2. QED BY <1>1, <2>1, UpdateScheduled
<1>4. QED BY <1>2, <1>3 DEF ConfigStep

\* A Render that ends shows the error of the moment and the phase that its
\* conditions say, and they still say so.
LEMMA RenderUpdates ==
    ASSUME IInv, UpdatesArrive, Render
    PROVE  UpdatesArrive'
<1> USE DEF UpdatesArrive, ConnectsWhenConfigured, ErrorIsCurrent, PhaseIsCurrent,
            Rendered, IInv, ConditionsHold, driverVars, pageVars, Show
<1>1. CASE CheckPhaseOne
      BY <1>1 DEF CheckPhaseOne
<1>2. CASE CheckPhaseTwo
      BY <1>2 DEF CheckPhaseTwo
<1>3. CASE CheckPhaseThree
      BY <1>3 DEF CheckPhaseThree, ShowThree
<1>4. QED BY <1>1, <1>2, <1>3 DEF Render

LEMMA PageUpdates ==
    ASSUME IInv, UpdatesArrive, PageStep
    PROVE  UpdatesArrive'
<1>1. CASE Touch \/ CloseErrorModal \/ QueryFails
  <2>1. /\ UNCHANGED <<connected, pc, render, shown, modal, configured>>
        /\ dirty' = TRUE
        BY <1>1 DEF Touch, CloseErrorModal, Recover, QueryFails, HandleError,
                    driverVars, pageVars
  <2>2. QED BY <2>1, UpdateScheduled
<1>2. CASE MountRefresh
  <2>1. UNCHANGED <<connected, pc, render, shown, modal, configured, err, dirty>>
        BY <1>2 DEF MountRefresh, driverVars
  <2>2. QED BY <2>1, UpdateScheduled
<1>3. QED BY <1>1, <1>2, RenderUpdates DEF PageStep

LEMMA ClickUpdates ==
    ASSUME IInv, UpdatesArrive, NEW c \in Clicks, ClickStep(c)
    PROVE  UpdatesArrive'
<1> USE DEF UpdatesArrive, ConnectsWhenConfigured, ErrorIsCurrent, PhaseIsCurrent,
            Rendered, IInv, TypeOK, Goto, uiVars, pageVars, driverVars
<1>1. CASE Click(c)
      BY <1>1 DEF Click, DisplayHolds
<1>2. CASE DialFails(c)
      BY <1>2 DEF DialFails, HandleError
<1>3. CASE DialSucceeds(c)
      BY <1>3 DEF DialSucceeds
<1>4. CASE SetConnected(c)
      BY <1>4 DEF SetConnected
<1>5. CASE StartKernels(c) \/ StartNodes(c) \/ StartFails(c)
  <2>1. /\ pc' = [pc EXCEPT ![c] = pc'[c]]
        /\ pc[c] \in {"kernels", "nodes"} /\ pc'[c] \in {"nodes", "updating"}
        /\ UNCHANGED <<connected, configured, err, dirty, render, shown, modal>>
        BY <1>5 DEF StartKernels, StartNodes, StartFails
  <2>2. QED BY <2>1
<1>6. CASE ConnectReturns(c)
      BY <1>6 DEF ConnectReturns
<1>7. QED BY <1>1, <1>2, <1>3, <1>4, <1>5, <1>6 DEF ClickStep, Proceed, Dial

LEMMA UpdatesNext == IInv /\ UpdatesArrive /\ [Next]_vars => UpdatesArrive'
<1> SUFFICES ASSUME IInv, UpdatesArrive, [Next]_vars PROVE UpdatesArrive'
    OBVIOUS
<1>1. CASE UNCHANGED vars
      BY <1>1, UpdateScheduled DEF vars, uiVars, pageVars, driverVars
<1>2. QED BY <1>1, NextCases, ConfigUpdates, PageUpdates, ClickUpdates

-----------------------------------------------------------------------------
(* The steps of the dialog. *)

\* What the dialog adds to the steps of the session.
DialogStep ==
    \/ \E r \in Replicas : OnMigrateButtonClicked(r)
    \/ HandleCancel \/ Signal \/ OnMigrateSubmit \/ MigrateKernelReplica

LEMMA WindowCases ==
    ASSUME WindowNext
    PROVE  Next \/ DialogStep
BY DEF WindowNext, GoroutineStep, Elsewhere, UIStep, Event, RenderStep,
       DialogStep, Next

\* The dialog has no part in the phases and the clients.
LEMMA DialogLeaves ==
    ASSUME DialogStep
    PROVE  UNCHANGED <<spoof, request, dispatched, configured, render, pageVars, pc,
                       driverVars>>
BY DEF DialogStep, OnMigrateButtonClicked, HandleCancel, Signal, OnMigrateSubmit,
       MigrateKernelReplica, vars, uiVars

LEMMA DialogPreserves ==
    ASSUME IInv, DialogStep
    PROVE  IInv'
<1>1. err' \in Errors \cup {"none"} /\ {dirty', crashed'} \subseteq BOOLEAN
  <2> USE DEF IInv, TypeOK
  <2>1. CASE \E r \in Replicas : OnMigrateButtonClicked(r)
        BY <2>1 DEF OnMigrateButtonClicked
  <2>2. CASE HandleCancel \/ OnMigrateSubmit
        BY <2>2 DEF HandleCancel, OnMigrateSubmit, vars, uiVars
  <2>3. CASE Signal
        BY <2>3 DEF Signal
  <2>4. CASE MigrateKernelReplica
    <3>1. "migration" \in Errors
          BY DEF Errors
    <3>2. QED BY <2>4, <3>1, HandleErrorType DEF MigrateKernelReplica, Panic
  <2>5. QED BY <2>1, <2>2, <2>3, <2>4 DEF DialogStep
<1>2. QED BY <1>1, DialogLeaves DEF IInv, TypeOK, NeverUndetermined, ConditionsHold,
                DisplayHolds, ClientStored, pageVars, driverVars

LEMMA DialogUpdates ==
    ASSUME IInv, UpdatesArrive, DialogStep
    PROVE  UpdatesArrive'
<1>1. UNCHANGED <<connected, pc, render, shown, modal, configured>>
      BY DialogLeaves DEF pageVars, driverVars
<1>2. dirty' = TRUE \/ UNCHANGED <<err, dirty>>
      BY DEF DialogStep, OnMigrateButtonClicked, HandleCancel, Signal, OnMigrateSubmit,
             MigrateKernelReplica, HandleError, vars, uiVars
<1>3. QED BY <1>1, <1>2, UpdateScheduled

LEMMA UpdatesStep ==
    IInv /\ UpdatesArrive /\ [WindowNext]_windowVars => UpdatesArrive'
<1> SUFFICES ASSUME IInv, UpdatesArrive, [WindowNext]_windowVars PROVE UpdatesArrive'
    OBVIOUS
<1>1. CASE UNCHANGED windowVars
      BY <1>1, UpdatesNext DEF windowVars
<1>2. CASE WindowNext
      BY <1>2, WindowCases, UpdatesNext, DialogUpdates
<1>3. QED BY <1>1, <1>2

LEMMA WindowStep == IInv /\ [WindowNext]_windowVars => IInv'
<1> SUFFICES ASSUME IInv, [WindowNext]_windowVars PROVE IInv'
    OBVIOUS
<1>1. CASE UNCHANGED windowVars
      BY <1>1, SessionNext DEF windowVars
<1>2. CASE WindowNext
      BY <1>2, WindowCases, SessionNext, DialogPreserves
<1>3. QED BY <1>1, <1>2

-----------------------------------------------------------------------------
(* Theorems. *)

\* The inductive invariant of the session holds in the whole window too: the
\* conditions of the phases are never taken back once they are evaluated.
THEOREM SessionInvariance == WindowSpec => []IInv
<1>1. WindowInit => IInv
      BY SessionInit DEF WindowInit
<1>2. QED BY <1>1, WindowStep, PTL DEF WindowSpec

\* The page always finds a phase to show.
THEOREM PhaseDetermined == WindowSpec => []NeverUndetermined
<1>1. IInv => NeverUndetermined
      BY DEF IInv
<1>2. QED BY <1>1, SessionInvariance, PTL

\* The dashboard is only shown when the driver has its client.
THEOREM ClientOnDashboard == WindowSpec => []DashboardHasClient
<1>1. IInv => DashboardHasClient
      BY DEF IInv, DisplayHolds, ClientStored, DashboardHasClient
<1>2. QED BY <1>1, SessionInvariance, PTL

\* A step changes what is shown only by the end of a Render, and a Render shows
\* no earlier phase.
LEMMA PhaseStep ==
    ASSUME IInv, [WindowNext]_windowVars
    PROVE  \/ shown' = shown
           \/ shown = "none"
           \/ shown = "one" /\ shown' \in {"two", "three"}
           \/ shown = "two" /\ shown' = "three"
<1> USE DEF IInv, TypeOK, NeverUndetermined, ConditionsHold, DisplayHolds, pageVars
<1>1. CASE UNCHANGED windowVars
      BY <1>1 DEF windowVars, vars, uiVars
<1>2. CASE DialogStep
      BY <1>2, DialogLeaves
<1>3. CASE ConfigStep
      BY <1>3 DEF ConfigStep, FetchConfig, ConfigDialFails, ConfigFails, ConfigArrives,
                  ConfigRefused, ConfigReply, ConfigUnreadable, Dispatched,
                  ReportError, OnConfigReceived, OnInvalidConfig, uiVars
<1>4. CASE PageStep
      BY <1>4 DEF PageStep, Render, CheckPhaseOne, CheckPhaseTwo, CheckPhaseThree,
                  ShowThree, Show, Touch, CloseErrorModal, MountRefresh, QueryFails
<1>5. ASSUME NEW c \in Clicks, ClickStep(c) PROVE shown' = shown
      BY <1>5 DEF ClickStep, Click, Proceed, SetConnected, ConnectReturns, Dial,
                  DialFails, DialSucceeds, StartKernels, StartNodes, StartFails, uiVars
<1>6. QED BY <1>1, <1>2, <1>3, <1>4, <1>5, WindowCases, NextCases

\* The page never goes back to an earlier phase.
THEOREM PhasesDoAdvance == WindowSpec => PhasesAdvance
<1> DEFINE Rank == [none |-> 0, one |-> 1, two |-> 2, three |-> 3, undetermined |-> 4]
           Advance == Rank[shown] <= Rank[shown']
<1>1. IInv /\ IInv' /\ [WindowNext]_windowVars => [Advance]_vars
  <2> SUFFICES ASSUME IInv, IInv', [WindowNext]_windowVars PROVE Advance
      OBVIOUS
  <2>1. {shown, shown'} \subseteq {"none", "one", "two", "three"}
        BY DEF IInv, TypeOK, NeverUndetermined
  <2>2. QED BY <2>1, PhaseStep
<1>2. QED BY <1>1, SessionInvariance, PTL DEF WindowSpec, PhasesAdvance

\* Type correctness of the session and of the dialog.
THEOREM TypeCorrect == WindowSpec => []WindowTypeOK
<1>1. WindowInit => WindowTypeOK
      BY SessionInit DEF WindowInit, WindowTypeOK, IInv
<1>2. IInv /\ IInv' /\ WindowTypeOK /\ [WindowNext]_windowVars => WindowTypeOK'
  <2> SUFFICES ASSUME IInv', WindowTypeOK, [WindowNext]_windowVars PROVE WindowTypeOK'
      OBVIOUS
  <2> USE DEF WindowTypeOK, IInv
  <2>1. CASE UNCHANGED dialogVars
        BY <2>1 DEF dialogVars
  <2>2. CASE RenderStep
        BY <2>2 DEF RenderStep, Wanted
  <2>3. ASSUME NEW r \in Replicas, OnMigrateButtonClicked(r) PROVE WindowTypeOK'
        BY <2>3 DEF OnMigrateButtonClicked
  <2>4. CASE HandleCancel \/ Signal
        BY <2>4 DEF HandleCancel, Signal
  <2>5. CASE OnMigrateSubmit \/ MigrateKernelReplica
        BY <2>5 DEF OnMigrateSubmit, MigrateKernelReplica
  <2>6. QED BY <2>1, <2>2, <2>3, <2>4, <2>5
        DEF WindowNext, GoroutineStep, UIStep, windowVars
<1>3. QED BY <1>1, <1>2, SessionInvariance, PTL DEF WindowSpec

\* A step outside the dialog changes what is on display by a Render only, and
\* runs while no Render is in progress or leaves the page as it is.
LEMMA PlainStep ==
    ASSUME IInv, GoroutineStep \/ UIStep
    PROVE  /\ UNCHANGED <<shown, render, dialogVars>>
           /\ dirty => dirty'
<1> USE DEF uiVars, pageVars, IInv, TypeOK
<1>1. UNCHANGED dialogVars
      BY DEF GoroutineStep, UIStep
<1>2. CASE FetchConfig \/ Dispatched
      BY <1>1, <1>2 DEF FetchConfig, ConfigDialFails, HandleError, ConfigFails,
           ConfigArrives, ConfigRefused, ConfigReply, ConfigUnreadable, Dispatched,
           ReportError, OnConfigReceived, OnInvalidConfig
<1>3. CASE MountRefresh \/ QueryFails \/ Touch \/ CloseErrorModal
      BY <1>1, <1>3 DEF MountRefresh, QueryFails, HandleError, Touch, CloseErrorModal,
           Recover
<1>4. ASSUME NEW c \in Clicks, ClickStep(c)
      PROVE  UNCHANGED <<shown, render>> /\ (dirty => dirty')
      BY <1>4 DEF ClickStep, Click, Proceed, SetConnected, ConnectReturns, Dial,
           DialFails, HandleError, DialSucceeds, StartKernels, StartNodes, StartFails
<1>5. QED BY <1>1, <1>2, <1>3, <1>4
          DEF GoroutineStep, Elsewhere, UIStep, Event, ClickStep

LEMMA DialogInvInit == WindowInit => DialogInv
BY DEF WindowInit, Init, DialogInv, SignalIsReceived, DialogOnDashboard,
       DialogIsCurrent, Rendered

LEMMA DialogInvNext ==
    ASSUME IInv, WindowTypeOK, DialogInv, [WindowNext]_windowVars
    PROVE  DialogInv'
<1> USE DEF DialogInv, SignalIsReceived, DialogOnDashboard, DialogIsCurrent, Rendered,
            Wanted
<1>1. CASE UNCHANGED windowVars
      BY <1>1 DEF windowVars, dialogVars, vars, uiVars, pageVars
<1>2. CASE GoroutineStep \/ UIStep
  <2>1. UNCHANGED <<shown, render, dialogVars>> /\ (dirty => dirty')
        BY <1>2, PlainStep
  <2>2. QED BY <2>1 DEF dialogVars
<1>3. CASE RenderStep
  <2>1. /\ ui = "idle" /\ UNCHANGED <<migarateModalOpen, replicaToMigrate, ui, receiver>>
        /\ dialog' = IF render' = "idle" THEN Wanted ELSE dialog
        BY <1>3 DEF RenderStep
  <2>2. shown = "three" => shown' = "three"
        BY <1>3, PhaseStep DEF WindowNext
  <2>3. QED BY <2>1, <2>2
<1>4. ASSUME NEW r \in Replicas, OnMigrateButtonClicked(r) PROVE DialogInv'
      BY <1>4 DEF OnMigrateButtonClicked, Ready, pageVars
<1>5. CASE HandleCancel
      BY <1>5 DEF HandleCancel, Cancels, Ready, vars, uiVars, pageVars
<1>6. CASE Signal
      BY <1>6 DEF Signal, pageVars
<1>7. CASE OnMigrateSubmit
      BY <1>7 DEF OnMigrateSubmit, Ready, vars, uiVars, pageVars
<1>8. CASE MigrateKernelReplica
  <2>1. /\ ui = "migrating" /\ ui' = "idle" /\ (dirty => dirty')
        /\ UNCHANGED <<render, shown, migarateModalOpen, replicaToMigrate, dialog,
                       receiver>>
        BY <1>8 DEF MigrateKernelReplica, HandleError, pageVars
  <2>2. QED BY <2>1
<1>9. QED BY <1>1, <1>2, <1>3, <1>4, <1>5, <1>6, <1>7, <1>8 DEF WindowNext

\* The session and the dialog together, what the run checks: the conditions of
\* the phases hold, no update is lost, and the dialog's handlers find their
\* partner, for any number of clicks and replicas.
THEOREM Invariance == WindowSpec => []WindowIInv
<1>1. WindowInit => UpdatesArrive /\ DialogInv
      BY UpdatesInit, DialogInvInit DEF WindowInit
<1>2. /\ IInv /\ WindowTypeOK /\ UpdatesArrive /\ DialogInv
      /\ [WindowNext]_windowVars
      => UpdatesArrive' /\ DialogInv'
      BY UpdatesStep, DialogInvNext
<1>3. IInv /\ WindowTypeOK /\ UpdatesArrive /\ DialogInv => WindowIInv
      BY DEF WindowIInv
<1>4. QED BY <1>1, <1>2, <1>3, SessionInvariance, TypeCorrect, PTL DEF WindowSpec

\* What ConnectionIsShown, LatestErrorIsShown and DialogFollowsChoice rest on: a
\* page with nothing left to render, no handler and no goroutine that connects
\* shows the current error, the dialog that was asked for and, once connected,
\* the dashboard.
THEOREM RestIsCurrent ==
    WindowSpec => [](/\ Rendered /\ ui = "idle"
                     /\ \A c \in Clicks : pc[c] \notin {"kernels", "nodes", "updating"}
                     => /\ modal = err
                        /\ dialog = Wanted
                        /\ connected => shown = "three")
<1>1. WindowIInv => (/\ Rendered /\ ui = "idle"
                     /\ \A c \in Clicks : pc[c] \notin {"kernels", "nodes", "updating"}
                     => /\ modal = err
                        /\ dialog = Wanted
                        /\ connected => shown = "three")
      BY DEF WindowIInv, UpdatesArrive, ErrorIsCurrent, PhaseIsCurrent, Rendered,
             DialogInv, DialogIsCurrent
<1>2. QED BY <1>1, Invariance, PTL

\* handleCancel never sends to nobody and leaves no goroutine behind.
THEOREM CancelIsReceived == WindowSpec => []SignalIsReceived
<1>1. WindowIInv => SignalIsReceived
      BY DEF WindowIInv, DialogInv
<1>2. QED BY <1>1, Invariance, PTL
=============================================================================
