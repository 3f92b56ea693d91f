------------------------------ MODULE UiChannels ------------------------------
(***************************************************************************)
(* The desktop UI on Windows (src/ui/src): view (adapter/view/desktop.rs), *)
(* presenter and watcher, joined by two bounded channels.  The view and    *)
(* the presenter receive a few events, then do their own work, and send    *)
(* while they do; a send into a full channel waits.                        *)
(*                                                                         *)
(* A turn that comes too soon for its work (16 ms, 1 s) skips it.  In one  *)
(* turn of the window the user does at most one thing; the page is loaded  *)
(* once, when all begins.  What the service does of itself, or when it is  *)
(* told to start or stop, is seen in its state at a check only.  Elsewhere *)
(* than on Windows the presenter ends at once and nothing is shown.        *)
(***************************************************************************)
EXTENDS Naturals, SequencesExt

CONSTANTS File,     \* hbbs.out, hbbs.err, ...
          Buffer,   \* BUFFER, 10
          Nothing

ASSUME UiAssumption ==
  /\ Buffer \in Nat \ {0}
  /\ Nothing \notin File

VARIABLES
  toPresenter, toView,   \* the channels
  view,                  \* at: where its loop is, n: events of this turn,
                         \* say: the event it waits to send
  presenter,             \* the same, and the file it shows
  changed,               \* the watcher's event to send
  choice,                \* history: the file the user chose last
  read                   \* the file the page has read, Nothing if it changed

uiVars == <<toPresenter, toView, view, presenter, changed, choice, read>>

Event(kind, arg) == [kind |-> kind, arg |-> arg]
NoEvent == Event("none", Nothing)
UserEvent == [kind : {"act", "exit"}, arg : {Nothing}] \cup [kind : {"choose"}, arg : File]
\* The presenter is sent these, "init" (the page is loaded) and "change" (of a
\* file); the view is sent "file" (to show), "state" (of the service) and "exit".

UiInit ==
  /\ toPresenter = <<>> /\ toView = <<>>
  /\ view = [at |-> "send", n |-> 0, say |-> Event("init", Nothing)]
  /\ \E f \in File :
       /\ presenter = [at |-> "send", n |-> 0, say |-> Event("state", Nothing),
                       file |-> f]
       /\ choice = f
  /\ changed = Nothing
  /\ read = Nothing

-----------------------------------------------------------------------------
(* The view. *)

ViewMayReceive == view.at = "turn" /\ toView # <<>> /\ view.n < Buffer - 1

\* Mutant: a turn ends only when there is nothing to receive.
RenderUncounted(e) ==
  /\ view' = IF e.kind = "exit" THEN [view EXCEPT !.at = "gone"] ELSE view
  /\ read' = IF e.kind = "file" THEN e.arg ELSE read

Render(e) ==
  /\ view' = IF e.kind = "exit" THEN [view EXCEPT !.at = "gone"]
                                ELSE [view EXCEPT !.n = @ + 1]
  /\ read' = IF e.kind = "file" THEN e.arg ELSE read

ViewReceive ==
  /\ ViewMayReceive
  /\ Render(Head(toView))
  /\ toView' = Tail(toView)
  /\ UNCHANGED <<toPresenter, presenter, changed, choice>>

ViewTurns(at, say) ==
  /\ view' = [at |-> at, n |-> 0, say |-> say]
  /\ UNCHANGED <<toPresenter, toView, presenter, changed, read>>

\* app.run_iteration: the user does nothing, or one thing.
Iterate ==
  /\ view.at = "turn" /\ ~ViewMayReceive
  /\ \/ ViewTurns("turn", NoEvent) /\ UNCHANGED choice
     \/ \E e \in UserEvent :
          /\ ViewTurns("send", e)
          /\ choice' = IF e.kind = "choose" THEN e.arg ELSE choice

\* Too soon for an iteration.
ViewSkip ==
  /\ view.at = "turn" /\ ~ViewMayReceive /\ view.n > 0
  /\ ViewTurns("turn", NoEvent) /\ UNCHANGED choice

ViewSend ==
  /\ view.at = "send" /\ Len(toPresenter) < Buffer
  /\ toPresenter' = Append(toPresenter, view.say)
  /\ view' = [view EXCEPT !.at = "turn", !.say = NoEvent]
  /\ UNCHANGED <<toView, presenter, changed, choice, read>>

-----------------------------------------------------------------------------
(* The presenter. *)

PresenterMayReceive == presenter.at = "turn" /\ toPresenter # <<>> /\ presenter.n < Buffer - 1

\* Mutant: a chosen file is remembered and not announced.
AnswerChoiceLater(e) ==
  IF e.kind = "init" \/ (e.kind = "change" /\ e.arg = presenter.file)
  THEN Event("file", presenter.file)
  ELSE IF e.kind = "exit" THEN Event("exit", Nothing) ELSE NoEvent

Answer(e) ==
  IF e.kind = "choose" THEN Event("file", e.arg)
  ELSE IF e.kind = "init" \/ (e.kind = "change" /\ e.arg = presenter.file)
  THEN Event("file", presenter.file)
  ELSE IF e.kind = "exit" THEN Event("exit", Nothing) ELSE NoEvent

PresenterReceive ==
  /\ PresenterMayReceive
  /\ LET e == Head(toPresenter)  a == Answer(e)
     IN  /\ presenter' = [presenter EXCEPT
                            !.n = @ + 1, !.say = a,
                            !.at = IF a = NoEvent THEN "turn" ELSE "send",
                            !.file = IF e.kind = "choose" THEN e.arg ELSE @]
  /\ toPresenter' = Tail(toPresenter)
  /\ UNCHANGED <<toView, view, changed, choice, read>>

\* Mutant: an event that finds no room is dropped (try_send).
PresenterSendOrDrop ==
  /\ presenter.at = "send"
  /\ toView' = IF Len(toView) < Buffer THEN Append(toView, presenter.say) ELSE toView
  /\ presenter' = [presenter EXCEPT !.at = "turn", !.say = NoEvent]
  /\ UNCHANGED <<toPresenter, view, changed, choice, read>>

PresenterSend ==
  /\ presenter.at = "send" /\ Len(toView) < Buffer
  /\ toView' = Append(toView, presenter.say)
  /\ presenter' = [presenter EXCEPT !.at = "turn", !.say = NoEvent]
  /\ UNCHANGED <<toPresenter, view, changed, choice, read>>

PresenterTurns(at, say) ==
  /\ presenter.at = "turn" /\ ~PresenterMayReceive
  /\ presenter' = [presenter EXCEPT !.n = 0, !.at = at, !.say = say]
  /\ UNCHANGED <<toPresenter, toView, view, changed, choice, read>>

\* service.check: the state of the service differs from service_state, or not.
Check ==
  \/ PresenterTurns("turn", NoEvent)
  \/ PresenterTurns("send", Event("state", Nothing))

\* Too soon for a check.
PresenterSkip == presenter.n > 0 /\ PresenterTurns("turn", NoEvent)

-----------------------------------------------------------------------------
(* The watcher and the files it watches. *)

\* Mutant: a change that finds no room is dropped (try_send).
WatcherSendOrDrop ==
  /\ changed # Nothing
  /\ toPresenter' = IF Len(toPresenter) < Buffer
                    THEN Append(toPresenter, Event("change", changed)) ELSE toPresenter
  /\ changed' = Nothing
  /\ UNCHANGED <<toView, view, presenter, choice, read>>

WatcherSend ==
  /\ changed # Nothing /\ Len(toPresenter) < Buffer
  /\ toPresenter' = Append(toPresenter, Event("change", changed))
  /\ changed' = Nothing
  /\ UNCHANGED <<toView, view, presenter, choice, read>>

\* A log is written; the watcher takes the changes of one file at a time.
Write(f) ==
  /\ view.at # "gone"
  /\ changed \in {Nothing, f}
  /\ changed' = f
  /\ read' = IF read = f THEN Nothing ELSE read
  /\ UNCHANGED <<toPresenter, toView, view, presenter, choice>>

-----------------------------------------------------------------------------
ViewStep == ViewReceive \/ ViewSend \/ Iterate \/ ViewSkip
PresenterStep ==
  /\ view.at # "gone"
  /\ PresenterReceive \/ PresenterSend \/ Check \/ PresenterSkip

UiNext ==
  \/ ViewStep \/ PresenterStep
  \/ view.at # "gone" /\ WatcherSend
  \/ \E f \in File : Write(f)

UiSpec == UiInit /\ [][UiNext]_uiVars

\* Each thread runs, a send that waits gets its turn when there is room again
\* and again, and the turns that skip their work are short.
UiFairness ==
  /\ SF_uiVars(ViewStep) /\ SF_uiVars(Iterate)
  /\ WF_uiVars(PresenterStep) /\ SF_uiVars(view.at # "gone" /\ Check)
  /\ SF_uiVars(view.at # "gone" /\ WatcherSend)

UiFairSpec == UiSpec /\ UiFairness

-----------------------------------------------------------------------------
(* Properties. *)

\* Both wait for room in the other's channel, and will for ever.
Jam ==
  /\ view.at = "send" /\ Len(toPresenter) = Buffer
  /\ presenter.at = "send" /\ Len(toView) = Buffer

Gone == view.at = "gone"

\* The window goes on being drawn, whatever is written to the logs.
KeepsDrawing == []<><<Iterate>>_uiVars \/ <>(Gone \/ Jam)

\* Who chooses to exit leaves, however much is waiting in the channels.
ExitWorks == (view.say.kind = "exit") ~> (Gone \/ Jam)

\* When the user and the logs come to rest, the page has read the file that was
\* chosen last as it is now.
AtRest == <>[][UNCHANGED choice /\ \A f \in File : ~Write(f)]_uiVars

CatchesUp == AtRest => <>(Gone \/ Jam) \/ <>[](read = choice)

\* An event that makes the page read the file chosen last.
Tells(e) ==
  \/ e.kind = "init"
  \/ e.kind \in {"choose", "change", "file"} /\ e.arg = choice

\* In any state, also while the channels are full and after the window has
\* closed: the page has read the file chosen last as it is now, or an event that
\* makes it do so is on its way.  No choice and no change gets lost between the
\* watcher, the presenter and the view.
NothingIsLost ==
  \/ read = choice \/ changed = choice
  \/ Tells(view.say) \/ Tells(presenter.say)
  \/ \E e \in ToSet(toPresenter) \cup ToSet(toView) : Tells(e)
=============================================================================
