---------------------------- MODULE SharedParts -----------------------------
(***************************************************************************)
(* What all screens share: the modal (components/ui/Modal.tsx), of which   *)
(* two may be open, the form of a pool and its transaction, each keeping   *)
(* what it found of the page to put it back; the notifications             *)
(* (NotificationProvider.tsx); the link to share (ShareModal.tsx); and the *)
(* clocks, the countdown of shared-d/hooks/useArenaTimer.ts, which every   *)
(* screen may start, pause, reset and synchronise, and the tickers of      *)
(* useLiveTicker.ts.  Each clock keeps one reference to an interval and    *)
(* stops when its tab is hidden.                                           *)
(***************************************************************************)
EXTENDS Integers, FiniteSets, FiniteSetsExt, SequencesExt

CONSTANTS
    MaxNotifications,   \* notifications shown at a time
    MaxNotified,        \* bound of the model: notifications in all
    MaxCopies           \* bound of the model: timers of copies running

VARIABLES
    document,       \* document.body's style and document.activeElement
    dialog,         \* per modal: open, busy, and what it found on opening
    cards,          \* the notifications shown, newest first
    dismissals,     \* ids of the pending auto-dismissals, timeoutRefs
    notified,       \* notifications so far
    link            \* the share modal's "copied" and its pending timers

modalVars == <<document, dialog>>
cardVars == <<cards, dismissals, notified>>
dialogVars == <<modalVars, cardVars, link>>

\* The modals in the order of the tree, which is that of their effects.
Modals == <<"form", "transaction">>
Names == Range(Modals)

OpenDialogs == {m \in Names : dialog[m].open}

DialogsInit ==
    /\ document = [scrolls |-> TRUE, focus |-> "page"]
    /\ dialog = [m \in Names |-> [open |-> FALSE, busy |-> FALSE,
                                  scrolled |-> TRUE, focused |-> "page"]]
    /\ cards = <<>> /\ dismissals = {} /\ notified = 0
    /\ link = [copied |-> FALSE, timers |-> 0]

-----------------------------------------------------------------------------
(* Modals                                                                  *)

\* What the effects remember: useFocusTrap and useBodyScrollLock.
Found(m) == [open |-> TRUE, busy |-> FALSE, scrolled |-> document.scrolls, focused |-> document.focus]

\* The form is opened on the page, the transaction from within the form.
Show(m) ==
    /\ ~dialog[m].open
    /\ document.focus = IF m = "form" THEN "page" ELSE "form"
    /\ dialog' = [dialog EXCEPT ![m] = Found(m)]
    /\ document' = [document EXCEPT !.scrolls = FALSE, !.focus = m]
    /\ UNCHANGED <<cardVars, link>>

\* The modals of one commit are cleaned up in the order of the tree: a form closed
\* before or with the transaction over it leaves the page locked, for good.
CleanedUp(closing) ==
    [scrolls |-> FoldLeft(LAMBDA scrolls, m : IF m \in closing THEN dialog[m].scrolled ELSE scrolls,
                          document.scrolls, Modals),
     focus   |-> FoldLeft(LAMBDA focus, m : IF m \notin closing THEN focus
                                            ELSE IF dialog[m].focused \in OpenDialogs \ closing
                                                 THEN dialog[m].focused ELSE "page",
                          document.focus, Modals)]

Hide(closing) ==
    /\ closing # {} /\ closing \subseteq OpenDialogs
    /\ document' = CleanedUp(closing)
    /\ dialog' = [m \in Names |-> IF m \in closing
                                  THEN [dialog[m] EXCEPT !.open = FALSE, !.busy = FALSE]
                                  ELSE dialog[m]]
    /\ UNCHANGED <<cardVars, link>>

\* Every open modal listens to Escape, except a transaction that is under way.
PressEscape == Hide({m \in OpenDialogs : ~dialog[m].busy})

\* A click beside or on the close button of the one on top.
ClickAway ==
    \E m \in OpenDialogs :
        /\ ~dialog[m].busy
        /\ m = "form" => ~dialog["transaction"].open
        /\ Hide({m})

\* The transaction begins, fails, or succeeds: success closes both in one commit.
SignDialog ==
    /\ dialog["transaction"].open
    /\ dialog' = [dialog EXCEPT !["transaction"].busy = ~@]
    /\ UNCHANGED <<document, cardVars, link>>

Succeed == dialog["transaction"].busy /\ Hide(OpenDialogs)

\* Tab stays within the modal that has the focus; from the page it reaches an open one.
Tab ==
    /\ document.focus = "page"
    /\ \E m \in OpenDialogs : document' = [document EXCEPT !.focus = m]
    /\ UNCHANGED <<dialog, cardVars, link>>

-----------------------------------------------------------------------------
(* Notifications                                                           *)

\* A duration not given is five seconds, but without a bar; zero is for good, as is
\* what is persistent.
Kinds == {"default", "timed", "zero", "persistent"}
Expiring(kind) == kind \in {"default", "timed"}
HasBar(card) == card.kind = "timed"

CardsWithout(id) == SelectSeq(cards, LAMBDA card : card.id # id)

\* addNotification, for a message that is not empty; the oldest fall off the end,
\* whatever their kind, and keep their timers.
Notify(kind) ==
    /\ notified < MaxNotified
    /\ notified' = notified + 1
    /\ cards' = SubSeq(<<[id |-> notified', kind |-> kind]>> \o cards, 1,
                       Min({Len(cards) + 1, MaxNotifications}))
    /\ dismissals' = IF Expiring(kind) THEN dismissals \cup {notified'} ELSE dismissals
    /\ UNCHANGED <<modalVars, link>>

removeNotification(id) ==
    /\ cards' = CardsWithout(id)
    /\ dismissals' = dismissals \ {id}
    /\ UNCHANGED <<notified, modalVars, link>>

Expire == \E id \in dismissals : removeNotification(id)
Dismiss == \E card \in Range(cards) : removeNotification(card.id)

\* clearAllNotifications, and the provider leaving the page.
ClearAll ==
    /\ cards # <<>> \/ dismissals # {}
    /\ cards' = <<>> /\ dismissals' = {}
    /\ UNCHANGED <<notified, modalVars, link>>

-----------------------------------------------------------------------------
(* The link to share                                                       *)

\* By the clipboard or by a hidden textarea; a second copy starts a second timer, and
\* the first to end takes "copied" back. Closing the modal stops none.
CopyLink ==
    /\ link.timers < MaxCopies
    /\ link' = [copied |-> TRUE, timers |-> link.timers + 1]
    /\ UNCHANGED <<modalVars, cardVars>>

CopiedShown ==
    /\ link.timers > 0
    /\ link' = [copied |-> FALSE, timers |-> link.timers - 1]
    /\ UNCHANGED <<modalVars, cardVars>>

ModalsNext ==
    \/ \E m \in Names : Show(m)
    \/ PressEscape \/ ClickAway \/ SignDialog \/ Succeed \/ Tab

CardsNext ==
    \/ \E kind \in Kinds : Notify(kind)
    \/ Expire \/ Dismiss \/ ClearAll

LinkNext == CopyLink \/ CopiedShown

-----------------------------------------------------------------------------
(* The clocks                                                              *)

CONSTANTS FullTime,     \* initialSeconds
          Tension,      \* below it the display is in tension mode, 30 in the code
          MaxSeconds,   \* the clock
          MaxIntervals, \* intervals that tick at once
          NeverStarted,
          TickerMax, ListSizes

VARIABLES
    timer,      \* useArenaTimer, and the intervals it has set
    ticker      \* useLiveTickerNumber and useLiveTickerList

timerVars == <<timer, ticker>>

NoInterval == 0

TimersInit ==
    /\ timer = [raw |-> FullTime, running |-> FALSE, start |-> NeverStarted, now |-> 0,
                ref |-> NoInterval, ticking |-> {}, hidden |-> FALSE, timeUps |-> 0]
    /\ \E n \in ListSizes :
         ticker = [value |-> 0, ticks |-> TRUE, visible |-> TRUE, items |-> n, index |-> 0]

-----------------------------------------------------------------------------
(* useArenaTimer                                                           *)

\* clearInterval(intervalRef.current)
Cleared(t) == [t EXCEPT !.ticking = @ \ {t.ref}, !.ref = NoInterval]

\* intervalRef.current = setInterval(...), whatever it referred to before.
Set(t) ==
    LET id == Min((1..(MaxIntervals + 1)) \ t.ticking) IN
    [t EXCEPT !.ticking = @ \cup {id}, !.ref = id]

\* The effects of isRunning and rawSeconds: clean up, then set an interval or stop at 0.
Effects(t) ==
    IF t.running /\ t.raw > 0 THEN Set(Cleared(t)) ELSE [Cleared(t) EXCEPT !.running = FALSE]

RenderedTimer(t) ==
    IF t.raw = timer.raw /\ t.running = timer.running THEN t ELSE Effects(t)

\* The seconds come from the clock, so that a hidden tab catches up.
updateTimer(t) ==
    IF t.start = NeverStarted THEN t
    ELSE LET left == Max({0, FullTime - (t.now - t.start)}) IN
         [t EXCEPT !.raw = left, !.timeUps = IF left = 0 THEN Min({2, @ + 1}) ELSE @]

IntervalTicks == \E i \in timer.ticking : timer' = RenderedTimer(updateTimer(timer))

\* start and resume are the same.
StartTimer ==
    /\ ~timer.running
    /\ timer' = RenderedTimer([timer EXCEPT !.running = TRUE,
                                            !.start = timer.now - (FullTime - timer.raw)])

\* The start is kept: an interval without a reference ticks on in a paused timer.
PauseTimer == timer.running /\ timer' = RenderedTimer(Cleared([timer EXCEPT !.running = FALSE]))

ResetTimer ==
    timer' = RenderedTimer(Cleared([timer EXCEPT !.running = FALSE, !.raw = FullTime,
                                                 !.start = NeverStarted]))

\* What is out of bounds is refused.
SyncTimer ==
    \E s \in 0..FullTime :
        timer' = RenderedTimer([timer EXCEPT !.raw = s,
                     !.start = IF timer.running THEN timer.now - (FullTime - s) ELSE @])

HideTab == ~timer.hidden /\ timer' = Cleared([timer EXCEPT !.hidden = TRUE])

\* The interval set here takes the place of one that a render set while the tab was
\* hidden, and that nothing refers to any more.
ShowTab ==
    /\ timer.hidden /\ Cardinality(timer.ticking) < MaxIntervals
    /\ LET seen == [timer EXCEPT !.hidden = FALSE] IN
       timer' = IF timer.running /\ timer.raw > 0 THEN RenderedTimer(Set(updateTimer(seen))) ELSE seen

SecondPasses == timer.now < MaxSeconds /\ timer' = [timer EXCEPT !.now = @ + 1]

formattedTime == <<timer.raw \div 60, timer.raw % 60>>
progress == (100 * (FullTime - timer.raw)) \div FullTime
isTensionMode == timer.raw < Tension

TimerNext ==
    /\ \/ IntervalTicks \/ StartTimer \/ PauseTimer \/ ResetTimer \/ SyncTimer
       \/ HideTab \/ ShowTab \/ SecondPasses
    /\ UNCHANGED ticker

-----------------------------------------------------------------------------
(* useLiveTicker                                                           *)

\* Stops for good at the maximum, unless the tab is hidden and shown again: the
\* interval set then ticks at the maximum.
TickNumber ==
    /\ ticker.visible /\ ticker.ticks
    /\ LET v == Min({TickerMax, ticker.value + 1}) IN
       ticker' = [ticker EXCEPT !.value = v, !.ticks = v < TickerMax \/ v = ticker.value]

\* A list of one item does not tick.
TickList ==
    /\ ticker.visible /\ ticker.items > 1
    /\ ticker' = [ticker EXCEPT !.index = (@ + 1) % ticker.items]

\* A shorter list starts again; until it does, its first item is shown.
ItemsChange ==
    \E n \in ListSizes :
        ticker' = [ticker EXCEPT !.items = n, !.index = IF @ >= n THEN 0 ELSE @]

TurnTab == ticker' = [ticker EXCEPT !.visible = ~@, !.ticks = ~ticker.visible]

TickerNext == (TickNumber \/ TickList \/ ItemsChange \/ TurnTab) /\ UNCHANGED timer
=============================================================================
