---------------------------- MODULE PageOverlays ----------------------------
(***************************************************************************)
(* What the live arena page shows (app/arena/page.tsx and components/      *)
(* arena/core): its banners, panels and buttons, and the two overlays that *)
(* snapshots open over it, one of which is left by holding a button for a  *)
(* second.  The dialog's transactions are ArenaPage's; here a commitment   *)
(* or a reveal of the shown round may succeed whenever it is offered.      *)
(***************************************************************************)
EXTENDS Integers, FiniteSets

CONSTANTS
    LastRound,      \* bound of the model: rounds of the arena
    HoldTicks,      \* the second the button is held for, in ticks of its loop
    MaxLoops        \* bound of the model: loops of the button at a time

VARIABLES
    view,           \* the page's React state
    hold            \* the button "HOLD FOR SURVIVAL" of RoundResolvedOverlay

overlayVars == <<view, hold>>

NoLoops == [i \in {} |-> 0]

OverlaysInit ==
    /\ \E live \in BOOLEAN :       \* NEXT_PUBLIC_DEMO_ARENA_ID is set
         view = [live |-> live, wallet |-> FALSE, round |-> 1, phase |-> "commit",
                 committed |-> FALSE, expired |-> FALSE, chosen |-> FALSE,
                 joined |-> FALSE, won |-> FALSE, known |-> FALSE,
                 asking |-> FALSE, rate |-> FALSE,
                 stream |-> FALSE, lastResolved |-> FALSE,
                 resolved |-> FALSE, summary |-> FALSE, dialog |-> "none"]
    /\ \E device \in {"mouse", "touch"} :
         hold = [device |-> device, overlay |-> "gone", pressed |-> FALSE,
                 loops |-> NoLoops, ref |-> 0]

-----------------------------------------------------------------------------
(* What is shown                                                           *)

If(condition, parts) == IF condition THEN parts ELSE {}

\* The header and its three buttons.
HeaderShown ==
    If(~view.live, {"demo mode"})
    \cup (IF view.live THEN {"stream status"} ELSE {"soroban live"})
    \cup (IF view.wallet THEN {"address"} ELSE {"connect"})

JoinShown == If(view.wallet /\ ~view.joined, {"join"})

\* "tails" waits for the yield; "heads" is there at once, with a made-up one.
ChoicesShown ==
    If(view.expired, {"time expired"}) \cup {"heads"} \cup If(view.rate, {"tails"})

ActionShown ==
    If(view.joined,
       If(view.phase = "commit" /\ view.chosen, {"lock in"})
       \cup If(view.phase = "reveal",
               IF view.committed THEN {"reveal"} ELSE {"nothing to reveal"}))

\* Everything to the right waits for the contract's figures, "claim" with it.
FiguresShown ==
    IF view.asking \/ ~view.rate \/ ~view.known THEN {"skeleton"}
    ELSE {"pot", "survivors", "feed", "status"}
         \cup (IF view.won THEN {"claim"} ELSE {"potential payout"})

OverlaysShown ==
    If(view.resolved, {"round resolved"}) \cup If(view.summary, {"eliminated"})

PageShown == HeaderShown \cup JoinShown \cup ChoicesShown \cup ActionShown
         \cup FiguresShown \cup OverlaysShown

-----------------------------------------------------------------------------
(* The overlay follows `resolved', and stays mounted while it fades.       *)

Follow(v) ==
    hold' = [hold EXCEPT !.overlay =
                 IF v.resolved THEN "open" ELSE IF @ = "open" THEN "fading" ELSE @]

\* A live round begins with its commitment; the running timer is not reset
\* unless the phase changes.
Enter(v, round, stored) ==
    IF round = v.round \/ ~v.live THEN [v EXCEPT !.round = round]
    ELSE [v EXCEPT !.round = round, !.phase = "commit", !.chosen = FALSE,
                   !.expired = FALSE, !.committed = stored]

\* A snapshot: of a game that is over, whose last round is resolved, or neither.
\* The effect that opens the round's overlay runs after the one that closes it.
SnapshotShown ==
    /\ view.live
    /\ \E over, last, stored \in BOOLEAN, round \in {view.round, view.round + 1} :
         /\ round <= LastRound
         /\ LET ended == IF over THEN [view EXCEPT !.won = TRUE, !.summary = TRUE,
                                                   !.resolved = FALSE] ELSE view
                told  == [ended EXCEPT !.lastResolved = last,
                                       !.resolved = @ \/ (view.stream /\ last)]
            IN  view' = Enter(told, round, stored) /\ Follow(view')

\* The connection is lost or found again: the same effect looks at the last snapshot.
StreamTurns ==
    /\ view.live
    /\ view' = [view EXCEPT !.stream = ~@, !.resolved = @ \/ (~view.stream /\ view.lastResolved)]
    /\ Follow(view')

\* The yield is read, or is not: in both cases the cards are shown.
RateSettles ==
    /\ ~view.rate
    /\ view' = [view EXCEPT !.rate = TRUE]
    /\ UNCHANGED hold

\* The wallet is found, and updateArenaState asks for the state of a live arena.
WalletFound ==
    /\ ~view.wallet
    /\ view' = [view EXCEPT !.wallet = TRUE, !.asking = view.live]
    /\ UNCHANGED hold

\* The state sets the round too, before or behind the stream's; or it cannot be read.
StateSettles ==
    /\ view.asking
    /\ \/ view' = [view EXCEPT !.asking = FALSE]
       \/ \E joined, won, stored \in BOOLEAN, round \in {view.round - 1, view.round} \ {0} :
            view' = Enter([view EXCEPT !.asking = FALSE, !.known = TRUE,
                                       !.joined = joined, !.won = won], round, stored)
    /\ UNCHANGED hold

\* Timer: only the end of the commit window does something.
WindowCloses ==
    /\ view.phase = "commit"
    /\ view' = [view EXCEPT !.phase = "reveal", !.expired = @ \/ ~view.committed]
    /\ UNCHANGED hold

PickCard ==
    /\ view.phase = "commit"
    /\ view' = [view EXCEPT !.chosen = TRUE]
    /\ UNCHANGED hold

\* The four buttons open the dialog with their own texts, in a live arena only.
DialogOf == [part \in {"join", "lock in", "reveal", "claim"} |->
                CASE part = "join" -> "JOIN" [] part = "lock in" -> "COMMIT"
                  [] part = "reveal" -> "REVEAL" [] OTHER -> "CLAIM"]

OpenDialog ==
    /\ view.dialog = "none" /\ view.live
    /\ \E part \in DOMAIN DialogOf \cap PageShown : view' = [view EXCEPT !.dialog = DialogOf[part]]
    /\ UNCHANGED hold

\* The dialog is closed, with or without its transaction; success asks for the state.
CloseDialog ==
    /\ view.dialog # "none"
    /\ \E done \in BOOLEAN :
         view' = [view EXCEPT !.dialog = "none", !.asking = @ \/ done,
                     !.committed = IF done /\ view.dialog \in {"COMMIT", "REVEAL"}
                                   THEN view.dialog = "COMMIT" ELSE @]
    /\ UNCHANGED hold

\* "TEST ELIMINATION", and the two buttons that close the summary again.
TestElimination ==
    /\ view' = [view EXCEPT !.summary = ~@]
    /\ UNCHANGED hold

-----------------------------------------------------------------------------
(* The held button                                                         *)

\* startHold: a loop of timeouts, of which only the latest timeout is known. A
\* finger fires pointerdown and touchstart.
FreeLoop(loops) == CHOOSE i \in 1..MaxLoops : i \notin DOMAIN loops
Started(h) ==
    LET i == FreeLoop(h.loops)
    IN  [h EXCEPT !.ref = i,
                  !.loops = [l \in DOMAIN h.loops \cup {i} |-> IF l = i THEN HoldTicks ELSE h.loops[l]]]

Press ==
    /\ hold.overlay # "gone" /\ ~hold.pressed
    /\ Cardinality(DOMAIN hold.loops) + (IF hold.device = "touch" THEN 2 ELSE 1) <= MaxLoops
    /\ LET first == Started([hold EXCEPT !.pressed = TRUE])
       IN  hold' = IF hold.device = "touch" THEN Started(first) ELSE first
    /\ UNCHANGED view

LoopsWithout(loops, gone) == [i \in DOMAIN loops \ gone |-> loops[i]]

\* cancelHold, also when the events of one release call it several times.
Cancelled(h) == [h EXCEPT !.ref = 0, !.loops = LoopsWithout(h.loops, {h.ref})]

\* Let go of, or left with the pointer. A button that is no longer there hears nothing.
Release ==
    /\ hold.pressed
    /\ hold' = [IF hold.overlay = "gone" THEN hold ELSE Cancelled(hold) EXCEPT !.pressed = FALSE]
    /\ UNCHANGED view

\* onProceed: the page counts the round up by itself and clears the choice.
Proceeded(stored) ==
    Enter([view EXCEPT !.resolved = FALSE, !.chosen = FALSE], view.round + 1, stored)

\* One timeout of a loop: the last proceeds, even under a closed overlay.
LoopTick(i) ==
    /\ i \in DOMAIN hold.loops
    /\ IF hold.loops[i] > 1
       THEN hold' = [hold EXCEPT !.loops[i] = @ - 1, !.ref = i] /\ UNCHANGED view
       ELSE LET rest == LoopsWithout(hold.loops, {i})
            IN  /\ view.round <= LastRound
                /\ \E stored \in BOOLEAN : view' = Proceeded(stored)
                /\ hold' = [hold EXCEPT !.loops = rest, !.overlay = IF @ = "open" THEN "fading" ELSE @]

FadedOut ==
    /\ hold.overlay = "fading"
    /\ hold' = [hold EXCEPT !.overlay = "gone"]
    /\ UNCHANGED view

\* The page without a hand on the button, and the button under a page that only
\* hears of rounds.
ViewNext ==
    \/ SnapshotShown \/ StreamTurns \/ RateSettles \/ WalletFound \/ StateSettles
    \/ WindowCloses \/ PickCard \/ OpenDialog \/ CloseDialog \/ TestElimination
    \/ FadedOut

HoldNext ==
    \/ SnapshotShown \/ StreamTurns \/ FadedOut
    \/ Press \/ Release
    \/ \E i \in 1..MaxLoops : LoopTick(i)
=============================================================================
