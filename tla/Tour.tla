--------------------------------- MODULE Tour ---------------------------------
(***************************************************************************)
(* The first-run tour and the support prompt (onboarding.rs,               *)
(* support_prompt.rs, app/update/onboarding.rs, app/update/key/onboarding, *)
(* app/update/key/ipc/support.rs, daemon/config_io.rs).                    *)
(*                                                                         *)
(* The tour is a sequence of cards.  Some hand over to a screen and wait   *)
(* for what the user does there: the region, the routing mode, a tunnel.   *)
(* The overlay is one for all clients: cards, pickers, the prompt, the     *)
(* settings menu and help replace one another, and a disconnect closes     *)
(* whatever is open.  Progress is a file, written by effects that can      *)
(* fail; a daemon that restarts reads it again.                            *)
(***************************************************************************)
EXTENDS Naturals, Sequences

Order == <<"Welcome", "Region", "Routing", "Profiles", "Connected", "Doctor",
           "Omarchy", "AutoConnect", "KillSwitch", "Finish">>
None == "none"

VARIABLES
    tour,       \* OnboardingProgress: [step, done, awaiting, pending]
    file,       \* onboarding.json: [step, done], step None when it is missing
    prompt,     \* SupportPromptState: [deadline, dismissed, supported]
    promptFile, \* support-prompt.json, [deadline |-> None, ...] when missing
    overlay,    \* [kind, step, help]: help is open over kind
    link,       \* "Idle", "Connecting" or "Connected"
    modes,      \* routing.json declares several modes
    omarchy,    \* include_omarchy_card
    legacy      \* profiles.json predates the tour

vars == <<tour, file, prompt, promptFile, overlay, link, modes, omarchy, legacy>>
world == <<modes, omarchy, legacy>>

Closed(p) == p.dismissed \/ p.supported
Screen(kind) == [kind |-> kind, step |-> None, help |-> FALSE]
Main == Screen("None")
Card(step) == [kind |-> "Card", step |-> step, help |-> FALSE]
Shows(kind) == overlay.kind = kind /\ ~overlay.help

\* OnboardingStep::sequence and next
Sequence == IF omarchy THEN Order ELSE SelectSeq(Order, LAMBDA s : s /= "Omarchy")
NextStep(step) ==
    LET at == CHOOSE n \in DOMAIN Sequence : Sequence[n] = step
    IN  IF at < Len(Sequence) THEN Sequence[at + 1] ELSE "Finish"

-----------------------------------------------------------------------------
(* Saving.                                                                 *)

\* schedule_initial
Scheduled(p) == IF Closed(p) \/ p.deadline /= None THEN p ELSE [p EXCEPT !.deadline = "later"]

\* arm_support_prompt_after_onboarding, whose own save may fail.
Arm(done) ==
    \/ /\ done
       /\ prompt' = Scheduled(prompt)
       /\ promptFile' = IF Scheduled(prompt) = prompt THEN promptFile ELSE Scheduled(prompt)
    \/ UNCHANGED <<prompt, promptFile>> /\ (done => Scheduled(prompt) /= prompt)

\* Seeded fault: the step that could not be saved is still awaited.
Restored_StillAwaited(recovery) == [tour EXCEPT !.pending = (recovery = "WaitForIdle" /\ @)]

\* restore_onboarding_after_failure
Restored(recovery) ==
    [tour EXCEPT !.awaiting = None, !.pending = (recovery = "WaitForIdle")]

\* persist_onboarding: the file is written and the prompt armed, or the
\* progress of before is restored and its card shown again, at once or when
\* the screen is free.
Persist(next, shown, recovery) ==
    \/ /\ tour' = next
       /\ file' = [step |-> next.step, done |-> next.done]
       /\ overlay' = shown
       /\ Arm(next.done)
    \/ /\ tour' = Restored(recovery)
       /\ overlay' = IF recovery = "RestoreCard" THEN Card(tour.step) ELSE shown
       /\ UNCHANGED <<file, prompt, promptFile>>

\* advance
Advance(step) ==
    Persist([tour EXCEPT !.step = step, !.awaiting = None, !.pending = FALSE], Card(step), "RestoreCard")

\* finish
Finish ==
    Persist([tour EXCEPT !.done = TRUE, !.awaiting = None, !.pending = FALSE], Main, "RestoreCard")

Reached(awaited) == [tour EXCEPT !.awaiting = None, !.pending = TRUE, !.step = NextStep(awaited)]

\* outcome: the awaited step is done and the next card opens when idle.
Outcome(awaited, shown) ==
    IF tour.awaiting /= awaited
    THEN overlay' = shown /\ UNCHANGED <<tour, file, prompt, promptFile>>
    ELSE Persist(Reached(awaited), shown, "WaitForIdle")

-----------------------------------------------------------------------------
(* Cards and the screens they hand over to.                                *)

\* handoff_screen
HandoffScreen(step) ==
    CASE step = "Region" -> "Region"
      [] step = "Routing" /\ modes -> "Routing"
      [] step = "Profiles" -> "None"
      [] OTHER -> None

\* handoff: the screen of a step, unless the tunnel it asks for is up already.
Handoff(step) ==
    IF step = "Profiles" /\ link = "Connected" THEN Advance(NextStep(step))
    ELSE /\ tour' = [tour EXCEPT !.awaiting = step, !.pending = FALSE]
         /\ overlay' = Screen(HandoffScreen(step))
         /\ UNCHANGED <<file, prompt, promptFile>>

\* Enter on a card: primary_action.
Enter ==
    /\ Shows("Card")
    /\ LET step == overlay.step
       IN  IF HandoffScreen(step) /= None THEN Handoff(step)
           ELSE IF step = "Finish" THEN Finish ELSE Advance(NextStep(step))
    /\ UNCHANGED <<link, world>>

\* Space on the last card, or on the main screen; Esc closes the menu.
OpenMenu ==
    /\ Shows("None") \/ overlay = Card("Finish")
    /\ tour' = IF Shows("Card") THEN [tour EXCEPT !.pending = TRUE] ELSE tour
    /\ overlay' = Screen("Menu")
    /\ UNCHANGED <<file, prompt, promptFile, link, world>>
CloseMenu ==
    /\ Shows("Menu")
    /\ overlay' = Main
    /\ UNCHANGED <<tour, file, prompt, promptFile, link, world>>

\* open_help and handle_help
ToggleHelp ==
    /\ overlay' = [overlay EXCEPT !.help = ~@]
    /\ UNCHANGED <<tour, file, prompt, promptFile, link, world>>

\* Enter in the region picker, which has no other way out: commit_geo_region.
RegionCommitted(adds) ==
    /\ Outcome("Region", Main)
    /\ modes' = (modes \/ adds)
PickRegion(adds) ==
    /\ Shows("Region")
    /\ RegionCommitted(adds)
    /\ UNCHANGED <<link, omarchy, legacy>>

\* commit_routing_mode.  A configuration that cannot be saved restores the
\* progress as well (persist_requested_change).
RoutingCommitted(shown) ==
    \/ Outcome("Routing", shown)
    \/ /\ overlay' = shown
       /\ tour' = IF tour.awaiting = "Routing" THEN Restored("WaitForIdle") ELSE tour
       /\ UNCHANGED <<file, prompt, promptFile>>
PickRouting == Shows("Routing") /\ RoutingCommitted(Main) /\ UNCHANGED <<link, world>>
SetRoutingMode == modes /\ RoutingCommitted(overlay) /\ UNCHANGED <<link, world>>

\* resume, when a client attaches.
CheckOnboarding ==
    /\ ~tour.done
    /\ \/ /\ tour.awaiting = "Profiles" /\ link = "Connected"
          /\ Outcome("Profiles", overlay)
       \/ /\ tour.awaiting = None /\ overlay = Main
          /\ tour' = [tour EXCEPT !.pending = FALSE]
          /\ overlay' = Card(tour.step)
          /\ UNCHANGED <<file, prompt, promptFile>>
    /\ UNCHANGED <<link, world>>

\* open_when_idle, on a tick.
OpenWhenIdle ==
    /\ tour.pending /\ ~tour.done /\ overlay = Main
    /\ tour' = [tour EXCEPT !.pending = FALSE]
    /\ overlay' = Card(tour.step)
    /\ UNCHANGED <<file, prompt, promptFile, link, world>>

-----------------------------------------------------------------------------
(* The connection.                                                         *)

Connect ==
    /\ link = "Idle"
    /\ link' = "Connecting"
    /\ UNCHANGED <<tour, file, prompt, promptFile, overlay, world>>

\* on_connected
Connected ==
    /\ link = "Connecting"
    /\ link' = "Connected"
    /\ Outcome("Profiles", overlay)
    /\ UNCHANGED world

\* on_connect_failed, on_singbox_exited
ConnectionEnds ==
    /\ link /= "Idle"
    /\ link' = "Idle"
    /\ UNCHANGED <<tour, file, prompt, promptFile, overlay, world>>

\* Disconnect, and a tick that misses the connecting profile.
Disconnect ==
    /\ link /= "Idle"
    /\ link' = "Idle"
    /\ overlay' = Main
    /\ UNCHANGED <<tour, file, prompt, promptFile, world>>

-----------------------------------------------------------------------------
(* The support prompt.                                                     *)

\* fourteen or thirty days
DeadlinePasses ==
    /\ prompt.deadline = "later"
    /\ prompt' = [prompt EXCEPT !.deadline = "due"]
    /\ promptFile' = IF promptFile.deadline = "later" THEN [promptFile EXCEPT !.deadline = "due"] ELSE promptFile
    /\ UNCHANGED <<tour, file, overlay, link, world>>

\* is_due
IsDue(p) == ~Closed(p) /\ p.deadline = "due"

\* check_prompt
CheckSupportPrompt ==
    /\ overlay = Main /\ tour.done /\ IsDue(prompt)
    /\ overlay' = Screen("Support")
    /\ UNCHANGED <<tour, file, prompt, promptFile, link, world>>

\* persist_support_prompt
PersistPrompt(next, shown, reopen) ==
    \/ /\ prompt' = next
       /\ promptFile' = next
       /\ overlay' = shown
    \/ /\ overlay' = IF reopen /\ IsDue(prompt) THEN Screen("Support") ELSE shown
       /\ UNCHANGED <<prompt, promptFile>>

Answers(p) == {[p EXCEPT !.dismissed = FALSE, !.deadline = "later"],    \* remind_later
               [p EXCEPT !.supported = TRUE, !.deadline = None],        \* supported
               [p EXCEPT !.dismissed = TRUE, !.deadline = None]}        \* dismiss

\* resolve_prompt
ResolveSupportPrompt ==
    /\ Shows("Support")
    /\ \E next \in Answers(prompt) : PersistPrompt(next, Main, TRUE)
    /\ UNCHANGED <<tour, file, link, world>>

\* Seeded fault: the prompt stays open under its help screen.
ClosesPrompt_NotUnderHelp == Shows("Support")

ClosesPrompt == overlay.kind = "Support"

\* kvn support --dismiss while a daemon runs: dismiss_prompt.
DismissSupportPrompt ==
    /\ PersistPrompt([prompt EXCEPT !.dismissed = TRUE, !.deadline = None],
                     IF ClosesPrompt THEN Main ELSE overlay, ClosesPrompt)
    /\ UNCHANGED <<tour, file, link, world>>

-----------------------------------------------------------------------------
(* The daemon starts again.                                                *)

\* load_for_daemon and OnboardingProgress::new
LoadedTour ==
    LET state == IF file.step /= None THEN file
                 ELSE IF legacy THEN [step |-> "Finish", done |-> TRUE]
                 ELSE [step |-> "Welcome", done |-> FALSE]
    IN  [step |-> IF state.step = "Omarchy" /\ ~omarchy THEN "AutoConnect" ELSE state.step,
         done |-> state.done, awaiting |-> None, pending |-> FALSE]

\* support_prompt::load_for_daemon and, without a daemon, dismiss_at.
LoadedPrompt(stored) == IF LoadedTour.done THEN Scheduled(stored) ELSE stored

\* Either load may fail to write what it adds.
Restart(dismissed) ==
    LET stored == IF dismissed THEN [promptFile EXCEPT !.dismissed = TRUE, !.deadline = None]
                  ELSE promptFile
    IN  /\ tour' = LoadedTour
        /\ file' \in {file, IF LoadedTour.done THEN [step |-> LoadedTour.step, done |-> TRUE] ELSE file}
        /\ prompt' = LoadedPrompt(stored)
        /\ promptFile' \in {stored, LoadedPrompt(stored)}
        /\ overlay' = Main
        /\ link' \in {"Idle", "Connecting"}
        /\ UNCHANGED world

NoPrompt == [deadline |-> None, dismissed |-> FALSE, supported |-> FALSE]

Init ==
    /\ omarchy \in BOOLEAN /\ legacy \in BOOLEAN /\ modes \in BOOLEAN
    /\ file = [step |-> None, done |-> FALSE]
    /\ tour = LoadedTour
    /\ prompt = LoadedPrompt(NoPrompt)
    /\ promptFile = NoPrompt
    /\ overlay = Main
    /\ link = "Idle"

Next ==
    \/ Enter \/ OpenMenu \/ CloseMenu \/ ToggleHelp
    \/ (\E b \in BOOLEAN : PickRegion(b)) \/ PickRouting \/ SetRoutingMode
    \/ CheckOnboarding \/ OpenWhenIdle
    \/ Connect \/ Connected \/ ConnectionEnds \/ Disconnect
    \/ DeadlinePasses \/ CheckSupportPrompt \/ ResolveSupportPrompt \/ DismissSupportPrompt
    \/ \E b \in BOOLEAN : Restart(b)

Spec == Init /\ [][Next]_vars

-----------------------------------------------------------------------------
(* Properties.                                                             *)

\* The tour can go on: it is finished, a card or the screen it waits for is
\* open or opens when the others close, a tunnel brings it back, or the next
\* client that attaches does (app/update/key/onboarding.rs:16-21).
TourHasAWayBack ==
    \/ tour.done \/ tour.pending
    \/ tour.awaiting = None
    \/ tour.awaiting = "Profiles"
    \/ overlay.kind = tour.awaiting

\* Nothing but a disconnect, which closes every screen, takes the way back:
\* no key, command of another client, failed save or restart
\* (daemon/connection.rs:242, tick.rs:62).
OnlyADisconnectDropsTheTour ==
    TourHasAWayBack /\ ~TourHasAWayBack' => link /= "Idle" /\ link' = "Idle"

\* Once the answer that closes the prompt is on the disk, the prompt is not
\* shown again, by a save that fails, help closed over it or a restart
\* (ipc/support.rs:43-57, support_prompt.rs:24-54).
ClosedPromptStaysClosed == Closed(promptFile) => overlay.kind /= "Support"
===============================================================================
