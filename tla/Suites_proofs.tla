---------------------------- MODULE Suites_proofs ----------------------------
(***************************************************************************)
(* The properties of the suites MCClients and MCDownloads that their       *)
(* components' lemmas give: a behaviour of a suite is one of a single      *)
(* component, and `part` never changes.  The lemmas are in the components' *)
(* own proof modules, those of the tour here.                              *)
(***************************************************************************)
EXTENDS MCDownloads, TLAPS

-----------------------------------------------------------------------------
(* The tour (Tour): it keeps a way back and a closed support prompt stays  *)
(* closed, through every key, command, failed save and restart.  The tour  *)
(* waits for a screen only while no card is shown or due, and the prompt   *)
(* on the disk is never closed while the one in memory is open.            *)

\* The variables of the tour have their names here.
tour == v1
file == v2
prompt == v3
promptFile == v4
overlay == v5
link == v6

USE DEF tour, file, prompt, promptFile, overlay, link

\* The fields of the records, which every step keeps.
TourShape ==
    /\ DOMAIN tour = {"step", "done", "awaiting", "pending"}
    /\ DOMAIN overlay = {"kind", "step", "help"}
    /\ DOMAIN prompt = {"deadline", "dismissed", "supported"}
    /\ DOMAIN promptFile = {"deadline", "dismissed", "supported"}

\* A step is awaited only while no card is shown or due.
TourAwaits ==
    /\ tour.awaiting \in {Tour!None, "Region", "Routing", "Profiles"}
    /\ tour.pending \/ overlay.kind = "Card" => tour.awaiting = Tour!None

\* What closed the prompt on the disk closed it in memory.
TourPrompt == Tour!Closed(promptFile) => Tour!Closed(prompt) /\ overlay.kind /= "Support"

TourInv == TourShape /\ TourAwaits /\ TourPrompt

-----------------------------------------------------------------------------

\* Scheduling closes no prompt and opens none.
LEMMA TourScheduledKeeps ==
    ASSUME NEW p, DOMAIN p = {"deadline", "dismissed", "supported"}
    PROVE  /\ Tour!Closed(Tour!Scheduled(p)) <=> Tour!Closed(p)
           /\ Tour!Scheduled(p) # p => ~Tour!Closed(p)
           /\ DOMAIN Tour!Scheduled(p) = {"deadline", "dismissed", "supported"}
BY DEF Tour!Scheduled, Tour!Closed

\* Arming the prompt keeps the two copies in agreement.
LEMMA TourArmKeeps ==
    ASSUME TourShape, NEW done, Tour!Arm(done), Tour!Closed(promptFile) => Tour!Closed(prompt)
    PROVE  /\ Tour!Closed(promptFile') => Tour!Closed(prompt')
           /\ Tour!Closed(promptFile') => Tour!Closed(promptFile)
           /\ DOMAIN prompt' = {"deadline", "dismissed", "supported"}
           /\ DOMAIN promptFile' = {"deadline", "dismissed", "supported"}
BY TourScheduledKeeps DEF Tour!Arm, TourShape

\* Saving a step of the tour: the step is taken, or the one before comes back
\* with nothing awaited.
LEMMA TourPersistKeeps ==
    ASSUME TourInv, NEW next, NEW shown, NEW recovery, Tour!Persist(next, shown, recovery),
           recovery \in {"RestoreCard", "WaitForIdle"},
           DOMAIN next = {"step", "done", "awaiting", "pending"}, next.awaiting = Tour!None,
           DOMAIN shown = {"kind", "step", "help"},
           shown.kind = "Support" => overlay.kind = "Support"
    PROVE  TourInv' /\ Tour!TourHasAWayBack'
<1>1. DOMAIN tour' = {"step", "done", "awaiting", "pending"} /\ tour'.awaiting = Tour!None
  BY DEF Tour!Persist, Tour!Restored, TourInv, TourShape
<1>2. /\ DOMAIN overlay' = {"kind", "step", "help"}
      /\ overlay'.kind = "Support" => overlay.kind = "Support"
  BY DEF Tour!Persist, Tour!Card
<1>3. /\ Tour!Closed(promptFile') => Tour!Closed(prompt')
      /\ Tour!Closed(promptFile') => Tour!Closed(promptFile)
      /\ DOMAIN prompt' = {"deadline", "dismissed", "supported"}
      /\ DOMAIN promptFile' = {"deadline", "dismissed", "supported"}
  BY TourArmKeeps DEF Tour!Persist, TourInv, TourPrompt, TourShape
<1>4. TourShape'
  BY <1>1, <1>2, <1>3 DEF TourShape
<1>5. TourAwaits' /\ Tour!TourHasAWayBack'
  BY <1>1 DEF TourAwaits, Tour!TourHasAWayBack
<1>6. TourPrompt'
  BY <1>2, <1>3 DEF TourInv, TourPrompt
<1> QED
  BY <1>4, <1>5, <1>6 DEF TourInv

\* An outcome changes nothing but the screen, or takes the awaited step.
LEMMA TourOutcomeKeeps ==
    ASSUME TourInv, NEW awaited, NEW shown, Tour!Outcome(awaited, shown),
           DOMAIN shown = {"kind", "step", "help"},
           shown.kind = "Support" => overlay.kind = "Support",
           shown.kind = "Card" => overlay.kind = "Card",
           overlay.kind = tour.awaiting /\ tour.awaiting # awaited => shown.kind = overlay.kind
    PROVE  TourInv' /\ (Tour!TourHasAWayBack => Tour!TourHasAWayBack')
<1>1. CASE tour.awaiting = awaited
  <2>1. Tour!Persist(Tour!Reached(awaited), shown, "WaitForIdle")
    BY <1>1 DEF Tour!Outcome
  <2>2. /\ DOMAIN Tour!Reached(awaited) = {"step", "done", "awaiting", "pending"}
        /\ Tour!Reached(awaited).awaiting = Tour!None
    BY DEF Tour!Reached, TourInv, TourShape
  <2> QED
    BY <2>1, <2>2, TourPersistKeeps
<1>2. CASE tour.awaiting # awaited
  <2>1. overlay' = shown /\ UNCHANGED <<tour, file, prompt, promptFile>>
    BY <1>2 DEF Tour!Outcome
  <2>2. TourInv'
    BY <2>1 DEF TourInv, TourShape, TourAwaits, TourPrompt
  <2> QED
    BY <1>2, <2>1, <2>2 DEF Tour!TourHasAWayBack
<1> QED
  BY <1>1, <1>2

\* A step of the program keeps the invariant, and only one that ends the
\* connection takes the way back.
LEMMA TourStepKeeps ==
    ASSUME TourInv, Tour!Next
    PROVE  TourInv' /\ Tour!OnlyADisconnectDropsTheTour
<1>s. /\ DOMAIN tour = {"step", "done", "awaiting", "pending"}
      /\ DOMAIN overlay = {"kind", "step", "help"}
      /\ DOMAIN prompt = {"deadline", "dismissed", "supported"}
      /\ DOMAIN promptFile = {"deadline", "dismissed", "supported"}
  BY DEF TourInv, TourShape
<1>m. DOMAIN Tour!Main = {"kind", "step", "help"} /\ Tour!Main.kind = "None"
  BY DEF Tour!Main, Tour!Screen
<1>c. \A step : DOMAIN Tour!Card(step) = {"kind", "step", "help"} /\ Tour!Card(step).kind = "Card"
  BY DEF Tour!Card
<1> DEFINE Kept == TourInv' /\ (Tour!TourHasAWayBack => Tour!TourHasAWayBack')
<1>q. Kept => TourInv' /\ Tour!OnlyADisconnectDropsTheTour
  BY DEF Tour!OnlyADisconnectDropsTheTour
<1>a. ASSUME NEW step, Tour!Advance(step) PROVE Kept
  <2> DEFINE next == [tour EXCEPT !.step = step, !.awaiting = Tour!None, !.pending = FALSE]
  <2>1. DOMAIN next = {"step", "done", "awaiting", "pending"} /\ next.awaiting = Tour!None
    BY <1>s
  <2>2. Tour!Persist(next, Tour!Card(step), "RestoreCard")
    BY <1>a DEF Tour!Advance
  <2> HIDE DEF next
  <2> QED
    BY <2>1, <2>2, <1>c, TourPersistKeeps
<1>1. CASE Tour!Enter
  <2>1. CASE Tour!Handoff(overlay.step) /\ Tour!HandoffScreen(overlay.step) # Tour!None
    <3>1. CASE \E step : Tour!Advance(step)
      BY <3>1, <1>a, <1>q
    <3>2. CASE /\ tour' = [tour EXCEPT !.awaiting = overlay.step, !.pending = FALSE]
               /\ overlay' = Tour!Screen(Tour!HandoffScreen(overlay.step))
               /\ UNCHANGED <<file, prompt, promptFile>>
      <4>1. /\ DOMAIN tour' = DOMAIN tour /\ tour'.awaiting = overlay.step /\ ~tour'.pending
            /\ DOMAIN overlay' = {"kind", "step", "help"}
            /\ overlay'.kind = Tour!HandoffScreen(overlay.step)
        BY <3>2, <1>s DEF Tour!Screen
      <4>2. \/ overlay.step = "Region" /\ Tour!HandoffScreen(overlay.step) = "Region"
            \/ overlay.step = "Routing" /\ Tour!HandoffScreen(overlay.step) = "Routing"
            \/ overlay.step = "Profiles" /\ Tour!HandoffScreen(overlay.step) = "None"
        BY <2>1 DEF Tour!HandoffScreen
      <4>3. TourInv'
        BY <4>1, <4>2, <3>2, <1>s DEF TourInv, TourShape, TourAwaits, TourPrompt
      <4>4. Tour!TourHasAWayBack'
        BY <4>1, <4>2 DEF Tour!TourHasAWayBack
      <4> QED
        BY <4>3, <4>4, <1>q
    <3> QED
      BY <2>1, <3>1, <3>2 DEF Tour!Handoff
  <2>2. CASE Tour!Finish
    <3> DEFINE next == [tour EXCEPT !.done = TRUE, !.awaiting = Tour!None, !.pending = FALSE]
    <3>1. DOMAIN next = {"step", "done", "awaiting", "pending"} /\ next.awaiting = Tour!None
      BY <1>s
    <3>2. Tour!Persist(next, Tour!Main, "RestoreCard")
      BY <2>2 DEF Tour!Finish
    <3> HIDE DEF next
    <3>3. Kept
      BY <3>1, <3>2, <1>m, TourPersistKeeps
    <3> QED
      BY <3>3, <1>q
  <2>3. CASE \E step : Tour!Advance(step)
    BY <2>3, <1>a, <1>q
  <2> QED
    BY <1>1, <2>1, <2>2, <2>3 DEF Tour!Enter
<1>2. CASE Tour!OpenMenu
  <2>1. /\ DOMAIN tour' = DOMAIN tour /\ tour'.awaiting = tour.awaiting /\ tour'.done = tour.done
        /\ overlay.kind = "Card" => tour'.pending
        /\ overlay.kind # "Card" => tour' = tour
        /\ overlay.kind \in {"None", "Card"}
        /\ UNCHANGED <<prompt, promptFile>>
    BY <1>2, <1>s DEF Tour!OpenMenu, Tour!Shows, Tour!Card
  <2>2. DOMAIN overlay' = {"kind", "step", "help"} /\ overlay'.kind = "Menu"
    BY <1>2 DEF Tour!OpenMenu, Tour!Screen
  <2>3. TourInv'
    BY <2>1, <2>2, <1>s DEF TourInv, TourShape, TourAwaits, TourPrompt
  <2>4. Tour!TourHasAWayBack => Tour!TourHasAWayBack'
    BY <2>1, <2>2 DEF Tour!TourHasAWayBack, TourInv, TourAwaits, Tour!None
  <2> QED
    BY <2>3, <2>4, <1>q
<1>3. CASE Tour!CloseMenu
  <2>1. overlay.kind = "Menu" /\ overlay' = Tour!Main /\ UNCHANGED <<tour, prompt, promptFile>>
    BY <1>3 DEF Tour!CloseMenu, Tour!Shows
  <2>2. TourInv'
    BY <2>1, <1>m, <1>s DEF TourInv, TourShape, TourAwaits, TourPrompt
  <2>3. Tour!TourHasAWayBack => Tour!TourHasAWayBack'
    BY <2>1, <1>m DEF Tour!TourHasAWayBack, TourInv, TourAwaits, Tour!None
  <2> QED
    BY <2>2, <2>3, <1>q
<1>4. CASE Tour!ToggleHelp
  <2>1. /\ overlay'.kind = overlay.kind /\ DOMAIN overlay' = DOMAIN overlay
        /\ UNCHANGED <<tour, prompt, promptFile>>
    BY <1>4, <1>s DEF Tour!ToggleHelp
  <2>2. TourInv'
    BY <2>1, <1>s DEF TourInv, TourShape, TourAwaits, TourPrompt
  <2>3. Tour!TourHasAWayBack => Tour!TourHasAWayBack'
    BY <2>1 DEF Tour!TourHasAWayBack
  <2> QED
    BY <2>2, <2>3, <1>q
<1>5. CASE \E b \in BOOLEAN : Tour!PickRegion(b)
  <2>1. Tour!Outcome("Region", Tour!Main) /\ overlay.kind = "Region"
    BY <1>5 DEF Tour!PickRegion, Tour!RegionCommitted, Tour!Shows
  <2>2. Kept
    BY <2>1, <1>m, TourOutcomeKeeps
  <2> QED
    BY <2>2, <1>q
<1>6. CASE Tour!PickRouting \/ Tour!SetRoutingMode
  <2>1. PICK shown : /\ Tour!RoutingCommitted(shown)
                     /\ shown = overlay \/ (shown = Tour!Main /\ overlay.kind = "Routing")
    BY <1>6 DEF Tour!PickRouting, Tour!SetRoutingMode, Tour!Shows
  <2>2. /\ DOMAIN shown = {"kind", "step", "help"}
        /\ shown.kind = "Support" => overlay.kind = "Support"
        /\ shown.kind = "Card" => overlay.kind = "Card"
        /\ overlay.kind = tour.awaiting /\ tour.awaiting # "Routing" => shown.kind = overlay.kind
    BY <2>1, <1>m, <1>s
  <2>3. CASE Tour!Outcome("Routing", shown)
    <3>1. Kept
      BY <2>2, <2>3, TourOutcomeKeeps
    <3> QED
      BY <3>1, <1>q
  <2>4. CASE /\ overlay' = shown
             /\ tour' = IF tour.awaiting = "Routing" THEN Tour!Restored("WaitForIdle") ELSE tour
             /\ UNCHANGED <<file, prompt, promptFile>>
    <3>1. /\ DOMAIN tour' = DOMAIN tour
          /\ \/ tour' = tour /\ tour.awaiting # "Routing"
             \/ tour'.awaiting = Tour!None
      BY <2>4, <1>s DEF Tour!Restored
    <3>2. TourInv'
      BY <3>1, <2>2, <2>4, <1>s DEF TourInv, TourShape, TourAwaits, TourPrompt
    <3>3. Tour!TourHasAWayBack => Tour!TourHasAWayBack'
      BY <3>1, <2>2, <2>4 DEF Tour!TourHasAWayBack
    <3> QED
      BY <3>2, <3>3, <1>q
  <2> QED
    BY <2>1, <2>3, <2>4 DEF Tour!RoutingCommitted
<1>7. CASE Tour!CheckOnboarding \/ Tour!OpenWhenIdle
  <2>1. CASE Tour!Outcome("Profiles", overlay)
    <3>1. Kept
      BY <2>1, <1>s, TourOutcomeKeeps
    <3> QED
      BY <3>1, <1>q
  <2>2. CASE /\ tour.awaiting = Tour!None \/ tour.pending
             /\ tour' = [tour EXCEPT !.pending = FALSE]
             /\ overlay' = Tour!Card(tour.step)
             /\ UNCHANGED <<prompt, promptFile>>
    <3>1. tour'.awaiting = Tour!None /\ DOMAIN tour' = DOMAIN tour
      BY <2>2, <1>s DEF TourInv, TourAwaits
    <3>2. TourInv'
      BY <3>1, <2>2, <1>s, <1>c DEF TourInv, TourShape, TourAwaits, TourPrompt
    <3>3. Tour!TourHasAWayBack'
      BY <3>1 DEF Tour!TourHasAWayBack
    <3> QED
      BY <3>2, <3>3, <1>q
  <2> QED
    BY <1>7, <2>1, <2>2 DEF Tour!CheckOnboarding, Tour!OpenWhenIdle
<1>8. CASE Tour!Connect \/ Tour!ConnectionEnds
  <2>1. UNCHANGED <<tour, overlay, prompt, promptFile>>
    BY <1>8 DEF Tour!Connect, Tour!ConnectionEnds
  <2>2. Kept
    BY <2>1 DEF TourInv, TourShape, TourAwaits, TourPrompt, Tour!TourHasAWayBack
  <2> QED
    BY <2>2, <1>q
<1>9. CASE Tour!Connected
  <2>1. Tour!Outcome("Profiles", overlay)
    BY <1>9 DEF Tour!Connected
  <2>2. Kept
    BY <2>1, <1>s, TourOutcomeKeeps
  <2> QED
    BY <2>2, <1>q
<1>10. CASE Tour!Disconnect
  <2>1. overlay' = Tour!Main /\ UNCHANGED <<tour, prompt, promptFile>>
    BY <1>10 DEF Tour!Disconnect
  <2>2. TourInv'
    BY <2>1, <1>m, <1>s DEF TourInv, TourShape, TourAwaits, TourPrompt
  <2> QED
    BY <1>10, <2>2 DEF Tour!Disconnect, Tour!OnlyADisconnectDropsTheTour
<1>11. CASE Tour!DeadlinePasses
  <2>1. /\ UNCHANGED <<tour, overlay>>
        /\ prompt' = [prompt EXCEPT !.deadline = "due"]
        /\ promptFile' \in {promptFile, [promptFile EXCEPT !.deadline = "due"]}
    BY <1>11 DEF Tour!DeadlinePasses
  <2>2. /\ Tour!Closed(prompt') <=> Tour!Closed(prompt)
        /\ Tour!Closed(promptFile') <=> Tour!Closed(promptFile)
        /\ DOMAIN prompt' = DOMAIN prompt
        /\ DOMAIN promptFile' = DOMAIN promptFile
    BY <2>1, <1>s DEF Tour!Closed
  <2>3. Kept
    BY <2>1, <2>2, <1>s DEF TourInv, TourShape, TourAwaits, TourPrompt, Tour!TourHasAWayBack
  <2> QED
    BY <2>3, <1>q
<1>12. CASE Tour!CheckSupportPrompt
  <2>1. /\ overlay = Tour!Main /\ tour.done /\ ~Tour!Closed(prompt)
        /\ DOMAIN overlay' = {"kind", "step", "help"} /\ overlay'.kind = "Support"
        /\ UNCHANGED <<tour, prompt, promptFile>>
    BY <1>12 DEF Tour!CheckSupportPrompt, Tour!IsDue, Tour!Screen
  <2>2. Kept
    BY <2>1, <1>m, <1>s DEF TourInv, TourShape, TourAwaits, TourPrompt, Tour!TourHasAWayBack
  <2> QED
    BY <2>2, <1>q
<1>13. CASE Tour!ResolveSupportPrompt \/ Tour!DismissSupportPrompt
  <2>1. PICK next, shown, reopen :
           /\ Tour!PersistPrompt(next, shown, reopen)
           /\ DOMAIN next = {"deadline", "dismissed", "supported"}
           /\ \/ shown = Tour!Main /\ overlay.kind = "Support"
              \/ shown = overlay /\ overlay.kind # "Support"
           /\ reopen => overlay.kind = "Support"
           /\ UNCHANGED tour
    <3>1. CASE Tour!ResolveSupportPrompt
      <4>1. PICK next \in Tour!Answers(prompt) : Tour!PersistPrompt(next, Tour!Main, TRUE)
        BY <3>1 DEF Tour!ResolveSupportPrompt
      <4>2. DOMAIN next = {"deadline", "dismissed", "supported"}
        BY <4>1, <1>s DEF Tour!Answers
      <4> QED
        BY <3>1, <4>1, <4>2 DEF Tour!ResolveSupportPrompt, Tour!Shows
    <3>2. CASE Tour!DismissSupportPrompt
      <4>1. DOMAIN [prompt EXCEPT !.dismissed = TRUE, !.deadline = Tour!None]
              = {"deadline", "dismissed", "supported"}
        BY <1>s
      <4>2. CASE overlay.kind = "Support"
        BY <3>2, <4>1, <4>2 DEF Tour!DismissSupportPrompt, Tour!ClosesPrompt
      <4>3. CASE overlay.kind # "Support"
        BY <3>2, <4>1, <4>3 DEF Tour!DismissSupportPrompt, Tour!ClosesPrompt
      <4> QED
        BY <4>2, <4>3
    <3> QED
      BY <1>13, <3>1, <3>2
  <2>2. /\ DOMAIN overlay' = {"kind", "step", "help"}
        /\ overlay'.kind = "Card" => overlay.kind = "Card"
        /\ overlay'.kind = overlay.kind \/ overlay.kind = "Support"
    BY <2>1, <1>m, <1>s DEF Tour!PersistPrompt, Tour!Screen
  <2>3. /\ DOMAIN prompt' = {"deadline", "dismissed", "supported"}
        /\ DOMAIN promptFile' = {"deadline", "dismissed", "supported"}
    BY <2>1, <1>s DEF Tour!PersistPrompt
  <2>4. TourPrompt'
    <3>1. CASE prompt' = next /\ promptFile' = next /\ overlay' = shown
      BY <2>1, <3>1, <1>m DEF TourPrompt
    <3>2. CASE /\ overlay' = IF reopen /\ Tour!IsDue(prompt) THEN Tour!Screen("Support") ELSE shown
               /\ UNCHANGED <<prompt, promptFile>>
      <4>1. overlay'.kind = "Support" => ~Tour!Closed(prompt)
        BY <2>1, <3>2, <1>m DEF Tour!IsDue, Tour!Screen
      <4> QED
        BY <3>2, <4>1 DEF TourInv, TourPrompt
    <3> QED
      BY <2>1, <3>1, <3>2 DEF Tour!PersistPrompt
  <2>5. TourInv'
    BY <2>1, <2>2, <2>3, <2>4, <1>s DEF TourInv, TourShape, TourAwaits
  <2>6. Tour!TourHasAWayBack => Tour!TourHasAWayBack'
    BY <2>1, <2>2 DEF Tour!TourHasAWayBack, TourInv, TourAwaits, Tour!None
  <2> QED
    BY <2>5, <2>6, <1>q
<1>14. CASE \E b \in BOOLEAN : Tour!Restart(b)
  <2>1. PICK b \in BOOLEAN : Tour!Restart(b)
    BY <1>14
  <2> DEFINE stored == IF b THEN [promptFile EXCEPT !.dismissed = TRUE, !.deadline = Tour!None]
                       ELSE promptFile
  <2>2. DOMAIN stored = {"deadline", "dismissed", "supported"}
    BY <1>s
  <2>3. prompt' = Tour!LoadedPrompt(stored) /\ promptFile' \in {stored, Tour!LoadedPrompt(stored)}
    BY <2>1 DEF Tour!Restart
  <2> HIDE DEF stored
  <2>4. /\ Tour!Closed(promptFile') => Tour!Closed(prompt')
        /\ DOMAIN prompt' = {"deadline", "dismissed", "supported"}
        /\ DOMAIN promptFile' = {"deadline", "dismissed", "supported"}
    BY <2>2, <2>3, TourScheduledKeeps DEF Tour!LoadedPrompt
  <2>5. tour'.awaiting = Tour!None /\ DOMAIN tour' = {"step", "done", "awaiting", "pending"}
    BY <2>1 DEF Tour!Restart, Tour!LoadedTour
  <2>6. overlay' = Tour!Main
    BY <2>1 DEF Tour!Restart
  <2>7. TourInv'
    BY <2>4, <2>5, <2>6, <1>m DEF TourInv, TourShape, TourAwaits, TourPrompt
  <2> QED
    BY <2>5, <2>7 DEF Tour!OnlyADisconnectDropsTheTour, Tour!TourHasAWayBack
<1> QED
  BY <1>1, <1>2, <1>3, <1>4, <1>5, <1>6, <1>7, <1>8, <1>9, <1>10, <1>11, <1>12, <1>13, <1>14
  DEF Tour!Next

\* The invariant holds at the start.
LEMMA TourStartsRight == Tour!Init => TourInv
<1> SUFFICES ASSUME Tour!Init PROVE TourInv
  OBVIOUS
<1>1. DOMAIN Tour!NoPrompt = {"deadline", "dismissed", "supported"} /\ ~Tour!Closed(Tour!NoPrompt)
  BY DEF Tour!NoPrompt, Tour!Closed
<1>2. DOMAIN prompt = {"deadline", "dismissed", "supported"} /\ promptFile = Tour!NoPrompt
  BY <1>1, TourScheduledKeeps DEF Tour!Init, Tour!LoadedPrompt
<1>3. tour.awaiting = Tour!None /\ DOMAIN tour = {"step", "done", "awaiting", "pending"}
  BY DEF Tour!Init, Tour!LoadedTour
<1> QED
  BY <1>1, <1>2, <1>3 DEF Tour!Init, TourInv, TourShape, TourAwaits, TourPrompt, Tour!Main, Tour!Screen

\* A step that changes nothing keeps the invariant.
LEMMA TourStutterKeeps == TourInv /\ UNCHANGED Tour!vars => TourInv'
BY DEF TourInv, TourShape, TourAwaits, TourPrompt, Tour!vars

\* Nothing but the end of a connection takes the tour's way back, and a
\* prompt whose closing answer is on the disk is not shown again.
THEOREM TourAndPrompt ==
    Tour!Spec => []Tour!ClosedPromptStaysClosed /\ [][Tour!OnlyADisconnectDropsTheTour]_(Tour!vars)
<1>1. TourInv => Tour!ClosedPromptStaysClosed
  BY DEF TourInv, TourPrompt, Tour!ClosedPromptStaysClosed
<1> QED
  BY <1>1, TourStartsRight, TourStepKeeps, TourStutterKeeps, PTL DEF Tour!Spec

HIDE DEF tour, file, prompt, promptFile, overlay, link

-----------------------------------------------------------------------------
(* The suite MCClients.                                                    *)

\* The invariants of the components that are proved about.
Inv ==
    /\ part = "daemons" => Daemons!Inv /\ Daemons!ClientInv
    /\ part = "session" => Session!Inv
    /\ part \in {"tests", "traffic"} => Measurements!Inv
    /\ part = "tour" => TourInv

\* The instances satisfy what the lemmas assume of the constants.
LEMMA ConstantsAreOK ==
    Daemons!ConstantsOK /\ Session!ConstantsOK /\ Measurements!ConstantsOK
<1>1. Measurements!IsFiniteSet({1, 2, 3})
  <2>1. {1, 2, 3} = 1..3
    OBVIOUS
  <2>2. 1 \in Int /\ 3 \in Int
    OBVIOUS
  <2>3. Measurements!IsFiniteSet(1..3)
    BY <2>2, Measurements!FS_Interval
  <2> QED
    BY <2>1, <2>3
<1>2. Daemons!ConstantsOK
  BY DEF Daemons!ConstantsOK
<1>3. Measurements!ConstantsOK
  BY <1>1, {1000, 1001, 1250} \subseteq Nat DEF Measurements!ConstantsOK
<1>4. Session!ConstantsOK
  BY DEF Session!ConstantsOK, Session!Cli
<1> QED
  BY <1>2, <1>3, <1>4

\* Every step of the suite keeps the invariant of its component.
LEMMA StepKeeps == Inv /\ [Next]_vars => Inv'
<1> SUFFICES ASSUME Inv, [Next]_vars PROVE Inv'
  OBVIOUS
<1>1. CASE UNCHANGED vars
  <2>1. /\ UNCHANGED <<v1, v2, v3, v4, v5, v6, v7, v8, v9>>
        /\ UNCHANGED part
    BY <1>1 DEF vars, slots
  <2>2. Daemons!Inv /\ Daemons!ClientInv => Daemons!Inv' /\ Daemons!ClientInv'
    BY <2>1, ConstantsAreOK, Daemons!StutterKeeps DEF Daemons!vars, Daemons!files
  <2>3. TourInv => TourInv'
    BY <2>1, TourStutterKeeps DEF Tour!vars
  <2>4. Measurements!Inv => Measurements!Inv'
    BY <2>1, Measurements!StutterKeeps
       DEF Measurements!vars, Measurements!testVars, Measurements!trafficVars
  <2>5. Session!Inv => Session!Inv'
    BY <2>1, Session!StutterKeeps DEF Session!vars
  <2> QED
    BY <2>1, <2>2, <2>3, <2>4, <2>5 DEF Inv
<1>2. CASE part = "daemons" /\ Daemons!Next /\ UNCHANGED part
  BY <1>2, ConstantsAreOK, Daemons!StepKeeps DEF Inv
<1>3. CASE part = "tour" /\ Tour!Next /\ UNCHANGED part
  BY <1>3, TourStepKeeps DEF Inv
<1>4. CASE part \in {"tests", "traffic"} /\ Measurements!Next /\ UNCHANGED part
  BY <1>4, ConstantsAreOK, Measurements!StepKeeps DEF Inv
<1>5. CASE part = "session" /\ Session!Next /\ UNCHANGED part
  BY <1>5, ConstantsAreOK, Session!StepKeeps DEF Inv
<1>6. CASE part \notin {"daemons", "session", "tour", "tests", "traffic"} /\ UNCHANGED part
  BY <1>6 DEF Inv
<1> QED
  BY <1>1, <1>2, <1>3, <1>4, <1>5, <1>6 DEF Next, Measurements!Next

\* Every start of the suite is one of a component.
LEMMA StartsRight == Init => Inv
BY ConstantsAreOK, Daemons!StartsRight, Session!StartsRight, Measurements!StartsRight,
   TourStartsRight DEF Init, Inv

\* Every state of the suite satisfies the invariant of its component.
LEMMA Invariant == Spec => []Inv
BY StartsRight, StepKeeps, PTL DEF Spec

-----------------------------------------------------------------------------

\* The daemon that serves is the one behind the socket, and no recorded
\* tunnel survives the start of the next daemon.
THEOREM RestartsAreSafe == Spec => []DaemonRestartsAreSafe
<1>1. Inv => DaemonRestartsAreSafe
  BY Daemons!InvIsSafe DEF Inv, DaemonRestartsAreSafe
<1> QED
  BY <1>1, Invariant, PTL

\* A client that made a connected daemon quit ends on one that connects.
THEOREM ClientsReconnect == Spec => ReplacementReconnects
<1>1. Inv /\ [Next]_vars => [part = "daemons" => Daemons!ReplacementReconnects]_vars
  <2> SUFFICES ASSUME Inv, Next, part = "daemons" PROVE Daemons!ReplacementReconnects
    OBVIOUS
  <2>1. Daemons!Next
    BY DEF Next
  <2> QED
    BY <2>1, ConstantsAreOK, Daemons!StepReconnects DEF Inv
<1> QED
  BY <1>1, Invariant, PTL DEF Spec, ReplacementReconnects

\* TUIs that have read everything show what the daemon has, and a command of
\* the command line reports its own outcome.
THEOREM ClientsAreServed == Spec => []ClientsAgree
<1>1. Inv => ClientsAgree
  BY Session!InvIsSafe DEF Inv, ClientsAgree
<1> QED
  BY <1>1, Invariant, PTL

\* No client clears an error that no TUI has drawn.
THEOREM ErrorsAreDrawn == Spec => ErrorIsDrawnBeforeCleared
<1>1. Inv /\ [Next]_vars => [part = "session" => Session!ErrorIsDrawnBeforeCleared]_vars
  <2> SUFFICES ASSUME Inv, Next, part = "session" PROVE Session!ErrorIsDrawnBeforeCleared
    OBVIOUS
  <2>1. Session!Next
    BY DEF Next
  <2> QED
    BY <2>1, ConstantsAreOK, Session!StepKeeps DEF Inv
<1> QED
  BY <1>1, Invariant, PTL DEF Spec, ErrorIsDrawnBeforeCleared

\* Tests of profiles do not collide, and the traffic shown is of this tunnel.
THEOREM ResultsAreSafe == Spec => []ResultsAreOfThisConnection
<1>1. Inv => ResultsAreOfThisConnection
  BY Measurements!InvIsSafe DEF Inv, ResultsAreOfThisConnection
<1> QED
  BY <1>1, Invariant, PTL

\* Nothing but the end of a connection takes the tour's way back, and a
\* closed support prompt is not shown again.
THEOREM TourIsKept == Spec => TourKeepsItsPlace
<1>1. Inv /\ [Next]_vars =>
        [part = "tour" => Tour!OnlyADisconnectDropsTheTour /\ Tour!ClosedPromptStaysClosed']_vars
  <2> SUFFICES ASSUME Inv, Next, part = "tour"
               PROVE  Tour!OnlyADisconnectDropsTheTour /\ Tour!ClosedPromptStaysClosed'
    OBVIOUS
  <2>1. Tour!Next
    BY DEF Next
  <2> QED
    BY <2>1, TourStepKeeps
       DEF Inv, TourInv, TourPrompt, Tour!ClosedPromptStaysClosed, prompt, promptFile, overlay
<1> QED
  BY <1>1, Invariant, PTL DEF Spec, TourKeepsItsPlace

-----------------------------------------------------------------------------
(* The suite MCDownloads.                                                  *)

DownloadsInv ==
    /\ OfSubscriptions => Subscriptions!Inv
    /\ OfRuleSets => RuleSets!Inv /\ RuleSets!UsedInv /\ RuleSets!StateInv

LEMMA SubscriptionConstants == Subscriptions!ConstantsOK
<1>1. ASSUME NEW b \in SubscriptionBounds
      PROVE  b.times \in SUBSET Nat /\ b.times /= {}
  BY DEF SubscriptionBounds, ListBounds, FailureBounds
<1>2. Subscriptions!IsFiniteSet({"s1"})
  <2>1. Subscriptions!IsFiniteSet({}) /\ {"s1"} = {} \cup {"s1"}
    BY Subscriptions!FS_EmptySet
  <2> QED
    BY <2>1, Subscriptions!FS_AddElement
<1>3. Subscriptions!SubOK(InitialSubs["s1"]) /\ InitialSubs["s1"].retry.date = Unset
  BY DEF InitialSubs, NoRetry, Unset, Subscriptions!SubOK
<1>4. \A t \in Nat : Unset <= Subscriptions!Date(t)
  BY DEF Unset, Subscriptions!Date, Subscriptions!DayMinutes
<1>5. DOMAIN InitialSubs = {"s1"} /\ "s1" \in SubscriptionIds
  BY DEF InitialSubs, SubscriptionIds
<1>6. \A b \in SubscriptionBounds : \A t \in b.times : InitialSubs["s1"].retry.date <= Subscriptions!Date(t)
  BY <1>1, <1>3, <1>4
<1> QED
  BY <1>1, <1>2, <1>3, <1>5, <1>6 DEF Subscriptions!ConstantsOK

\* The versions of routing.json declare one address for a file.
LEMMA RuleSetConstants == RuleSets!ConstantsOK
<1> DEFINE ip == [key |-> "ip", url |-> "u1"]
<1> DEFINE site1 == [key |-> "site", url |-> "v1"]
<1> DEFINE site2 == [key |-> "site", url |-> "v2"]
<1>1. ASSUME NEW r \in Routings
      PROVE  RuleSets!Selectable(r) \in {{ip, site1}, {ip, site2}, {ip}}
  <2>1. ASSUME NEW sets, NEW other
        PROVE  /\ Version(sets, other)["global"].sets = {}
               /\ Version(sets, other)["split"].sets = sets
    BY DEF Version
  <2>2. PICK sets, other :
           /\ r = Version(sets, other)
           /\ sets \in {{Ip, Entry("site", "v1", FALSE)}, {Ip, Entry("site", "v2", FALSE)}, {Ip}}
    BY Zenon DEF Routings
  <2>3. r["global"].sets = {}
    BY <2>1, <2>2
  <2>4. r["split"].sets \in {{Ip, Entry("site", "v1", FALSE)}, {Ip, Entry("site", "v2", FALSE)}, {Ip}}
    BY <2>1, <2>2
  <2>5. RuleSets!Selectable(r) = {RuleSets!RuleSet(e) : e \in r["split"].sets}
    BY <2>3 DEF RuleSets!Selectable, RuleSets!RuleSets
  <2>6. /\ RuleSets!RuleSet(Ip) = ip
        /\ RuleSets!RuleSet(Entry("site", "v1", FALSE)) = site1
        /\ RuleSets!RuleSet(Entry("site", "v2", FALSE)) = site2
    BY DEF RuleSets!RuleSet, Ip, Entry
  <2> QED
    BY <2>4, <2>5, <2>6
<1>2. ASSUME NEW T \in {{ip, site1}, {ip, site2}, {ip}} PROVE RuleSets!IsFiniteSet(T)
  <2>1. RuleSets!IsFiniteSet({}) /\ {ip} = {} \cup {ip}
    BY RuleSets!FS_EmptySet
  <2>2. RuleSets!IsFiniteSet({ip})
    BY <2>1, RuleSets!FS_AddElement
  <2>3. RuleSets!IsFiniteSet({ip} \cup {site1}) /\ RuleSets!IsFiniteSet({ip} \cup {site2})
    BY <2>2, RuleSets!FS_AddElement
  <2>4. {ip} \cup {site1} = {ip, site1} /\ {ip} \cup {site2} = {ip, site2}
    OBVIOUS
  <2> QED
    BY <2>2, <2>3, <2>4
<1>3. ASSUME NEW T \in {{ip, site1}, {ip, site2}, {ip}}
      PROVE  /\ \A rs \in T : rs.key \in {"ip", "site"} /\ rs.url \in {"u1", "v1", "v2"}
             /\ \A rs, other \in T : rs.key = other.key => rs = other
  OBVIOUS
<1>4. RuleSets!NoUrl \notin {"u1", "v1", "v2"}
  BY DEF RuleSets!NoUrl
<1> QED
  BY <1>1, <1>2, <1>3, <1>4 DEF RuleSets!ConstantsOK

\* Every step of the suite keeps the invariant of its component.
LEMMA DownloadsStepKeeps == DownloadsInv /\ [DownloadsNext]_allVars => DownloadsInv'
<1> SUFFICES ASSUME DownloadsInv, [DownloadsNext]_allVars PROVE DownloadsInv'
  OBVIOUS
<1>1. CASE UNCHANGED allVars
  <2>1. /\ UNCHANGED <<v1, v2, v3, v4, v5, v6, v7, v8, v9, v10, v11, v12, v13, v14, v15, v16,
                       v17, v18, v19>>
        /\ UNCHANGED part
    BY <1>1 DEF allVars, vars, slots
  <2>2. Subscriptions!Inv => Subscriptions!Inv'
    BY <2>1, Subscriptions!StutterKeeps DEF Subscriptions!vars
  <2>3. /\ RuleSets!Inv => RuleSets!Inv'
        /\ RuleSets!UsedInv => RuleSets!UsedInv'
        /\ RuleSets!Inv /\ RuleSets!StateInv => RuleSets!StateInv'
    BY <2>1, RuleSets!StutterKeeps, RuleSets!UsedStutterKeeps, RuleSets!StateStutterKeeps
       DEF RuleSets!vars, RuleSets!settings, RuleSets!model, RuleSets!cache, RuleSets!threads
  <2> QED
    BY <2>1, <2>2, <2>3 DEF DownloadsInv, OfSubscriptions, OfRuleSets
<1>2. CASE OfSubscriptions /\ Subscriptions!Next /\ UNCHANGED part
  BY <1>2, SubscriptionConstants, Subscriptions!StepKeeps DEF DownloadsInv, OfSubscriptions, OfRuleSets
<1>3. CASE OfRuleSets /\ RuleSets!Next /\ UNCHANGED part
  BY <1>3, RuleSetConstants, RuleSets!StepKeeps, RuleSets!UsedStepKeeps, RuleSets!StateStepKeeps
     DEF DownloadsInv, OfSubscriptions, OfRuleSets
<1> QED
  BY <1>1, <1>2, <1>3 DEF DownloadsNext

LEMMA DownloadsInvariant == DownloadsSpec => []DownloadsInv
<1>1. DownloadsInit => DownloadsInv
  BY SubscriptionConstants, RuleSetConstants, Subscriptions!StartsRight, RuleSets!StartsRight,
     RuleSets!UsedStartsRight, RuleSets!StatesStartRight
     DEF DownloadsInit, DownloadsInv, OfSubscriptions, OfRuleSets
<1> QED
  BY <1>1, DownloadsStepKeeps, PTL DEF DownloadsSpec

\* A mark of a subscription never outlives its thread and result, and no
\* date has more than five automatic failures.
THEOREM UpdatesAreBounded == DownloadsSpec => []MarkedIsUnderWay
<1>1. DownloadsInv => MarkedIsUnderWay
  BY DEF DownloadsInv, MarkedIsUnderWay, Subscriptions!Inv
<1> QED
  BY <1>1, DownloadsInvariant, PTL

\* No two threads download a file at once, and a tunnel opens files of the
\* addresses its plan has, whatever threads do between the worker's look at
\* the cache and the start; but for an edit of routing.json meanwhile.
THEOREM FilesHaveTheirSource == DownloadsSpec => []FilesAreOfTheirSource
<1>1. DownloadsInv => FilesAreOfTheirSource
  BY DEF DownloadsInv, FilesAreOfTheirSource, RuleSets!Inv, RuleSets!DownloadInv, RuleSets!UsedInv
<1> QED
  BY <1>1, DownloadsInvariant, PTL

\* Once threads and messages are through, the daemon knows of its rule-sets
\* what the cache holds, and a fallback lacks a required file.
THEOREM StatesFollowDisk == DownloadsSpec => []StatesMatchDisk
<1>1. DownloadsInv => StatesMatchDisk
  BY RuleSetConstants, RuleSets!QuietIsKnown DEF DownloadsInv, StatesMatchDisk
<1> QED
  BY <1>1, DownloadsInvariant, PTL
=============================================================================
