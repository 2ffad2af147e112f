------------------------------- MODULE LogView -------------------------------
(***************************************************************************)
(* The deployments on an open page of the Web UI.  The page asks for the   *)
(* node's state every few seconds and whenever the user has done something;*)
(* it does not wait for one answer before it asks again, and it draws      *)
(* answers in the order they arrive.  Each deployment's log can be paused, *)
(* and is frozen when the deployment has completed.                        *)
(***************************************************************************)
EXTENDS Naturals

CONSTANTS
  Deployment,  \* the deployments of the node's log
  Load,        \* bound: requests for the state that may be going on at once
  MaxRev,      \* bound: revisions of one deployment's event
  NoEvent      \* no event, or an empty text

VARIABLES
  log,     \* log[d]: the last event posted for d
  gone,    \* deployments the node's state does not show any more
  asked,   \* requests the node has yet to answer
  answer,  \* answer[l]: the state on its way to the page, or none
  drawn,   \* what the page last drew the deployments from
  view,    \* view[d]: logViews of the page
  box      \* box[d]: the event whose text the page shows as the log of d

pageVars == <<drawn, view, box>>
vars == <<log, gone, asked, answer, pageVars>>

\* A revision stands for everything of an event that a state shows.
Event == [completed : BOOLEAN, rev : 0 .. MaxRev]

States == [Deployment -> Event \cup {NoEvent}]

ASSUME NoEventAssumption == NoEvent \notin Event

Completed(e) == e # NoEvent /\ e.completed

\* A view keeps a text, here the event it is the text of.
View == [paused : BOOLEAN, frozen : BOOLEAN, text : Event \cup {NoEvent}]

NewView == [paused |-> FALSE, frozen |-> FALSE, text |-> NoEvent]

\* Types; and the page shows a log for just the deployments it has drawn.
TypeOK ==
  /\ log \in States /\ gone \subseteq Deployment
  /\ asked \subseteq Load
  /\ answer \in [Load -> SUBSET States]
  /\ drawn \in States
  /\ view \in [Deployment -> View]
  /\ box \in States
  /\ \A d \in Deployment : box[d] = NoEvent <=> drawn[d] = NoEvent

Init ==
  /\ log = [d \in Deployment |-> NoEvent]
  /\ gone = {}
  /\ asked = {}
  /\ answer = [l \in Load |-> {}]
  /\ drawn = log
  /\ view = [d \in Deployment |-> NewView]
  /\ box = log

-----------------------------------------------------------------------------
(* The node. *)

\* An event is replaced by a later one, a completed one only by the final
\* record of the same outcome; and what was gone comes back.
Post(d) ==
  /\ \E e \in Event :
       /\ log[d] # NoEvent => log[d].rev < e.rev /\ (log[d].completed => e.completed)
       /\ log' = [log EXCEPT ![d] = e]
  /\ gone' = gone \ {d}
  /\ UNCHANGED <<asked, answer, pageVars>>

\* The state shows the newest twelve only, and a restart forgets them all.
Forget(d) ==
  /\ gone' = gone \cup {d}
  /\ UNCHANGED <<log, asked, answer, pageVars>>

StateNow == [d \in Deployment |-> IF d \in gone THEN NoEvent ELSE log[d]]

\* GET /api/state.
ServeState(l) ==
  /\ l \in asked
  /\ asked' = asked \ {l}
  /\ answer' = [answer EXCEPT ![l] = {StateNow}]
  /\ UNCHANGED <<log, gone, pageVars>>

-----------------------------------------------------------------------------
(* The page. *)

Ask(l) ==
  /\ l \notin asked /\ answer[l] = {}
  /\ asked' = asked \cup {l}

\* By the page's interval, or after an upload, a removal or a deployment.
LoadState(l) ==
  /\ Ask(l)
  /\ UNCHANGED <<log, gone, answer, pageVars>>

LoadFails(l) ==
  /\ l \in asked
  /\ asked' = asked \ {l}
  /\ UNCHANGED <<log, gone, answer, pageVars>>

Freeze(v, e) ==
  IF Completed(e) /\ ~v.frozen THEN [v EXCEPT !.text = e, !.frozen = TRUE] ELSE v

\* A slip: a view that stands still shows its text even if that is empty.
ViewText(v, e) == IF v.frozen \/ v.paused THEN v.text ELSE e

\* A slip: only a pause stops a view.
TextUnlessPaused(v, e) == IF v.paused /\ v.text # NoEvent THEN v.text ELSE e

Shown(v, e) == IF (v.frozen \/ v.paused) /\ v.text # NoEvent THEN v.text ELSE e

\* A slip: deployments are told apart by their keys only.
OtherDeployments(state) ==
  \E d \in Deployment : (state[d] = NoEvent) # (drawn[d] = NoEvent)

SignatureChanged(state) == state # drawn

\* renderState, as far as the deployments go.
DrawDeployments(state) ==
  /\ drawn' = state
  /\ view' = [d \in Deployment |-> Freeze(view[d], state[d])]
  /\ box' = [d \in Deployment |->
       IF state[d] = NoEvent THEN NoEvent ELSE Shown(view'[d], state[d])]

RenderState(l) ==
  /\ \E state \in answer[l] :
       \/ SignatureChanged(state) /\ DrawDeployments(state)
       \/ ~SignatureChanged(state) /\ UNCHANGED pageVars
  /\ answer' = [answer EXCEPT ![l] = {}]
  /\ UNCHANGED <<log, gone, asked>>

\* The button of a completed deployment is disabled.
CanToggle(d) == drawn[d] # NoEvent /\ ~drawn[d].completed

\* Renders the drawn state once more, which draws no deployment.
Pause(d) ==
  /\ CanToggle(d)
  /\ ~view[d].paused
  /\ view' = [view EXCEPT ![d].paused = TRUE, ![d].text = drawn[d]]
  /\ UNCHANGED <<log, gone, asked, answer, drawn, box>>

Resume(d) ==
  /\ CanToggle(d)
  /\ view[d].paused
  /\ view' = [view EXCEPT ![d].paused = FALSE, ![d].text = NoEvent]
  /\ \E l \in Load : Ask(l)
  /\ UNCHANGED <<log, gone, answer, drawn, box>>

\* The user loads the page anew, which at once asks for the state.
Reload ==
  /\ drawn' = [d \in Deployment |-> NoEvent]
  /\ view' = [d \in Deployment |-> NewView]
  /\ box' = drawn'
  /\ \E l \in Load : asked' = {l}
  /\ answer' = [l \in Load |-> {}]
  /\ UNCHANGED <<log, gone>>

NodeStep == (\E d \in Deployment : Post(d) \/ Forget(d)) \/ (\E l \in Load : ServeState(l))

PageStep(l) == LoadState(l) \/ LoadFails(l) \/ RenderState(l)

Next ==
  \/ NodeStep
  \/ \E l \in Load : PageStep(l)
  \/ \E d \in Deployment : Pause(d) \/ Resume(d)
  \/ Reload

Spec == Init /\ [][Next]_vars

\* The interval goes on, and not every load fails.
Fairness ==
  /\ WF_vars(\E l \in Load : LoadState(l))
  /\ \A l \in Load : SF_vars(ServeState(l)) /\ SF_vars(RenderState(l))

FairSpec == Spec /\ Fairness

-----------------------------------------------------------------------------
(* Properties. *)

\* Once an open page has shown the end of a deployment it goes on showing it,
\* although answers to earlier loads may be drawn after later ones; unless the
\* user interferes on a page such an answer has drawn (view.frozen in
\* renderState).
FrozenShowsEnd ==
  \A d \in Deployment :
    view[d].frozen /\ ~view[d].paused /\ view[d].text # NoEvent =>
      Completed(view[d].text) /\ (box[d] # NoEvent => Completed(box[d]))

\* The user stops loading the page anew.
PageStaysOpen == <>[][~Reload]_vars

\* A completed deployment that stays in the state is shown as completed in
\* the end, with a log that is final unless the user left it paused; whatever
\* was on its way to the page (renderState, loadState).
PageSettles ==
  \A d \in Deployment :
    PageStaysOpen /\ <>[](Completed(StateNow[d]) /\ ~view[d].paused) =>
      <>[](Completed(drawn[d]) /\ Completed(box[d]))

\* A log that is not paused, or that was resumed, gets up to date: "Log updates
\* resumed for" is what the page tells the user then (ui.go:330).
ResumedCatchesUp ==
  \A d \in Deployment, e \in Event :
    PageStaysOpen /\ ~e.completed /\ <>[](StateNow[d] = e /\ ~view[d].paused) =>
      <>[](box[d] = e)
=============================================================================
