---------------------------- MODULE LogViewProofs ----------------------------
(***************************************************************************)
(* A page that has shown the end of a deployment goes on showing it, for   *)
(* any number of deployments, of loads under way and of revisions.         *)
(***************************************************************************)
EXTENDS LogView, TLAPS

PageInv == TypeOK /\ FrozenShowsEnd

\* Freezing keeps a view a view, and what it freezes has completed.
LEMMA FreezeFacts ==
  ASSUME NEW v \in View, NEW e \in Event \cup {NoEvent}
  PROVE  /\ Freeze(v, e) \in View
         /\ Freeze(v, e).paused = v.paused
         /\ \/ Freeze(v, e) = v
            \/ Freeze(v, e).text = e /\ Completed(e) /\ Freeze(v, e).frozen
BY DEF Freeze, View, Completed

\* Drawing shows a log for every deployment there is.
LEMMA ShownFacts ==
  ASSUME NEW v \in View, NEW e \in Event
  PROVE  /\ Shown(v, e) \in Event
         /\ v.frozen /\ v.text # NoEvent => Shown(v, e) = v.text
BY NoEventAssumption DEF Shown, View

\* Whatever state is drawn, and in whatever order, ends stay on the page.
LEMMA DrawKeepsPageInv ==
  ASSUME PageInv, NEW state \in States, DrawDeployments(state)
  PROVE  /\ drawn' \in States /\ view' \in [Deployment -> View] /\ box' \in States
         /\ \A d \in Deployment : box'[d] = NoEvent <=> drawn'[d] = NoEvent
         /\ FrozenShowsEnd'
<1> USE NoEventAssumption DEF PageInv
<1>1. \A d \in Deployment :
        /\ view[d] \in View /\ state[d] \in Event \cup {NoEvent}
        /\ drawn'[d] = state[d]
        /\ view'[d] = Freeze(view[d], state[d])
        /\ box'[d] = IF state[d] = NoEvent THEN NoEvent ELSE Shown(view'[d], state[d])
  BY DEF TypeOK, DrawDeployments, States
<1>2. \A d \in Deployment : view'[d] \in View
  BY <1>1, FreezeFacts
<1>3. \A d \in Deployment :
        /\ box'[d] \in Event \cup {NoEvent}
        /\ box'[d] = NoEvent <=> drawn'[d] = NoEvent
  BY <1>1, <1>2, ShownFacts
<1>4. drawn' \in States /\ view' \in [Deployment -> View] /\ box' \in States
  BY <1>2, <1>3 DEF DrawDeployments, States
<1>5. ASSUME NEW d \in Deployment,
             view'[d].frozen, ~view'[d].paused, view'[d].text # NoEvent
      PROVE  Completed(view'[d].text) /\ (box'[d] # NoEvent => Completed(box'[d]))
  <2>1. Completed(view'[d].text)
    <3>1. CASE view'[d] = view[d]
      BY <1>5, <3>1 DEF FrozenShowsEnd
    <3>2. CASE view'[d].text = state[d] /\ Completed(state[d])
      BY <3>2
    <3> QED
      BY <1>1, <3>1, <3>2, FreezeFacts
  <2>2. box'[d] # NoEvent => box'[d] = view'[d].text
    BY <1>1, <1>2, <1>5, ShownFacts
  <2> QED
    BY <2>1, <2>2
<1> QED
  BY <1>3, <1>4, <1>5 DEF FrozenShowsEnd

LEMMA InitPageInv == Init => PageInv
BY DEF Init, PageInv, TypeOK, FrozenShowsEnd, States, View, NewView

LEMMA NextKeepsPageInv ==
  PageInv /\ [Next]_vars => PageInv'
<1> SUFFICES ASSUME PageInv, [Next]_vars PROVE PageInv'
  OBVIOUS
<1> USE NoEventAssumption DEF PageInv
<1>1. CASE UNCHANGED vars
  BY <1>1 DEF vars, pageVars, TypeOK, FrozenShowsEnd
<1>2. CASE NodeStep
  <2>1. ASSUME NEW d \in Deployment, Post(d) \/ Forget(d)
        PROVE  PageInv'
    BY <2>1 DEF Post, Forget, pageVars, TypeOK, States, FrozenShowsEnd
  <2>2. ASSUME NEW l \in Load, ServeState(l)
        PROVE  PageInv'
    <3>1. StateNow \in States
      BY DEF StateNow, States, TypeOK
    <3> QED
      BY <2>2, <3>1 DEF ServeState, pageVars, TypeOK, FrozenShowsEnd
  <2> QED
    BY <1>2, <2>1, <2>2 DEF NodeStep
<1>3. ASSUME NEW l \in Load, PageStep(l)
      PROVE  PageInv'
  <2>1. CASE LoadState(l) \/ LoadFails(l)
    BY <2>1 DEF LoadState, LoadFails, Ask, pageVars, TypeOK, FrozenShowsEnd
  <2>2. CASE RenderState(l)
    <3>1. PICK state \in answer[l] : DrawDeployments(state) \/ UNCHANGED pageVars
      BY <2>2 DEF RenderState
    <3>2. state \in States
      BY DEF TypeOK
    <3>3. /\ answer' \in [Load -> SUBSET States]
          /\ UNCHANGED <<log, gone, asked>>
      BY <2>2 DEF RenderState, TypeOK
    <3>4. CASE DrawDeployments(state)
      BY <3>2, <3>3, <3>4, DrawKeepsPageInv DEF TypeOK
    <3>5. CASE UNCHANGED pageVars
      BY <3>3, <3>5 DEF pageVars, TypeOK, FrozenShowsEnd
    <3> QED
      BY <3>1, <3>4, <3>5
  <2> QED
    BY <1>3, <2>1, <2>2 DEF PageStep
<1>4. ASSUME NEW d \in Deployment, Pause(d) \/ Resume(d)
      PROVE  PageInv'
  <2>1. /\ UNCHANGED <<log, gone, answer, drawn, box>>
        /\ asked' \subseteq Load
    BY <1>4 DEF Pause, Resume, Ask, TypeOK
  <2>2. /\ view' \in [Deployment -> View]
        /\ \A o \in Deployment \ {d} : view'[o] = view[o]
        /\ view'[d].paused \/ view'[d].text = NoEvent
    <3>1. view[d] \in View /\ (CanToggle(d) => drawn[d] \in Event)
      BY DEF CanToggle, TypeOK, States
    <3>2. CASE Pause(d)
      <4> DEFINE v == [view[d] EXCEPT !.paused = TRUE, !.text = drawn[d]]
      <4>1. v \in View /\ v.paused
        BY <3>1, <3>2 DEF Pause, View
      <4>2. view' = [view EXCEPT ![d] = v]
        BY <3>2 DEF Pause, TypeOK
      <4> QED
        BY <4>1, <4>2 DEF TypeOK
    <3>3. CASE Resume(d)
      <4> DEFINE v == [view[d] EXCEPT !.paused = FALSE, !.text = NoEvent]
      <4>1. v \in View /\ v.text = NoEvent
        BY <3>1 DEF View
      <4>2. view' = [view EXCEPT ![d] = v]
        BY <3>3 DEF Resume, TypeOK
      <4> QED
        BY <4>1, <4>2 DEF TypeOK
    <3> QED
      BY <1>4, <3>2, <3>3
  <2> QED
    BY <2>1, <2>2 DEF TypeOK, FrozenShowsEnd
<1>5. CASE Reload
  BY <1>5 DEF Reload, TypeOK, States, View, NewView, FrozenShowsEnd
<1> QED
  BY <1>1, <1>2, <1>3, <1>4, <1>5 DEF Next

-----------------------------------------------------------------------------
\* The page's variables keep their types, and it shows a log for each
\* deployment it has drawn and no other (renderState).
THEOREM PageTypeCorrect == Spec => []TypeOK
<1>1. PageInv => TypeOK
  BY DEF PageInv
<1> QED
  BY <1>1, InitPageInv, NextKeepsPageInv, PTL DEF Spec

\* No answer drawn late takes back the end of a deployment (view.frozen).
THEOREM EndsStayShown == Spec => []FrozenShowsEnd
<1>1. PageInv => FrozenShowsEnd
  BY DEF PageInv
<1> QED
  BY <1>1, InitPageInv, NextKeepsPageInv, PTL DEF Spec
=============================================================================
