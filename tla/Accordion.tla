----------------------------- MODULE Accordion ------------------------------
(***************************************************************************)
(* Rico.Accordion: a stack of tabs of which one is expanded.  A click on   *)
(* another tab starts an effect that shrinks the one panel and stretches   *)
(* the other, a step per timer.  Nothing keeps the user from clicking      *)
(* again before it is through: then several effects run on the same        *)
(* panels.  Their timers all have the same delay, so they take turns.      *)
(* The callback onHideTab may show yet another tab before the change that  *)
(* called it is made, or throw; onShowTab is called last, and what it does *)
(* is like a click that follows.                                           *)
(***************************************************************************)
EXTENDS Integers, Sequences, SequencesExt

CONSTANTS
    Tabs,
    firstTab,       \* options.onLoadShowTab
    PanelHeight,
    Steps,          \* of an effect
    MaxCalls        \* bound: calls of showTab that change something

Nowhere == "nowhere"

ASSUME AccordionAssumption ==
    /\ firstTab \in Tabs /\ Nowhere \notin Tabs
    /\ PanelHeight \in Nat \ {0, 1} /\ Steps \in Nat \ {0} /\ MaxCalls \in Nat

VARIABLES
    lastExpandedTab,
    height,         \* style.height of each panel
    displayed,      \* panels whose style.display is not 'none'
    expanded,       \* tabs with the flag expanded
    look,           \* colours of each title bar
    effects,        \* the timers of the effects, in the order they are due
    mouse,          \* the title bar the mouse is on
    hiding,         \* the calls of showTab that are in onHideTab, the innermost last
    \* history
    calls,
    reopened        \* tabs that an effect was closing when they were last opened

tabVars == <<lastExpandedTab, height, displayed, expanded, look, effects, reopened>>
accordionVars == <<tabVars, mouse, hiding, calls>>

AccordionInit ==
    /\ lastExpandedTab = firstTab
    /\ height = [t \in Tabs |-> IF t = firstTab THEN PanelHeight ELSE 1]
    /\ displayed = {firstTab} /\ expanded = {firstTab}
    /\ look = [t \in Tabs |-> IF t = firstTab THEN "expanded" ELSE "collapsed"]
    /\ effects = <<>> /\ mouse = Nowhere /\ hiding = <<>>
    /\ calls = 0 /\ reopened = {}

-----------------------------------------------------------------------------
offsetHeight(h, d, t) == IF t \in d THEN h[t] ELSE 0

\* parseInt of a quotient drops the fraction.
parseIntQuotient(n, d) == IF n >= 0 THEN n \div d ELSE -((-n) \div d)

\* The browser ignores a negative height.
styled(old, n) == IF n >= 0 THEN n ELSE old

\* One call of accordionSize that is not the last, for heights h and displayed
\* panels d.
resized(h, d, e) ==
    LET diff == parseIntQuotient(offsetHeight(h, d, e.e1) - 1, e.steps)
    IN  IF offsetHeight(h, d, e.e1) = 1 THEN h
        ELSE [h EXCEPT ![e.e1] = styled(@, offsetHeight(h, d, e.e1) - diff),
                       ![e.e2] = styled(@, offsetHeight(h, d, e.e2) + diff)]

\* The last call: "just in case there are round errors or such".
final(h, e) == [h EXCEPT ![e.e1] = 1, ![e.e2] = PanelHeight]

\* Mutant: the tab shown as expanded is the one whose effect is through.
showTabDoneOwn(e, last, d, x, l) ==
    /\ displayed' = d \ {e.e1}
    /\ expanded' = x \union {e.e2}
    /\ look' = [l EXCEPT ![e.e2] = "expanded"]

\* showTabDone for an effect e, when `last' is the last expanded tab and the
\* panels d are displayed, the tabs x expanded, the titles coloured as in l.
showTabDone(e, last, d, x, l) ==
    /\ displayed' = d \ {e.e1}
    /\ expanded' = x \union {last}
    /\ look' = [l EXCEPT ![last] = "expanded"]

-----------------------------------------------------------------------------
closing(t) == \E i \in DOMAIN effects : effects[i].e1 = t

\* A click on a title bar, or a call from a callback: up to the end of onHideTab.
showTab(t) ==
    /\ t # lastExpandedTab /\ calls < MaxCalls
    /\ calls' = calls + 1
    /\ hiding' = Append(hiding, t)
    /\ UNCHANGED <<tabVars, mouse>>

hideThrows ==
    /\ hiding # <<>>
    /\ hiding' = Front(hiding)
    /\ UNCHANGED <<tabVars, mouse, calls>>

\* The rest of showTab, for what is now the last expanded tab.
startTab(t) ==
    /\ hiding # <<>> /\ t = Last(hiding)
    /\ hiding' = Front(hiding)
    /\ lastExpandedTab' = t
    /\ reopened' = IF closing(t) \/ t = lastExpandedTab THEN reopened \union {t}
                   ELSE reopened \ {t}
    /\ UNCHANGED <<mouse, calls>>

\* The old panel is one pixel short and the new one displayed before the effect
\* makes its first step.
showTabAnimated(t) ==
    /\ startTab(t)
    /\ LET e == [e1 |-> lastExpandedTab, e2 |-> t, steps |-> Steps]
           h == [height EXCEPT ![lastExpandedTab] = PanelHeight - 1]
       IN  /\ height' = resized(h, displayed \union {t}, e)
           /\ effects' = Append(effects, [e EXCEPT !.steps = Steps - 1])
    /\ displayed' = displayed \union {t}
    /\ expanded' = expanded \ {lastExpandedTab}
    /\ look' = [look EXCEPT ![lastExpandedTab] = "collapsed"]

\* showTabByIndex with animate = false.
showTabAtOnce(t) ==
    /\ startTab(t)
    /\ height' = [height EXCEPT ![lastExpandedTab] = 1, ![t] = PanelHeight]
    /\ showTabDone([e1 |-> lastExpandedTab, e2 |-> t], t, displayed \union {t},
                   expanded \ {lastExpandedTab}, [look EXCEPT ![lastExpandedTab] = "collapsed"])
    /\ UNCHANGED effects

\* The timer that is due: accordionSize of its effect.
accordionSize ==
    /\ hiding = <<>> /\ effects # <<>>
    /\ LET e == Head(effects) IN
       \/ /\ e.steps > 0
          /\ height' = resized(height, displayed, e)
          /\ effects' = Append(Tail(effects), [e EXCEPT !.steps = @ - 1])
          /\ UNCHANGED <<displayed, expanded, look>>
       \/ /\ e.steps = 0
          /\ height' = final(height, e)
          /\ showTabDone(e, lastExpandedTab, displayed, expanded, look)
          /\ effects' = Tail(effects)
    /\ UNCHANGED <<lastExpandedTab, mouse, hiding, calls, reopened>>

hover(t) ==
    /\ hiding = <<>> /\ mouse = Nowhere
    /\ mouse' = t
    /\ look' = [look EXCEPT ![t] = "hover"]
    /\ UNCHANGED <<lastExpandedTab, height, displayed, expanded, effects, hiding, calls, reopened>>

unhover ==
    /\ hiding = <<>> /\ mouse # Nowhere
    /\ mouse' = Nowhere
    /\ look' = [look EXCEPT ![mouse] = IF mouse \in expanded THEN "expanded" ELSE "collapsed"]
    /\ UNCHANGED <<lastExpandedTab, height, displayed, expanded, effects, hiding, calls, reopened>>

AccordionNext ==
    \/ \E t \in Tabs : showTab(t) \/ showTabAnimated(t) \/ showTabAtOnce(t) \/ hover(t)
    \/ hideThrows \/ accordionSize \/ unhover

AccordionSpec == AccordionInit /\ [][AccordionNext]_accordionVars

-----------------------------------------------------------------------------
rests == effects = <<>> /\ hiding = <<>>

\* When all effects are through, however quickly the user has clicked and
\* whatever tabs onHideTab has shown: the flags are those of the tab chosen
\* last, and each title bar the mouse is not on looks like its flag
\* (rico.js:195-232, 286-322).  The panel of that tab is displayed in full and
\* no other is (1711-1768); if an effect was still closing that tab when it was
\* opened, the end of that effect has hidden it, and no panel is displayed.
TitlesAgree ==
    /\ expanded = {lastExpandedTab}
    /\ \A t \in Tabs \ {mouse} :
          look[t] = IF t \in expanded THEN "expanded" ELSE "collapsed"
PanelsAgree ==
    /\ displayed = {lastExpandedTab} \ reopened
    /\ \A t \in displayed : height[t] = PanelHeight
AccordionSettles == rests => TitlesAgree /\ PanelsAgree
=============================================================================
