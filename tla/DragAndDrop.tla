---------------------------- MODULE DragAndDrop -----------------------------
(***************************************************************************)
(* Rico.DragAndDrop with its Draggables and Dropzones: items of a page are *)
(* selected, dragged with the mouse and dropped in zones.  Outside of the  *)
(* zones a drop makes the dragged element fly back, by an effect of 20     *)
(* steps; only its end cancels the drag, and until then the user may do    *)
(* anything.                                                               *)
(*                                                                         *)
(* The items are plain Draggables: what is dragged is their own element.   *)
(* Handlers run for the body and again for the document, where the second  *)
(* call finds nothing to do or does not happen: an action is both.         *)
(***************************************************************************)
EXTENDS Integers, Sequences, SequencesExt

CONSTANTS
    Items, Zones,
    MaxPresses,     \* bound: calls of the handler of mousedown
    MaxEffects      \* bound: elements that fly back at one time

NoItem == "none"

ASSUME DragAssumption ==
    /\ NoItem \notin Items /\ Zones \intersect {"page", "removed"} = {}
    /\ MaxPresses \in Nat /\ MaxEffects \in Nat

VARIABLES
    dropZones,                  \* zones registered
    currentDragObjects,
    selected,                   \* items with the flag
    lastSelectedDraggable,
    interestedInMotionEvents,
    dragElement,                \* the item whose element it is
    currentDragObjectVisible,
    activatedDropZones,
    showingActive,              \* zones
    showingHover,
    place,                      \* of each item: a zone, "page" or "removed"
    flying,                     \* effects that have not come to their end
    pointer,                    \* zones the mouse is over
    \* history
    presses,
    dragging,                   \* items whose drag started and did not end
    regrabbed,                  \* the selection changed during a drag
    emptied,                    \* it became empty during the drag that is not over
    strays                      \* zones deregistered while they were lit

selectionVars == <<currentDragObjects, selected, lastSelectedDraggable>>
dragVars == <<dragElement, currentDragObjectVisible, activatedDropZones>>
zoneVars == <<showingActive, showingHover>>
registerVars == <<dropZones, strays>>
dndVars == <<selectionVars, interestedInMotionEvents, dragVars, zoneVars, place, flying,
             pointer, presses, dragging, regrabbed, emptied, registerVars>>

DragInit ==
    /\ dropZones = Zones
    /\ currentDragObjects = <<>> /\ selected = {} /\ lastSelectedDraggable = NoItem
    /\ interestedInMotionEvents = FALSE
    /\ dragElement = NoItem /\ currentDragObjectVisible = FALSE
    /\ activatedDropZones = FALSE
    /\ showingActive = {} /\ showingHover = {}
    /\ place = [i \in Items |-> "page"]
    /\ flying = 0 /\ pointer = {}
    /\ presses = 0 /\ dragging = {} /\ regrabbed = FALSE
    /\ emptied = FALSE /\ strays = {}

-----------------------------------------------------------------------------
objects == {currentDragObjects[k] : k \in DOMAIN currentDragObjects}

\* Array.removeItem: the first position that holds the item goes.
removeItem(s, i) ==
    LET positions == {k \in DOMAIN s : s[k] = i}
    IN  IF positions = {} THEN s
        ELSE RemoveAt(s, CHOOSE k \in positions : \A j \in positions : k <= j)

select(i) == selected \union {i}
deselect(i) == selected \ {i}

clearSelection ==
    /\ currentDragObjects' = <<>>
    /\ selected' = {}
    /\ lastSelectedDraggable' = NoItem

\* Mutant: the item stays in the list as its flag is taken.
deselectFlagOnly(i) ==
    /\ selected' = deselect(i)
    /\ lastSelectedDraggable' = NoItem
    /\ UNCHANGED currentDragObjects

\* updateSelection: with the control key the item is added or taken away,
\* without it is the only one.
toggle(i) ==
    /\ currentDragObjects' = IF i \in selected THEN removeItem(currentDragObjects, i)
                             ELSE Append(currentDragObjects, i)
    /\ selected' = IF i \in selected THEN deselect(i) ELSE select(i)
    /\ lastSelectedDraggable' =
          IF i \notin selected THEN i
          ELSE IF lastSelectedDraggable = i THEN NoItem ELSE lastSelectedDraggable

selectOnly(i) ==
    /\ currentDragObjects' = <<i>>
    /\ selected' = {i}
    /\ lastSelectedDraggable' = i

mouseDown(i) ==
    /\ presses < MaxPresses /\ place[i] # "removed"
    /\ presses' = presses + 1
    /\ toggle(i) \/ selectOnly(i)
    /\ interestedInMotionEvents' = (currentDragObjects' # <<>>)
    /\ regrabbed' =
          (regrabbed \/ (dragElement # NoItem /\ currentDragObjects' # currentDragObjects))
    /\ emptied' = (emptied \/ (dragElement # NoItem /\ currentDragObjects' = <<>>))
    /\ UNCHANGED <<dragVars, zoneVars, place, flying, pointer, dragging, registerVars>>

-----------------------------------------------------------------------------
\* startDrag of the objects, of which the first shows its element; one that is
\* in no document is put into the page.
startDrag ==
    IF currentDragObjectVisible THEN UNCHANGED <<dragElement, dragging, place>>
    ELSE /\ dragElement' = Head(currentDragObjects)
         /\ dragging' = dragging \union objects
         /\ place' = [place EXCEPT ![dragElement'] = IF @ = "removed" THEN "page" ELSE @]

\* The zones among S light up or go out; one that is lit already stays so.
activate(S) == showingActive \union S
deactivate(S) == showingActive \ S
showHover(shown, S) == shown \union S
hideHover(S) == showingHover \ S

\* The rectangles the mouse is in; p are the zones whose place it is at.
mousePointIn(p) == p \intersect dropZones

activateRegisteredDropZones ==
    /\ activatedDropZones' = TRUE
    /\ showingActive' = IF activatedDropZones THEN showingActive ELSE activate(dropZones)

\* Zones the mouse has left first, then those it is over.
updateDropZonesHover ==
    showingHover' = showHover(hideHover(dropZones), mousePointIn(pointer'))

mouseMove ==
    /\ pointer' \in SUBSET Zones
    /\ \/ /\ interestedInMotionEvents /\ currentDragObjects # <<>>
          /\ startDrag
          /\ currentDragObjectVisible' = TRUE
          /\ activateRegisteredDropZones
          /\ updateDropZonesHover
       \/ /\ ~interestedInMotionEvents \/ currentDragObjects = <<>>
          /\ UNCHANGED <<dragVars, zoneVars, place, dragging>>
    /\ UNCHANGED <<selectionVars, interestedInMotionEvents, flying, presses,
                   regrabbed, emptied, registerVars>>

-----------------------------------------------------------------------------
deactivateRegisteredDropZones ==
    /\ activatedDropZones' = FALSE
    /\ showingActive' = deactivate(dropZones)

ended == dragging' = dragging \ objects

dragOver ==
    /\ dragElement' = NoItem /\ currentDragObjectVisible' = FALSE
    /\ emptied' = FALSE

\* An element other than that of the first object is taken for one made for
\* the drag, and removed.
removed(i) == i = dragElement /\ i # Head(currentDragObjects)

accept(i, z) == IF i \in objects THEN z ELSE place[i]

\* The first zone under the mouse takes the objects.
drop ==
    /\ \E z \in mousePointIn(pointer) :
          /\ place' = [i \in Items |-> IF removed(i) THEN "removed" ELSE accept(i, z)]
          /\ showingHover' = hideHover({z})
    /\ deactivateRegisteredDropZones
    /\ ended
    /\ clearSelection
    /\ dragOver
    /\ UNCHANGED flying

flyBack ==
    /\ mousePointIn(pointer) = {} /\ flying < MaxEffects
    /\ flying' = flying + 1
    /\ UNCHANGED <<selectionVars, dragVars, zoneVars, place, dragging, emptied>>

mouseUp ==
    /\ currentDragObjects # <<>>
    /\ interestedInMotionEvents' = FALSE
    /\ \/ dragElement # NoItem /\ (drop \/ flyBack)
       \/ /\ dragElement = NoItem
          /\ UNCHANGED <<selectionVars, dragVars, zoneVars, place, flying, dragging, emptied>>
    /\ UNCHANGED <<pointer, presses, regrabbed, registerVars>>

\* An effect has made its steps, a timer each, and calls what it was given.
effectEnds == flying > 0 /\ flying' = flying - 1

\* Mutant: the drag is cancelled as the element starts to fly.
cancelAtOnce ==
    /\ effectEnds
    /\ ended /\ dragOver
    /\ UNCHANGED <<selectionVars, interestedInMotionEvents, activatedDropZones, zoneVars, place, pointer, presses,
                   regrabbed, registerVars>>

\* The end of an effect: doCancelDragProcessing.  If no object is left, the first
\* statement throws a TypeError, and the drag is not over.
doCancelDragProcessing ==
    /\ effectEnds
    /\ \/ /\ currentDragObjects # <<>>
          /\ ended
          /\ place' = [i \in Items |-> IF removed(i) THEN "removed" ELSE place[i]]
          /\ deactivateRegisteredDropZones
          /\ dragOver
       \/ /\ currentDragObjects = <<>>
          /\ UNCHANGED <<dragVars, showingActive, place, dragging, emptied>>
    /\ UNCHANGED <<selectionVars, interestedInMotionEvents, showingHover, pointer, presses,
                   regrabbed, registerVars>>

registerDropZone(z) ==
    /\ z \notin dropZones
    /\ dropZones' = dropZones \union {z}
    /\ UNCHANGED <<selectionVars, interestedInMotionEvents, dragVars, zoneVars, place, flying,
                   pointer, presses, dragging, regrabbed, emptied, strays>>

\* A zone that is lit stays so.
deregisterDropZone(z) ==
    /\ z \in dropZones
    /\ dropZones' = dropZones \ {z}
    /\ strays' = IF z \in showingActive THEN strays \union {z} ELSE strays
    /\ UNCHANGED <<selectionVars, interestedInMotionEvents, dragVars, zoneVars, place, flying,
                   pointer, presses, dragging, regrabbed, emptied>>

DragNext ==
    \/ \E i \in Items : mouseDown(i)
    \/ \E z \in Zones : registerDropZone(z) \/ deregisterDropZone(z)
    \/ mouseMove \/ mouseUp \/ doCancelDragProcessing

DragSpec == DragInit /\ [][DragNext]_dndVars

-----------------------------------------------------------------------------
\* The list of selected items, their flags and the item selected last agree
\* after any sequence of presses, drags and drops (rico.js:1043-1058).
SelectionAgrees ==
    /\ selected = objects
    /\ \A j, k \in DOMAIN currentDragObjects :
          currentDragObjects[j] = currentDragObjects[k] => j = k
    /\ lastSelectedDraggable \in objects \union {NoItem}

\* A drag has an end: when no element flies back and no motion of the mouse is
\* awaited, nothing is dragged and no zone is lit, but for those deregistered
\* while they were lit (rico.js:1242-1253, 1302-1318).  Only when the user takes
\* the last item out of the selection during a drag, or while its element flies
\* back, the end does not come (1245 throws), until another drop or flight.  As
\* long as the selection does not change during a drag, every item stays in the
\* page, and the items being dragged are those selected (1190-1253).
ZonesRest ==
    /\ flying = 0 /\ ~interestedInMotionEvents /\ ~emptied => dragElement = NoItem
    /\ dragElement = NoItem => showingActive \subseteq strays /\ ~activatedDropZones
ItemsStay ==
    ~regrabbed =>
        /\ \A i \in Items : place[i] # "removed"
        /\ dragging \in {{}, objects}
        /\ dragElement = NoItem <=> dragging = {}
DragEnds == ZonesRest /\ ItemsStay
=============================================================================
