----------------------------- MODULE RicoProofs ------------------------------
(***************************************************************************)
(* The widgets of Rico, for any number of tabs, items, zones and columns   *)
(* and however long they are used.  The widgets share no state, and each   *)
(* is proved about on its own.                                             *)
(***************************************************************************)
EXTENDS Accordion, DragAndDrop, LiveGridSort, LiveGrid, SequenceTheorems, FiniteSetTheorems, TLAPS

-----------------------------------------------------------------------------
(***************************************************************************)
(* LiveGrid: the marks of the header and the order of the grid.            *)
(* MarkIsOrder is inductive once the fields of the header are known to be  *)
(* functions on the columns.                                               *)
(***************************************************************************)
Directions == {"UNSORTED", "ASC", "DESC", "undefined"}

HeaderType ==
    header \in [currentSort : [columns -> Directions], image : [columns -> Directions]]

HeaderInv == HeaderType /\ MarkIsOrder

\* A header that is well formed, and shows every direction that is defined.
Shown(h) ==
    /\ h \in [currentSort : [columns -> Directions], image : [columns -> Directions]]
    /\ \A n \in columns : h.currentSort[n] # "undefined" => h.image[n] = h.currentSort[n]

\* setSorted (rico.js:2541-2555, 2625-2628) changes the direction of one column,
\* and the image goes with it.
LEMMA SetSortedShown ==
    ASSUME NEW h, Shown(h), NEW n \in columns, NEW d \in Directions
    PROVE  /\ Shown(setSorted(h, n, d))
           /\ setSorted(h, n, d).currentSort = [h.currentSort EXCEPT ![n] = d]
<1>1. setSorted(h, n, d).currentSort = [h.currentSort EXCEPT ![n] = d]
  BY DEF setSorted, setSortImage, Shown, Directions
<1>2. CASE d = "undefined"
  BY <1>2 DEF setSorted, setSortImage, Shown, Directions
<1>3. CASE d # "undefined"
  BY <1>3 DEF setSorted, setSortImage, Shown, Directions
<1>4. QED
  BY <1>1, <1>2, <1>3

\* getSortedColumnIndex (rico.js:2557-2565) is a column that is sorted, if there is
\* one; when there is no other, it is the one.
LEMMA SortedColumn ==
    ASSUME NEW h, \A m, n \in sorted(h) : m = n
    PROVE  \/ sorted(h) = {} /\ getSortedColumnIndex(h) = NoColumn
           \/ /\ getSortedColumnIndex(h) \in columns
              /\ sorted(h) = {getSortedColumnIndex(h)}
<1>1. CASE sorted(h) = {}
  BY <1>1 DEF getSortedColumnIndex
<1>2. CASE sorted(h) # {}
  <2>1. PICK s \in sorted(h) : sorted(h) = {s}
    BY <1>2
  <2>2. s \in Int /\ s \in columns
    BY <2>1 DEF sorted, columns
  <2>3. \A k \in sorted(h) : s <= k
    BY <2>1, <2>2
  <2>4. getSortedColumnIndex(h) = s
    BY <2>1, <2>3 DEF getSortedColumnIndex
  <2>5. QED
    BY <2>1, <2>2, <2>4
<1>3. QED
  BY <1>1, <1>2

\* After a click (rico.js:2504-2523) at most the column clicked is sorted, and none
\* after one on an image.
LEMMA ClickedMarks ==
    ASSUME NEW h, Shown(h), \A m, n \in sorted(h) : m = n,
           NEW n \in columns \union {NaN}
    PROVE  /\ Shown(clicked(h, n))
           /\ sorted(clicked(h, n)) \subseteq {n} \ {NaN}
<1> DEFINE s == getSortedColumnIndex(h)
           c == clicked(h, n)
<1>1. NaN \notin columns /\ NoColumn \notin columns /\ NaN # NoColumn
  BY DEF NaN, NoColumn, columns
<1>2. "ASC" \in Directions /\ "UNSORTED" \in Directions
  BY DEF Directions
<1>3. CASE s = NoColumn
  <2>1. sorted(h) = {}
    BY <1>1, <1>3, SortedColumn
  <2>2. c = setColumnSort(h, n, "ASC")
    BY <1>3 DEF clicked
  <2>3. CASE n = NaN
    BY <2>1, <2>2, <2>3 DEF setColumnSort
  <2>4. CASE n # NaN
    <3>1. n \in columns /\ c = setSorted(h, n, "ASC")
      BY <2>2, <2>4 DEF setColumnSort
    <3>2. Shown(c) /\ c.currentSort = [h.currentSort EXCEPT ![n] = "ASC"]
      BY <1>2, <3>1, SetSortedShown
    <3>3. \A k \in columns \ {n} : c.currentSort[k] = "UNSORTED"
      BY <2>1, <3>2 DEF Shown, sorted
    <3>4. QED
      BY <1>1, <3>1, <3>2, <3>3 DEF sorted
  <2>5. QED
    BY <2>3, <2>4
<1>4. CASE s # NoColumn
  <2>1. s \in columns /\ sorted(h) = {s}
    BY <1>4, SortedColumn
  <2>2. CASE s = n
    <3>1. c = setSorted(h, n, toggleSort(h.currentSort[n]))
      BY <1>4, <2>2 DEF clicked, toggleColumnSort
    <3>2. toggleSort(h.currentSort[n]) \in Directions
      BY <2>1, <2>2 DEF toggleSort, Shown, Directions
    <3>3. /\ Shown(c)
          /\ c.currentSort = [h.currentSort EXCEPT ![n] = toggleSort(h.currentSort[n])]
      BY <2>1, <2>2, <3>1, <3>2, SetSortedShown
    <3>4. \A k \in columns \ {n} : c.currentSort[k] = "UNSORTED"
      BY <2>1, <2>2, <3>3 DEF Shown, sorted
    <3>5. QED
      BY <1>1, <2>1, <2>2, <3>3, <3>4 DEF sorted
  <2>3. CASE s # n
    <3> DEFINE r == setSorted(h, s, "UNSORTED")
    <3>1. c = setColumnSort(r, n, "ASC")
      BY <1>4, <2>3 DEF clicked, removeColumnSort
    <3>2. Shown(r) /\ r.currentSort = [h.currentSort EXCEPT ![s] = "UNSORTED"]
      BY <1>2, <2>1, SetSortedShown
    <3>3. \A k \in columns : r.currentSort[k] = "UNSORTED"
      BY <2>1, <3>2 DEF Shown, sorted
    <3> HIDE DEF r
    <3>4. CASE n = NaN
      BY <3>1, <3>2, <3>3, <3>4 DEF setColumnSort, sorted
    <3>5. CASE n # NaN
      <4>1. n \in columns /\ c = setSorted(r, n, "ASC")
        BY <3>1, <3>5 DEF setColumnSort
      <4>2. Shown(c) /\ c.currentSort = [r.currentSort EXCEPT ![n] = "ASC"]
        BY <1>2, <3>2, <4>1, SetSortedShown
      <4>3. \A k \in columns \ {n} : c.currentSort[k] = "UNSORTED"
        BY <3>2, <3>3, <4>2 DEF Shown
      <4>4. QED
        BY <1>1, <4>1, <4>2, <4>3 DEF sorted
    <3>6. QED
      BY <3>4, <3>5
  <2>4. QED
    BY <2>2, <2>3
<1>5. QED
  BY <1>3, <1>4

LEMMA HeaderInitially == HeaderInit => HeaderInv
<1> SUFFICES ASSUME NEW column \in sortable \union {NoColumn},
                    NEW direction \in {"ASC", "DESC", "undefined"},
                    NEW prefetch \in BOOLEAN, setSortUI(column, direction, prefetch)
             PROVE  HeaderInv
  BY DEF HeaderInit
<1> DEFINE h == [currentSort |-> [n \in columns |-> "UNSORTED"],
                 image |-> [n \in columns |-> "UNSORTED"]]
<1>1. Shown(h) /\ sorted(h) = {}
  BY DEF Shown, Directions, sorted
<1>2. CASE column = NoColumn
  <2>1. header = h
    BY <1>2 DEF setSortUI
  <2>2. QED
    BY <1>1, <2>1 DEF HeaderInv, HeaderType, MarkIsOrder, Shown
<1>3. CASE column # NoColumn
  <2>1. column \in columns /\ direction \in Directions
    BY <1>3 DEF sortable, Directions
  <2>2. header = setSorted(h, column, direction)
    BY <1>3 DEF setSortUI
  <2>3. /\ Shown(header)
        /\ header.currentSort = [h.currentSort EXCEPT ![column] = direction]
    BY <1>1, <2>1, <2>2, SetSortedShown
  <2>4. sorted(header) = {column} /\ header.currentSort[column] = direction
    BY <2>1, <2>3 DEF sorted
  <2>5. fetched => order = <<column, direction>>
    BY <1>3 DEF setSortUI
  <2>6. QED
    BY <2>3, <2>4, <2>5 DEF HeaderInv, HeaderType, MarkIsOrder, Shown
<1>4. QED
  BY <1>2, <1>3

LEMMA ClickKeeps == HeaderInv /\ headerCellClicked => HeaderInv'
<1> SUFFICES ASSUME HeaderInv, NEW n \in columnNumber,
                    header' = clicked(header, n), gridSorts(n)
             PROVE  HeaderInv'
  BY DEF headerCellClicked
<1>1. n \in columns \union {NaN}
  BY DEF columnNumber, sortable
<1>2. Shown(header) /\ \A m, k \in sorted(header) : m = k
  BY DEF HeaderInv, HeaderType, MarkIsOrder, Shown
<1>3. Shown(header') /\ sorted(header') \subseteq {n} \ {NaN}
  BY <1>1, <1>2, ClickedMarks
<1>4. \A k \in sorted(header') : order' = <<k, header'.currentSort[k]>>
  BY <1>3 DEF gridSorts
<1>5. QED
  BY <1>3, <1>4 DEF HeaderInv, HeaderType, MarkIsOrder, Shown

\* However the header is clicked, one column at most is marked, and the mark is the
\* order the grid asks for (rico.js:2504-2555 and 2323-2326).
THEOREM HeaderMarks == HeaderSpec => []MarkIsOrder
<1>1. HeaderInit => HeaderInv
  BY HeaderInitially
<1>2. HeaderInv /\ [headerCellClicked]_headerVars => HeaderInv'
  <2>1. HeaderInv /\ UNCHANGED headerVars => HeaderInv'
    BY DEF HeaderInv, HeaderType, MarkIsOrder, headerVars, sorted, columns
  <2>2. QED
    BY <2>1, ClickKeeps
<1>3. HeaderInv => MarkIsOrder
  BY DEF HeaderInv
<1>4. QED
  BY <1>1, <1>2, <1>3, PTL DEF HeaderSpec

-----------------------------------------------------------------------------
(***************************************************************************)
(* DragAndDrop: the selection and the drag.  SelectionAgrees is inductive  *)
(* for a list of items.  DragEnds is not: it says what holds at rest, and  *)
(* the invariant has to say what holds on the way there.  ZonesKnown: the  *)
(* zones that are lit are registered or stray, and stray only while none   *)
(* is activated.  EndKnown: a drag goes on only as long as the mouse or an *)
(* effect can end it, or the selection became empty meanwhile.  DragKnown: *)
(* until the selection changes during a drag, the element dragged is that  *)
(* of the first object, and the items being dragged are the objects.       *)
(***************************************************************************)
Listed == currentDragObjects \in Seq(Items)
SelectionInv == Listed /\ SelectionAgrees

ZonesKnown ==
    /\ dropZones \subseteq Zones
    /\ showingActive \subseteq dropZones \union strays
    /\ ~activatedDropZones => showingActive \subseteq strays
    /\ dragElement = NoItem => ~activatedDropZones
    /\ currentDragObjectVisible <=> dragElement # NoItem

DragKnown ==
    ~regrabbed =>
        /\ \A i \in Items : place[i] # "removed"
        /\ dragElement = NoItem => dragging = {}
        /\ dragElement # NoItem =>
              /\ currentDragObjects # <<>>
              /\ dragElement = Head(currentDragObjects)
              /\ dragging = objects

EndKnown ==
    /\ flying \in Nat /\ interestedInMotionEvents \in BOOLEAN
    /\ dragElement # NoItem => emptied \/ flying > 0 \/ interestedInMotionEvents
    /\ dragElement # NoItem /\ currentDragObjects = <<>> => emptied

DragInv == ZonesKnown /\ EndKnown /\ DragKnown

-----------------------------------------------------------------------------
Once(s) == \A j, l \in DOMAIN s : s[j] = s[l] => j = l
Members(s) == {s[j] : j \in DOMAIN s}

\* removeItem (rico.js:42-60) takes an item out of a list that has it once.
LEMMA RemoveItemOnce ==
    ASSUME NEW S, NEW s \in Seq(S), NEW k \in DOMAIN s, Once(s),
           NEW t, t = removeItem(s, s[k])
    PROVE  t \in Seq(S) /\ Members(t) = Members(s) \ {s[k]} /\ Once(t)
<1> DEFINE before == SubSeq(s, 1, k - 1)
           after == SubSeq(s, k + 1, Len(s))
<1>1. k \in 1..Len(s) /\ DOMAIN s = 1..Len(s) /\ Len(s) \in Nat
  OBVIOUS
<1>2. t = before \o after
  <2>1. {j \in DOMAIN s : s[j] = s[k]} = {k}
    BY DEF Once
  <2>2. (CHOOSE m \in {k} : \A j \in {k} : m <= j) = k
    BY <1>1
  <2>3. QED
    BY <2>1, <2>2 DEF removeItem, RemoveAt
<1>3. /\ before \in Seq(S) /\ Len(before) = k - 1
      /\ \A j \in 1..(k - 1) : before[j] = s[j]
  <2>1. \A j \in 1..(k - 1) : s[j] \in S
    BY <1>1
  <2>2. QED
    BY <1>1, <2>1, SubSeqProperties
<1>4. /\ after \in Seq(S) /\ Len(after) = Len(s) - k
      /\ \A j \in 1..(Len(s) - k) : after[j] = s[k + j]
  <2>1. \A j \in (k + 1)..Len(s) : s[j] \in S
    BY <1>1
  <2>2. /\ after \in Seq(S)
        /\ Len(after) = IF k + 1 <= Len(s) THEN Len(s) - (k + 1) + 1 ELSE 0
        /\ \A j \in 1..(Len(s) - (k + 1) + 1) : after[j] = s[k + 1 + j - 1]
    BY <1>1, <2>1, SubSeqProperties, SMTT(20)
  <2>3. QED
    BY <1>1, <2>2
<1>5. /\ t \in Seq(S) /\ DOMAIN t = 1..(Len(s) - 1)
      /\ \A j \in 1..(Len(s) - 1) : t[j] = IF j < k THEN s[j] ELSE s[j + 1]
  <2> HIDE DEF before, after
  <2>1. t \in Seq(S) /\ Len(t) = Len(s) - 1
    <3>1. t \in Seq(S) /\ Len(t) = Len(before) + Len(after)
      BY <1>2, <1>3, <1>4, ConcatProperties
    <3>2. QED
      BY <1>1, <1>3, <1>4, <3>1
  <2>2. ASSUME NEW j \in 1..(Len(s) - 1)
        PROVE  t[j] = IF j < k THEN s[j] ELSE s[j + 1]
    <3>1. CASE j < k
      BY <1>1, <1>2, <1>3, <1>4, <3>1
    <3>2. CASE ~(j < k)
      <4> DEFINE m == j - (k - 1)
      <4>0. m \in 1..(Len(s) - k) /\ j > k - 1 /\ j \in 1..(Len(before) + Len(after))
        BY <1>1, <1>3, <1>4, <3>2, SMTT(20)
      <4> HIDE DEF m
      <4>1. t[j] = after[m] /\ m \in 1..(Len(s) - k)
        <5>1. t[j] = IF j <= Len(before) THEN before[j] ELSE after[j - Len(before)]
          <6>1. /\ before \in Seq(S) /\ after \in Seq(S)
                /\ j \in 1..(Len(before) + Len(after))
            BY <1>3, <1>4, <4>0
          <6>2. QED
            BY <1>2, <6>1, ConcatProperties
        <5>2. ~(j <= Len(before)) /\ j - Len(before) = m
          BY <1>1, <1>3, <4>0 DEF m
        <5>3. QED
          BY <4>0, <5>1, <5>2
      <4>2. after[m] = s[k + m]
        BY <1>4, <4>1
      <4>3. k + m = j + 1
        BY <1>1 DEF m
      <4>4. QED
        BY <3>2, <4>1, <4>2, <4>3
    <3>3. QED
      BY <3>1, <3>2
  <2>3. QED
    BY <2>1, <2>2
<1>6. {t[j] : j \in DOMAIN t} = {s[j] : j \in DOMAIN s} \ {s[k]}
  <2>1. ASSUME NEW j \in DOMAIN t
        PROVE  t[j] \in {s[l] : l \in DOMAIN s} \ {s[k]}
    BY <1>1, <1>5 DEF Once
  <2>2. ASSUME NEW l \in DOMAIN s, s[l] # s[k]
        PROVE  \E j \in DOMAIN t : t[j] = s[l]
    <3>1. CASE l < k
      BY <1>1, <1>5, <3>1
    <3>2. CASE l > k
      <4>1. l - 1 \in DOMAIN t /\ t[l - 1] = s[l]
        BY <1>1, <1>5, <3>2
      <4>2. QED
        BY <4>1
    <3>3. QED
      BY <1>1, <2>2, <3>1, <3>2
  <2>3. QED
    BY <2>1, <2>2
<1>7. ASSUME NEW j \in DOMAIN t, NEW l \in DOMAIN t, t[j] = t[l]
      PROVE  j = l
  <2> DEFINE old(m) == IF m < k THEN m ELSE m + 1
  <2>1. \A m \in DOMAIN t : old(m) \in DOMAIN s /\ t[m] = s[old(m)]
    BY <1>1, <1>5
  <2>2. old(j) = old(l)
    BY <1>7, <2>1 DEF Once
  <2>3. j \in Int /\ l \in Int
    BY <1>5
  <2>4. QED
    BY <1>1, <2>2, <2>3
<1>8. QED
  BY <1>5, <1>6, <1>7 DEF Members, Once

-----------------------------------------------------------------------------
LEMMA SelectionInitially == DragInit => SelectionInv
BY DEF DragInit, SelectionInv, Listed, SelectionAgrees, objects

LEMMA ToggleAgrees ==
    ASSUME SelectionInv, NEW i \in Items, toggle(i)
    PROVE  SelectionInv'
<1>1. CASE i \in selected
  <2>1. PICK k \in DOMAIN currentDragObjects : currentDragObjects[k] = i
    BY <1>1 DEF SelectionInv, SelectionAgrees, objects
  <2>2. /\ currentDragObjects' \in Seq(Items)
        /\ objects' = objects \ {i}
        /\ \A j, l \in DOMAIN currentDragObjects' :
              currentDragObjects'[j] = currentDragObjects'[l] => j = l
    <3> DEFINE s == currentDragObjects
               t == removeItem(s, s[k])
    <3>1. currentDragObjects' = t
      BY <1>1, <2>1 DEF toggle
    <3>2. s \in Seq(Items) /\ Once(s)
      BY DEF SelectionInv, SelectionAgrees, Listed, Once
    <3>3. t \in Seq(Items) /\ Members(t) = Members(s) \ {s[k]} /\ Once(t)
      BY <3>2, RemoveItemOnce
    <3>4. QED
      BY <2>1, <3>1, <3>3 DEF objects, Members, Once
  <2>3. selected' = selected \ {i}
    BY <1>1 DEF toggle, deselect
  <2>4. lastSelectedDraggable' \in (selected \ {i}) \union {NoItem}
    BY <1>1 DEF toggle, SelectionInv, SelectionAgrees
  <2>5. QED
    BY <2>2, <2>3, <2>4 DEF SelectionInv, SelectionAgrees, Listed
<1>2. CASE i \notin selected
  <2>1. /\ currentDragObjects' = Append(currentDragObjects, i)
        /\ selected' = selected \union {i}
        /\ lastSelectedDraggable' = i
    BY <1>2 DEF toggle, select
  <2>2. /\ currentDragObjects \in Seq(Items) /\ selected = objects
        /\ \A j, l \in DOMAIN currentDragObjects :
              currentDragObjects[j] = currentDragObjects[l] => j = l
    BY DEF SelectionInv, SelectionAgrees, Listed
  <2>3. /\ currentDragObjects' \in Seq(Items)
        /\ DOMAIN currentDragObjects' = 1..(Len(currentDragObjects) + 1)
        /\ \A j \in 1..Len(currentDragObjects) :
              currentDragObjects'[j] = currentDragObjects[j]
        /\ currentDragObjects'[Len(currentDragObjects) + 1] = i
    BY <2>1, <2>2
  <2>4. objects' = objects \union {i}
    BY <2>2, <2>3 DEF objects
  <2>5. \A j \in DOMAIN currentDragObjects : currentDragObjects[j] # i
    BY <1>2, <2>2 DEF objects
  <2>6. \A j, l \in DOMAIN currentDragObjects' :
           currentDragObjects'[j] = currentDragObjects'[l] => j = l
    BY <2>2, <2>3, <2>5
  <2>7. QED
    BY <2>1, <2>2, <2>3, <2>4, <2>6 DEF SelectionInv, SelectionAgrees, Listed
<1>3. QED
  BY <1>1, <1>2

LEMMA SelectionKept == SelectionInv /\ [DragNext]_dndVars => SelectionInv'
<1> SUFFICES ASSUME SelectionInv, [DragNext]_dndVars
             PROVE  SelectionInv'
  OBVIOUS
<1>1. CASE UNCHANGED selectionVars
  BY <1>1 DEF selectionVars, SelectionInv, Listed, SelectionAgrees, objects
<1>2. CASE clearSelection
  BY <1>2 DEF clearSelection, SelectionInv, Listed, SelectionAgrees, objects
<1>3. ASSUME NEW i \in Items, mouseDown(i)
      PROVE  SelectionInv'
  <2>1. CASE toggle(i)
    BY <2>1, ToggleAgrees
  <2>2. CASE selectOnly(i)
    BY <2>2 DEF selectOnly, SelectionInv, Listed, SelectionAgrees, objects
  <2>3. QED
    BY <1>3, <2>1, <2>2 DEF mouseDown
<1>4. CASE mouseUp
  <2>1. clearSelection \/ UNCHANGED selectionVars
    BY <1>4 DEF mouseUp, drop, flyBack
  <2>2. QED
    BY <1>1, <1>2, <2>1
<1>5. QED
  BY <1>1, <1>3, <1>4 DEF DragNext, dndVars, registerDropZone, deregisterDropZone,
     mouseMove, doCancelDragProcessing

\* Whatever is pressed, dragged and dropped, the list of selected items holds each
\* once and agrees with their flags (rico.js:1043-1058, 1228-1240).
THEOREM SelectionSpec == DragSpec => []SelectionAgrees
<1>1. SelectionInv => SelectionAgrees
  BY DEF SelectionInv
<1>2. QED
  BY <1>1, SelectionInitially, SelectionKept, PTL DEF DragSpec

-----------------------------------------------------------------------------
LEMMA HeadOfObjects ==
    ASSUME Listed, currentDragObjects # <<>>
    PROVE  /\ Head(currentDragObjects) \in objects
           /\ Head(currentDragObjects) # NoItem
<1>1. 1 \in DOMAIN currentDragObjects /\ currentDragObjects[1] \in Items
  BY DEF Listed
<1>2. Head(currentDragObjects) = currentDragObjects[1]
  BY DEF Listed
<1>3. QED
  BY <1>1, <1>2, DragAssumption DEF objects

LEMMA DragInitially == DragInit => DragInv
<1> SUFFICES ASSUME DragInit PROVE DragInv
  OBVIOUS
<1>1. ZonesKnown /\ DragKnown
  BY DragAssumption DEF DragInit, ZonesKnown, DragKnown
<1>2. EndKnown
  BY DEF DragInit, EndKnown
<1>3. QED
  BY <1>1, <1>2 DEF DragInv

\* The zones that are lit (rico.js:1104-1108, 1302-1318).
LEMMA ZonesKept ==
    ASSUME Listed, ZonesKnown, [DragNext]_dndVars
    PROVE  ZonesKnown'
<1> USE DEF ZonesKnown
<1>1. CASE UNCHANGED <<dragVars, showingActive, dropZones, strays>>
  BY <1>1 DEF dragVars
<1>2. CASE mouseMove
  <2>1. /\ ~UNCHANGED <<dragVars, zoneVars, place, dragging>>
        => /\ startDrag /\ currentDragObjectVisible' = TRUE
           /\ activateRegisteredDropZones /\ currentDragObjects # <<>>
    BY <1>2 DEF mouseMove
  <2>2. UNCHANGED <<dropZones, strays>>
    BY <1>2 DEF mouseMove, registerVars
  <2>3. CASE UNCHANGED <<dragVars, zoneVars, place, dragging>>
    BY <1>1, <2>2, <2>3 DEF zoneVars
  <2>4. CASE ~UNCHANGED <<dragVars, zoneVars, place, dragging>>
    <3>1. dragElement' # NoItem
      BY <2>1, <2>4, HeadOfObjects DEF startDrag
    <3>2. activatedDropZones' = TRUE /\ showingActive' \subseteq dropZones \union strays
      BY <2>1, <2>4 DEF activateRegisteredDropZones, activate
    <3>3. QED
      BY <2>1, <2>2, <2>4, <3>1, <3>2
  <2>5. QED
    BY <2>3, <2>4
<1>3. CASE mouseUp
  <2>1. CASE drop
    BY <1>3, <2>1 DEF mouseUp, drop, deactivateRegisteredDropZones, deactivate, dragOver,
                      registerVars
  <2>2. CASE ~drop
    BY <1>1, <1>3, <2>2 DEF mouseUp, flyBack, dragVars, zoneVars, registerVars
  <2>3. QED
    BY <2>1, <2>2
<1>4. CASE doCancelDragProcessing
  <2>1. CASE dragOver /\ deactivateRegisteredDropZones
    BY <1>4, <2>1 DEF doCancelDragProcessing, deactivateRegisteredDropZones, deactivate,
                      dragOver, registerVars
  <2>2. CASE UNCHANGED <<dragVars, showingActive, place, dragging, emptied>>
    BY <1>1, <1>4, <2>2 DEF doCancelDragProcessing, registerVars
  <2>3. QED
    BY <1>4, <2>1, <2>2 DEF doCancelDragProcessing
<1>5. ASSUME NEW z \in Zones, registerDropZone(z)
      PROVE  ZonesKnown'
  BY <1>5 DEF registerDropZone, dragVars, zoneVars
<1>6. ASSUME NEW z \in Zones, deregisterDropZone(z)
      PROVE  ZonesKnown'
  BY <1>6 DEF deregisterDropZone, dragVars, zoneVars
<1>7. ASSUME NEW i \in Items, mouseDown(i)
      PROVE  ZonesKnown'
  BY <1>1, <1>7 DEF mouseDown, zoneVars, registerVars
<1>8. CASE UNCHANGED dndVars
  BY <1>1, <1>8 DEF dndVars, zoneVars, registerVars
<1>9. QED
  BY <1>2, <1>3, <1>4, <1>5, <1>6, <1>7, <1>8 DEF DragNext

\* Who can end the drag (rico.js:1043-1137, 1194-1253).
LEMMA EndKept ==
    ASSUME Listed, EndKnown, [DragNext]_dndVars
    PROVE  EndKnown'
<1> USE DEF EndKnown
<1>1. CASE UNCHANGED <<currentDragObjects, dragElement, interestedInMotionEvents, flying, emptied>>
  BY <1>1
<1>2. CASE mouseMove
  <2>1. UNCHANGED <<currentDragObjects, interestedInMotionEvents, flying, emptied>>
    BY <1>2 DEF mouseMove, selectionVars
  <2>2. \/ dragElement' = dragElement
        \/ interestedInMotionEvents /\ currentDragObjects # <<>>
    BY <1>2 DEF mouseMove, dragVars
  <2>3. QED
    BY <2>1, <2>2
<1>3. CASE mouseUp
  <2>1. interestedInMotionEvents' = FALSE
    BY <1>3 DEF mouseUp
  <2>2. CASE drop
    <3>1. dragElement' = NoItem /\ flying' = flying
      BY <2>2 DEF drop, dragOver
    <3>2. QED
      BY <2>1, <3>1
  <2>3. CASE flyBack
    <3>1. /\ flying' = flying + 1
          /\ currentDragObjects' = currentDragObjects /\ dragElement' = dragElement
          /\ emptied' = emptied
      BY <2>3 DEF flyBack, selectionVars, dragVars
    <3>2. flying' \in Nat /\ flying' > 0
      BY <3>1
    <3>3. dragElement # NoItem /\ currentDragObjects = <<>> => emptied'
      BY <3>1
    <3>4. QED
      BY <2>1, <3>1, <3>2, <3>3
  <2>4. CASE dragElement = NoItem
             /\ UNCHANGED <<selectionVars, dragVars, zoneVars, place, flying, dragging, emptied>>
    BY <2>1, <2>4 DEF selectionVars, dragVars
  <2>5. QED
    BY <1>3, <2>2, <2>3, <2>4 DEF mouseUp
<1>4. CASE doCancelDragProcessing
  <2>1. /\ flying' = flying - 1 /\ flying > 0
        /\ UNCHANGED <<currentDragObjects, interestedInMotionEvents>>
    BY <1>4 DEF doCancelDragProcessing, effectEnds, selectionVars
  <2>2. \/ dragElement' = NoItem
        \/ currentDragObjects = <<>> /\ UNCHANGED <<dragElement, emptied>>
    BY <1>4 DEF doCancelDragProcessing, dragOver, dragVars
  <2>3. flying' \in Nat
    BY <2>1
  <2>4. QED
    BY <2>1, <2>2, <2>3
<1>5. ASSUME NEW i \in Items, mouseDown(i)
      PROVE  EndKnown'
  <2>1. /\ interestedInMotionEvents' = (currentDragObjects' # <<>>)
        /\ emptied' = (emptied \/ (dragElement # NoItem /\ currentDragObjects' = <<>>))
        /\ dragElement' = dragElement /\ flying' = flying
    BY <1>5 DEF mouseDown, dragVars
  <2>2. CASE currentDragObjects' = <<>>
    <3>1. interestedInMotionEvents' = FALSE
      BY <2>1, <2>2
    <3>2. CASE dragElement' # NoItem
      <4>1. emptied' = TRUE
        BY <2>1, <2>2, <3>2
      <4>2. QED
        BY <2>1, <3>1, <4>1
    <3>3. CASE dragElement' = NoItem
      BY <2>1, <3>1, <3>3
    <3>4. QED
      BY <3>2, <3>3
  <2>3. CASE currentDragObjects' # <<>>
    <3>1. interestedInMotionEvents' = TRUE
      BY <2>1, <2>3
    <3>2. QED
      BY <2>1, <2>3, <3>1
  <2>4. QED
    BY <2>2, <2>3
<1>6. QED
  BY <1>1, <1>2, <1>3, <1>4, <1>5 DEF DragNext, dndVars, registerDropZone,
     deregisterDropZone, dragVars, selectionVars

\* What is dragged (rico.js:1117-1137, 1186-1191, 1228-1253).
LEMMA DragKept ==
    ASSUME SelectionInv, DragInv, [DragNext]_dndVars
    PROVE  DragKnown'
<1> USE DEF DragKnown
<1>a. Listed /\ DragKnown /\ ZonesKnown
  BY DEF SelectionInv, DragInv
<1>1. CASE UNCHANGED <<currentDragObjects, dragElement, place, dragging, regrabbed>>
  BY <1>a, <1>1 DEF objects
<1>2. CASE mouseMove
  <2>1. UNCHANGED <<currentDragObjects, regrabbed>>
    BY <1>2 DEF mouseMove, selectionVars
  <2>2. CASE UNCHANGED <<dragElement, place, dragging>>
    BY <1>1, <2>1, <2>2
  <2>3. CASE ~UNCHANGED <<dragElement, place, dragging>>
    <3>1. startDrag /\ currentDragObjects # <<>>
      BY <1>2, <2>3 DEF mouseMove, dragVars
    <3>2. /\ dragElement = NoItem
          /\ dragElement' = Head(currentDragObjects)
          /\ dragging' = dragging \union objects
          /\ place' = [place EXCEPT ![dragElement'] = IF @ = "removed" THEN "page" ELSE @]
      BY <1>a, <2>3, <3>1 DEF startDrag, ZonesKnown
    <3>3. dragElement' # NoItem
      BY <1>a, <3>1, <3>2, HeadOfObjects
    <3>4. ASSUME ~regrabbed, NEW i \in Items
          PROVE  place'[i] # "removed"
      <4>1. place[i] # "removed"
        BY <1>a, <3>4
      <4>2. place'[i] = place[i] \/ (i = dragElement' /\ place'[i] = "page")
                                 \/ i \notin DOMAIN place
        BY <3>2
      <4>3. QED
        BY <3>2, <4>1, <4>2
    <3>5. ~regrabbed => dragging' = objects
      BY <1>a, <3>2
    <3>6. QED
      BY <2>1, <3>1, <3>2, <3>3, <3>4, <3>5 DEF objects
  <2>4. QED
    BY <2>2, <2>3
<1>3. CASE mouseUp
  <2>1. UNCHANGED regrabbed
    BY <1>3 DEF mouseUp
  <2>2. CASE drop
    <3>1. dragElement' = NoItem /\ dragging' = dragging \ objects
      BY <2>2 DEF drop, dragOver, ended
    <3>2. ~regrabbed => dragging' = {}
      BY <1>a, <3>1
    <3>3. ASSUME ~regrabbed, NEW i \in Items
          PROVE  place'[i] # "removed"
      <4>1. ~removed(i)
        BY <1>a, <3>3, DragAssumption DEF removed
      <4>2. PICK z \in mousePointIn(pointer) :
               place' = [j \in Items |-> IF removed(j) THEN "removed" ELSE accept(j, z)]
        BY <2>2 DEF drop
      <4>3. place'[i] = accept(i, z)
        BY <4>1, <4>2
      <4>4. z # "removed"
        BY <1>a, <4>2, DragAssumption DEF mousePointIn, ZonesKnown
      <4>5. QED
        BY <1>a, <3>3, <4>3, <4>4 DEF accept
    <3>4. QED
      BY <2>1, <3>1, <3>2, <3>3
  <2>3. CASE ~drop
    BY <1>1, <1>3, <2>3 DEF mouseUp, flyBack, dragVars, selectionVars
  <2>4. QED
    BY <2>2, <2>3
<1>4. CASE doCancelDragProcessing
  <2>1. UNCHANGED <<currentDragObjects, regrabbed>>
    BY <1>4 DEF doCancelDragProcessing, selectionVars
  <2>2. CASE currentDragObjects # <<>>
    <3>1. /\ dragElement' = NoItem /\ dragging' = dragging \ objects
          /\ place' = [i \in Items |-> IF removed(i) THEN "removed" ELSE place[i]]
      BY <1>4, <2>2 DEF doCancelDragProcessing, dragOver, ended
    <3>2. ~regrabbed => dragging' = {}
      BY <1>a, <3>1
    <3>3. ASSUME ~regrabbed, NEW i \in Items
          PROVE  place'[i] # "removed"
      <4>1. ~removed(i)
        BY <1>a, <3>3, DragAssumption DEF removed
      <4>2. QED
        BY <1>a, <3>1, <3>3, <4>1
    <3>4. QED
      BY <2>1, <3>1, <3>2, <3>3
  <2>3. CASE currentDragObjects = <<>>
    BY <1>1, <1>4, <2>1, <2>3 DEF doCancelDragProcessing, dragVars
  <2>4. QED
    BY <2>2, <2>3
<1>5. ASSUME NEW i \in Items, mouseDown(i)
      PROVE  DragKnown'
  <2>1. /\ UNCHANGED <<dragElement, place, dragging>>
        /\ regrabbed' = (regrabbed \/ (dragElement # NoItem
                                         /\ currentDragObjects' # currentDragObjects))
    BY <1>5 DEF mouseDown, dragVars
  <2>2. CASE regrabbed'
    BY <2>2
  <2>3. CASE ~regrabbed' /\ dragElement = NoItem
    BY <1>a, <2>1, <2>3
  <2>4. CASE ~regrabbed' /\ dragElement # NoItem
    BY <1>a, <2>1, <2>4 DEF objects
  <2>5. QED
    BY <2>2, <2>3, <2>4
<1>6. QED
  BY <1>1, <1>2, <1>3, <1>4, <1>5 DEF DragNext, dndVars, registerDropZone,
     deregisterDropZone, dragVars, selectionVars

\* However the mouse is moved and the zones come and go: when no element flies
\* back and no motion of the mouse is awaited, nothing is dragged, unless the
\* selection became empty during the drag; while nothing is dragged, only zones
\* deregistered while they were lit are; and no item is lost as long as the
\* selection does not change during a drag (rico.js:1190-1253, 1302-1318).
THEOREM DragSpecEnds == DragSpec => []DragEnds
<1>1. DragInit => SelectionInv /\ DragInv
  BY SelectionInitially, DragInitially
<1>2. SelectionInv /\ DragInv /\ [DragNext]_dndVars => (SelectionInv /\ DragInv)'
  <2>1. SelectionInv /\ DragInv /\ [DragNext]_dndVars => ZonesKnown' /\ EndKnown'
    BY ZonesKept, EndKept DEF SelectionInv, DragInv
  <2>2. QED
    BY <2>1, SelectionKept, DragKept DEF DragInv
<1>3. SelectionInv /\ DragInv => DragEnds
  <2> SUFFICES ASSUME SelectionInv, DragInv
               PROVE  DragEnds
    OBVIOUS
  <2>1. ZonesRest
    BY DEF DragInv, ZonesKnown, EndKnown, ZonesRest
  <2>2. ItemsStay
    <3>1. currentDragObjects # <<>> => objects # {}
      BY HeadOfObjects DEF SelectionInv
    <3>2. QED
      BY <3>1 DEF DragInv, DragKnown, ItemsStay
  <2>3. QED
    BY <2>1, <2>2 DEF DragEnds
<1>4. QED
  BY <1>1, <1>2, <1>3, PTL DEF DragSpec

-----------------------------------------------------------------------------
(***************************************************************************)
(* Accordion.  What holds at rest has to be said of the way there: the     *)
(* flag is up on no tab but the last expanded, and on that one when no     *)
(* effect is left to put it up; every panel that is displayed but that of  *)
(* the last expanded tab has an effect that will hide it.  If that tab was *)
(* not being closed when it was opened, no effect closes it, and its panel *)
(* has its full height or an effect that will give it that; if it was, an  *)
(* effect will hide its panel, unless one has already.                     *)
(***************************************************************************)
Effects == [e1 : Tabs, e2 : Tabs, steps : Nat]

AccordionTypeOK ==
    /\ lastExpandedTab \in Tabs
    /\ height \in [Tabs -> Nat]
    /\ look \in [Tabs -> {"expanded", "collapsed", "hover"}]
    /\ effects \in Seq(Effects)

TitlesKnown ==
    /\ expanded \subseteq {lastExpandedTab}
    /\ effects = <<>> => expanded = {lastExpandedTab}
    /\ \A t \in Tabs \ {mouse} : look[t] = IF t \in expanded THEN "expanded" ELSE "collapsed"

opening(t) == \E i \in DOMAIN effects : effects[i].e2 = t

PanelsKnown ==
    /\ \A t \in displayed : t \in Tabs /\ (t = lastExpandedTab \/ closing(t))
    /\ lastExpandedTab \notin reopened =>
          /\ ~closing(lastExpandedTab)
          /\ lastExpandedTab \in displayed
          /\ height[lastExpandedTab] = PanelHeight \/ opening(lastExpandedTab)
    /\ lastExpandedTab \in reopened =>
          closing(lastExpandedTab) \/ lastExpandedTab \notin displayed

AccordionInv == AccordionTypeOK /\ TitlesKnown /\ PanelsKnown

LEMMA AccordionInitially == AccordionInit => AccordionInv
<1> SUFFICES ASSUME AccordionInit PROVE AccordionInv
  OBVIOUS
<1>1. AccordionTypeOK
  BY AccordionAssumption DEF AccordionInit, AccordionTypeOK
<1>2. TitlesKnown
  BY DEF AccordionInit, TitlesKnown
<1>3. PanelsKnown
  BY AccordionAssumption DEF AccordionInit, PanelsKnown, closing
<1>4. QED
  BY <1>1, <1>2, <1>3 DEF AccordionInv

\* One step of an effect (rico.js:1742-1768) moves the heights of its two panels.
LEMMA ResizedHeights ==
    ASSUME NEW h \in [Tabs -> Nat], NEW d, NEW e \in Effects, e.steps # 0
    PROVE  /\ resized(h, d, e) \in [Tabs -> Nat]
           /\ \A t \in Tabs \ {e.e1, e.e2} : resized(h, d, e)[t] = h[t]
<1>1. e.e1 \in Tabs /\ e.e2 \in Tabs /\ e.steps \in Nat
  BY DEF Effects
<1>2. \A t \in Tabs : offsetHeight(h, d, t) \in Nat
  BY DEF offsetHeight
<1>3. ASSUME NEW n \in Int, NEW k \in Nat, k # 0
      PROVE  parseIntQuotient(n, k) \in Int
  BY <1>3 DEF parseIntQuotient
<1>4. \A old \in Nat, n \in Int : styled(old, n) \in Nat
  BY DEF styled
<1> PICK m, k \in Nat : m = offsetHeight(h, d, e.e1) /\ k = offsetHeight(h, d, e.e2)
  BY <1>1, <1>2
<1> PICK q \in Int : q = parseIntQuotient(offsetHeight(h, d, e.e1) - 1, e.steps)
  BY <1>1, <1>2, <1>3
<1> PICK u, v \in Int : u = m - q /\ v = k + q
  OBVIOUS
<1> PICK x, y \in Tabs : x = e.e1 /\ y = e.e2
  BY <1>1
<1>5. resized(h, d, e) = h \/ resized(h, d, e) = [h EXCEPT ![x] = styled(@, u), ![y] = styled(@, v)]
  BY Zenon DEF resized
<1>6. resized(h, d, e) \in [Tabs -> Nat]
  <2>1. ASSUME NEW g, g = [h EXCEPT ![x] = styled(@, u), ![y] = styled(@, v)]
        PROVE  g \in [Tabs -> Nat]
    BY <1>4, <2>1
  <2>2. QED
    BY <1>5, <2>1, Zenon
<1>7. \A t \in Tabs \ {x, y} : resized(h, d, e)[t] = h[t]
  BY <1>4, <1>5
<1>8. QED
  BY <1>6, <1>7

\* The first effect is through with a step: it goes to the end of the line, or goes.
LEMMA EffectsTurn ==
    ASSUME NEW s \in Seq(Effects), s # <<>>
    PROVE  /\ Head(s) \in Effects /\ Tail(s) \in Seq(Effects)
           /\ Members(s) = Members(Tail(s)) \union {Head(s)}
<1>1. Head(s) \in Effects /\ Tail(s) \in Seq(Effects) /\ 1 \in DOMAIN s /\ s[1] = Head(s)
  OBVIOUS
<1>2. /\ \A j \in DOMAIN Tail(s) : j + 1 \in DOMAIN s /\ Tail(s)[j] = s[j + 1]
      /\ \A i \in DOMAIN s : i # 1 => i - 1 \in DOMAIN Tail(s) /\ Tail(s)[i - 1] = s[i]
  OBVIOUS
<1> DEFINE t == Tail(s)
<1> HIDE DEF t
<1>3. \A k \in DOMAIN s : s[k] = Head(s) \/ s[k] \in Members(t)
  BY <1>1, <1>2 DEF Members, t
<1>4. Members(t) \subseteq Members(s) /\ Head(s) \in Members(s)
  BY <1>1, <1>2 DEF Members, t
<1>5. Members(s) \subseteq Members(t) \union {Head(s)}
  BY <1>3 DEF Members
<1>6. QED
  BY <1>1, <1>4, <1>5 DEF t

LEMMA OneMore ==
    ASSUME NEW s \in Seq(Effects), NEW e \in Effects
    PROVE  /\ Append(s, e) \in Seq(Effects) /\ Append(s, e) # <<>>
           /\ Members(Append(s, e)) = Members(s) \union {e}
<1> DEFINE u == Append(s, e)
<1>1. /\ u \in Seq(Effects) /\ u # <<>>
      /\ DOMAIN u = DOMAIN s \union {Len(s) + 1} /\ u[Len(s) + 1] = e
      /\ \A j \in DOMAIN s : u[j] = s[j]
  OBVIOUS
<1> HIDE DEF u
<1>2. Members(u) = Members(s) \union {e}
  BY <1>1 DEF Members
<1>3. QED
  BY <1>1, <1>2 DEF u

LEMMA ByMembers ==
    ASSUME NEW t
    PROVE  /\ closing(t) <=> \E e \in Members(effects) : e.e1 = t
           /\ opening(t) <=> \E e \in Members(effects) : e.e2 = t
           /\ closing(t)' <=> \E e \in Members(effects') : e.e1 = t
           /\ opening(t)' <=> \E e \in Members(effects') : e.e2 = t
BY DEF closing, opening, Members

LEMMA StartAnimated ==
    ASSUME AccordionInv, NEW t \in Tabs, showTabAnimated(t)
    PROVE  AccordionInv'
<1> PICK l \in Tabs : l = lastExpandedTab
  BY DEF AccordionInv, AccordionTypeOK
<1> PICK e \in Effects : e = [e1 |-> l, e2 |-> t, steps |-> Steps]
  BY AccordionAssumption DEF Effects
<1> PICK n \in Nat : n = Steps - 1
  BY AccordionAssumption
<1> PICK e0 \in Effects : e0 = [e1 |-> l, e2 |-> t, steps |-> n]
  BY DEF Effects
<1> PICK h \in [Tabs -> Nat] : h = [height EXCEPT ![l] = PanelHeight - 1]
  <2>1. PanelHeight - 1 \in Nat
    BY AccordionAssumption
  <2>2. QED
    BY <2>1 DEF AccordionInv, AccordionTypeOK
<1>1. /\ lastExpandedTab' = t /\ mouse' = mouse
      /\ reopened' = IF closing(t) \/ t = l THEN reopened \union {t} ELSE reopened \ {t}
      /\ displayed' = displayed \union {t} /\ expanded' = expanded \ {l}
      /\ look' = [look EXCEPT ![l] = "collapsed"]
  BY DEF showTabAnimated, startTab
<1>2. e.steps = Steps /\ e.e1 = l /\ e.e2 = t /\ e0.e1 = l /\ e0.e2 = t /\ [e EXCEPT !.steps = Steps - 1] = e0
  OBVIOUS
<1>3. height' = resized(h, displayed \union {t}, e) /\ effects' = Append(effects, e0)
  BY <1>2 DEF showTabAnimated
<1>4. height' \in [Tabs -> Nat]
  BY <1>2, <1>3, ResizedHeights, AccordionAssumption
<1>5. /\ effects' \in Seq(Effects) /\ effects' # <<>>
      /\ Members(effects') = Members(effects) \union {e0}
  BY <1>3, OneMore DEF AccordionInv, AccordionTypeOK
<1>6. AccordionTypeOK'
  BY <1>1, <1>4, <1>5 DEF AccordionInv, AccordionTypeOK
<1>7. TitlesKnown'
  <2>1. expanded' = {}
    BY <1>1 DEF AccordionInv, TitlesKnown
  <2>2. ASSUME NEW k \in Tabs \ {mouse}
        PROVE  look'[k] = "collapsed"
    BY <1>1 DEF AccordionInv, TitlesKnown, AccordionTypeOK
  <2>3. QED
    BY <1>1, <1>5, <2>1, <2>2 DEF TitlesKnown
<1>8. PanelsKnown'
  <2>1. /\ closing(t)' <=> closing(t) \/ t = l
        /\ closing(l)' /\ opening(t)' /\ \A k : closing(k) => closing(k)'
    BY <1>1, <1>2, <1>5, ByMembers
  <2>2. \A k \in displayed' : k \in Tabs /\ (k = t \/ closing(k)')
    BY <1>1, <2>1 DEF AccordionInv, PanelsKnown
  <2>3. t \notin reopened' => ~closing(t)' /\ t \in displayed'
    BY <1>1, <2>1
  <2>4. t \in reopened' => closing(t)'
    <3>1. CASE closing(t) \/ t = l
      BY <2>1, <3>1
    <3>2. CASE ~(closing(t) \/ t = l)
      BY <1>1, <3>2
    <3>3. QED
      BY <3>1, <3>2
  <2>5. QED
    BY <1>1, <2>1, <2>2, <2>3, <2>4 DEF PanelsKnown, closing, opening
<1>9. QED
  BY <1>6, <1>7, <1>8 DEF AccordionInv

LEMMA StartAtOnce ==
    ASSUME AccordionInv, NEW t \in Tabs, showTabAtOnce(t)
    PROVE  AccordionInv'
<1> PICK l \in Tabs : l = lastExpandedTab
  BY DEF AccordionInv, AccordionTypeOK
<1>1. /\ lastExpandedTab' = t /\ mouse' = mouse /\ effects' = effects
      /\ reopened' = IF closing(t) \/ t = l THEN reopened \union {t} ELSE reopened \ {t}
      /\ height' = [height EXCEPT ![l] = 1, ![t] = PanelHeight]
      /\ displayed' = (displayed \union {t}) \ {l} /\ expanded' = (expanded \ {l}) \union {t}
      /\ look' = [[look EXCEPT ![l] = "collapsed"] EXCEPT ![t] = "expanded"]
  BY DEF showTabAtOnce, startTab, showTabDone
<1>2. expanded' = {t}
  BY <1>1 DEF AccordionInv, TitlesKnown
<1>3. AccordionTypeOK'
  <2>1. height' \in [Tabs -> Nat]
    BY <1>1, AccordionAssumption DEF AccordionInv, AccordionTypeOK
  <2>2. look' \in [Tabs -> {"expanded", "collapsed", "hover"}]
    BY <1>1 DEF AccordionInv, AccordionTypeOK
  <2>3. QED
    BY <1>1, <2>1, <2>2 DEF AccordionInv, AccordionTypeOK
<1>4. TitlesKnown'
  <2>1. ASSUME NEW k \in Tabs \ {mouse}
        PROVE  look'[k] = IF k = t THEN "expanded" ELSE "collapsed"
    BY <1>1 DEF AccordionInv, TitlesKnown, AccordionTypeOK
  <2>2. QED
    BY <1>1, <1>2, <2>1 DEF TitlesKnown
<1>5. PanelsKnown'
  <2>1. height'[t] = PanelHeight
    BY <1>1 DEF AccordionInv, AccordionTypeOK
  <2>2. \A k : closing(k)' <=> closing(k)
    BY <1>1 DEF closing
  <2>3. \A k \in displayed' : k \in Tabs /\ (k = t \/ closing(k)')
    BY <1>1, <2>2 DEF AccordionInv, PanelsKnown
  <2>4. t \notin reopened' => ~closing(t)' /\ t \in displayed'
    BY <1>1, <2>2
  <2>5. t \in reopened' => closing(t)' \/ t \notin displayed'
    <3>1. CASE closing(t)
      BY <2>2, <3>1
    <3>2. CASE t = l
      BY <1>1, <3>2
    <3>3. CASE ~(closing(t) \/ t = l)
      BY <1>1, <3>3
    <3>4. QED
      BY <3>1, <3>2, <3>3
  <2>6. QED
    BY <1>1, <2>1, <2>3, <2>4, <2>5 DEF PanelsKnown, closing, opening
<1>6. QED
  BY <1>3, <1>4, <1>5 DEF AccordionInv

LEMMA AmongOneMore ==
    ASSUME NEW M, NEW t, NEW a
    PROVE  /\ (\E x \in M \union {a} : x.e1 = t) <=> (\E x \in M : x.e1 = t) \/ a.e1 = t
           /\ (\E x \in M \union {a} : x.e2 = t) <=> (\E x \in M : x.e2 = t) \/ a.e2 = t
<1>1. ASSUME NEW x \in M \union {a} PROVE x \in M \/ x = a
  OBVIOUS
<1>2. (\E x \in M \union {a} : x.e1 = t) => (\E x \in M : x.e1 = t) \/ a.e1 = t
  BY <1>1, Zenon
<1>3. (\E x \in M \union {a} : x.e2 = t) => (\E x \in M : x.e2 = t) \/ a.e2 = t
  BY <1>1, Zenon
<1>4. /\ (\E x \in M : x.e1 = t) \/ a.e1 = t => \E x \in M \union {a} : x.e1 = t
      /\ (\E x \in M : x.e2 = t) \/ a.e2 = t => \E x \in M \union {a} : x.e2 = t
  OBVIOUS
<1>5. QED
  BY <1>2, <1>3, <1>4, Zenon

LEMMA EffectStep ==
    ASSUME AccordionInv, accordionSize
    PROVE  AccordionInv'
<1>1. /\ effects \in Seq(Effects) /\ effects # <<>> /\ lastExpandedTab \in Tabs
      /\ UNCHANGED <<lastExpandedTab, mouse, reopened>>
      /\ height \in [Tabs -> Nat]
  BY DEF AccordionInv, AccordionTypeOK, accordionSize
<1> PICK e \in Effects : e = Head(effects)
  BY <1>1, EffectsTurn
<1>2. e.e1 \in Tabs /\ e.e2 \in Tabs /\ e.steps \in Nat
  BY DEF Effects
<1>3. CASE /\ e.steps > 0
           /\ height' = resized(height, displayed, e)
           /\ effects' = Append(Tail(effects), [e EXCEPT !.steps = @ - 1])
           /\ UNCHANGED <<displayed, expanded, look>>
  <2> PICK n \in Nat : n = e.steps - 1
    BY <1>2, <1>3
  <2> PICK e0 \in Effects : e0 = [e EXCEPT !.steps = n]
    BY DEF Effects
  <2>1. e0.e1 = e.e1 /\ e0.e2 = e.e2 /\ e.e1 = e0.e1 /\ e.e2 = e0.e2
    BY DEF Effects
  <2>2. effects' = Append(Tail(effects), e0)
    BY <1>3
  <2>3. /\ effects' \in Seq(Effects) /\ effects' # <<>>
        /\ \A t : closing(t)' <=> closing(t)
        /\ \A t : opening(t)' <=> opening(t)
    <3>1. /\ Members(effects) = Members(Tail(effects)) \union {e}
          /\ effects' \in Seq(Effects) /\ effects' # <<>>
          /\ Members(effects') = Members(Tail(effects)) \union {e0}
      BY <1>1, <2>2, EffectsTurn, OneMore
    <3>2. ASSUME NEW t
          PROVE  (closing(t)' <=> closing(t)) /\ (opening(t)' <=> opening(t))
      <4> PICK M : M = Members(Tail(effects))
        OBVIOUS
      <4>1. /\ closing(t) <=> \E x \in M \union {e} : x.e1 = t
            /\ opening(t) <=> \E x \in M \union {e} : x.e2 = t
            /\ closing(t)' <=> \E x \in M \union {e0} : x.e1 = t
            /\ opening(t)' <=> \E x \in M \union {e0} : x.e2 = t
        BY <3>1, ByMembers
      <4>2. PICK c \in BOOLEAN, o \in BOOLEAN :
                /\ c <=> \E x \in M : x.e1 = t
                /\ o <=> \E x \in M : x.e2 = t
        OBVIOUS
      <4>3. /\ closing(t) <=> c \/ e.e1 = t
            /\ opening(t) <=> o \/ e.e2 = t
        BY <4>1, <4>2, AmongOneMore
      <4>4. /\ closing(t)' <=> c \/ e0.e1 = t
            /\ opening(t)' <=> o \/ e0.e2 = t
        BY <4>1, <4>2, AmongOneMore
      <4>6. closing(t)' <=> closing(t)
        BY <2>1, <4>3, <4>4
      <4>7. opening(t)' <=> opening(t)
        BY <2>1, <4>3, <4>4
      <4>8. QED
        BY <4>6, <4>7
    <3>3. QED
      BY <3>1, <3>2
  <2>4. height' \in [Tabs -> Nat] /\ \A t \in Tabs \ {e.e1, e.e2} : height'[t] = height[t]
    <3>1. e.steps # 0
      BY <1>2, <1>3
    <3>2. QED
      BY <1>1, <1>3, <3>1, ResizedHeights
  <2>5. closing(e.e1) /\ opening(e.e2)
    BY <1>1, EffectsTurn, ByMembers
  <2>6. AccordionTypeOK' /\ TitlesKnown'
    BY <1>1, <1>3, <2>3, <2>4 DEF AccordionInv, AccordionTypeOK, TitlesKnown
  <2>7. PanelsKnown'
    <3> PICK l \in Tabs : l = lastExpandedTab
      BY <1>1
    <3>1. /\ \A t \in displayed : t \in Tabs /\ (t = l \/ closing(t))
          /\ l \notin reopened =>
                /\ ~closing(l) /\ l \in displayed
                /\ height[l] = PanelHeight \/ opening(l)
          /\ l \in reopened => closing(l) \/ l \notin displayed
      BY DEF AccordionInv, PanelsKnown
    <3>2. l \notin reopened => height'[l] = PanelHeight \/ opening(l)
      BY <2>4, <2>5, <3>1
    <3>3. /\ \A t \in displayed' : t \in Tabs /\ (t = l \/ closing(t)')
          /\ l \notin reopened' =>
                /\ ~closing(l)' /\ l \in displayed'
                /\ height'[l] = PanelHeight \/ opening(l)'
          /\ l \in reopened' => closing(l)' \/ l \notin displayed'
      BY <1>1, <1>3, <2>3, <3>1, <3>2
    <3>4. QED
      BY <1>1, <3>3 DEF PanelsKnown, closing, opening
  <2>8. QED
    BY <2>6, <2>7 DEF AccordionInv
<1>4. CASE /\ e.steps = 0
           /\ height' = final(height, e)
           /\ showTabDone(e, lastExpandedTab, displayed, expanded, look)
           /\ effects' = Tail(effects)
  <2>1. effects' \in Seq(Effects) /\ Members(effects) = Members(effects') \union {e}
    BY <1>1, <1>4, EffectsTurn
  <2>2. /\ displayed' = displayed \ {e.e1} /\ expanded' = expanded \union {lastExpandedTab}
        /\ look' = [look EXCEPT ![lastExpandedTab] = "expanded"]
        /\ height' = [height EXCEPT ![e.e1] = 1, ![e.e2] = PanelHeight]
    BY <1>4 DEF showTabDone, final
  <2>3. height' \in [Tabs -> Nat] /\ height'[e.e2] = PanelHeight
        /\ \A t \in Tabs \ {e.e1, e.e2} : height'[t] = height[t]
    BY <1>1, <1>2, <2>2, AccordionAssumption
  <2>4. AccordionTypeOK' /\ TitlesKnown'
    <3>1. AccordionTypeOK'
      BY <1>1, <2>1, <2>2, <2>3 DEF AccordionInv, AccordionTypeOK
    <3>2. expanded' = {lastExpandedTab}
      BY <2>2 DEF AccordionInv, TitlesKnown
    <3>3. ASSUME NEW t \in Tabs \ {mouse}
          PROVE  look'[t] = IF t = lastExpandedTab THEN "expanded" ELSE "collapsed"
      BY <1>1, <2>2 DEF AccordionInv, TitlesKnown, AccordionTypeOK
    <3>4. QED
      BY <1>1, <3>1, <3>2, <3>3 DEF TitlesKnown
  <2>5. PanelsKnown'
    <3> PICK l \in Tabs : l = lastExpandedTab
      BY <1>1
    <3>1. /\ \A t \in displayed : t \in Tabs /\ (t = l \/ closing(t))
          /\ l \notin reopened =>
                /\ ~closing(l) /\ l \in displayed
                /\ height[l] = PanelHeight \/ opening(l)
          /\ l \in reopened => closing(l) \/ l \notin displayed
      BY DEF AccordionInv, PanelsKnown
    <3>2. closing(e.e1) /\ displayed' = displayed \ {e.e1}
      BY <2>1, <2>2, ByMembers
    <3>3. /\ \A t : closing(t)' => closing(t)
          /\ \A t : closing(t) => closing(t)' \/ t = e.e1
          /\ \A t : opening(t) => opening(t)' \/ t = e.e2
      BY <2>1, ByMembers
    <3>4. l \notin reopened => height'[l] = PanelHeight \/ opening(l)'
      BY <2>3, <3>1, <3>2, <3>3
    <3>5. /\ \A t \in displayed' : t \in Tabs /\ (t = l \/ closing(t)')
          /\ l \notin reopened' => ~closing(l)' /\ l \in displayed'
          /\ l \in reopened' => closing(l)' \/ l \notin displayed'
      BY <1>1, <3>1, <3>2, <3>3
    <3>6. QED
      BY <1>1, <3>4, <3>5 DEF PanelsKnown, closing, opening
  <2>6. QED
    BY <2>4, <2>5 DEF AccordionInv
<1>5. QED
  BY <1>3, <1>4 DEF accordionSize

LEMMA MouseStep ==
    ASSUME AccordionInv,
           hideThrows \/ (\E t \in Tabs : showTab(t)) \/ unhover \/ (\E t \in Tabs : hover(t)) \/ UNCHANGED accordionVars
    PROVE  AccordionInv'
<1>1. UNCHANGED <<lastExpandedTab, height, displayed, expanded, effects, reopened>>
  BY DEF hover, unhover, showTab, hideThrows, tabVars, accordionVars
<1>2. PanelsKnown'
  BY <1>1 DEF AccordionInv, PanelsKnown, closing, opening
<1>3. look' \in [Tabs -> {"expanded", "collapsed", "hover"}]
  BY DEF AccordionInv, AccordionTypeOK, hover, unhover, showTab, hideThrows, tabVars, accordionVars
<1>4. \A t \in Tabs \ {mouse'} : look'[t] = IF t \in expanded THEN "expanded" ELSE "collapsed"
  <2>1. ASSUME NEW k \in Tabs, hover(k)
        PROVE  \A t \in Tabs \ {mouse'} : look'[t] = IF t \in expanded THEN "expanded" ELSE "collapsed"
    BY <2>1, AccordionAssumption DEF hover, AccordionInv, AccordionTypeOK, TitlesKnown
  <2>2. CASE unhover
    BY <2>2 DEF unhover, AccordionInv, AccordionTypeOK, TitlesKnown
  <2>3. CASE UNCHANGED <<tabVars, mouse>>
    BY <2>3 DEF tabVars, AccordionInv, TitlesKnown
  <2>4. QED
    BY <2>1, <2>2, <2>3 DEF showTab, hideThrows, accordionVars
<1>5. QED
  BY <1>1, <1>2, <1>3, <1>4 DEF AccordionInv, AccordionTypeOK, TitlesKnown

\* When all effects are through, the flags and titles are those of the tab
\* chosen last; its panel alone is displayed, in full, and none is if an effect
\* was still closing that tab when it was opened: however quickly the user has
\* clicked, whatever tabs onHideTab has shown and whenever it has thrown
\* (rico.js:195-232, 286-322, 1711-1768), for any number of tabs, of steps of an
\* effect and of calls.
THEOREM AccordionComesToRest == AccordionSpec => []AccordionSettles
<1>1. AccordionInv /\ [AccordionNext]_accordionVars => AccordionInv'
  BY StartAnimated, StartAtOnce, EffectStep, MouseStep DEF AccordionNext
<1>2. AccordionInv => AccordionSettles
  <2> SUFFICES ASSUME AccordionInv, rests PROVE TitlesAgree /\ PanelsAgree
    BY DEF AccordionSettles
  <2>1. DOMAIN effects = {}
    BY DEF rests
  <2>2. TitlesAgree
    BY DEF rests, AccordionInv, TitlesKnown, TitlesAgree
  <2>3. PanelsAgree
    BY <2>1 DEF AccordionInv, PanelsKnown, PanelsAgree, closing, opening
  <2>4. QED
    BY <2>2, <2>3
<1>3. QED
  BY <1>1, <1>2, AccordionInitially, PTL DEF AccordionSpec

-----------------------------------------------------------------------------
(***************************************************************************)
(* LiveGrid: its rows, requests and view, for tables, pages and buffers of *)
(* any size.                                                               *)
(***************************************************************************)
\* g has the fields of a grid.
Whole(g) ==
    g = [buffer |-> g.buffer, view |-> g.view, total |-> g.total, version |-> g.version,
         processingRequest |-> g.processingRequest, unprocessedRequest |-> g.unprocessedRequest,
         timeoutHandler |-> g.timeoutHandler, timers |-> g.timers]

\* The timer of the request that is processed is the only one, and the one that
\* an answer clears.
Clocked(g, e) ==
    /\ Whole(g)
    /\ g.processingRequest \in 0..Len(e.query)
    /\ g.timers = {g.processingRequest} \ {None}
    /\ g.processingRequest # None => g.timeoutHandler = g.processingRequest

Counted(a) == withState(a, "open") \union withState(a, "thrown") \union a.uncounted

\* Requests are numbered in the order they are sent; those an exception ended
\* stay counted.
Engine(e) ==
    /\ e = [ajax |-> e.ajax, query |-> e.query]
    /\ e.ajax = [state |-> e.ajax.state, active |-> e.ajax.active, uncounted |-> e.ajax.uncounted]
    /\ e.ajax.state \in [Requests -> {"new", "open", "thrown", "complete"}]
    /\ \A i \in e.ajax.uncounted : i \in Requests /\ e.ajax.state[i] = "complete"
    /\ \E Q : e.query \in Seq(Q)
    /\ \A i \in Requests : e.ajax.state[i] = "new" <=> i > Len(e.query)
    /\ e.ajax.active = Cardinality(Counted(e.ajax))

AccountsInv ==
    /\ Clocked(grid, engine) /\ Engine(engine)
    /\ grid.unprocessedRequest # NoWish => grid.processingRequest # None

-----------------------------------------------------------------------------
(***************************************************************************)
(* The engine.                                                             *)
(***************************************************************************)
\* What sendRequest leaves: one request more, which is open or was ended by what
\* open or send threw.
Sent(e, q, f) ==
    /\ f.query = Append(e.query, q)
    /\ \E outcome \in {"open", "thrown"} :
          f = [ajax |-> request(e.ajax, Len(e.query) + 1, outcome), query |-> f.query]

\* f holds the requests of e, and perhaps more.
Extends(e, f) ==
    /\ Engine(f) /\ Len(e.query) <= Len(f.query)
    /\ \A i \in 1..Len(e.query) : f.query[i] = e.query[i]
    /\ \A i \in Requests : e.ajax.state[i] # "new" => f.ajax.state[i] = e.ajax.state[i]

LEMMA FiniteCounted ==
    ASSUME NEW a, NEW C, C = Counted(a), \A i \in a.uncounted : i \in Requests
    PROVE  IsFiniteSet(C) /\ C \subseteq Requests
<1>1. C \subseteq Requests
  BY DEF Counted, withState
<1>2. IsFiniteSet(Requests)
  BY FS_Interval, AjaxAssumption DEF Requests
<1>3. QED
  BY <1>1, <1>2, FS_Subset

LEMMA OneRequestMore ==
    ASSUME NEW e, Engine(e), mayStillSend(e), NEW q, NEW f, Sent(e, q, f)
    PROVE  /\ Engine(f) /\ Len(f.query) = Len(e.query) + 1
           /\ f.query[Len(e.query) + 1] = q
           /\ \A i \in 1..Len(e.query) : f.query[i] = e.query[i]
           /\ \A i \in Requests : i # Len(e.query) + 1 => f.ajax.state[i] = e.ajax.state[i]
<1>1. PICK Q : e.query \in Seq(Q)
  BY DEF Engine
<1>2. PICK n : n = Len(e.query) + 1
  OBVIOUS
<1>3. n \in Requests /\ n - 1 = Len(e.query) /\ Len(e.query) \in Nat
  BY <1>1, <1>2, AjaxAssumption DEF mayStillSend, Requests
<1>4. /\ f.query \in Seq(Q \union {q}) /\ Len(f.query) = n /\ f.query[n] = q
      /\ \A i \in 1..Len(e.query) : f.query[i] = e.query[i]
  <2>1. f.query = Append(e.query, q) /\ e.query \in Seq(Q \union {q}) /\ q \in Q \union {q}
    BY <1>1 DEF Sent
  <2>2. QED
    BY <1>2, <2>1
<1>5. PICK outcome \in {"open", "thrown"} :
        f = [ajax |-> request(e.ajax, n, outcome), query |-> f.query]
  BY <1>2 DEF Sent
<1>6. PICK s : s = [e.ajax.state EXCEPT ![n] = outcome]
  OBVIOUS
<1>7. f.ajax = [state |-> s, active |-> e.ajax.active + 1, uncounted |-> e.ajax.uncounted]
  <2>1. PICK t, c, u : t = e.ajax.state /\ c = e.ajax.active /\ u = e.ajax.uncounted
    OBVIOUS
  <2>2. PICK a : a = [state |-> t, active |-> c, uncounted |-> u]
    OBVIOUS
  <2>3. request(a, n, outcome) = [[a EXCEPT !.state = [t EXCEPT ![n] = outcome]] EXCEPT !.active = c + 1]
    BY <2>2 DEF request
  <2>4. request(a, n, outcome) = [state |-> [t EXCEPT ![n] = outcome], active |-> c + 1, uncounted |-> u]
    BY <2>2, <2>3
  <2>5. a = e.ajax
    BY <2>1, <2>2 DEF Engine
  <2>6. f.ajax = request(a, n, outcome)
    BY <1>5, <2>5
  <2>7. QED
    BY <1>6, <2>1, <2>4, <2>6
<1>8. /\ s \in [Requests -> {"new", "open", "thrown", "complete"}] /\ s[n] = outcome
      /\ \A i \in Requests : i # n => s[i] = e.ajax.state[i]
  BY <1>3, <1>6 DEF Engine
<1>9. Counted(f.ajax) = Counted(e.ajax) \union {n} /\ n \notin Counted(e.ajax)
  <2>1. e.ajax.state[n] = "new"
    BY <1>2, <1>3 DEF Engine
  <2>2. n \notin Counted(e.ajax)
    BY <2>1 DEF Counted, withState, Engine
  <2>3. ASSUME NEW i PROVE i \in Counted(f.ajax) <=> i \in Counted(e.ajax) \/ i = n
    BY <1>3, <1>7, <1>8 DEF Counted, withState, Engine
  <2>4. QED
    BY <2>2, <2>3
<1>10. f.ajax.active = Cardinality(Counted(f.ajax))
  <2>1. PICK C : C = Counted(e.ajax)
    OBVIOUS
  <2>2. IsFiniteSet(C)
    BY <2>1, FiniteCounted DEF Engine
  <2>3. Cardinality(C \union {n}) = Cardinality(C) + 1
    BY <1>9, <2>1, <2>2, FS_AddElement
  <2>4. e.ajax.active = Cardinality(C) /\ f.ajax.active = e.ajax.active + 1
    BY <1>7, <2>1 DEF Engine
  <2>5. QED
    BY <1>9, <2>1, <2>3, <2>4
<1>11. Engine(f)
  <2>1. f = [ajax |-> f.ajax, query |-> f.query]
    BY <1>5
  <2>2. f.ajax = [state |-> f.ajax.state, active |-> f.ajax.active, uncounted |-> f.ajax.uncounted]
    BY <1>7
  <2>3. /\ f.ajax.state \in [Requests -> {"new", "open", "thrown", "complete"}]
        /\ \A i \in Requests : f.ajax.state[i] = "new" <=> i > Len(f.query)
    <3>1. f.ajax.state = s
      BY <1>7
    <3>2. ASSUME NEW i \in Requests PROVE s[i] = "new" <=> i > n
      <4>1. i \in Nat /\ n \in Nat
        BY <1>3 DEF Requests
      <4>2. CASE i = n
        BY <1>8, <4>1, <4>2
      <4>3. CASE i # n
        BY <1>2, <1>8, <4>1, <4>3 DEF Engine
      <4>4. QED
        BY <4>2, <4>3
    <3>3. QED
      BY <1>4, <1>8, <3>1, <3>2
  <2>4. \A i \in f.ajax.uncounted : i \in Requests /\ f.ajax.state[i] = "complete"
    <3>1. \A i \in e.ajax.uncounted : i \in Requests /\ i # n /\ e.ajax.state[i] = "complete"
      <4>1. e.ajax.state[n] = "new"
        BY <1>2, <1>3 DEF Engine
      <4>2. QED
        BY <4>1 DEF Engine
    <3>2. QED
      BY <1>7, <1>8, <3>1
  <2>5. QED
    BY <1>4, <1>10, <2>1, <2>2, <2>3, <2>4 DEF Engine
<1>12. QED
  BY <1>2, <1>4, <1>7, <1>8, <1>11

\* An answer that its handler takes, or throws for.
Taken(e, i, f) == f = [e EXCEPT !.ajax = respondComplete(@, i, FALSE)]
Refused(e, i, f) == f = [e EXCEPT !.ajax = respondComplete(@, i, TRUE)]

LEMMA Answered ==
    ASSUME NEW e, Engine(e), NEW i \in Requests, e.ajax.state[i] = "open",
           NEW f, Taken(e, i, f) \/ Refused(e, i, f)
    PROVE  /\ Engine(f) /\ f.query = e.query /\ f.ajax.state[i] = "complete"
           /\ \A j \in Requests : j # i => f.ajax.state[j] = e.ajax.state[j]
<1>1. PICK s : s = [e.ajax.state EXCEPT ![i] = "complete"]
  OBVIOUS
<1>2. PICK a : /\ f = [ajax |-> a, query |-> e.query]
               /\ a = respondComplete(e.ajax, i, FALSE) \/ a = respondComplete(e.ajax, i, TRUE)
  <2>1. CASE Taken(e, i, f)
    <3>1. PICK a : a = respondComplete(e.ajax, i, FALSE)
      OBVIOUS
    <3>2. f = [ajax |-> a, query |-> e.query]
      BY <2>1, <3>1 DEF Engine, Taken
    <3>3. QED
      BY <3>1, <3>2
  <2>2. CASE Refused(e, i, f)
    <3>1. PICK a : a = respondComplete(e.ajax, i, TRUE)
      OBVIOUS
    <3>2. f = [ajax |-> a, query |-> e.query]
      BY <2>2, <3>1 DEF Engine, Refused
    <3>3. QED
      BY <3>1, <3>2
  <2>3. QED
    BY <2>1, <2>2
<1> DEFINE counts == a.active = e.ajax.active /\ a.uncounted = e.ajax.uncounted \union {i}
           not == a.active = e.ajax.active - 1 /\ a.uncounted = e.ajax.uncounted
<1>3. /\ a = [state |-> s, active |-> a.active, uncounted |-> a.uncounted]
      /\ counts \/ not
  <2>1. CASE a = respondComplete(e.ajax, i, FALSE)
    BY <1>1, <2>1 DEF respondComplete
  <2>2. CASE a = respondComplete(e.ajax, i, TRUE)
    BY <1>1, <2>2 DEF respondComplete
  <2>3. QED
    BY <1>2, <2>1, <2>2
<1>4. f = [ajax |-> a, query |-> e.query]
  BY <1>2
<1>5. /\ s \in [Requests -> {"new", "open", "thrown", "complete"}] /\ s[i] = "complete"
      /\ \A j \in Requests : j # i => s[j] = e.ajax.state[j]
  BY <1>1 DEF Engine
<1>6. a.state = s
  BY <1>3
<1>7. PICK C : C = Counted(e.ajax)
  OBVIOUS
<1>8. IsFiniteSet(C) /\ e.ajax.active = Cardinality(C) /\ i \in C
  <2>1. i \in C
    BY <1>7 DEF Counted, withState
  <2>2. QED
    BY <1>7, <2>1, FiniteCounted DEF Engine
<1>9. a.active = Cardinality(Counted(a))
  <2>1. CASE counts
    <3>1. ASSUME NEW j PROVE j \in Counted(a) <=> j \in C
      BY <1>3, <1>5, <1>6, <1>7, <2>1 DEF Counted, withState
    <3>2. Counted(a) = C
      BY <3>1
    <3>3. QED
      BY <1>3, <1>8, <2>1, <3>2
  <2>2. CASE not
    <3>1. ASSUME NEW j PROVE j \in Counted(a) <=> j \in C /\ j # i
      BY <1>3, <1>5, <1>6, <1>7, <2>2 DEF Counted, withState, Engine
    <3>2. Counted(a) = C \ {i}
      BY <3>1
    <3>3. Cardinality(C \ {i}) = Cardinality(C) - 1
      BY <1>8, FS_RemoveElement
    <3>4. QED
      BY <1>3, <1>8, <2>2, <3>2, <3>3
  <2>3. QED
    BY <1>3, <2>1, <2>2
<1>10. /\ \A j \in Requests : s[j] = "new" <=> j > Len(e.query)
       /\ \A j \in a.uncounted : j \in Requests /\ s[j] = "complete"
  <2>1. i <= Len(e.query)
    <3>1. Len(e.query) \in Nat /\ i \in Nat
      BY DEF Engine, Requests
    <3>2. QED
      BY <3>1 DEF Engine
  <2>2. ASSUME NEW j \in Requests PROVE s[j] = "new" <=> j > Len(e.query)
    <3>1. CASE j = i
      <4>1. Len(e.query) \in Nat /\ i \in Nat
        BY DEF Engine, Requests
      <4>2. QED
        BY <1>5, <2>1, <3>1, <4>1
    <3>2. CASE j # i
      BY <1>5, <3>2 DEF Engine
    <3>3. QED
      BY <3>1, <3>2
  <2>3. ASSUME NEW j \in a.uncounted PROVE j \in Requests /\ s[j] = "complete"
    BY <1>3, <1>5 DEF Engine
  <2>4. QED
    BY <2>2, <2>3
<1>11. Engine(f)
  <2>1. f.ajax = a /\ f.query = e.query
    BY <1>4
  <2>2. f = [ajax |-> f.ajax, query |-> f.query]
    BY <1>4
  <2>3. a = [state |-> a.state, active |-> a.active, uncounted |-> a.uncounted]
    BY <1>3
  <2>4. \E Q : e.query \in Seq(Q)
    BY DEF Engine
  <2>5. QED
    BY <1>5, <1>6, <1>9, <1>10, <2>1, <2>2, <2>3, <2>4 DEF Engine
<1>12. QED
  BY <1>4, <1>5, <1>6, <1>11

-----------------------------------------------------------------------------
(***************************************************************************)
(* fetchBuffer and processQueuedRequest.                                   *)
(***************************************************************************)
\* A request for rows around p is sent, waits, or is not needed.
Asks(g, e, p, h, f) ==
    /\ g.processingRequest = None /\ mayStillSend(e)
    /\ Sent(e, asked(g, p), f)
    /\ h = [g EXCEPT !.processingRequest = Len(f.query),
                     !.timeoutHandler = Len(f.query),
                     !.timers = @ \union {Len(f.query)}]
Waits(g, e, p, h, f) ==
    g.processingRequest # None /\ h = [g EXCEPT !.unprocessedRequest = p] /\ f = e

Fetched(g, e, p, h, f) ==
    \/ satisfied(g, p) /\ h = g /\ f = e
    \/ ~satisfied(g, p) /\ (Asks(g, e, p, h, f) \/ Waits(g, e, p, h, f))

LEMMA FetchCases ==
    ASSUME NEW g, NEW e, NEW p, NEW x \in fetchBuffer(g, e, p)
    PROVE  x = [grid |-> x.grid, engine |-> x.engine] /\ Fetched(g, e, p, x.grid, x.engine)
<1>1. CASE satisfied(g, p)
  <2>1. x = [grid |-> g, engine |-> e]
    BY <1>1 DEF fetchBuffer
  <2>2. QED
    BY <1>1, <2>1 DEF Fetched
<1>2. CASE ~satisfied(g, p) /\ g.processingRequest # None
  <2>1. PICK h : h = [g EXCEPT !.unprocessedRequest = p]
    OBVIOUS
  <2>2. x = [grid |-> h, engine |-> e]
    BY <1>2, <2>1 DEF fetchBuffer
  <2>3. x.grid = h /\ x.engine = e /\ x = [grid |-> x.grid, engine |-> x.engine]
    BY <2>2
  <2>4. Waits(g, e, p, h, e)
    BY <1>2, <2>1 DEF Waits
  <2>5. QED
    BY <1>2, <2>3, <2>4 DEF Fetched
<1>3. CASE ~satisfied(g, p) /\ g.processingRequest = None
  <2>1. mayStillSend(e) /\ x \in fetchNow(g, e, p)
    BY <1>3 DEF fetchBuffer
  <2>2. PICK f \in sent(e, asked(g, p)) :
          x = [grid |-> [g EXCEPT !.processingRequest = Len(f.query),
                                  !.timeoutHandler = Len(f.query),
                                  !.timers = @ \union {Len(f.query)}],
               engine |-> f]
    BY <2>1 DEF fetchNow
  <2>3. PICK q : q = asked(g, p)
    OBVIOUS
  <2>4. Sent(e, q, f)
    <3>1. PICK outcome \in {"open", "thrown"} :
            f = [ajax |-> request(e.ajax, Len(e.query) + 1, outcome), query |-> Append(e.query, q)]
      BY <2>2, <2>3 DEF sent
    <3>2. f.query = Append(e.query, q)
      BY <3>1
    <3>3. QED
      BY <3>1, <3>2 DEF Sent
  <2>5. PICK h : h = [g EXCEPT !.processingRequest = Len(f.query),
                               !.timeoutHandler = Len(f.query),
                               !.timers = @ \union {Len(f.query)}]
    OBVIOUS
  <2>6. x = [grid |-> h, engine |-> f]
    BY <2>2, <2>5
  <2>7. x.grid = h /\ x.engine = f /\ x = [grid |-> x.grid, engine |-> x.engine]
    BY <2>6
  <2>8. Asks(g, e, p, h, f)
    BY <1>3, <2>1, <2>3, <2>4, <2>5 DEF Asks
  <2>9. QED
    BY <1>3, <2>7, <2>8 DEF Fetched
<1>4. QED
  BY <1>1, <1>2, <1>3

LEMMA ExtendsItself ==
    ASSUME NEW e, Engine(e)
    PROVE  Extends(e, e)
<1>1. Len(e.query) \in Nat
  BY DEF Engine
<1>2. QED
  BY <1>1 DEF Extends

\* h has the table, the buffer and the view of g.
SameRows(g, h) ==
    /\ h.buffer = g.buffer /\ h.view = g.view
    /\ h.total = g.total /\ h.version = g.version

\* What a request that is sent changes.
LEMMA AsksWhat ==
    ASSUME NEW g, NEW e, NEW p, NEW h, NEW f, Clocked(g, e), Engine(e), Asks(g, e, p, h, f)
    PROVE  /\ Clocked(h, f) /\ Extends(e, f) /\ SameRows(g, h)
           /\ h.processingRequest = Len(e.query) + 1 /\ h.unprocessedRequest = g.unprocessedRequest
           /\ h.processingRequest # None
<1>1. PICK n : n = Len(f.query)
  OBVIOUS
<1>2. h = [buffer |-> g.buffer, view |-> g.view, total |-> g.total, version |-> g.version,
           processingRequest |-> n, unprocessedRequest |-> g.unprocessedRequest,
           timeoutHandler |-> n, timers |-> g.timers \union {n}]
  <2>1. h = [g EXCEPT !.processingRequest = n, !.timeoutHandler = n, !.timers = @ \union {n}]
    BY <1>1 DEF Asks
  <2>2. QED
    BY <2>1 DEF Clocked, Whole
<1>3. Extends(e, f) /\ n = Len(e.query) + 1
  <2>1. PICK q : q = asked(g, p)
    OBVIOUS
  <2>2. Sent(e, q, f) /\ mayStillSend(e)
    BY <2>1 DEF Asks
  <2>3. /\ Engine(f) /\ n = Len(e.query) + 1
        /\ \A i \in 1..Len(e.query) : f.query[i] = e.query[i]
        /\ \A i \in Requests : i # Len(e.query) + 1 => f.ajax.state[i] = e.ajax.state[i]
    BY <1>1, <2>2, OneRequestMore
  <2>4. Len(e.query) \in Nat
    BY DEF Engine
  <2>5. ASSUME NEW i \in Requests, e.ajax.state[i] # "new" PROVE i # Len(e.query) + 1
    BY <2>4, <2>5 DEF Engine, Requests
  <2>6. QED
    BY <1>1, <2>3, <2>4, <2>5 DEF Extends
<1>4. Len(e.query) \in Nat
  BY DEF Engine
<1>5. n \in 0..Len(f.query) /\ n # None
  BY <1>1, <1>3, <1>4 DEF None
<1>6. g.timers = {}
  BY DEF Asks, Clocked
<1>7. /\ h.processingRequest = n /\ h.timeoutHandler = n /\ h.timers = {n}
      /\ h.unprocessedRequest = g.unprocessedRequest /\ SameRows(g, h) /\ Whole(h)
  BY <1>2, <1>6 DEF SameRows, Whole
<1>8. Clocked(h, f)
  BY <1>5, <1>7 DEF Clocked
<1>9. QED
  BY <1>3, <1>5, <1>7, <1>8

LEMMA WaitsWhat ==
    ASSUME NEW g, NEW e, NEW p, NEW h, Clocked(g, e), h = [g EXCEPT !.unprocessedRequest = p]
    PROVE  /\ Clocked(h, e) /\ SameRows(g, h)
           /\ h.processingRequest = g.processingRequest /\ h.unprocessedRequest = p
<1>1. h = [buffer |-> g.buffer, view |-> g.view, total |-> g.total, version |-> g.version,
           processingRequest |-> g.processingRequest, unprocessedRequest |-> p,
           timeoutHandler |-> g.timeoutHandler, timers |-> g.timers]
  BY DEF Clocked, Whole
<1>2. /\ h.processingRequest = g.processingRequest /\ h.timeoutHandler = g.timeoutHandler
      /\ h.timers = g.timers /\ h.unprocessedRequest = p /\ SameRows(g, h) /\ Whole(h)
  BY <1>1 DEF SameRows, Whole
<1>3. QED
  BY <1>2 DEF Clocked

LEMMA FetchedKeeps ==
    ASSUME NEW g, NEW e, NEW p, NEW h, NEW f, Clocked(g, e), Engine(e), Fetched(g, e, p, h, f)
    PROVE  /\ Clocked(h, f) /\ Extends(e, f) /\ SameRows(g, h)
           /\ g.processingRequest # None => h.processingRequest # None
           /\ h.processingRequest = None => h.unprocessedRequest = g.unprocessedRequest
<1>1. CASE h = g /\ f = e
  BY <1>1, ExtendsItself DEF SameRows
<1>2. CASE Asks(g, e, p, h, f)
  BY <1>2, AsksWhat
<1>3. CASE Waits(g, e, p, h, f)
  BY <1>3, WaitsWhat, ExtendsItself DEF Waits
<1>4. QED
  BY <1>1, <1>2, <1>3 DEF Fetched

\* The last wish of the user is fetched, if there is one, and forgotten.
Resumed(g, e, h, f) ==
    \/ g.unprocessedRequest = NoWish /\ h = g /\ f = e
    \/ \E x : /\ g.unprocessedRequest # NoWish
              /\ Fetched(g, e, g.unprocessedRequest, x, f)
              /\ h = [x EXCEPT !.unprocessedRequest = NoWish]

LEMMA QueuedCases ==
    ASSUME NEW g, NEW e, NEW x \in processQueuedRequest(g, e)
    PROVE  x = [grid |-> x.grid, engine |-> x.engine] /\ Resumed(g, e, x.grid, x.engine)
<1>1. CASE g.unprocessedRequest = NoWish
  <2>1. x = [grid |-> g, engine |-> e]
    BY <1>1 DEF processQueuedRequest
  <2>2. QED
    BY <1>1, <2>1 DEF Resumed
<1>2. CASE g.unprocessedRequest # NoWish
  <2>1. PICK y \in fetchBuffer(g, e, g.unprocessedRequest) : x = [y EXCEPT !.grid.unprocessedRequest = NoWish]
    BY <1>2 DEF processQueuedRequest
  <2>2. y = [grid |-> y.grid, engine |-> y.engine] /\ Fetched(g, e, g.unprocessedRequest, y.grid, y.engine)
    BY FetchCases
  <2>3. PICK u, f : u = y.grid /\ f = y.engine
    OBVIOUS
  <2>4. PICK h : h = [u EXCEPT !.unprocessedRequest = NoWish]
    OBVIOUS
  <2>5. x = [grid |-> h, engine |-> f]
    <3>1. y = [grid |-> u, engine |-> f]
      BY <2>2, <2>3
    <3>2. QED
      BY <2>1, <2>4, <3>1
  <2>6. x.grid = h /\ x.engine = f /\ x = [grid |-> x.grid, engine |-> x.engine]
    BY <2>5
  <2>7. Fetched(g, e, g.unprocessedRequest, u, f)
    BY <2>2, <2>3
  <2>8. Resumed(g, e, h, f)
    BY <1>2, <2>4, <2>7 DEF Resumed
  <2>9. QED
    BY <2>6, <2>8
<1>3. QED
  BY <1>1, <1>2

LEMMA ResumedKeeps ==
    ASSUME NEW g, NEW e, NEW h, NEW f, Clocked(g, e), Engine(e), Resumed(g, e, h, f)
    PROVE  /\ Clocked(h, f) /\ Extends(e, f) /\ SameRows(g, h)
           /\ h.unprocessedRequest = NoWish
<1>1. CASE g.unprocessedRequest = NoWish /\ h = g /\ f = e
  BY <1>1, ExtendsItself DEF SameRows
<1>2. CASE \E x : /\ Fetched(g, e, g.unprocessedRequest, x, f)
                  /\ h = [x EXCEPT !.unprocessedRequest = NoWish]
  <2>1. PICK x : /\ Fetched(g, e, g.unprocessedRequest, x, f)
                 /\ h = [x EXCEPT !.unprocessedRequest = NoWish]
    BY <1>2
  <2>2. Clocked(x, f) /\ Extends(e, f) /\ SameRows(g, x)
    BY <2>1, FetchedKeeps
  <2>3. PICK u : u = NoWish
    OBVIOUS
  <2>4. h = [x EXCEPT !.unprocessedRequest = u]
    BY <2>1, <2>3
  <2>5. Clocked(h, f) /\ SameRows(x, h) /\ h.unprocessedRequest = u
    BY <2>2, <2>4, WaitsWhat
  <2>6. QED
    BY <2>2, <2>3, <2>5 DEF SameRows
<1>3. QED
  BY <1>1, <1>2 DEF Resumed

-----------------------------------------------------------------------------
(***************************************************************************)
(* RequestsAccounted.                                                      *)
(***************************************************************************)
LEMMA OtherFields ==
    ASSUME NEW g, NEW e, Clocked(g, e), NEW v, NEW h,
           h = [g EXCEPT !.view = v] \/ h = [g EXCEPT !.total = v]
    PROVE  /\ Clocked(h, e) /\ h.buffer = g.buffer /\ h.version = g.version
           /\ h.processingRequest = g.processingRequest
           /\ h.unprocessedRequest = g.unprocessedRequest
           /\ h = [g EXCEPT !.view = v] => h.view = v /\ h.total = g.total
           /\ h = [g EXCEPT !.total = v] => h.total = v /\ h.view = g.view
<1>1. CASE h = [g EXCEPT !.view = v]
  <2>1. h = [buffer |-> g.buffer, view |-> v, total |-> g.total, version |-> g.version,
             processingRequest |-> g.processingRequest,
             unprocessedRequest |-> g.unprocessedRequest,
             timeoutHandler |-> g.timeoutHandler, timers |-> g.timers]
    BY <1>1 DEF Clocked, Whole
  <2>2. /\ h.buffer = g.buffer /\ h.version = g.version /\ h.view = v /\ h.total = g.total
        /\ h.processingRequest = g.processingRequest /\ h.timers = g.timers
        /\ h.unprocessedRequest = g.unprocessedRequest
        /\ h.timeoutHandler = g.timeoutHandler /\ Whole(h)
    BY <2>1 DEF Whole
  <2>3. Clocked(h, e)
    BY <2>2 DEF Clocked
  <2>4. h = [g EXCEPT !.total = v] => h.total = v /\ h.view = g.view
    BY DEF Clocked, Whole
  <2>5. QED
    BY <2>2, <2>3, <2>4
<1>2. CASE h = [g EXCEPT !.total = v]
  <2>1. h = [buffer |-> g.buffer, view |-> g.view, total |-> v, version |-> g.version,
             processingRequest |-> g.processingRequest,
             unprocessedRequest |-> g.unprocessedRequest,
             timeoutHandler |-> g.timeoutHandler, timers |-> g.timers]
    BY <1>2 DEF Clocked, Whole
  <2>2. /\ h.buffer = g.buffer /\ h.version = g.version /\ h.view = g.view /\ h.total = v
        /\ h.processingRequest = g.processingRequest /\ h.timers = g.timers
        /\ h.unprocessedRequest = g.unprocessedRequest
        /\ h.timeoutHandler = g.timeoutHandler /\ Whole(h)
    BY <2>1 DEF Whole
  <2>3. Clocked(h, e)
    BY <2>2 DEF Clocked
  <2>4. h = [g EXCEPT !.view = v] => h.view = v /\ h.total = g.total
    BY DEF Clocked, Whole
  <2>5. QED
    BY <2>2, <2>3, <2>4
<1>3. QED
  BY <1>1, <1>2

LEMMA ResetWhat ==
    ASSUME NEW g, NEW e, Clocked(g, e), NEW h, h = resetContents(g)
    PROVE  /\ Clocked(h, e) /\ h.buffer = cleared /\ h.view = clearContents(g.view)
           /\ h.version = g.version + 1 /\ h.total = g.total
           /\ h.processingRequest = g.processingRequest
           /\ h.unprocessedRequest = g.unprocessedRequest
<1>1. PICK b, v, n : b = cleared /\ v = clearContents(g.view) /\ n = g.version + 1
  OBVIOUS
<1>2. h = [g EXCEPT !.buffer = b, !.view = v, !.version = n]
  BY <1>1 DEF resetContents
<1>3. h = [buffer |-> b, view |-> v, total |-> g.total, version |-> n,
           processingRequest |-> g.processingRequest, unprocessedRequest |-> g.unprocessedRequest,
           timeoutHandler |-> g.timeoutHandler, timers |-> g.timers]
  BY <1>2 DEF Clocked, Whole
<1>4. /\ h.buffer = b /\ h.view = v /\ h.version = n /\ h.total = g.total
      /\ h.processingRequest = g.processingRequest /\ h.timers = g.timers
      /\ h.unprocessedRequest = g.unprocessedRequest
      /\ h.timeoutHandler = g.timeoutHandler /\ Whole(h)
  BY <1>3 DEF Whole
<1>5. Clocked(h, e)
  BY <1>4 DEF Clocked
<1>6. QED
  BY <1>1, <1>4, <1>5

\* The request that was processed ends, with rows or without, or there was none.
Applied(g, t, b, v) ==
    [g EXCEPT !.timers = @ \ {t}, !.buffer = b, !.view = v, !.processingRequest = None]
GivenUp(g, t) == [g EXCEPT !.timers = @ \ {t}, !.processingRequest = None]
Unclocked(g, t) == [g EXCEPT !.timers = @ \ {t}]
Without(g, t, h) ==
    \/ h = GivenUp(g, t)
    \/ h = Unclocked(g, t) /\ g.processingRequest = None

\* h is g without a request; its timer, if it had one, was t.
Ended(g, e, h) ==
    /\ Clocked(h, e) /\ h.processingRequest = None
    /\ h.unprocessedRequest = g.unprocessedRequest
    /\ h.total = g.total /\ h.version = g.version

LEMMA EndedWithRows ==
    ASSUME NEW g, NEW e, Clocked(g, e), Engine(e), NEW b, NEW v, NEW t,
           t = g.timeoutHandler \/ t = g.processingRequest, NEW h, h = Applied(g, t, b, v)
    PROVE  Ended(g, e, h) /\ h.buffer = b /\ h.view = v
<1>1. PICK T, n : T = g.timers \ {t} /\ n = None
  OBVIOUS
<1>2. T = {} /\ n \in 0..Len(e.query)
  <2>1. T = {}
    BY <1>1 DEF Clocked
  <2>2. Len(e.query) \in Nat
    BY DEF Engine
  <2>3. QED
    BY <1>1, <2>1, <2>2 DEF None
<1>3. h = [buffer |-> b, view |-> v, total |-> g.total, version |-> g.version,
           processingRequest |-> n, unprocessedRequest |-> g.unprocessedRequest,
           timeoutHandler |-> g.timeoutHandler, timers |-> T]
  BY <1>1 DEF Clocked, Whole, Applied
<1>4. /\ h.buffer = b /\ h.view = v /\ h.total = g.total /\ h.version = g.version
      /\ h.processingRequest = n /\ h.timers = T /\ h.unprocessedRequest = g.unprocessedRequest
      /\ Whole(h)
  BY <1>3 DEF Whole
<1>5. Clocked(h, e)
  BY <1>1, <1>2, <1>4 DEF Clocked
<1>6. QED
  BY <1>1, <1>4, <1>5 DEF Ended

LEMMA EndedWithout ==
    ASSUME NEW g, NEW e, Clocked(g, e), Engine(e), NEW t,
           t = g.timeoutHandler \/ t = g.processingRequest, NEW h,
           Without(g, t, h)
    PROVE  Ended(g, e, h) /\ h.buffer = g.buffer /\ h.view = g.view
<1>1. PICK T, n : T = g.timers \ {t} /\ n = None
  OBVIOUS
<1>2. T = {} /\ n \in 0..Len(e.query)
  <2>1. T = {}
    BY <1>1 DEF Clocked
  <2>2. Len(e.query) \in Nat
    BY DEF Engine
  <2>3. QED
    BY <1>1, <2>1, <2>2 DEF None
<1>3. h = [buffer |-> g.buffer, view |-> g.view, total |-> g.total, version |-> g.version,
           processingRequest |-> n, unprocessedRequest |-> g.unprocessedRequest,
           timeoutHandler |-> g.timeoutHandler, timers |-> T]
  BY <1>1 DEF Clocked, Whole, Without, GivenUp, Unclocked
<1>4. /\ h.buffer = g.buffer /\ h.view = g.view /\ h.total = g.total /\ h.version = g.version
      /\ h.processingRequest = n /\ h.timers = T /\ h.unprocessedRequest = g.unprocessedRequest
      /\ Whole(h)
  BY <1>3 DEF Whole
<1>5. Clocked(h, e)
  BY <1>1, <1>2, <1>4 DEF Clocked
<1>6. QED
  BY <1>1, <1>4, <1>5 DEF Ended

\* What the actions make of the grid and of the engine.
LEMMA ContentWhat ==
    ASSUME NEW p, contentAt(p)
    PROVE  \E h : /\ Fetched(grid, engine, p, h, engine')
                  /\ grid' = [h EXCEPT !.view = scrollTo(h.view, grid.buffer, p)]
<1>1. PICK x \in fetchBuffer(grid, engine, p) :
        leave([x EXCEPT !.grid.view = scrollTo(@, grid.buffer, p)])
  BY DEF contentAt
<1>2. x = [grid |-> x.grid, engine |-> x.engine] /\ Fetched(grid, engine, p, x.grid, x.engine)
  BY FetchCases
<1>3. PICK h, f : h = x.grid /\ f = x.engine
  OBVIOUS
<1>4. PICK v : v = scrollTo(h.view, grid.buffer, p)
  OBVIOUS
<1>5. [x EXCEPT !.grid.view = scrollTo(@, grid.buffer, p)]
        = [grid |-> [h EXCEPT !.view = v], engine |-> f]
  BY <1>2, <1>3, <1>4
<1>6. grid' = [h EXCEPT !.view = v] /\ engine' = f
  BY <1>1, <1>5 DEF leave
<1>7. QED
  BY <1>2, <1>3, <1>4, <1>6

LEMMA AnswerWhat ==
    ASSUME NEW g, NEW i,
           \E x \in processQueuedRequest(g, engine) :
              leave([x EXCEPT !.engine.ajax = respondComplete(@, i, FALSE)])
    PROVE  \E f : /\ Resumed(g, engine, grid', f)
                  /\ Taken(f, i, engine')
<1>1. PICK x \in processQueuedRequest(g, engine) :
        leave([x EXCEPT !.engine.ajax = respondComplete(@, i, FALSE)])
  OBVIOUS
<1>2. x = [grid |-> x.grid, engine |-> x.engine] /\ Resumed(g, engine, x.grid, x.engine)
  BY QueuedCases
<1>3. PICK h, f : h = x.grid /\ f = x.engine
  OBVIOUS
<1> DEFINE answered(a) == respondComplete(a, i, FALSE)
<1>4. leave([x EXCEPT !.engine.ajax = answered(@)])
  BY <1>1
<1> HIDE DEF answered
<1>5. [x EXCEPT !.engine.ajax = answered(@)]
        = [grid |-> h, engine |-> [f EXCEPT !.ajax = answered(@)]]
  BY <1>2, <1>3
<1>6. grid' = h /\ engine' = [f EXCEPT !.ajax = answered(@)]
  BY <1>4, <1>5 DEF leave
<1>7. Resumed(g, engine, grid', f) /\ engine' = [f EXCEPT !.ajax = answered(@)]
  BY <1>2, <1>3, <1>6
<1>8. QED
  BY <1>7 DEF answered, Taken

\* Request i is answered after the next one was sent.
LEMMA AnsweredThen ==
    ASSUME NEW e, Engine(e), NEW i \in Requests, e.ajax.state[i] = "open",
           NEW f, Extends(e, f), NEW k, Taken(f, i, k)
    PROVE  /\ Engine(k) /\ k.query = f.query /\ k.ajax.state[i] = "complete"
           /\ \A j \in Requests : j # i => k.ajax.state[j] = f.ajax.state[j]
<1>1. Engine(f) /\ f.ajax.state[i] = "open"
  BY DEF Extends
<1>2. QED
  BY <1>1, Answered

LEMMA FetchAccounts ==
    ASSUME NEW g, NEW e, NEW p, NEW h, NEW f, Clocked(g, e), Engine(e), Fetched(g, e, p, h, f),
           g.unprocessedRequest # NoWish => g.processingRequest # None
    PROVE  /\ Clocked(h, f) /\ Engine(f)
           /\ h.unprocessedRequest # NoWish => h.processingRequest # None
<1>1. /\ Clocked(h, f) /\ Extends(e, f)
      /\ g.processingRequest # None => h.processingRequest # None
      /\ h.processingRequest = None => h.unprocessedRequest = g.unprocessedRequest
  BY FetchedKeeps
<1>2. QED
  BY <1>1 DEF Extends

LEMMA ContentAccounts ==
    ASSUME AccountsInv, NEW p, contentAt(p)
    PROVE  AccountsInv'
<1>1. PICK h : /\ Fetched(grid, engine, p, h, engine')
               /\ grid' = [h EXCEPT !.view = scrollTo(h.view, grid.buffer, p)]
  BY ContentWhat
<1>2. PICK f, v : f = engine' /\ v = scrollTo(h.view, grid.buffer, p)
  OBVIOUS
<1>3. /\ Clocked(h, f) /\ Engine(f)
      /\ h.unprocessedRequest # NoWish => h.processingRequest # None
  BY <1>1, <1>2, FetchAccounts DEF AccountsInv
<1>4. PICK k : k = [h EXCEPT !.view = v]
  OBVIOUS
<1>5. /\ Clocked(k, f) /\ k.processingRequest = h.processingRequest
      /\ k.unprocessedRequest = h.unprocessedRequest
  BY <1>3, <1>4, OtherFields
<1>6. grid' = k
  BY <1>1, <1>2, <1>4
<1>7. QED
  BY <1>2, <1>3, <1>5, <1>6 DEF AccountsInv

LEMMA UserAccounts ==
    ASSUME AccountsInv, sortHandler \/ setTotalRows \/ requestContentRefresh
    PROVE  AccountsInv'
<1>1. PICK e, f, k : e = engine /\ f = engine' /\ k = grid'
  OBVIOUS
<1>2. PICK g : g = resetContents(grid)
  OBVIOUS
<1>3. /\ Clocked(g, e) /\ g.processingRequest = grid.processingRequest
      /\ g.unprocessedRequest = grid.unprocessedRequest
  BY <1>1, <1>2, ResetWhat DEF AccountsInv
<1>4. CASE sortHandler
  <2>1. PICK x \in fetchBuffer(g, e, 0) : leave(x)
    BY <1>1, <1>2, <1>4 DEF sortHandler
  <2>2. Fetched(g, e, 0, x.grid, x.engine)
    BY FetchCases
  <2>3. Fetched(g, e, 0, k, f)
    BY <1>1, <2>1, <2>2 DEF leave
  <2>4. g.unprocessedRequest # NoWish => g.processingRequest # None
    BY <1>3 DEF AccountsInv
  <2>5. Engine(e)
    BY <1>1 DEF AccountsInv
  <2>6. /\ Clocked(k, f) /\ Engine(f)
        /\ k.unprocessedRequest # NoWish => k.processingRequest # None
    BY <1>3, <2>3, <2>4, <2>5, FetchAccounts
  <2>7. QED
    BY <1>1, <2>6 DEF AccountsInv
<1>5. CASE setTotalRows
  <2>1. PICK n : grid' = [g EXCEPT !.total = n]
    BY <1>2, <1>5 DEF setTotalRows
  <2>2. engine' = engine
    BY <1>5 DEF setTotalRows
  <2>3. k = [g EXCEPT !.total = n]
    BY <1>1, <2>1
  <2>4. /\ Clocked(k, e) /\ k.processingRequest = g.processingRequest
        /\ k.unprocessedRequest = g.unprocessedRequest
    BY <1>3, <2>3, OtherFields
  <2>5. QED
    BY <1>1, <1>3, <2>2, <2>4 DEF AccountsInv
<1>6. CASE requestContentRefresh
  <2>1. PICK o : o = grid
    OBVIOUS
  <2>2. PICK x \in fetchBuffer(o, e, 0) : leave(x)
    BY <1>1, <1>6, <2>1 DEF requestContentRefresh
  <2>3. Fetched(o, e, 0, x.grid, x.engine)
    BY FetchCases
  <2>4. Fetched(o, e, 0, k, f)
    BY <1>1, <2>2, <2>3 DEF leave
  <2>5. /\ Clocked(o, e) /\ Engine(e)
        /\ o.unprocessedRequest # NoWish => o.processingRequest # None
    BY <1>1, <2>1 DEF AccountsInv
  <2>6. /\ Clocked(k, f) /\ Engine(f)
        /\ k.unprocessedRequest # NoWish => k.processingRequest # None
    BY <2>4, <2>5, FetchAccounts
  <2>7. QED
    BY <1>1, <2>6 DEF AccountsInv
<1>7. QED
  BY <1>4, <1>5, <1>6

\* Where the rows are put and what is displayed then.
UpdatedBy(i) ==
    update(grid.buffer, rowsOf(engine.query[i]), engine.query[grid.processingRequest].start)

LEMMA UpdateWhat ==
    ASSUME Clocked(grid, engine), Engine(engine), NEW i, NEW g, g = ajaxUpdate(grid, i)
    PROVE  /\ Ended(grid, engine, g)
           /\ \/ grid.processingRequest = None /\ g.buffer = grid.buffer /\ g.view = grid.view
              \/ /\ grid.processingRequest # None /\ g.buffer = UpdatedBy(i)
                 /\ g.view = bufferChanged(grid.view, UpdatedBy(i))
<1>1. PICK b, v : b = UpdatedBy(i) /\ v = bufferChanged(grid.view, UpdatedBy(i))
  OBVIOUS
<1>2. PICK o, e : o = grid /\ e = engine
  OBVIOUS
<1>3. PICK t : t = o.timeoutHandler
  OBVIOUS
<1>4. Clocked(o, e) /\ Engine(e)
  BY <1>2
<1>5. CASE o.processingRequest = None
  <2>1. Without(o, t, g)
    BY <1>2, <1>3, <1>5 DEF ajaxUpdate, Unclocked, Without
  <2>2. Ended(o, e, g) /\ g.buffer = o.buffer /\ g.view = o.view
    BY <1>3, <1>4, <1>5, <2>1, EndedWithout
  <2>3. QED
    BY <1>2, <1>5, <2>2
<1>6. CASE o.processingRequest # None
  <2>1. ajaxUpdate(o, i) = [o EXCEPT !.timers = @ \ {t}, !.buffer = b,
                                     !.view = bufferChanged(@, b), !.processingRequest = None]
    BY <1>1, <1>2, <1>3, <1>6 DEF ajaxUpdate, UpdatedBy
  <2>2. bufferChanged(o.view, b) = v
    BY <1>1, <1>2
  <2>3. g = Applied(o, t, b, v)
    BY <1>2, <2>1, <2>2 DEF Applied
  <2>4. Ended(o, e, g) /\ g.buffer = b /\ g.view = v
    BY <1>3, <1>4, <2>3, EndedWithRows
  <2>5. QED
    BY <1>1, <1>2, <1>6, <2>4
<1>7. QED
  BY <1>5, <1>6

LEMMA AnswerAccounts ==
    ASSUME AccountsInv, NEW i \in Requests, gridAnswer(i) \/ badAnswer(i)
    PROVE  AccountsInv'
<1>1. PICK o, e, k : o = grid /\ e = engine /\ k = engine'
  OBVIOUS
<1>2. Clocked(o, e) /\ Engine(e) /\ e.ajax.state[i] = "open"
  BY <1>1 DEF AccountsInv, gridAnswer, badAnswer, openRequest
<1>3. PICK g, h, f : Clocked(g, e) /\ Resumed(g, e, h, f) /\ h = grid' /\ Taken(f, i, k)
  <2>1. CASE gridAnswer(i)
    <3>1. PICK g : g = ajaxUpdate(grid, i)
      OBVIOUS
    <3>2. \E x \in processQueuedRequest(g, engine) :
             leave([x EXCEPT !.engine.ajax = respondComplete(@, i, FALSE)])
      BY <2>1, <3>1 DEF gridAnswer
    <3>3. Clocked(g, engine)
      BY <3>1, UpdateWhat DEF AccountsInv, Ended
    <3>4. QED
      BY <1>1, <3>2, <3>3, AnswerWhat
  <2>2. CASE badAnswer(i)
    <3>1. PICK t : t = o.timeoutHandler
      OBVIOUS
    <3>2. PICK g : g = GivenUp(o, t)
      OBVIOUS
    <3>3. \E x \in processQueuedRequest(g, engine) :
             leave([x EXCEPT !.engine.ajax = respondComplete(@, i, FALSE)])
      BY <1>1, <2>2, <3>1, <3>2 DEF badAnswer, GivenUp
    <3>4. Without(o, t, g)
      BY <3>2 DEF Without
    <3>5. Ended(o, e, g)
      BY <1>2, <3>1, <3>4, EndedWithout
    <3>6. QED
      BY <1>1, <3>3, <3>5, AnswerWhat DEF Ended
  <2>3. QED
    BY <2>1, <2>2
<1>4. Clocked(h, f) /\ Extends(e, f) /\ h.unprocessedRequest = NoWish
  BY <1>2, <1>3, ResumedKeeps
<1>5. Engine(k) /\ k.query = f.query
  BY <1>2, <1>3, <1>4, AnsweredThen
<1>6. Clocked(h, k)
  BY <1>4, <1>5 DEF Clocked
<1>7. QED
  BY <1>1, <1>3, <1>4, <1>5, <1>6 DEF AccountsInv

LEMMA FailureWhat ==
    ASSUME NEW i, failure(i)
    PROVE  Taken(engine, i, engine') \/ Refused(engine, i, engine')
<1>1. PICK throws \in BOOLEAN : engine' = [engine EXCEPT !.ajax = respondComplete(@, i, throws)]
  BY DEF failure
<1>2. PICK e, k : e = engine /\ k = engine'
  OBVIOUS
<1>3. CASE throws
  <2>1. respondComplete(e.ajax, i, throws) = respondComplete(e.ajax, i, TRUE)
    BY <1>3 DEF respondComplete
  <2>2. QED
    BY <1>1, <1>2, <2>1 DEF Refused
<1>4. CASE ~throws
  <2>1. respondComplete(e.ajax, i, throws) = respondComplete(e.ajax, i, FALSE)
    BY <1>4 DEF respondComplete
  <2>2. QED
    BY <1>1, <1>2, <2>1 DEF Taken
<1>5. QED
  BY <1>3, <1>4

LEMMA FailureAccounts ==
    ASSUME AccountsInv, NEW i \in Requests, failure(i)
    PROVE  AccountsInv'
<1>1. PICK o, e, k : o = grid /\ e = engine /\ k = engine'
  OBVIOUS
<1>2. Clocked(o, e) /\ Engine(e) /\ e.ajax.state[i] = "open"
  BY <1>1 DEF AccountsInv, failure, openRequest
<1>3. Taken(e, i, k) \/ Refused(e, i, k)
  BY <1>1, FailureWhat
<1>4. Engine(k) /\ k.query = e.query
  BY <1>2, <1>3, Answered
<1>5. Clocked(o, k)
  BY <1>2, <1>4 DEF Clocked
<1>6. grid' = o
  BY <1>1 DEF failure
<1>7. QED
  BY <1>1, <1>4, <1>5, <1>6 DEF AccountsInv

LEMMA TimeoutAccounts ==
    ASSUME AccountsInv, NEW i \in Requests, handleTimedOut(i)
    PROVE  AccountsInv'
<1>1. PICK o, e, h, f : o = grid /\ e = engine /\ h = grid' /\ f = engine'
  OBVIOUS
<1>2. Clocked(o, e) /\ Engine(e) /\ i \in o.timers
  BY <1>1 DEF AccountsInv, handleTimedOut
<1>3. i = o.processingRequest
  BY <1>2 DEF Clocked
<1>4. PICK g : g = GivenUp(o, i)
  OBVIOUS
<1>5. Ended(o, e, g)
  <2>1. Without(o, i, g)
    BY <1>4 DEF Without
  <2>2. QED
    BY <1>2, <1>3, <2>1, EndedWithout
<1>6. PICK x \in processQueuedRequest(g, e) : leave(x)
  BY <1>1, <1>4 DEF handleTimedOut, GivenUp
<1>7. Resumed(g, e, x.grid, x.engine)
  BY QueuedCases
<1>8. Resumed(g, e, h, f)
  BY <1>1, <1>6, <1>7 DEF leave
<1>9. Clocked(h, f) /\ Extends(e, f) /\ h.unprocessedRequest = NoWish
  BY <1>2, <1>5, <1>8, ResumedKeeps DEF Ended
<1>10. QED
  BY <1>1, <1>9 DEF AccountsInv, Extends

NewEngine == [ajax |-> noAjax, query |-> <<>>]

LEMMA NewEngineWhat ==
    ASSUME NEW e, e = NewEngine
    PROVE  Engine(e) /\ Len(e.query) = 0
<1>1. e = [ajax |-> noAjax, query |-> <<>>]
  BY DEF NewEngine
<1>2. PICK s : s = [i \in Requests |-> "new"]
  OBVIOUS
<1>3. e.ajax = [state |-> s, active |-> 0, uncounted |-> {}]
  BY <1>1, <1>2 DEF noAjax
<1>4. e.query = <<>> /\ e.query \in Seq({}) /\ Len(e.query) = 0
  BY <1>1
<1>5. /\ s \in [Requests -> {"new", "open", "thrown", "complete"}]
      /\ \A i \in Requests : s[i] = "new" /\ i > 0
  BY <1>2 DEF Requests
<1>6. Counted(e.ajax) = {}
  BY <1>3, <1>5 DEF Counted, withState
<1>7. Cardinality(Counted(e.ajax)) = 0
  BY <1>6, FS_EmptySet
<1>8. e = [ajax |-> e.ajax, query |-> e.query]
  BY <1>1
<1>9. e.ajax.state = s /\ e.ajax.active = 0 /\ e.ajax.uncounted = {}
  BY <1>3
<1>10. e.ajax = [state |-> e.ajax.state, active |-> e.ajax.active,
                 uncounted |-> e.ajax.uncounted]
  BY <1>3
<1>11. QED
  BY <1>4, <1>5, <1>7, <1>8, <1>9, <1>10 DEF Engine

LEMMA NewGridWhat ==
    ASSUME NEW n, NEW p, NEW g, g = newGrid(n, p), NEW e, e = NewEngine
    PROVE  /\ Clocked(g, e) /\ g.buffer = cleared /\ g.view = scrollTo(emptyView, cleared, p)
           /\ g.total = n /\ g.version = 0
           /\ g.processingRequest = None /\ g.unprocessedRequest = NoWish
<1>1. PICK b, v, w : b = cleared /\ v = scrollTo(emptyView, cleared, p) /\ w = NoWish
  OBVIOUS
<1>2. g = [buffer |-> b, view |-> v, total |-> n, version |-> 0, processingRequest |-> None,
           unprocessedRequest |-> w, timeoutHandler |-> None, timers |-> {}]
  BY <1>1 DEF newGrid
<1>3. /\ Whole(g) /\ g.processingRequest = None /\ g.timers = {} /\ g.buffer = b
      /\ g.view = v /\ g.total = n /\ g.version = 0 /\ g.unprocessedRequest = w
  BY <1>2 DEF Whole
<1>4. Clocked(g, e)
  BY <1>3, NewEngineWhat DEF Clocked, None
<1>5. QED
  BY <1>1, <1>3, <1>4

\* The constructor fetches the rows around p, or none.
Begun(n, p, g, e) ==
    /\ n \in Totals /\ p \in 0..scrollMax(n) /\ g = newGrid(n, p) /\ e = NewEngine
    /\ \/ grid = g /\ engine = e
       \/ Fetched(g, e, p, grid, engine)
    /\ scrollTop = p

LEMMA InitWhat ==
    ASSUME Init
    PROVE  \E n, p, g, e : Begun(n, p, g, e)
<1>1. PICK n \in Totals : \E p \in 0..scrollMax(n) :
        LET g == newGrid(n, p)
            e == [ajax |-> noAjax, query |-> <<>>]
        IN  /\ \/ p = 0 /\ grid = g /\ engine = e
               \/ \E x \in fetchBuffer(g, e, p) : grid = x.grid /\ engine = x.engine
            /\ scrollTop = p /\ scrolled = (p # 0)
  BY DEF Init
<1>7. PICK p \in 0..scrollMax(n) :
        LET g == newGrid(n, p)
            e == [ajax |-> noAjax, query |-> <<>>]
        IN  /\ \/ p = 0 /\ grid = g /\ engine = e
               \/ \E x \in fetchBuffer(g, e, p) : grid = x.grid /\ engine = x.engine
            /\ scrollTop = p /\ scrolled = (p # 0)
  BY <1>1
<1>2. PICK g, e : g = newGrid(n, p) /\ e = NewEngine
  OBVIOUS
<1>3. /\ \/ grid = g /\ engine = e
         \/ \E x \in fetchBuffer(g, e, p) : grid = x.grid /\ engine = x.engine
      /\ scrollTop = p
  BY <1>7, <1>2 DEF NewEngine
<1>4. ASSUME NEW x \in fetchBuffer(g, e, p), grid = x.grid, engine = x.engine
      PROVE  Fetched(g, e, p, grid, engine)
  BY <1>4, FetchCases
<1>5. Begun(n, p, g, e)
  BY <1>7, <1>2, <1>3, <1>4 DEF Begun
<1>6. QED
  BY <1>5

LEMMA InitAccounts == Init => AccountsInv
<1> SUFFICES ASSUME Init PROVE AccountsInv
  OBVIOUS
<1>1. PICK n, p, g, e : Begun(n, p, g, e)
  BY InitWhat
<1>2. /\ Clocked(g, e) /\ Engine(e) /\ g.unprocessedRequest = NoWish
  BY <1>1, NewGridWhat, NewEngineWhat DEF Begun
<1>3. CASE grid = g /\ engine = e
  BY <1>2, <1>3 DEF AccountsInv
<1>4. CASE Fetched(g, e, p, grid, engine)
  <2>1. PICK h, f : h = grid /\ f = engine
    OBVIOUS
  <2>2. /\ Clocked(h, f) /\ Engine(f)
        /\ h.unprocessedRequest # NoWish => h.processingRequest # None
    BY <1>2, <1>4, <2>1, FetchAccounts
  <2>3. QED
    BY <2>1, <2>2 DEF AccountsInv
<1>5. QED
  BY <1>1, <1>3, <1>4 DEF Begun

LEMMA NextAccounts == AccountsInv /\ [Next]_vars => AccountsInv'
<1> SUFFICES ASSUME AccountsInv, [Next]_vars PROVE AccountsInv'
  OBVIOUS
<1>1. CASE UNCHANGED vars
  BY <1>1 DEF vars, AccountsInv
<1>2. CASE userScrolls
  BY <1>2 DEF userScrolls, AccountsInv
<1>3. CASE handleScroll
  <2>1. PICK p : p = scrollTop
    OBVIOUS
  <2>2. contentAt(p)
    BY <1>3, <2>1 DEF handleScroll
  <2>3. QED
    BY <2>2, ContentAccounts
<1>4. CASE wheel
  <2>1. PICK p : contentAt(p)
    BY <1>4 DEF wheel
  <2>2. QED
    BY <2>1, ContentAccounts
<1>5. CASE sortHandler \/ setTotalRows \/ requestContentRefresh
  BY <1>5, UserAccounts
<1>6. ASSUME NEW i \in Requests, gridAnswer(i) \/ badAnswer(i) PROVE AccountsInv'
  BY <1>6, AnswerAccounts
<1>7. ASSUME NEW i \in Requests, failure(i) PROVE AccountsInv'
  BY <1>7, FailureAccounts
<1>8. ASSUME NEW i \in Requests, handleTimedOut(i) PROVE AccountsInv'
  BY <1>8, TimeoutAccounts
<1>9. QED
  BY <1>1, <1>2, <1>3, <1>4, <1>5, <1>6, <1>7, <1>8 DEF Next

\* A request is processed exactly as long as the timer runs that would end it,
\* and Prototype counts the requests without an answer and those that an
\* exception ended (rico.js:2350-2387, 2399-2408, prototype.js:629-659,
\* 708-735).
THEOREM GridAccounts == Spec => []RequestsAccounted
<1>1. AccountsInv => RequestsAccounted
  <2> SUFFICES ASSUME AccountsInv PROVE RequestsAccounted
    OBVIOUS
  <2>1. TimerGuards
    BY DEF AccountsInv, Clocked, TimerGuards
  <2>2. ActiveRequestCount
    BY DEF AccountsInv, Engine, Counted, ActiveRequestCount
  <2>3. QED
    BY <2>1, <2>2 DEF RequestsAccounted
<1>2. QED
  BY InitAccounts, NextAccounts, <1>1, PTL DEF Spec

-----------------------------------------------------------------------------
(***************************************************************************)
(* The buffer: runs of rows.                                               *)
(***************************************************************************)
Rows(v) == [version : {v}, pos : Int]

\* r are the rows of version v from position s on.
Run(r, v, s) ==
    /\ r \in Seq(Rows(v)) /\ s \in Int
    /\ \A k \in 1..Len(r) : r[k] = [version |-> v, pos |-> s + k - 1]

LEMMA RunJoined ==
    ASSUME NEW r, NEW n, NEW v, NEW s, Run(r, v, s), Run(n, v, s + Len(r))
    PROVE  Run(r \o n, v, s) /\ Len(r \o n) = Len(r) + Len(n)
<1>1. /\ r \in Seq(Rows(v)) /\ n \in Seq(Rows(v))
      /\ Len(r) \in Nat /\ Len(n) \in Nat /\ s \in Int
  BY DEF Run
<1>2. PICK j : j = r \o n
  OBVIOUS
<1>3. /\ j \in Seq(Rows(v)) /\ Len(j) = Len(r) + Len(n)
      /\ \A k \in 1..Len(j) : j[k] = IF k <= Len(r) THEN r[k] ELSE n[k - Len(r)]
  BY <1>1, <1>2
<1>4. ASSUME NEW k \in 1..Len(j) PROVE j[k] = [version |-> v, pos |-> s + k - 1]
  <2>1. CASE k <= Len(r)
    <3>1. k \in 1..Len(r) /\ j[k] = r[k]
      BY <1>1, <1>3, <2>1
    <3>2. QED
      BY <3>1 DEF Run
  <2>2. CASE k > Len(r)
    <3>1. k - Len(r) \in 1..Len(n)
      BY <1>1, <1>3, <2>2
    <3>2. n[k - Len(r)] = [version |-> v, pos |-> (s + Len(r)) + (k - Len(r)) - 1]
      BY <3>1 DEF Run
    <3>3. (s + Len(r)) + (k - Len(r)) - 1 = s + k - 1
      BY <1>1
    <3>4. QED
      BY <1>1, <1>3, <2>2, <3>2, <3>3
  <2>3. QED
    BY <1>1, <1>3, <2>1, <2>2
<1>5. QED
  BY <1>1, <1>2, <1>3, <1>4 DEF Run

LEMMA RunPart ==
    ASSUME NEW r, NEW v, NEW s, Run(r, v, s), NEW a \in Nat \ {0}, NEW b \in Nat,
           a <= b + 1, b <= Len(r)
    PROVE  Run(SubSeq(r, a, b), v, s + a - 1) /\ Len(SubSeq(r, a, b)) = b + 1 - a
<1>1. r \in Seq(Rows(v)) /\ Len(r) \in Nat /\ s \in Int
  BY DEF Run
<1>2. PICK j : j = SubSeq(r, a, b)
  OBVIOUS
<1>3. /\ j \in Seq(Rows(v)) /\ Len(j) = b + 1 - a
      /\ \A k \in 1..Len(j) : j[k] = r[a + k - 1]
  <2>1. \A k \in a..b : k \in 1..Len(r)
    BY <1>1
  <2>2. \A k \in a..b : r[k] \in Rows(v)
    BY <1>1, <2>1
  <2>3. CASE a <= b
    BY <1>1, <1>2, <2>2, <2>3, SubSeqProperties
  <2>4. CASE a = b + 1
    BY <1>1, <1>2, <2>4, SubSeqProperties
  <2>5. QED
    BY <2>3, <2>4
<1>4. ASSUME NEW k \in 1..Len(j) PROVE j[k] = [version |-> v, pos |-> (s + a - 1) + k - 1]
  <2>1. a + k - 1 \in 1..Len(r)
    BY <1>1, <1>3
  <2>2. r[a + k - 1] = [version |-> v, pos |-> s + (a + k - 1) - 1]
    BY <2>1 DEF Run
  <2>3. s + (a + k - 1) - 1 = (s + a - 1) + k - 1
    BY <1>1, <1>3
  <2>4. QED
    BY <1>3, <2>2, <2>3
<1>5. QED
  BY <1>1, <1>2, <1>3, <1>4 DEF Run

LEMMA RunLast ==
    ASSUME NEW r, NEW v, NEW s, Run(r, v, s), NEW n \in 0..Len(r)
    PROVE  Run(lastOf(r, n), v, s + Len(r) - n) /\ Len(lastOf(r, n)) = n
<1>1. Len(r) \in Nat /\ s \in Int
  BY DEF Run
<1>2. PICK a, b : a = Len(r) - n + 1 /\ b = Len(r)
  OBVIOUS
<1>3. a \in Nat \ {0} /\ b \in Nat /\ a <= b + 1 /\ b <= Len(r)
  BY <1>1, <1>2
<1>4. Run(SubSeq(r, a, b), v, s + a - 1) /\ Len(SubSeq(r, a, b)) = b + 1 - a
  BY <1>3, RunPart
<1>5. b + 1 - a = n /\ s + a - 1 = s + Len(r) - n
  BY <1>1, <1>2
<1>6. QED
  BY <1>2, <1>4, <1>5 DEF lastOf

LEMMA RunFirst ==
    ASSUME NEW r, NEW v, NEW s, Run(r, v, s), NEW n \in Nat
    PROVE  Run(firstOf(r, n), v, s) /\ Len(firstOf(r, n)) = least(n, Len(r))
<1>1. Len(r) \in Nat /\ s \in Int
  BY DEF Run
<1>2. PICK b : b = least(n, Len(r))
  OBVIOUS
<1>3. b \in Nat /\ b <= Len(r) /\ 1 <= b + 1 /\ 1 \in Nat \ {0}
  BY <1>1, <1>2 DEF least
<1>4. Run(SubSeq(r, 1, b), v, s + 1 - 1) /\ Len(SubSeq(r, 1, b)) = b + 1 - 1
  BY <1>3, RunPart
<1>5. b + 1 - 1 = b /\ s + 1 - 1 = s
  BY <1>1, <1>3
<1>6. QED
  BY <1>2, <1>4, <1>5 DEF firstOf

\* The rows that answer request q.
LEMMA RunOf ==
    ASSUME NEW q, q.size \in Nat, q.start \in Nat, q.total \in Nat
    PROVE  /\ Run(rowsOf(q), q.version, q.start)
           /\ Len(rowsOf(q)) = most(least(q.size, q.total - q.start), 0)
<1>1. PICK n : n = most(least(q.size, q.total - q.start), 0)
  OBVIOUS
<1>2. n \in Nat
  BY <1>1 DEF most, least
<1>3. PICK r : r = rowsOf(q)
  OBVIOUS
<1>4. r = [k \in 1..n |-> [version |-> q.version, pos |-> q.start + k - 1]]
  BY <1>1, <1>3 DEF rowsOf
<1>5. \A k \in 1..n : r[k] \in Rows(q.version) /\ r[k] = [version |-> q.version, pos |-> q.start + k - 1]
  BY <1>2, <1>4 DEF Rows
<1>6. r \in [1..n -> Rows(q.version)]
  BY <1>4, <1>5
<1>7. r \in Seq(Rows(q.version)) /\ Len(r) = n
  BY <1>2, <1>6
<1>8. QED
  BY <1>1, <1>3, <1>5, <1>7 DEF Run

-----------------------------------------------------------------------------
\* b holds rows of the table of n rows, each at its place: a page of them at
\* least, or all there are.
Window(b, v, n) ==
    /\ b.startPos \in Nat /\ Run(b.rows, v, b.startPos) /\ endPos(b) <= n
    /\ b.rows = <<>> => b.startPos = 0
    /\ b.rows # <<>> => Len(b.rows) >= PageSize \/ (b.startPos = 0 /\ Len(b.rows) = n)

\* The scroller may stand at p.
Offset(p, n) == p \in Nat /\ (p = 0 \/ p + PageSize <= n)

Sized(q) ==
    /\ q.size \in 0..maxFetchSize /\ q.start \in 0..q.total
    /\ q.size = 0 <=> q.start = q.total

\* The number of rows that answer a request for size rows from start on.
come(size, start, n) == most(least(size, n - start), 0)

LEMMA FetchGeometry ==
    ASSUME LargeBufferSize >= PageSize,
           NEW b, NEW v, NEW n \in Nat \ {0}, Window(b, v, n), NEW p, Offset(p, n),
           NEW start, start = getFetchOffset(b, p),
           NEW size, size = getFetchSize(b, p, n), NEW m, m = come(size, start, n)
    PROVE  /\ start \in 0..n /\ size \in 0..maxFetchSize /\ (size = 0 <=> start = n)
           /\ m \in Nat /\ start + m <= n
           /\ b.rows = <<>> => m > 0 /\ (m >= PageSize \/ (start = 0 /\ m = n))
           /\ start > b.startPos => start >= endPos(b)
           /\ start > b.startPos /\ start > endPos(b) => m >= PageSize
           /\ start <= b.startPos /\ b.startPos # 0 =>
                 /\ start < b.startPos /\ start + m <= b.startPos
                 /\ m > 0 /\ (start + m = b.startPos \/ m >= PageSize)
<1>1. PICK s, l, L, P : s = b.startPos /\ l = Len(b.rows) /\ L = LargeBufferSize /\ P = PageSize
  OBVIOUS
<1>2. /\ s \in Nat /\ l \in Nat /\ L \in Nat \ {0} /\ P \in Nat \ {0} /\ L >= P
      /\ s + l <= n /\ (l = 0 => s = 0) /\ (s # 0 => l >= P)
      /\ p \in Nat /\ (p = 0 \/ p + P <= n)
      /\ b.rows = <<>> => l = 0
  BY <1>1, BufferAssumption, EmptySeq DEF Window, Run, Offset, endPos
<1>3. start = IF p > s THEN most(p, s + l) ELSE IF p + L >= s THEN most(s - L, 0) ELSE p
  BY <1>1 DEF getFetchOffset, endPos, maxFetchSize
<1>4. size = IF start >= s
             THEN IF start = 0 THEN most(least(L, n - start), L) ELSE least(L, n - start)
             ELSE least(s - start, L)
  BY <1>1 DEF getFetchSize, maxFetchSize
<1>5. endPos(b) = s + l /\ maxFetchSize = L
  BY <1>1 DEF endPos, maxFetchSize
<1>6. CASE p > s
  <2>1. start = most(p, s + l) /\ start > 0
    BY <1>2, <1>3, <1>6 DEF most
  <2>2. start \in 1..n /\ start > s /\ start >= s + l /\ (start > s + l => start + P <= n)
    BY <1>2, <1>6, <2>1 DEF most
  <2>3. size = least(L, n - start)
    BY <1>2, <1>4, <2>2
  <2>4. size \in 0..L /\ (size = 0 <=> start = n) /\ m = size /\ start + m <= n
    BY <1>2, <2>2, <2>3 DEF least, most, come
  <2>5. start > s + l => m >= P
    BY <1>2, <2>2, <2>3, <2>4 DEF least
  <2>6. l = 0 => start + P <= n
    BY <1>2, <1>6, <2>1 DEF most
  <2>7. l = 0 => m >= P /\ m > 0
    BY <1>2, <2>2, <2>3, <2>4, <2>6 DEF least
  <2>8. QED
    BY <1>1, <1>2, <1>5, <2>2, <2>4, <2>5, <2>7
<1>7. CASE p <= s
  <2>1. CASE s = 0
    <3>1. start = 0
      BY <1>2, <1>3, <1>7, <2>1 DEF most
    <3>2. size = L
      BY <1>2, <1>4, <2>1, <3>1 DEF most, least
    <3>3. m = least(L, n) /\ m \in Nat /\ m > 0 /\ m <= n /\ (m >= P \/ m = n)
      BY <1>2, <3>1, <3>2 DEF least, most, come
    <3>4. QED
      BY <1>1, <1>2, <1>5, <2>1, <3>1, <3>2, <3>3
  <2>2. CASE s # 0
    <3>1. start \in 0..(s - 1) /\ (start = 0 \/ start + L <= s)
      BY <1>2, <1>3, <1>7, <2>2 DEF most
    <3>2. size = least(s - start, L)
      BY <1>2, <1>4, <3>1
    <3>3. m = size /\ size \in 1..L /\ start + m <= s /\ (start + m = s \/ m = L)
      <4>1. size \in 1..L /\ size <= s - start /\ (size = s - start \/ size = L)
        BY <1>2, <3>1, <3>2 DEF least
      <4>2. m = size
        BY <1>2, <3>1, <4>1 DEF least, most, come
      <4>3. QED
        BY <1>2, <3>1, <4>1, <4>2
    <3>4. /\ start \in 0..n /\ size \in 0..L /\ start < n /\ size # 0
          /\ m \in Nat /\ start + m <= n /\ start < s /\ m > 0
      BY <1>2, <3>1, <3>3
    <3>5. b.rows # <<>> /\ (start + m = s \/ m >= P)
      BY <1>2, <2>2, <3>3
    <3>6. ~(start > s) /\ (size = 0 <=> start = n)
      BY <1>2, <3>4
    <3>7. QED
      BY <1>1, <1>5, <3>3, <3>4, <3>5, <3>6
  <2>3. QED
    BY <2>1, <2>2
<1>8. QED
  BY <1>2, <1>6, <1>7

\* A request for the rows around p, and the buffer after the answer.
LEMMA AskedIsSized ==
    ASSUME LargeBufferSize >= PageSize,
           NEW g, g.total \in Nat \ {0}, Window(g.buffer, g.version, g.total),
           NEW p, Offset(p, g.total), NEW q, q = asked(g, p)
    PROVE  Sized(q) /\ q.version = g.version /\ q.total = g.total
<1>1. PICK start, size : /\ start = getFetchOffset(g.buffer, p)
                         /\ size = getFetchSize(g.buffer, p, g.total)
  OBVIOUS
<1>2. PICK m : m = come(size, start, g.total)
  OBVIOUS
<1>3. PICK b, v, n : b = g.buffer /\ v = g.version /\ n = g.total
  OBVIOUS
<1>4. start \in 0..n /\ size \in 0..maxFetchSize /\ (size = 0 <=> start = n)
  <2>1. /\ n \in Nat \ {0} /\ Window(b, v, n) /\ Offset(p, n) /\ start = getFetchOffset(b, p)
        /\ size = getFetchSize(b, p, n) /\ m = come(size, start, n)
    BY <1>1, <1>2, <1>3
  <2>2. QED
    BY <2>1, FetchGeometry
<1>5. q = [start |-> start, size |-> size, version |-> v, total |-> n]
  BY <1>1, <1>3 DEF asked
<1>6. QED
  BY <1>3, <1>4, <1>5 DEF Sized

\* y is the buffer b after m rows came that were asked for from start on: they
\* replace it, or follow it, or come before it.
Spans(b, start, m, y) ==
    \/ /\ b.rows = <<>> \/ start > endPos(b) \/ start + m < b.startPos
       /\ y.startPos = start /\ Len(y.rows) = m
    \/ /\ b.rows # <<>> /\ start > b.startPos /\ start = endPos(b)
       /\ y.startPos = b.startPos + most((Len(b.rows) + m) - maxBufferSize, 0)
       /\ endPos(y) = endPos(b) + m
    \/ /\ b.rows # <<>> /\ start <= b.startPos /\ start + m >= b.startPos
       /\ y.startPos = start
       /\ Len(y.rows) = least(maxBufferSize, (b.startPos - start) + Len(b.rows))

LEMMA UpdatedIsWindow ==
    ASSUME LargeBufferSize >= PageSize,
           NEW b, NEW v, NEW n \in Nat \ {0}, Window(b, v, n), NEW p, Offset(p, n),
           NEW start, start = getFetchOffset(b, p),
           NEW size, size = getFetchSize(b, p, n),
           NEW r, Run(r, v, start), Len(r) = come(size, start, n),
           NEW y, y = update(b, r, start)
    PROVE  Window(y, v, n) /\ Spans(b, start, Len(r), y)
<1>1. PICK s, l, m, M, P, e : /\ s = b.startPos /\ l = Len(b.rows) /\ m = come(size, start, n)
                              /\ M = maxBufferSize /\ P = PageSize /\ e = endPos(b)
  OBVIOUS
<1>2. /\ s \in Nat /\ l \in Nat /\ M \in Nat \ {0} /\ P \in Nat \ {0} /\ M >= P
      /\ e = s + l /\ e <= n /\ (b.rows = <<>> => s = 0)
      /\ Run(b.rows, v, s) /\ (b.rows # <<>> => l > 0 /\ (l >= P \/ (s = 0 /\ l = n)))
  <2>1. b.rows \in Seq(Rows(v))
    BY DEF Window, Run
  <2>2. b.rows # <<>> => Len(b.rows) > 0
    BY <2>1, EmptySeq
  <2>3. QED
    BY <1>1, <2>1, <2>2, BufferAssumption DEF Window, endPos, maxBufferSize
<1>3. /\ start \in 0..n /\ m \in Nat /\ start + m <= n /\ Len(r) = m
      /\ b.rows = <<>> => m > 0 /\ (m >= P \/ (start = 0 /\ m = n))
      /\ start > s => start >= e
      /\ start > s /\ start > e => m >= P
      /\ start <= s /\ s # 0 => start < s /\ start + m <= s /\ m > 0 /\ (start + m = s \/ m >= P)
  BY <1>1, FetchGeometry
<1>4. PICK u : u = [startPos |-> start, rows |-> r]
  OBVIOUS
<1>5. ASSUME m > 0, m >= P \/ (start = 0 /\ m = n), y = u,
             b.rows = <<>> \/ start > e \/ start + m < s
      PROVE  Window(y, v, n) /\ Spans(b, start, m, y)
  <2>1. u.startPos = start /\ u.rows = r /\ r # <<>>
    BY <1>3, <1>4, <1>5
  <2>2. Window(y, v, n)
    BY <1>1, <1>3, <1>5, <2>1 DEF Window, endPos
  <2>3. y.startPos = start /\ Len(y.rows) = m
    BY <1>3, <1>5, <2>1
  <2>4. QED
    BY <1>1, <1>5, <2>2, <2>3 DEF Spans
<1>6. CASE b.rows = <<>>
  <2>1. update(b, r, start) = u
    BY <1>4, <1>6 DEF update
  <2>2. QED
    BY <1>3, <1>5, <1>6, <2>1
<1>7. CASE b.rows # <<>> /\ start > s
  <2>1. update(b, r, start) = append(b, r, start)
    BY <1>1, <1>7 DEF update
  <2>2. CASE e < start
    <3>1. append(b, r, start) = u
      BY <1>1, <1>4, <2>2 DEF append
    <3>2. m >= P /\ m > 0
      BY <1>2, <1>3, <1>7, <2>2
    <3>3. QED
      BY <1>2, <1>3, <1>5, <2>1, <2>2, <3>1, <3>2
  <2>3. CASE e = start
    <3>1. PICK all, x : all = b.rows \o r /\ x = most(Len(all) - M, 0)
      OBVIOUS
    <3>2. Run(all, v, s) /\ Len(all) = l + m
      <4>1. PICK o : o = b.rows
        OBVIOUS
      <4>2. Run(o, v, s) /\ Run(r, v, s + Len(o)) /\ Len(o) = l
        BY <1>1, <1>2, <2>3, <4>1
      <4>3. QED
        BY <1>3, <3>1, <4>1, <4>2, RunJoined
    <3>x. x = most((l + m) - M, 0)
      BY <3>1, <3>2
    <3>3. /\ x \in Nat /\ x <= l + m /\ l + m - x > 0
          /\ l + m - x >= P \/ (s + x = 0 /\ l + m - x = n)
      <4>1. x = most((l + m) - M, 0)
        BY <3>x
      <4>2. x \in Nat /\ x <= l + m /\ l + m - x > 0
        BY <1>2, <1>3, <1>7, <4>1 DEF most
      <4>3. CASE x # 0
        BY <1>2, <1>3, <4>1, <4>2, <4>3 DEF most
      <4>4. CASE x = 0 /\ l >= P
        BY <1>2, <1>3, <4>2, <4>4
      <4>5. CASE x = 0 /\ s = 0 /\ l = n
        <5>1. m = 0
          BY <1>2, <1>3, <2>3, <4>5
        <5>2. QED
          BY <1>2, <4>2, <4>5, <5>1
      <4>6. QED
        BY <1>2, <1>7, <4>2, <4>3, <4>4, <4>5
    <3>4. PICK k, w : k = (l + m) - x /\ w = lastOf(all, k)
      OBVIOUS
    <3>5. k \in 0..Len(all) /\ k = Len(all) - x
      <4>1. k = (l + m) - x
        BY <3>4
      <4>2. l + m \in Nat
        BY <1>2, <1>3
      <4>3. k \in 0..(l + m)
        BY <3>3, <4>1, <4>2
      <4>4. QED
        BY <3>2, <4>1, <4>3
    <3>6. Run(w, v, s + (l + m) - k) /\ Len(w) = k
      BY <3>2, <3>4, <3>5, RunLast
    <3>7. s + (l + m) - k = s + x
      BY <1>2, <1>3, <3>3, <3>4
    <3>8. append(b, r, start) = [startPos |-> s + x, rows |-> w]
      <4>1. ~(endPos(b) < start)
        BY <1>1, <1>2, <2>3
      <4>2. append(b, r, start) =
              [startPos |-> s + most(Len(all) - M, 0),
               rows |-> lastOf(all, Len(all) - most(Len(all) - M, 0))]
        BY <1>1, <3>1, <4>1 DEF append
      <4>3. x = most(Len(all) - M, 0) /\ w = lastOf(all, Len(all) - x)
        BY <3>1, <3>4, <3>5
      <4>4. QED
        BY <4>2, <4>3
    <3>10. y.startPos = s + x /\ y.rows = w
      BY <2>1, <3>8
    <3>11. k > 0 /\ k \in Nat /\ (k >= P \/ (s + x = 0 /\ k = n))
      BY <1>2, <1>3, <3>3, <3>4
    <3>12. (s + x) + k <= n
      BY <1>2, <1>3, <2>3, <3>3, <3>4
    <3>13. Run(y.rows, v, y.startPos) /\ Len(y.rows) = k /\ y.rows # <<>>
      <4>1. w # <<>>
        BY <3>6, <3>11
      <4>2. QED
        BY <3>6, <3>7, <3>10, <4>1
    <3>14. y.startPos \in Nat /\ (k >= P \/ (y.startPos = 0 /\ k = n))
      BY <1>2, <3>3, <3>10, <3>11
    <3>15. endPos(y) <= n
      BY <3>10, <3>12, <3>13 DEF endPos
    <3>16. Window(y, v, n)
      BY <1>1, <3>13, <3>14, <3>15 DEF Window
    <3>17. y.startPos = s + most((l + m) - M, 0) /\ endPos(y) = e + m
      <4>1. x = most((l + m) - M, 0)
        BY <3>x
      <4>2. (s + x) + k = e + m
        BY <1>2, <1>3, <3>3, <3>4
      <4>3. y.startPos = s + most((l + m) - M, 0)
        BY <3>10, <4>1
      <4>4. endPos(y) = e + m
        BY <3>10, <3>13, <4>2 DEF endPos
      <4>5. QED
        BY <4>3, <4>4
    <3>18. Spans(b, start, m, y)
      BY <1>1, <1>7, <2>3, <3>17 DEF Spans
    <3>19. QED
      BY <1>3, <3>16, <3>18
  <2>4. QED
    BY <1>2, <1>3, <1>7, <2>2, <2>3
<1>8. CASE b.rows # <<>> /\ start <= s
  <2>1. update(b, r, start) = prepend(b, r, start)
    BY <1>1, <1>2, <1>3, <1>8 DEF update
  <2>2. CASE start + m < s
    <3>1. prepend(b, r, start) = u
      BY <1>1, <1>3, <1>4, <2>2 DEF prepend
    <3>2. m > 0 /\ m >= P
      BY <1>2, <1>3, <1>8, <2>2
    <3>3. QED
      BY <1>3, <1>5, <2>1, <2>2, <3>1, <3>2
  <2>3. CASE start + m >= s
    <3>1. PICK f, all, w : /\ f = firstOf(r, s) /\ all = f \o b.rows
                           /\ w = firstOf(all, M)
      OBVIOUS
    <3>2. Run(f, v, start) /\ Len(f) = least(s, m)
      BY <1>2, <1>3, <3>1, RunFirst
    <3>3. start + Len(f) = s /\ Len(f) \in Nat
      BY <1>2, <1>3, <1>8, <2>3, <3>2 DEF least
    <3>4. Run(all, v, start) /\ Len(all) = Len(f) + l
      BY <1>1, <1>2, <3>1, <3>2, <3>3, RunJoined
    <3>5. Run(w, v, start) /\ Len(w) = least(M, Len(f) + l)
      BY <1>2, <3>1, <3>4, RunFirst
    <3>6. /\ Len(w) > 0 /\ start + Len(w) <= n
          /\ Len(w) >= P \/ (start = 0 /\ Len(w) = n)
      <4>1. Len(w) \in Nat /\ (Len(w) = M \/ Len(w) = Len(f) + l) /\ Len(w) <= Len(f) + l
        BY <1>2, <3>3, <3>5 DEF least
      <4>2. Len(w) > 0 /\ start + Len(w) <= n
        BY <1>2, <1>3, <1>8, <3>3, <4>1
      <4>3. CASE l >= P
        BY <1>2, <3>3, <4>1, <4>2, <4>3
      <4>4. CASE s = 0 /\ l = n
        <5>1. start = 0 /\ Len(f) = 0
          BY <1>3, <1>8, <3>3, <4>4
        <5>2. QED
          BY <1>2, <4>1, <4>2, <4>4, <5>1
      <4>5. QED
        BY <1>2, <1>8, <4>2, <4>3, <4>4
    <3>7. prepend(b, r, start) = [startPos |-> start, rows |-> w]
      <4>1. ~(start + Len(r) < s)
        BY <1>2, <1>3, <2>3
      <4>2. QED
        BY <1>1, <3>1, <4>1 DEF prepend
    <3>8. y.startPos = start /\ y.rows = w /\ w # <<>>
      BY <2>1, <3>6, <3>7
    <3>9. Window(y, v, n)
      BY <1>1, <1>3, <3>5, <3>6, <3>8 DEF Window, endPos
    <3>10. Len(y.rows) = least(M, (s - start) + l)
      <4>1. start \in Int /\ s \in Int /\ Len(f) \in Int /\ start + Len(f) = s
        BY <1>2, <1>3, <3>3
      <4>2. Len(f) = s - start
        BY <4>1
      <4>3. QED
        BY <3>5, <3>8, <4>2
    <3>11. Spans(b, start, m, y)
      BY <1>1, <1>8, <2>3, <3>8, <3>10 DEF Spans
    <3>12. QED
      BY <1>3, <3>9, <3>11
  <2>4. QED
    BY <1>2, <1>3, <2>2, <2>3
<1>9. QED
  BY <1>2, <1>3, <1>6, <1>7, <1>8

-----------------------------------------------------------------------------
\* w shows rows of version v from position p on, or nothing.
Shows(w, v, p) ==
    /\ w = [shown |-> w.shown, offset |-> w.offset, lastRowPos |-> w.lastRowPos,
            isBlank |-> w.isBlank, isPartialBlank |-> w.isPartialBlank]
    /\ \A k \in Table : w.shown[k] \in {Blank, [version |-> v, pos |-> p + k - 1]}
    /\ w.isBlank \/ w.lastRowPos = -1 => \A k \in Table : w.shown[k] = Blank
    /\ ~w.isBlank => w.lastRowPos \in {-1, p}

Pictured(w, v) == w.offset \in Nat /\ Shows(w, v, w.offset)

\* Of any view, the page is blank if it counts as blank.
Framed(w) ==
    /\ w.offset \in Nat
    /\ w = [shown |-> w.shown, offset |-> w.offset, lastRowPos |-> w.lastRowPos,
            isBlank |-> w.isBlank, isPartialBlank |-> w.isPartialBlank]
    /\ w.isBlank => \A k \in Table : w.shown[k] = Blank

LEMMA PicturedFramed ==
    ASSUME NEW w, NEW v, Pictured(w, v)
    PROVE  Framed(w)
BY DEF Pictured, Shows, Framed

LEMMA ClearedRows ==
    ASSUME NEW w, Framed(w), NEW u, NEW p, NEW y, y = clearRows(w)
    PROVE  Shows(y, u, p) /\ y.offset = w.offset /\ y.isBlank
<1>1. CASE w.isBlank
  BY <1>1 DEF clearRows, Framed, Shows
<1>2. CASE ~w.isBlank
  <2>1. PICK s : s = [k \in Table |-> Blank]
    OBVIOUS
  <2>2. y = [w EXCEPT !.shown = s, !.isBlank = TRUE]
    BY <1>2, <2>1 DEF clearRows
  <2>3. y = [shown |-> s, offset |-> w.offset, lastRowPos |-> w.lastRowPos,
             isBlank |-> TRUE, isPartialBlank |-> w.isPartialBlank]
    BY <2>2 DEF Framed
  <2>4. y.isBlank /\ y.shown = s /\ y.offset = w.offset
    BY <2>3
  <2>5. y = [shown |-> y.shown, offset |-> y.offset, lastRowPos |-> y.lastRowPos,
             isBlank |-> y.isBlank, isPartialBlank |-> y.isPartialBlank]
    BY <2>3
  <2>6. \A k \in Table : y.shown[k] = Blank
    BY <2>1, <2>4
  <2>7. QED
    BY <2>4, <2>5, <2>6 DEF Shows
<1>3. QED
  BY <1>1, <1>2

LEMMA Painted ==
    ASSUME NEW b, NEW v, NEW n \in Nat, Window(b, v, n), NEW w, NEW o, Shows(w, v, o),
           NEW p \in Nat, b.startPos <= p + PageSize + 1, p <= endPos(b),
           NEW y, y = paint(w, b, p)
    PROVE  Shows(y, v, p) /\ y.offset = w.offset
<1>1. PICK s, l, P, e : s = b.startPos /\ l = Len(b.rows) /\ P = PageSize /\ e = endPos(b)
  OBVIOUS
<1>2. /\ s \in Nat /\ l \in Nat /\ P \in Nat \ {0} /\ e = s + l /\ (s # 0 => l >= P)
      /\ s <= p + P + 1 /\ p <= e /\ Run(b.rows, v, s)
  <2>1. b.rows \in Seq(Rows(v))
    BY DEF Window, Run
  <2>2. QED
    BY <1>1, <2>1, BufferAssumption DEF Window, endPos
<1>3. PICK from, count : from = most(s, p) /\ count = least(e, p + P + 1) - from
  OBVIOUS
<1>4. PICK shift : shift = IF s > p THEN P + 1 - count ELSE 0
  OBVIOUS
<1>5. PICK d, z : /\ d = [k \in Table |-> IF k - shift \in 1..count
                                         THEN b.rows[from - s + k - shift] ELSE Blank]
                  /\ z = (count < P + 1)
  OBVIOUS
<1>6. y = [w EXCEPT !.shown = d, !.isBlank = FALSE, !.isPartialBlank = z, !.lastRowPos = p]
  BY <1>1, <1>3, <1>4, <1>5 DEF paint
<1>7. y = [shown |-> d, offset |-> w.offset, lastRowPos |-> p, isBlank |-> FALSE,
           isPartialBlank |-> z]
  BY <1>6 DEF Shows
<1>8. /\ ~y.isBlank /\ y.shown = d /\ y.offset = w.offset /\ y.lastRowPos = p
      /\ y = [shown |-> y.shown, offset |-> y.offset, lastRowPos |-> y.lastRowPos,
              isBlank |-> y.isBlank, isPartialBlank |-> y.isPartialBlank]
  BY <1>7
<1>9. from \in Int /\ count \in Int /\ shift \in Int /\ from - shift = p
  <2>1. CASE s > p
    <3>1. from = s /\ count = p + P + 1 - s
      BY <1>2, <1>3, <2>1 DEF most, least
    <3>2. QED
      BY <1>2, <1>4, <2>1, <3>1
  <2>2. CASE s <= p
    BY <1>2, <1>3, <1>4, <2>2 DEF most, least
  <2>3. QED
    BY <1>2, <2>1, <2>2
<1>10. from >= s /\ from + count <= e
  BY <1>2, <1>3 DEF most, least
<1>11. ASSUME NEW k \in Table PROVE d[k] \in {Blank, [version |-> v, pos |-> p + k - 1]}
  <2>1. k \in Int
    BY <1>1, <1>2 DEF Table
  <2>2. CASE k - shift \in 1..count
    <3>1. PICK j : j = from - s + k - shift
      OBVIOUS
    <3>2. j \in 1..l
      BY <1>2, <1>9, <1>10, <2>1, <2>2, <3>1
    <3>3. s + j - 1 = p + k - 1
      BY <1>2, <1>9, <2>1, <3>1
    <3>4. b.rows[j] = [version |-> v, pos |-> s + j - 1]
      BY <1>1, <1>2, <3>2 DEF Run
    <3>5. d[k] = b.rows[j]
      BY <1>5, <2>2, <3>1
    <3>6. QED
      BY <3>3, <3>4, <3>5
  <2>3. CASE ~(k - shift \in 1..count)
    BY <1>5, <2>3
  <2>4. QED
    BY <2>2, <2>3
<1>12. QED
  BY <1>8, <1>11 DEF Shows

LEMMA Refreshed ==
    ASSUME NEW b, NEW v, NEW n \in Nat, Window(b, v, n), NEW w, Pictured(w, v),
           NEW p \in Nat, NEW y, y = refreshContents(w, b, p)
    PROVE  Shows(y, v, p) /\ y.offset = w.offset
<1>1. CASE p = w.lastRowPos /\ ~w.isPartialBlank /\ ~w.isBlank
  <2>1. y = w
    BY <1>1 DEF refreshContents
  <2>2. p # -1
    OBVIOUS
  <2>3. w.offset = p
    BY <1>1, <2>2 DEF Pictured, Shows
  <2>4. QED
    BY <2>1, <2>3 DEF Pictured
<1> DEFINE far == p + PageSize + 1 < b.startPos \/ endPos(b) < p \/ b.rows = <<>>
<1>2. CASE ~(p = w.lastRowPos /\ ~w.isPartialBlank /\ ~w.isBlank) /\ far
  <2>1. y = clearRows(w)
    BY <1>2 DEF refreshContents
  <2>2. QED
    BY <2>1, PicturedFramed, ClearedRows
<1>3. CASE ~(p = w.lastRowPos /\ ~w.isPartialBlank /\ ~w.isBlank) /\ ~far
  <2>1. y = paint(w, b, p)
    BY <1>3 DEF refreshContents
  <2>2. b.startPos <= p + PageSize + 1 /\ p <= endPos(b)
    BY <1>3, BufferAssumption DEF Window, Run, endPos
  <2>3. QED
    BY <2>1, <2>2, Painted DEF Pictured
<1>4. QED
  BY <1>1, <1>2, <1>3

LEMMA ScrolledTo ==
    ASSUME NEW b, NEW v, NEW n \in Nat, Window(b, v, n), NEW w, Pictured(w, v),
           NEW p \in Nat, NEW y, y = scrollTo(w, b, p)
    PROVE  Pictured(y, v)
<1>1. CASE w.offset = p
  BY <1>1 DEF scrollTo
<1>2. CASE w.offset # p
  <2>1. PICK u : u = refreshContents(w, b, p)
    OBVIOUS
  <2>2. Shows(u, v, p)
    BY <2>1, Refreshed
  <2>3. y = [u EXCEPT !.offset = p]
    BY <1>2, <2>1 DEF scrollTo
  <2>4. y = [shown |-> u.shown, offset |-> p, lastRowPos |-> u.lastRowPos,
             isBlank |-> u.isBlank, isPartialBlank |-> u.isPartialBlank]
    BY <2>2, <2>3 DEF Shows
  <2>5. /\ y.offset = p /\ y.shown = u.shown /\ y.lastRowPos = u.lastRowPos
        /\ y.isBlank = u.isBlank
        /\ y = [shown |-> y.shown, offset |-> y.offset, lastRowPos |-> y.lastRowPos,
                isBlank |-> y.isBlank, isPartialBlank |-> y.isPartialBlank]
    BY <2>4
  <2>6. QED
    BY <2>2, <2>5 DEF Pictured, Shows
<1>3. QED
  BY <1>1, <1>2

LEMMA BufferChanged ==
    ASSUME NEW b, NEW v, NEW n \in Nat, Window(b, v, n), NEW w, Pictured(w, v),
           NEW y, y = bufferChanged(w, b)
    PROVE  Pictured(y, v)
<1>1. PICK p \in Nat : p = w.offset
  BY DEF Pictured
<1>2. y = refreshContents(w, b, p)
  BY <1>1 DEF bufferChanged
<1>3. Shows(y, v, p) /\ y.offset = w.offset
  BY <1>2, Refreshed
<1>4. QED
  BY <1>1, <1>3 DEF Pictured

LEMMA EmptyWindow ==
    ASSUME NEW v, NEW n \in Nat
    PROVE  Window(cleared, v, n)
<1>1. cleared.startPos = 0 /\ cleared.rows = <<>>
  BY DEF cleared
<1>2. <<>> \in Seq(Rows(v)) /\ Len(<<>>) = 0
  OBVIOUS
<1>3. QED
  BY <1>1, <1>2 DEF Window, Run, endPos

LEMMA ClearedContents ==
    ASSUME NEW w, Framed(w), NEW u, NEW y, y = clearContents(w)
    PROVE  Pictured(y, u)
<1>1. PICK x : x = clearRows(w)
  OBVIOUS
<1>2. PICK o : o = w.offset
  OBVIOUS
<1>3. Shows(x, u, o) /\ x.offset = w.offset
  BY <1>1, ClearedRows
<1>4. Pictured(x, u)
  BY <1>2, <1>3 DEF Pictured, Framed
<1>5. PICK b : b = cleared
  OBVIOUS
<1>6. Window(b, u, 0) /\ 0 \in Nat
  BY <1>5, EmptyWindow
<1>7. y = scrollTo(x, b, 0)
  BY <1>1, <1>5 DEF clearContents
<1>8. QED
  BY <1>4, <1>6, <1>7, ScrolledTo

\* A view stays one, whatever the buffer holds.
LEMMA PaintedFramed ==
    ASSUME NEW b, NEW w, Framed(w), NEW p, NEW y, y = refreshContents(w, b, p)
    PROVE  Framed(y) /\ y.offset = w.offset
<1>1. CASE y = w
  BY <1>1
<1>2. CASE y = clearRows(w)
  <2>1. Shows(y, 0, 0) /\ y.offset = w.offset
    BY <1>2, ClearedRows
  <2>2. QED
    BY <2>1 DEF Framed, Shows
<1>3. CASE y = paint(w, b, p)
  <2>1. PICK d, z : y = [w EXCEPT !.shown = d, !.isBlank = FALSE, !.isPartialBlank = z,
                                  !.lastRowPos = p]
    BY <1>3 DEF paint
  <2>2. y = [shown |-> d, offset |-> w.offset, lastRowPos |-> p, isBlank |-> FALSE,
             isPartialBlank |-> z]
    BY <2>1 DEF Framed
  <2>3. /\ ~y.isBlank /\ y.offset = w.offset
        /\ y = [shown |-> y.shown, offset |-> y.offset, lastRowPos |-> y.lastRowPos,
                isBlank |-> y.isBlank, isPartialBlank |-> y.isPartialBlank]
    BY <2>2
  <2>4. QED
    BY <2>3 DEF Framed
<1>4. QED
  BY <1>1, <1>2, <1>3 DEF refreshContents

LEMMA ScrolledFramed ==
    ASSUME NEW b, NEW w, Framed(w), NEW p \in Nat, NEW y, y = scrollTo(w, b, p)
    PROVE  Framed(y) /\ y.offset = p
<1>1. CASE w.offset = p
  BY <1>1 DEF scrollTo
<1>2. CASE w.offset # p
  <2>1. PICK u : u = refreshContents(w, b, p)
    OBVIOUS
  <2>2. Framed(u)
    BY <2>1, PaintedFramed
  <2>3. y = [u EXCEPT !.offset = p]
    BY <1>2, <2>1 DEF scrollTo
  <2>4. y = [shown |-> u.shown, offset |-> p, lastRowPos |-> u.lastRowPos,
             isBlank |-> u.isBlank, isPartialBlank |-> u.isPartialBlank]
    BY <2>2, <2>3 DEF Framed
  <2>5. /\ y.offset = p /\ y.shown = u.shown /\ y.isBlank = u.isBlank
        /\ y = [shown |-> y.shown, offset |-> y.offset, lastRowPos |-> y.lastRowPos,
                isBlank |-> y.isBlank, isPartialBlank |-> y.isPartialBlank]
    BY <2>4
  <2>6. QED
    BY <2>2, <2>5 DEF Framed
<1>3. QED
  BY <1>1, <1>2

-----------------------------------------------------------------------------
(***************************************************************************)
(* RowsInPlace.                                                            *)
(***************************************************************************)
\* Of any state: where the scroller may stand, and that no request is for a newer
\* table than there is.
Versioned(g, e) ==
    /\ g.version \in Nat
    /\ \A i \in 1..Len(e.query) : e.query[i].version \in Nat /\ e.query[i].version <= g.version

Tabled(g, e) == Framed(g.view) /\ g.total \in Nat \ {0} /\ Versioned(g, e)

FramedInv == Tabled(grid, engine) /\ scrollTop \in Nat

LEMMA FetchedTabled ==
    ASSUME NEW g, NEW e, Clocked(g, e), Engine(e), Tabled(g, e),
           NEW p, NEW h, NEW f, Fetched(g, e, p, h, f)
    PROVE  Tabled(h, f)
<1>1. SameRows(g, h)
  BY FetchedKeeps
<1>2. CASE f = e
  BY <1>1, <1>2 DEF SameRows, Tabled, Versioned
<1>3. CASE Asks(g, e, p, h, f)
  <2>1. PICK q : q = asked(g, p)
    OBVIOUS
  <2>2. Sent(e, q, f) /\ mayStillSend(e)
    BY <1>3, <2>1 DEF Asks
  <2>3. PICK n : n = Len(e.query) + 1
    OBVIOUS
  <2>4. /\ Len(f.query) = n /\ f.query[n] = q
        /\ \A i \in 1..Len(e.query) : f.query[i] = e.query[i]
    BY <2>2, <2>3, OneRequestMore
  <2>5. q.version = g.version
    BY <2>1 DEF asked
  <2>6. Len(e.query) \in Nat
    BY DEF Engine
  <2>7. ASSUME NEW i \in 1..Len(f.query)
        PROVE  f.query[i].version \in Nat /\ f.query[i].version <= g.version
    <3>1. g.version \in Nat
      BY DEF Tabled, Versioned
    <3>2. CASE i = n
      BY <2>4, <2>5, <3>1, <3>2
    <3>3. CASE i # n
      <4>1. i \in 1..Len(e.query)
        BY <2>3, <2>4, <2>6, <3>3
      <4>2. QED
        BY <2>4, <4>1 DEF Tabled, Versioned
    <3>4. QED
      BY <3>2, <3>3
  <2>8. QED
    BY <1>1, <2>7 DEF SameRows, Tabled, Versioned
<1>4. QED
  BY <1>2, <1>3 DEF Fetched, Waits

LEMMA ResumedTabled ==
    ASSUME NEW g, NEW e, Clocked(g, e), Engine(e), Tabled(g, e),
           NEW h, NEW f, Resumed(g, e, h, f)
    PROVE  Tabled(h, f)
<1>1. CASE h = g /\ f = e
  BY <1>1
<1>2. ASSUME NEW x, Fetched(g, e, g.unprocessedRequest, x, f),
             h = [x EXCEPT !.unprocessedRequest = NoWish]
      PROVE  Tabled(h, f)
  <2>1. PICK p, u : p = g.unprocessedRequest /\ u = NoWish
    OBVIOUS
  <2>2. Fetched(g, e, p, x, f)
    BY <1>2, <2>1
  <2>3. Tabled(x, f) /\ Clocked(x, f)
    BY <2>2, FetchedTabled, FetchedKeeps
  <2>4. h = [x EXCEPT !.unprocessedRequest = u]
    BY <1>2, <2>1
  <2>5. SameRows(x, h)
    BY <2>3, <2>4, WaitsWhat
  <2>6. QED
    BY <2>3, <2>5 DEF SameRows, Tabled, Versioned
<1>3. QED
  BY <1>1, <1>2 DEF Resumed

LEMMA ContentFramed ==
    ASSUME AccountsInv, FramedInv, NEW p \in Nat, contentAt(p)
    PROVE  Tabled(grid', engine')
<1>1. PICK h : /\ Fetched(grid, engine, p, h, engine')
               /\ grid' = [h EXCEPT !.view = scrollTo(h.view, grid.buffer, p)]
  BY ContentWhat
<1>2. PICK g, e, f, v : /\ g = grid /\ e = engine /\ f = engine'
                        /\ v = scrollTo(h.view, g.buffer, p)
  OBVIOUS
<1>3. Clocked(g, e) /\ Engine(e) /\ Tabled(g, e) /\ Fetched(g, e, p, h, f)
  BY <1>1, <1>2 DEF AccountsInv, FramedInv
<1>4. Tabled(h, f) /\ Clocked(h, f)
  BY <1>3, FetchedTabled, FetchedKeeps
<1>5. PICK b, w : b = g.buffer /\ w = h.view
  OBVIOUS
<1>6. Framed(w) /\ v = scrollTo(w, b, p)
  BY <1>2, <1>4, <1>5 DEF Tabled
<1>7. Framed(v)
  BY <1>6, ScrolledFramed
<1>8. PICK k : k = [h EXCEPT !.view = v]
  OBVIOUS
<1>9. k.version = h.version /\ k.view = v /\ k.total = h.total
  BY <1>4, <1>8, OtherFields
<1>10. Tabled(k, f)
  BY <1>4, <1>7, <1>9 DEF Tabled, Versioned
<1>11. QED
  BY <1>1, <1>2, <1>8, <1>10

LEMMA UserFramed ==
    ASSUME AccountsInv, FramedInv, sortHandler \/ setTotalRows \/ requestContentRefresh
    PROVE  FramedInv'
<1>1. PICK e, f, k : e = engine /\ f = engine' /\ k = grid'
  OBVIOUS
<1>2. PICK g : g = resetContents(grid)
  OBVIOUS
<1>3. Clocked(grid, e) /\ Engine(e) /\ Tabled(grid, e)
  BY <1>1 DEF AccountsInv, FramedInv
<1>4. /\ Clocked(g, e) /\ g.view = clearContents(grid.view)
      /\ g.version = grid.version + 1 /\ g.total = grid.total
  BY <1>2, <1>3, ResetWhat
<1>5. Tabled(g, e)
  <2>1. PICK w, y : w = grid.view /\ y = clearContents(w)
    OBVIOUS
  <2>2. Framed(w)
    BY <1>3, <2>1 DEF Tabled
  <2>3. Pictured(y, 0)
    BY <2>1, <2>2, ClearedContents
  <2>4. Framed(g.view)
    BY <1>4, <2>1, <2>3, PicturedFramed
  <2>5. Versioned(g, e)
    <3>1. PICK v : v = grid.version
      OBVIOUS
    <3>2. v \in Nat /\ g.version = v + 1
      BY <1>3, <1>4, <3>1 DEF Tabled, Versioned
    <3>3. \A i \in 1..Len(e.query) : e.query[i].version \in Nat /\ e.query[i].version <= v
      BY <1>3, <3>1 DEF Tabled, Versioned
    <3>4. QED
      BY <3>2, <3>3 DEF Versioned
  <2>6. QED
    BY <1>3, <1>4, <2>4, <2>5 DEF Tabled
<1>6. CASE sortHandler
  <2>1. PICK x \in fetchBuffer(g, e, 0) : leave(x)
    BY <1>1, <1>2, <1>6 DEF sortHandler
  <2>2. Fetched(g, e, 0, x.grid, x.engine)
    BY FetchCases
  <2>3. Fetched(g, e, 0, k, f)
    BY <1>1, <2>1, <2>2 DEF leave
  <2>4. Tabled(k, f)
    BY <1>3, <1>4, <1>5, <2>3, FetchedTabled
  <2>5. scrollTop' = 0
    BY <1>6 DEF sortHandler, reset
  <2>6. QED
    BY <1>1, <2>4, <2>5 DEF FramedInv
<1>7. CASE setTotalRows
  <2>1. PICK n \in Totals : grid' = [g EXCEPT !.total = n]
    BY <1>2, <1>7 DEF setTotalRows
  <2>2. engine' = engine /\ scrollTop' = 0
    BY <1>7 DEF setTotalRows, reset
  <2>3. k = [g EXCEPT !.total = n]
    BY <1>1, <2>1
  <2>4. k.version = g.version /\ k.total = n /\ k.view = g.view
    BY <1>4, <2>3, OtherFields
  <2>5. n \in Nat \ {0}
    BY GridAssumption
  <2>6. Tabled(k, e)
    BY <1>5, <2>4, <2>5 DEF Tabled, Versioned
  <2>7. QED
    BY <1>1, <2>2, <2>6 DEF FramedInv
<1>8. CASE requestContentRefresh
  <2>1. PICK o : o = grid
    OBVIOUS
  <2>2. PICK x \in fetchBuffer(o, e, 0) : leave(x)
    BY <1>1, <1>8, <2>1 DEF requestContentRefresh
  <2>3. Fetched(o, e, 0, x.grid, x.engine)
    BY FetchCases
  <2>4. Fetched(o, e, 0, k, f)
    BY <1>1, <2>2, <2>3 DEF leave
  <2>5. Tabled(k, f)
    BY <1>3, <2>1, <2>4, FetchedTabled
  <2>6. scrollTop' = scrollTop
    BY <1>8 DEF requestContentRefresh
  <2>7. QED
    BY <1>1, <2>5, <2>6 DEF FramedInv
<1>9. QED
  BY <1>6, <1>7, <1>8

\* The request that is processed ends.
LEMMA EndedTabled ==
    ASSUME NEW o, NEW e, Tabled(o, e), NEW g, Ended(o, e, g), Framed(g.view)
    PROVE  Tabled(g, e)
BY DEF Ended, Tabled, Versioned

LEMMA AnswerFramed ==
    ASSUME AccountsInv, FramedInv, NEW i \in Requests, gridAnswer(i) \/ badAnswer(i)
    PROVE  FramedInv'
<1>1. PICK o, e, k : o = grid /\ e = engine /\ k = engine'
  OBVIOUS
<1>2. Clocked(o, e) /\ Engine(e) /\ Tabled(o, e) /\ e.ajax.state[i] = "open"
  BY <1>1 DEF AccountsInv, FramedInv, gridAnswer, badAnswer, openRequest
<1>3. PICK g, h, f : /\ Ended(o, e, g) /\ Framed(g.view) /\ Resumed(g, e, h, f)
                     /\ h = grid' /\ Taken(f, i, k)
  <2>1. CASE gridAnswer(i)
    <3>1. PICK g : g = ajaxUpdate(grid, i)
      OBVIOUS
    <3>2. \E x \in processQueuedRequest(g, engine) :
             leave([x EXCEPT !.engine.ajax = respondComplete(@, i, FALSE)])
      BY <2>1, <3>1 DEF gridAnswer
    <3>3. PICK b, w : b = UpdatedBy(i) /\ w = o.view
      OBVIOUS
    <3>4. Ended(o, e, g) /\ (g.view = w \/ g.view = bufferChanged(w, b))
      BY <1>1, <1>2, <3>1, <3>3, UpdateWhat
    <3>5. Framed(g.view)
      <4>1. PICK y, p : y = bufferChanged(w, b) /\ p = w.offset
        OBVIOUS
      <4>2. Framed(w) /\ y = refreshContents(w, b, p)
        BY <1>2, <3>3, <4>1 DEF Tabled, bufferChanged
      <4>3. Framed(y)
        BY <4>2, PaintedFramed
      <4>4. QED
        BY <3>4, <4>1, <4>2, <4>3
    <3>6. QED
      BY <1>1, <3>2, <3>4, <3>5, AnswerWhat
  <2>2. CASE badAnswer(i)
    <3>1. PICK t : t = o.timeoutHandler
      OBVIOUS
    <3>2. PICK g : g = GivenUp(o, t)
      OBVIOUS
    <3>3. \E x \in processQueuedRequest(g, engine) :
             leave([x EXCEPT !.engine.ajax = respondComplete(@, i, FALSE)])
      BY <1>1, <2>2, <3>1, <3>2 DEF badAnswer, GivenUp
    <3>4. Without(o, t, g)
      BY <3>2 DEF Without
    <3>5. Ended(o, e, g) /\ g.view = o.view
      BY <1>2, <3>1, <3>4, EndedWithout
    <3>6. Framed(g.view)
      BY <1>2, <3>5 DEF Tabled
    <3>7. QED
      BY <1>1, <3>3, <3>5, <3>6, AnswerWhat
  <2>3. QED
    BY <2>1, <2>2
<1>4. Tabled(g, e) /\ Clocked(g, e)
  BY <1>2, <1>3, EndedTabled DEF Ended
<1>5. Tabled(h, f) /\ Extends(e, f)
  BY <1>2, <1>3, <1>4, ResumedTabled, ResumedKeeps
<1>6. k.query = f.query
  BY <1>2, <1>3, <1>5, AnsweredThen
<1>7. Tabled(h, k)
  BY <1>5, <1>6 DEF Tabled, Versioned
<1>8. scrollTop' = scrollTop
  BY DEF gridAnswer, badAnswer
<1>9. QED
  BY <1>1, <1>3, <1>7, <1>8 DEF FramedInv

LEMMA TimeoutFramed ==
    ASSUME AccountsInv, FramedInv, NEW i \in Requests, handleTimedOut(i)
    PROVE  FramedInv'
<1>1. PICK o, e, h, f : o = grid /\ e = engine /\ h = grid' /\ f = engine'
  OBVIOUS
<1>2. Clocked(o, e) /\ Engine(e) /\ Tabled(o, e) /\ i \in o.timers
  BY <1>1 DEF AccountsInv, FramedInv, handleTimedOut
<1>3. i = o.processingRequest
  BY <1>2 DEF Clocked
<1>4. PICK g : g = GivenUp(o, i)
  OBVIOUS
<1>5. Ended(o, e, g) /\ g.view = o.view
  <2>1. Without(o, i, g)
    BY <1>4 DEF Without
  <2>2. QED
    BY <1>2, <1>3, <2>1, EndedWithout
<1>6. PICK x \in processQueuedRequest(g, e) : leave(x)
  BY <1>1, <1>4 DEF handleTimedOut, GivenUp
<1>7. Resumed(g, e, x.grid, x.engine)
  BY QueuedCases
<1>8. Resumed(g, e, h, f)
  BY <1>1, <1>6, <1>7 DEF leave
<1>9. Tabled(g, e) /\ Clocked(g, e)
  BY <1>2, <1>5, EndedTabled DEF Ended, Tabled
<1>10. Tabled(h, f)
  BY <1>2, <1>8, <1>9, ResumedTabled
<1>11. scrollTop' = scrollTop
  BY DEF handleTimedOut
<1>12. QED
  BY <1>1, <1>10, <1>11 DEF FramedInv

LEMMA ScrollFramed ==
    ASSUME AccountsInv, FramedInv, userScrolls \/ handleScroll \/ wheel
    PROVE  FramedInv'
<1>1. PICK m, t : m = scrollMax(grid.total) /\ t = scrollTop
  OBVIOUS
<1>2. m \in Nat /\ t \in Nat
  BY <1>1, BufferAssumption DEF FramedInv, Tabled, scrollMax, most
<1>3. CASE userScrolls
  <2>1. scrollTop' \in 0..m /\ grid' = grid /\ engine' = engine
    BY <1>1, <1>3 DEF userScrolls
  <2>2. scrollTop' \in Nat
    BY <1>2, <2>1
  <2>3. QED
    BY <2>1, <2>2 DEF FramedInv
<1>4. CASE handleScroll
  <2>1. contentAt(t) /\ scrollTop' = scrollTop
    BY <1>1, <1>4 DEF handleScroll
  <2>2. QED
    BY <1>2, <2>1, ContentFramed DEF FramedInv
<1>5. CASE wheel
  <2>1. PICK p \in {most(t - 2, 0), least(t + 2, m)} : scrollTop' = p /\ contentAt(p)
    BY <1>1, <1>5 DEF wheel
  <2>2. p \in Nat
    BY <1>2, <2>1 DEF most, least
  <2>3. QED
    BY <2>1, <2>2, ContentFramed DEF FramedInv
<1>6. QED
  BY <1>3, <1>4, <1>5

LEMMA NextFramed == AccountsInv /\ FramedInv /\ [Next]_vars => FramedInv'
<1> SUFFICES ASSUME AccountsInv, FramedInv, [Next]_vars PROVE FramedInv'
  OBVIOUS
<1>1. CASE UNCHANGED vars
  BY <1>1 DEF vars, FramedInv
<1>2. CASE userScrolls \/ handleScroll \/ wheel
  BY <1>2, ScrollFramed
<1>3. CASE sortHandler \/ setTotalRows \/ requestContentRefresh
  BY <1>3, UserFramed
<1>4. ASSUME NEW i \in Requests, gridAnswer(i) \/ badAnswer(i) PROVE FramedInv'
  BY <1>4, AnswerFramed
<1>5. ASSUME NEW i \in Requests, failure(i) PROVE FramedInv'
  <2>1. PICK e, k : e = engine /\ k = engine'
    OBVIOUS
  <2>2. Engine(e) /\ e.ajax.state[i] = "open"
    BY <1>5, <2>1 DEF AccountsInv, failure, openRequest
  <2>3. Taken(e, i, k) \/ Refused(e, i, k)
    BY <1>5, <2>1, FailureWhat
  <2>4. k.query = e.query
    BY <2>2, <2>3, Answered
  <2>5. grid' = grid /\ scrollTop' = scrollTop
    BY <1>5 DEF failure
  <2>6. QED
    BY <2>1, <2>4, <2>5 DEF FramedInv, Tabled, Versioned
<1>6. ASSUME NEW i \in Requests, handleTimedOut(i) PROVE FramedInv'
  BY <1>6, TimeoutFramed
<1>7. QED
  BY <1>1, <1>2, <1>3, <1>4, <1>5, <1>6 DEF Next

\* As long as nothing disturbs the grid, the request that is processed asks for
\* rows at an end of the buffer as it is, if it is for the table as it is.
Placed(g, e) ==
    /\ g.total \in Nat \ {0}
    /\ Window(g.buffer, g.version, g.total)
    /\ Pictured(g.view, g.version)
    /\ g.unprocessedRequest # NoWish => Offset(g.unprocessedRequest, g.total)
    /\ g.processingRequest # None /\ e.query[g.processingRequest].version = g.version =>
          \E p : Offset(p, g.total) /\ e.query[g.processingRequest] = asked(g, p)
    /\ \A i \in 1..Len(e.query) : e.query[i].version = g.version => Sized(e.query[i])

PlacedInv ==
    /\ AccountsInv /\ FramedInv
    /\ ~disturbed => Placed(grid, engine) /\ Offset(scrollTop, grid.total)

\* What is asked for depends on the rows only.
LEMMA AskedAlike ==
    ASSUME NEW g, NEW h, SameRows(g, h), NEW p
    PROVE  asked(h, p) = asked(g, p)
BY DEF SameRows, asked

LEMMA FetchedPlaced ==
    ASSUME LargeBufferSize >= PageSize,
           NEW g, NEW e, Clocked(g, e), Engine(e), Placed(g, e),
           NEW p, Offset(p, g.total), NEW h, NEW f, Fetched(g, e, p, h, f)
    PROVE  Placed(h, f)
<1>1. CASE h = g /\ f = e
  BY <1>1
<1>2. CASE Asks(g, e, p, h, f)
  <2>1. /\ SameRows(g, h) /\ h.processingRequest = Len(e.query) + 1
        /\ h.unprocessedRequest = g.unprocessedRequest
    BY <1>2, AsksWhat
  <2>2. PICK q : q = asked(g, p)
    OBVIOUS
  <2>3. Sent(e, q, f) /\ mayStillSend(e) /\ g.processingRequest = None
    BY <1>2, <2>2 DEF Asks
  <2>4. PICK n : n = Len(e.query) + 1
    OBVIOUS
  <2>5. /\ Len(f.query) = n /\ f.query[n] = q
        /\ \A i \in 1..Len(e.query) : f.query[i] = e.query[i]
        /\ \A i \in Requests : i # n => f.ajax.state[i] = e.ajax.state[i]
    BY <2>3, <2>4, OneRequestMore
  <2>6. Sized(q)
    BY <2>2, AskedIsSized DEF Placed
  <2>7. ASSUME NEW i \in 1..Len(f.query), f.query[i].version = g.version
        PROVE  Sized(f.query[i])
    <3>1. Len(e.query) \in Nat
      BY DEF Engine
    <3>2. CASE i = n
      BY <2>5, <2>6, <3>2
    <3>3. CASE i # n
      <4>1. i \in 1..Len(e.query)
        BY <2>4, <2>5, <3>1, <3>3
      <4>2. QED
        BY <2>5, <2>7, <4>1 DEF Placed
    <3>4. QED
      BY <3>2, <3>3
  <2>9. Offset(p, h.total) /\ f.query[h.processingRequest] = asked(h, p)
    <3>1. asked(h, p) = asked(g, p)
      BY <2>1, AskedAlike
    <3>2. h.total = g.total
      BY <2>1 DEF SameRows
    <3>3. QED
      BY <2>1, <2>2, <2>4, <2>5, <3>1, <3>2
  <2>10. /\ h.total \in Nat \ {0} /\ Window(h.buffer, h.version, h.total)
         /\ Pictured(h.view, h.version)
         /\ h.unprocessedRequest # NoWish => Offset(h.unprocessedRequest, h.total)
    BY <2>1 DEF Placed, SameRows
  <2>12. \A i \in 1..Len(f.query) : f.query[i].version = h.version => Sized(f.query[i])
    <3>1. h.version = g.version
      BY <2>1 DEF SameRows
    <3>2. QED
      BY <2>7, <3>1
  <2>11. QED
    BY <2>9, <2>10, <2>12 DEF Placed
<1>3. CASE Waits(g, e, p, h, f)
  <2>1. f = e /\ SameRows(g, h) /\ h.processingRequest = g.processingRequest /\ h.unprocessedRequest = p
    <3>1. f = e /\ h = [g EXCEPT !.unprocessedRequest = p]
      BY <1>3 DEF Waits
    <3>2. QED
      BY <3>1, WaitsWhat
  <2>2. \A r : asked(h, r) = asked(g, r)
    BY <2>1, AskedAlike
  <2>3. /\ h.total \in Nat \ {0} /\ Window(h.buffer, h.version, h.total)
        /\ Pictured(h.view, h.version) /\ Offset(h.unprocessedRequest, h.total)
    BY <2>1 DEF Placed, SameRows
  <2>4. h.processingRequest # None /\ f.query[h.processingRequest].version = h.version =>
           \E r : Offset(r, h.total) /\ f.query[h.processingRequest] = asked(h, r)
    BY <2>1, <2>2 DEF Placed, SameRows
  <2>5. \A i \in 1..Len(f.query) : f.query[i].version = h.version => Sized(f.query[i])
    <3>1. h.version = g.version
      BY <2>1 DEF SameRows
    <3>2. QED
      BY <2>1, <3>1 DEF Placed
  <2>6. QED
    BY <2>1, <2>3, <2>4, <2>5 DEF Placed
<1>4. QED
  BY <1>1, <1>2, <1>3 DEF Fetched

LEMMA ResumedPlaced ==
    ASSUME LargeBufferSize >= PageSize,
           NEW g, NEW e, Clocked(g, e), Engine(e), Placed(g, e),
           NEW h, NEW f, Resumed(g, e, h, f)
    PROVE  Placed(h, f)
<1>1. CASE h = g /\ f = e
  BY <1>1
<1>2. ASSUME NEW x, g.unprocessedRequest # NoWish, Fetched(g, e, g.unprocessedRequest, x, f),
             h = [x EXCEPT !.unprocessedRequest = NoWish]
      PROVE  Placed(h, f)
  <2>1. PICK p, u : p = g.unprocessedRequest /\ u = NoWish
    OBVIOUS
  <2>2. Offset(p, g.total) /\ Fetched(g, e, p, x, f)
    BY <1>2, <2>1 DEF Placed
  <2>3. Placed(x, f)
    BY <2>2, FetchedPlaced
  <2>9. Clocked(x, f)
    BY <2>2, FetchedKeeps
  <2>4. h = [x EXCEPT !.unprocessedRequest = u]
    BY <1>2, <2>1
  <2>5. SameRows(x, h) /\ h.processingRequest = x.processingRequest /\ h.unprocessedRequest = u
    <3>1. h = [buffer |-> x.buffer, view |-> x.view, total |-> x.total, version |-> x.version,
               processingRequest |-> x.processingRequest, unprocessedRequest |-> u,
               timeoutHandler |-> x.timeoutHandler, timers |-> x.timers]
      BY <2>4, <2>9 DEF Clocked, Whole
    <3>2. QED
      BY <3>1 DEF SameRows
  <2>6. \A r : asked(h, r) = asked(x, r)
    BY <2>5, AskedAlike
  <2>7. h.processingRequest # None /\ f.query[h.processingRequest].version = h.version =>
           \E r : Offset(r, h.total) /\ f.query[h.processingRequest] = asked(h, r)
    BY <2>3, <2>5, <2>6 DEF Placed, SameRows
  <2>8. QED
    BY <2>1, <2>3, <2>5, <2>7 DEF Placed, SameRows
<1>3. QED
  BY <1>1, <1>2 DEF Resumed

LEMMA Undisturbed ==
    ASSUME AccountsInv', FramedInv',
           ~disturbed' => Placed(grid', engine') /\ Offset(scrollTop', grid'.total)
    PROVE  PlacedInv'
BY DEF PlacedInv

LEMMA ContentPlaced ==
    ASSUME LargeBufferSize >= PageSize, AccountsInv, Placed(grid, engine),
           NEW p, Offset(p, grid.total), contentAt(p)
    PROVE  Placed(grid', engine') /\ grid'.total = grid.total
<1>1. PICK h : /\ Fetched(grid, engine, p, h, engine')
               /\ grid' = [h EXCEPT !.view = scrollTo(h.view, grid.buffer, p)]
  BY ContentWhat
<1>2. PICK g, e, f, v : /\ g = grid /\ e = engine /\ f = engine'
                        /\ v = scrollTo(h.view, g.buffer, p)
  OBVIOUS
<1>3. Clocked(g, e) /\ Engine(e) /\ Placed(g, e) /\ Offset(p, g.total) /\ Fetched(g, e, p, h, f)
  BY <1>1, <1>2 DEF AccountsInv
<1>4. Placed(h, f) /\ Clocked(h, f) /\ SameRows(g, h)
  BY <1>3, FetchedPlaced, FetchedKeeps
<1>5. PICK k : k = [h EXCEPT !.view = v]
  OBVIOUS
<1>6. /\ Clocked(k, f) /\ k.buffer = h.buffer /\ k.version = h.version
      /\ k.processingRequest = h.processingRequest
      /\ k.unprocessedRequest = h.unprocessedRequest
      /\ k.view = v /\ k.total = h.total
  BY <1>4, <1>5, OtherFields
<1>7. Pictured(v, h.version)
  <2>1. PICK b, w, n, o : b = g.buffer /\ w = h.view /\ n = h.total /\ o = h.version
    OBVIOUS
  <2>2. n \in Nat /\ Window(b, o, n) /\ Pictured(w, o) /\ p \in Nat /\ v = scrollTo(w, b, p)
    BY <1>2, <1>3, <1>4, <2>1 DEF Placed, SameRows, Offset
  <2>3. Pictured(v, o)
    BY <2>2, ScrolledTo
  <2>4. QED
    BY <2>1, <2>3
<1>8. \A r : asked(k, r) = asked(h, r)
  BY <1>6 DEF asked
<1>9. k.processingRequest # None /\ f.query[k.processingRequest].version = k.version =>
         \E r : Offset(r, k.total) /\ f.query[k.processingRequest] = asked(k, r)
  BY <1>4, <1>6, <1>8 DEF Placed
<1>10. Placed(k, f)
  BY <1>4, <1>6, <1>7, <1>9 DEF Placed
<1>11. grid' = k /\ k.total = grid.total
  BY <1>1, <1>2, <1>4, <1>5, <1>6 DEF SameRows
<1>12. QED
  BY <1>2, <1>10, <1>11

LEMMA ScrollPlaced ==
    ASSUME LargeBufferSize >= PageSize, PlacedInv, AccountsInv', FramedInv',
           userScrolls \/ handleScroll \/ wheel
    PROVE  PlacedInv'
<1>1. disturbed' = disturbed
  BY DEF userScrolls, handleScroll, wheel
<1> SUFFICES ASSUME ~disturbed
             PROVE  Placed(grid', engine') /\ Offset(scrollTop', grid'.total)
  BY <1>1, Undisturbed
<1>2. Placed(grid, engine) /\ Offset(scrollTop, grid.total) /\ AccountsInv
  BY DEF PlacedInv
<1>3. PICK n : n = grid.total
  OBVIOUS
<1>4. n \in Nat \ {0} /\ PageSize \in Nat \ {0}
  BY <1>2, <1>3, BufferAssumption DEF Placed
<1>5. CASE userScrolls
  <2>1. PICK p \in 0..scrollMax(grid.total) : scrollTop' = p
    BY <1>5 DEF userScrolls
  <2>2. Offset(p, n)
    BY <1>3, <1>4 DEF Offset, scrollMax, most
  <2>3. grid' = grid /\ engine' = engine
    BY <1>5 DEF userScrolls
  <2>4. QED
    BY <1>2, <1>3, <2>1, <2>2, <2>3
<1>6. CASE handleScroll
  <2>1. PICK p : p = scrollTop
    OBVIOUS
  <2>2. contentAt(p) /\ scrollTop' = p
    BY <1>6, <2>1 DEF handleScroll
  <2>3. QED
    BY <1>2, <2>1, <2>2, ContentPlaced
<1>7. CASE wheel
  <2>1. PICK p \in {most(scrollTop - 2, 0), least(scrollTop + 2, scrollMax(grid.total))} :
          scrollTop' = p /\ contentAt(p)
    BY <1>7 DEF wheel
  <2>2. PICK t : t = scrollTop
    OBVIOUS
  <2>3. Offset(t, n)
    BY <1>2, <1>3, <2>2
  <2>4. PICK m : m = scrollMax(grid.total)
    OBVIOUS
  <2>5. m \in Nat /\ (m = 0 \/ m + PageSize <= n)
    BY <1>3, <1>4, <2>4 DEF scrollMax, most
  <2>6. ASSUME p = most(t - 2, 0) PROVE Offset(p, n)
    BY <1>4, <2>3, <2>6 DEF Offset, most
  <2>7. ASSUME p = least(t + 2, m) PROVE Offset(p, n)
    BY <1>4, <2>3, <2>5, <2>7 DEF Offset, least
  <2>8. Offset(p, n)
    BY <2>1, <2>2, <2>4, <2>6, <2>7
  <2>9. QED
    BY <1>2, <1>3, <2>1, <2>8, ContentPlaced
<1>8. QED
  BY <1>5, <1>6, <1>7

\* An empty buffer holds no page.
LEMMA NeverSatisfied ==
    ASSUME NEW g, g.buffer = cleared, NEW p \in Nat
    PROVE  ~satisfied(g, p)
<1>1. PageSize \in Nat \ {0} /\ endPos(cleared) = 0
  BY BufferAssumption DEF endPos, cleared
<1>2. ~isInRange(cleared, p)
  BY <1>1 DEF isInRange
<1>3. QED
  BY <1>2 DEF satisfied

LEMMA ResetPlaced ==
    ASSUME LargeBufferSize >= PageSize, PlacedInv, AccountsInv', FramedInv',
           sortHandler \/ setTotalRows
    PROVE  PlacedInv'
<1>1. reset
  BY DEF sortHandler, setTotalRows
<1> SUFFICES ASSUME ~disturbed'
             PROVE  Placed(grid', engine') /\ Offset(scrollTop', grid'.total)
  BY Undisturbed
<1>3. PICK e, f, k : e = engine /\ f = engine' /\ k = grid'
  OBVIOUS
<1>4. PICK g : g = resetContents(grid)
  OBVIOUS
<1>5. /\ Clocked(grid, e) /\ Engine(e) /\ Framed(grid.view) /\ grid.total \in Nat \ {0}
      /\ Versioned(grid, e)
      /\ grid.unprocessedRequest # NoWish => grid.processingRequest # None
  BY <1>3 DEF PlacedInv, AccountsInv, FramedInv, Tabled
<1>6. /\ Clocked(g, e) /\ g.buffer = cleared /\ g.view = clearContents(grid.view)
      /\ g.total = grid.total /\ g.version = grid.version + 1
      /\ g.processingRequest = grid.processingRequest
      /\ g.unprocessedRequest = grid.unprocessedRequest
  BY <1>4, <1>5, ResetWhat
<1>7. ASSUME NEW u PROVE Pictured(g.view, u)
  <2>1. PICK w : w = grid.view
    OBVIOUS
  <2>2. PICK y : y = clearContents(w)
    OBVIOUS
  <2>3. Framed(w)
    BY <1>5, <2>1
  <2>4. Pictured(y, u)
    BY <2>2, <2>3, ClearedContents
  <2>5. QED
    BY <1>6, <2>1, <2>2, <2>4
<1>8. ASSUME NEW u, NEW n \in Nat PROVE Window(g.buffer, u, n)
  BY <1>6, EmptyWindow
<1>9. scrollTop' = 0 /\ \A n : Offset(0, n)
  BY <1>1 DEF reset, Offset
<1>10. \A i \in 1..Len(e.query) : e.query[i].version # g.version
  <2>1. PICK v : v = grid.version
    OBVIOUS
  <2>2. v \in Nat /\ g.version = v + 1
    BY <1>5, <1>6, <2>1 DEF Versioned
  <2>3. \A i \in 1..Len(e.query) : e.query[i].version \in Nat /\ e.query[i].version <= v
    BY <1>5, <2>1 DEF Versioned
  <2>4. QED
    BY <2>2, <2>3
<1>14. ASSUME g.processingRequest # None
       PROVE  e.query[g.processingRequest].version # g.version
  <2>1. g.processingRequest \in 1..Len(e.query)
    <3>1. g.processingRequest \in 0..Len(e.query) /\ g.processingRequest # 0
      BY <1>6, <1>14 DEF Clocked, None
    <3>2. Len(e.query) \in Nat
      BY <1>5 DEF Engine
    <3>3. QED
      BY <3>1, <3>2
  <2>2. QED
    BY <1>10, <2>1
<1>11. CASE sortHandler
  <2>1. PICK x \in fetchBuffer(g, e, 0) : leave(x)
    BY <1>3, <1>4, <1>11 DEF sortHandler
  <2>2. Fetched(g, e, 0, x.grid, x.engine)
    BY FetchCases
  <2>3. Fetched(g, e, 0, k, f)
    BY <1>3, <2>1, <2>2 DEF leave
  <2>4. CASE g.unprocessedRequest = NoWish
    <3>1. Placed(g, e)
      BY <1>5, <1>6, <1>7, <1>8, <1>10, <1>14, <2>4 DEF Placed
    <3>2. Placed(k, f)
      BY <1>5, <1>6, <1>9, <2>3, <3>1, FetchedPlaced
    <3>3. QED
      BY <1>3, <1>9, <3>2
  <2>5. CASE g.unprocessedRequest # NoWish
    <3>1. g.processingRequest # None /\ ~satisfied(g, 0)
      BY <1>5, <1>6, <2>5, NeverSatisfied
    <3>2. f = e /\ k = [g EXCEPT !.unprocessedRequest = 0]
      BY <2>3, <3>1 DEF Fetched, Waits, Asks
    <3>3. SameRows(g, k) /\ k.processingRequest = g.processingRequest /\ k.unprocessedRequest = 0
      BY <1>6, <3>2, WaitsWhat
    <3>4. Placed(k, f)
      BY <1>5, <1>6, <1>7, <1>8, <1>9, <1>10, <1>14, <3>2, <3>3 DEF Placed, SameRows
    <3>5. QED
      BY <1>3, <1>9, <3>4
  <2>6. QED
    BY <2>4, <2>5
<1>12. CASE setTotalRows
  <2>1. PICK n \in Totals : grid' = [g EXCEPT !.total = n]
    BY <1>4, <1>12 DEF setTotalRows
  <2>2. engine' = engine /\ g.unprocessedRequest = NoWish
    BY <1>6, <1>12 DEF setTotalRows
  <2>3. k = [g EXCEPT !.total = n]
    BY <1>3, <2>1
  <2>4. /\ k.buffer = g.buffer /\ k.version = g.version
        /\ k.processingRequest = g.processingRequest
        /\ k.unprocessedRequest = g.unprocessedRequest
        /\ k.total = n /\ k.view = g.view
    BY <1>6, <2>3, OtherFields
  <2>5. n \in Nat \ {0}
    BY GridAssumption
  <2>6. Placed(k, e)
    BY <1>7, <1>8, <1>10, <1>14, <2>2, <2>4, <2>5 DEF Placed
  <2>7. QED
    BY <1>3, <1>9, <2>2, <2>6
<1>13. QED
  BY <1>11, <1>12

LEMMA RefreshPlaced ==
    ASSUME LargeBufferSize >= PageSize, PlacedInv, AccountsInv', FramedInv', requestContentRefresh
    PROVE  PlacedInv'
<1>1. disturbed' = disturbed /\ scrollTop' = scrollTop
  BY DEF requestContentRefresh
<1> SUFFICES ASSUME ~disturbed
             PROVE  Placed(grid', engine') /\ Offset(scrollTop', grid'.total)
  BY <1>1, Undisturbed
<1>2. PICK g, e, f, k : g = grid /\ e = engine /\ f = engine' /\ k = grid'
  OBVIOUS
<1>3. Clocked(g, e) /\ Engine(e) /\ Placed(g, e) /\ Offset(scrollTop, g.total)
  BY <1>2 DEF PlacedInv, AccountsInv
<1>4. PICK x \in fetchBuffer(g, e, 0) : leave(x)
  BY <1>2 DEF requestContentRefresh
<1>5. Fetched(g, e, 0, x.grid, x.engine)
  BY FetchCases
<1>6. Fetched(g, e, 0, k, f)
  BY <1>2, <1>4, <1>5 DEF leave
<1>7. Offset(0, g.total)
  BY DEF Offset
<1>8. Placed(k, f) /\ SameRows(g, k)
  BY <1>3, <1>6, <1>7, FetchedPlaced, FetchedKeeps
<1>9. QED
  BY <1>1, <1>2, <1>3, <1>8 DEF SameRows

\* What is left of the grid when the request that is processed ends, before it
\* looks for the last wish of the user.
LEMMA EndedPlaced ==
    ASSUME NEW g, NEW e, Placed(g, e), NEW h, Ended(g, e, h),
           Window(h.buffer, g.version, g.total), Pictured(h.view, g.version)
    PROVE  Placed(h, e)
<1>1. /\ h.total = g.total /\ h.version = g.version /\ h.processingRequest = None
      /\ h.unprocessedRequest = g.unprocessedRequest
  BY DEF Ended
<1>2. QED
  BY <1>1 DEF Placed

\* The buffer after the rows came that were asked for.
LEMMA UpdatedFrom ==
    ASSUME LargeBufferSize >= PageSize,
           NEW o, NEW e, Placed(o, e), NEW p, Offset(p, o.total),
           NEW q, q = asked(o, p), NEW y, y = update(o.buffer, rowsOf(q), q.start)
    PROVE  /\ Window(y, o.version, o.total)
           /\ Spans(o.buffer, q.start, come(q.size, q.start, o.total), y)
<1>1. PICK b, v, n, r, start, size :
         /\ b = o.buffer /\ v = o.version /\ n = o.total
         /\ r = rowsOf(q) /\ start = q.start /\ size = q.size
  OBVIOUS
<1>2. n \in Nat \ {0} /\ Window(b, v, n) /\ Offset(p, n)
  BY <1>1 DEF Placed
<1>3. start = getFetchOffset(b, p) /\ size = getFetchSize(b, p, n)
  BY <1>1 DEF asked
<1>4. Sized(q) /\ q.version = v /\ q.total = n
  BY <1>1, <1>2, AskedIsSized
<1>5. q.size \in Nat /\ q.start \in Nat /\ q.total \in Nat
  BY <1>2, <1>4, BufferAssumption DEF Sized, maxFetchSize
<1>6. Run(r, v, start) /\ Len(r) = come(size, start, n)
  BY <1>1, <1>4, <1>5, RunOf DEF come
<1>7. y = update(b, r, start)
  BY <1>1
<1>8. Window(y, v, n) /\ Spans(b, start, Len(r), y)
  BY <1>2, <1>3, <1>6, <1>7, UpdatedIsWindow
<1>9. QED
  BY <1>1, <1>6, <1>8

LEMMA AnswerDisturbs ==
    ASSUME NEW i, gridAnswer(i) \/ badAnswer(i)
    PROVE  /\ scrollTop' = scrollTop /\ scrolled' = scrolled /\ strayed' = strayed
           /\ ~disturbed' => ~disturbed /\ (gridAnswer(i) => ~unwanted(i))
<1>1. UNCHANGED <<scrollTop, scrolled, strayed>>
  BY DEF gridAnswer, badAnswer
<1>2. CASE gridAnswer(i)
  <2>1. disturbed' = (disturbed \/ unwanted(i))
    BY <1>2 DEF gridAnswer
  <2>2. QED
    BY <1>1, <2>1
<1>3. CASE badAnswer(i) /\ ~gridAnswer(i)
  <2>1. disturbed' = disturbed
    BY <1>3 DEF badAnswer
  <2>2. QED
    BY <1>1, <1>3, <2>1
<1>4. QED
  BY <1>2, <1>3

LEMMA AnswerPlaced ==
    ASSUME LargeBufferSize >= PageSize, PlacedInv, AccountsInv', FramedInv',
           NEW i \in Requests, gridAnswer(i) \/ badAnswer(i)
    PROVE  PlacedInv'
<1>1. /\ scrollTop' = scrollTop
      /\ ~disturbed' => ~disturbed /\ (gridAnswer(i) => ~unwanted(i))
  BY AnswerDisturbs
<1> SUFFICES ASSUME ~disturbed, gridAnswer(i) => ~unwanted(i)
             PROVE  Placed(grid', engine') /\ Offset(scrollTop', grid'.total)
  BY <1>1, Undisturbed
<1>2. PICK o, e, k : o = grid /\ e = engine /\ k = engine'
  OBVIOUS
<1>3. /\ Clocked(o, e) /\ Engine(e) /\ Placed(o, e) /\ Offset(scrollTop, o.total)
      /\ e.ajax.state[i] = "open"
  BY <1>2 DEF PlacedInv, AccountsInv, gridAnswer, badAnswer, openRequest
<1>4. gridAnswer(i) /\ o.processingRequest # None =>
          i = o.processingRequest /\ e.query[i].version = o.version
  BY <1>2 DEF unwanted
<1>5. Window(o.buffer, o.version, o.total) /\ Pictured(o.view, o.version)
  BY <1>3 DEF Placed
<1>6. PICK g, h, f : /\ Ended(o, e, g) /\ Resumed(g, e, h, f) /\ h = grid' /\ Taken(f, i, k)
                     /\ Window(g.buffer, o.version, o.total) /\ Pictured(g.view, o.version)
  <2>1. CASE gridAnswer(i)
    <3>1. PICK g : g = ajaxUpdate(grid, i)
      OBVIOUS
    <3>2. \E x \in processQueuedRequest(g, engine) :
             leave([x EXCEPT !.engine.ajax = respondComplete(@, i, FALSE)])
      BY <2>1, <3>1 DEF gridAnswer
    <3>3. /\ Ended(o, e, g)
          /\ \/ g.buffer = o.buffer /\ g.view = o.view
             \/ /\ o.processingRequest # None
                /\ g.buffer = UpdatedBy(i) /\ g.view = bufferChanged(o.view, UpdatedBy(i))
      BY <1>2, <1>3, <3>1, UpdateWhat
    <3>4. ASSUME o.processingRequest # None PROVE Window(UpdatedBy(i), o.version, o.total)
      <4>1. PICK p : Offset(p, o.total) /\ e.query[i] = asked(o, p)
        BY <1>3, <1>4, <2>1, <3>4 DEF Placed
      <4>2. PICK q : q = e.query[i]
        OBVIOUS
      <4>3. PICK y : y = update(o.buffer, rowsOf(q), q.start)
        OBVIOUS
      <4>4. Window(y, o.version, o.total)
        BY <1>3, <4>1, <4>2, <4>3, UpdatedFrom
      <4>5. UpdatedBy(i) = y
        BY <1>2, <1>4, <2>1, <3>4, <4>2, <4>3 DEF UpdatedBy
      <4>6. QED
        BY <4>4, <4>5
    <3>5. ASSUME o.processingRequest # None
          PROVE  Pictured(bufferChanged(o.view, UpdatedBy(i)), o.version)
      <4>1. PICK b, v, w, n : b = UpdatedBy(i) /\ v = o.version /\ w = o.view /\ n = o.total
        OBVIOUS
      <4>2. PICK y : y = bufferChanged(w, b)
        OBVIOUS
      <4>3. n \in Nat /\ Window(b, v, n) /\ Pictured(w, v)
        BY <1>3, <3>4, <3>5, <4>1 DEF Placed
      <4>4. Pictured(y, v)
        BY <4>2, <4>3, BufferChanged
      <4>5. QED
        BY <4>1, <4>2, <4>4
    <3>6. Window(g.buffer, o.version, o.total) /\ Pictured(g.view, o.version)
      BY <1>5, <3>3, <3>4, <3>5
    <3>7. \E f : Resumed(g, engine, grid', f) /\ Taken(f, i, engine')
      BY <3>2, AnswerWhat
    <3>8. QED
      BY <1>2, <3>3, <3>6, <3>7
  <2>2. CASE badAnswer(i)
    <3>1. PICK t : t = o.timeoutHandler
      OBVIOUS
    <3>2. PICK g : g = GivenUp(o, t)
      OBVIOUS
    <3>3. \E x \in processQueuedRequest(g, engine) :
             leave([x EXCEPT !.engine.ajax = respondComplete(@, i, FALSE)])
      BY <1>2, <2>2, <3>1, <3>2 DEF badAnswer, GivenUp
    <3>4. Without(o, t, g)
      BY <3>2 DEF Without
    <3>5. Ended(o, e, g) /\ g.buffer = o.buffer /\ g.view = o.view
      BY <1>3, <3>1, <3>4, EndedWithout
    <3>6. \E f : Resumed(g, engine, grid', f) /\ Taken(f, i, engine')
      BY <3>3, AnswerWhat
    <3>7. QED
      BY <1>2, <1>5, <3>5, <3>6
  <2>3. QED
    BY <2>1, <2>2
<1>7. Placed(g, e) /\ Clocked(g, e) /\ g.total = o.total
  BY <1>3, <1>6, EndedPlaced DEF Ended
<1>8. Placed(h, f) /\ Clocked(h, f) /\ Extends(e, f) /\ SameRows(g, h)
  BY <1>3, <1>6, <1>7, ResumedPlaced, ResumedKeeps
<1>9. /\ Engine(k) /\ k.query = f.query /\ k.ajax.state[i] = "complete"
      /\ \A j \in Requests : j # i => k.ajax.state[j] = f.ajax.state[j]
  BY <1>3, <1>6, <1>8, AnsweredThen
<1>10. Placed(h, k)
  BY <1>8, <1>9 DEF Placed
<1>11. QED
  BY <1>1, <1>2, <1>3, <1>6, <1>7, <1>8, <1>10 DEF SameRows

LEMMA FailurePlaced ==
    ASSUME PlacedInv, AccountsInv', FramedInv', NEW i \in Requests, failure(i)
    PROVE  PlacedInv'
<1>1. disturbed' = disturbed /\ scrollTop' = scrollTop /\ grid' = grid
  BY DEF failure
<1> SUFFICES ASSUME ~disturbed
             PROVE  Placed(grid', engine') /\ Offset(scrollTop', grid'.total)
  BY <1>1, Undisturbed
<1>2. PICK o, e, k : o = grid /\ e = engine /\ k = engine'
  OBVIOUS
<1>3. /\ Engine(e) /\ e.ajax.state[i] = "open" /\ Placed(o, e) /\ Offset(scrollTop, o.total)
  BY <1>2 DEF PlacedInv, AccountsInv, failure, openRequest
<1>4. Taken(e, i, k) \/ Refused(e, i, k)
  BY <1>2, FailureWhat
<1>5. /\ k.query = e.query /\ k.ajax.state[i] = "complete"
      /\ \A j \in Requests : j # i => k.ajax.state[j] = e.ajax.state[j]
  BY <1>3, <1>4, Answered
<1>6. Placed(o, k)
  BY <1>3, <1>5 DEF Placed
<1>7. QED
  BY <1>1, <1>2, <1>3, <1>6

LEMMA TimeoutPlaced ==
    ASSUME LargeBufferSize >= PageSize, PlacedInv, AccountsInv', FramedInv',
           NEW i \in Requests, handleTimedOut(i)
    PROVE  PlacedInv'
<1>1. PICK o, e, h, f : o = grid /\ e = engine /\ h = grid' /\ f = engine'
  OBVIOUS
<1>2. scrollTop' = scrollTop /\ disturbed' = disturbed
  BY <1>1 DEF handleTimedOut
<1> SUFFICES ASSUME ~disturbed
             PROVE  Placed(grid', engine') /\ Offset(scrollTop', grid'.total)
  BY <1>2, Undisturbed
<1>3. /\ Clocked(o, e) /\ Engine(e) /\ i \in o.timers
      /\ Placed(o, e) /\ Offset(scrollTop, o.total)
  BY <1>1 DEF PlacedInv, AccountsInv, handleTimedOut
<1>4. i = o.processingRequest
  BY <1>3 DEF Clocked
<1>5. PICK g : g = GivenUp(o, i)
  OBVIOUS
<1>6. Ended(o, e, g) /\ g.buffer = o.buffer /\ g.view = o.view
  <2>1. Without(o, i, g)
    BY <1>5 DEF Without
  <2>2. QED
    BY <1>3, <1>4, <2>1, EndedWithout
<1>7. PICK x \in processQueuedRequest(g, e) : leave(x)
  BY <1>1, <1>5 DEF handleTimedOut, GivenUp
<1>8. Resumed(g, e, x.grid, x.engine)
  BY QueuedCases
<1>9. Resumed(g, e, h, f)
  BY <1>1, <1>7, <1>8 DEF leave
<1>10. Placed(g, e)
  <2>1. Window(g.buffer, o.version, o.total) /\ Pictured(g.view, o.version)
    BY <1>3, <1>6 DEF Placed
  <2>2. QED
    BY <1>3, <1>6, <2>1, EndedPlaced
<1>12. Placed(h, f) /\ SameRows(g, h)
  BY <1>3, <1>6, <1>9, <1>10, ResumedPlaced, ResumedKeeps DEF Ended
<1>13. h.total = o.total
  BY <1>6, <1>12 DEF Ended, SameRows
<1>14. QED
  BY <1>1, <1>2, <1>3, <1>12, <1>13

LEMMA InitPlaced ==
    ASSUME LargeBufferSize >= PageSize
    PROVE  Init => PlacedInv
<1> SUFFICES ASSUME Init PROVE PlacedInv
  OBVIOUS
<1>1. PICK n, p, g, e : Begun(n, p, g, e)
  BY InitWhat
<1>2. /\ Clocked(g, e) /\ Engine(e) /\ g.unprocessedRequest = NoWish /\ Len(e.query) = 0
      /\ g.buffer = cleared /\ g.view = scrollTo(emptyView, cleared, p)
      /\ g.total = n /\ g.version = 0 /\ g.processingRequest = None
  BY <1>1, NewGridWhat, NewEngineWhat DEF Begun
<1>3. n \in Nat \ {0}
  BY <1>1, GridAssumption DEF Begun
<1>4. p \in Nat /\ Offset(p, n)
  <2>1. p \in 0..scrollMax(n)
    BY <1>1 DEF Begun
  <2>2. QED
    BY <1>3, <2>1, BufferAssumption DEF Offset, scrollMax, most
<1>5. PICK b, u, v : b = cleared /\ u = emptyView /\ v = scrollTo(u, b, p)
  OBVIOUS
<1>6. Window(b, 0, n)
  BY <1>3, <1>5, EmptyWindow
<1>7. Pictured(u, 0)
  BY <1>5 DEF emptyView, Pictured, Shows
<1>8. Pictured(v, 0)
  BY <1>3, <1>4, <1>5, <1>6, <1>7, ScrolledTo
<1>9. Placed(g, e)
  BY <1>2, <1>3, <1>5, <1>6, <1>8 DEF Placed
<1>10. Tabled(g, e)
  BY <1>2, <1>3, <1>5, <1>8, PicturedFramed DEF Tabled, Versioned
<1>11. Placed(grid, engine) /\ Tabled(grid, engine) /\ grid.total = n
  <2>1. CASE grid = g /\ engine = e
    BY <1>2, <1>9, <1>10, <2>1
  <2>2. CASE Fetched(g, e, p, grid, engine)
    <3>1. PICK h, f : h = grid /\ f = engine
      OBVIOUS
    <3>2. Fetched(g, e, p, h, f) /\ Offset(p, g.total)
      BY <1>2, <1>4, <2>2, <3>1
    <3>3. Placed(h, f) /\ Tabled(h, f) /\ SameRows(g, h)
      BY <1>2, <1>9, <1>10, <3>2, FetchedPlaced, FetchedTabled, FetchedKeeps
    <3>4. QED
      BY <1>2, <3>1, <3>3 DEF SameRows
  <2>3. QED
    BY <1>1, <2>1, <2>2 DEF Begun
<1>12. scrollTop = p
  BY <1>1 DEF Begun
<1>13. QED
  BY <1>4, <1>11, <1>12, InitAccounts DEF PlacedInv, FramedInv

LEMMA NextPlaced ==
    ASSUME LargeBufferSize >= PageSize
    PROVE  PlacedInv /\ [Next]_vars => PlacedInv'
<1> SUFFICES ASSUME PlacedInv, [Next]_vars PROVE PlacedInv'
  OBVIOUS
<1>1. AccountsInv'
  BY NextAccounts DEF PlacedInv
<1>10. FramedInv'
  BY <1>1, NextFramed DEF PlacedInv
<1>2. CASE UNCHANGED vars
  BY <1>2 DEF vars, PlacedInv, AccountsInv, FramedInv
<1>3. CASE userScrolls \/ handleScroll \/ wheel
  BY <1>1, <1>10, <1>3, ScrollPlaced
<1>4. CASE sortHandler \/ setTotalRows
  BY <1>1, <1>10, <1>4, ResetPlaced
<1>5. CASE requestContentRefresh
  BY <1>1, <1>10, <1>5, RefreshPlaced
<1>6. ASSUME NEW i \in Requests, gridAnswer(i) \/ badAnswer(i) PROVE PlacedInv'
  BY <1>1, <1>10, <1>6, AnswerPlaced
<1>7. ASSUME NEW i \in Requests, failure(i) PROVE PlacedInv'
  BY <1>1, <1>10, <1>7, FailurePlaced
<1>8. ASSUME NEW i \in Requests, handleTimedOut(i) PROVE PlacedInv'
  BY <1>1, <1>10, <1>8, TimeoutPlaced
<1>9. QED
  BY <1>2, <1>3, <1>4, <1>5, <1>6, <1>7, <1>8 DEF Next

\* If a page of rows is fetched at least, as with the factor of rico.js:1794, the
\* buffer holds rows of the table that is wanted, each at its place, whatever is
\* appended, prepended and trimmed; requests ask for rows there are; and each row
\* of the page is blank or the one that belongs there (rico.js:1992-2023,
\* 2060-2097, 2167-2203): until a late answer or one of the table as it was is
\* taken for that of the request processed, which disturbs the grid.
THEOREM RowsStayInPlace ==
    ASSUME LargeBufferSize >= PageSize
    PROVE  Spec => []RowsInPlace
<1>1. PlacedInv => RowsInPlace
  <2> SUFFICES ASSUME PlacedInv, ~disturbed PROVE RowsInPlace
    BY DEF RowsInPlace
  <2>1. PICK b, v, w, q : /\ b = grid.buffer /\ v = grid.version /\ w = grid.view
                          /\ q = engine.query
    OBVIOUS
  <2>2. /\ Run(b.rows, v, b.startPos) /\ Shows(w, v, w.offset)
        /\ \A i \in 1..Len(q) : q[i].version = v => Sized(q[i])
    BY <2>1 DEF PlacedInv, Placed, Window, Pictured
  <2>3. ASSUME NEW k \in DOMAIN b.rows
        PROVE  b.rows[k] = [version |-> v, pos |-> b.startPos + k - 1]
    BY <2>2 DEF Run
  <2>4. ASSUME NEW i \in DOMAIN q, q[i].version = v
        PROVE  /\ q[i].size \in 0..maxFetchSize /\ q[i].start \in 0..q[i].total
               /\ q[i].size = 0 <=> q[i].start = q[i].total
    <3>1. DOMAIN q = 1..Len(q)
      BY <2>1 DEF PlacedInv, AccountsInv, Engine
    <3>2. QED
      BY <2>2, <2>4, <3>1 DEF Sized
  <2>5. ASSUME NEW k \in Table
        PROVE  w.shown[k] \in {Blank, [version |-> v, pos |-> w.offset + k - 1]}
    BY <2>2 DEF Shows
  <2>6. QED
    BY <2>1, <2>3, <2>4, <2>5 DEF RowsInPlace
<1>2. PlacedInv /\ [Next]_vars => PlacedInv'
  BY NextPlaced
<1>3. QED
  BY InitPlaced, <1>1, <1>2, PTL DEF Spec

-----------------------------------------------------------------------------
(***************************************************************************)
(* ViewSettles: what the page shows of the buffer.                         *)
(***************************************************************************)
\* A page of w that begins at p shows the rows of it that b holds; one that
\* counts as full shows them all, and one that does not, there is a reason for.
Reflects(w, b, v, p) ==
    /\ \A k \in Table : p + k - 1 >= b.startPos /\ p + k - 1 < endPos(b) =>
          w.shown[k] = [version |-> v, pos |-> p + k - 1]
    /\ ~w.isBlank /\ w.lastRowPos = p /\ w.isPartialBlank =>
          endPos(b) <= p + PageSize \/ b.startPos > p
    /\ ~w.isBlank /\ w.lastRowPos = p /\ ~w.isPartialBlank =>
          \A k \in Table : w.shown[k] = [version |-> v, pos |-> p + k - 1]

LEMMA PaintedReflects ==
    ASSUME NEW b, NEW v, NEW n \in Nat, Window(b, v, n), NEW w, NEW o, Shows(w, v, o),
           NEW p \in Nat, b.startPos <= p + PageSize + 1, p <= endPos(b),
           NEW y, y = paint(w, b, p)
    PROVE  Reflects(y, b, v, p)
<1>1. PICK s, l, P, e : s = b.startPos /\ l = Len(b.rows) /\ P = PageSize /\ e = endPos(b)
  OBVIOUS
<1>2. /\ s \in Nat /\ l \in Nat /\ P \in Nat \ {0} /\ e = s + l /\ (s # 0 => l >= P)
      /\ s <= p + P + 1 /\ p <= e /\ Run(b.rows, v, s)
  <2>1. b.rows \in Seq(Rows(v))
    BY DEF Window, Run
  <2>2. QED
    BY <1>1, <2>1, BufferAssumption DEF Window, endPos
<1>3. PICK from, count : from = most(s, p) /\ count = least(e, p + P + 1) - from
  OBVIOUS
<1>4. PICK shift : shift = IF s > p THEN P + 1 - count ELSE 0
  OBVIOUS
<1>5. PICK d, z : /\ d = [k \in Table |-> IF k - shift \in 1..count
                                         THEN b.rows[from - s + k - shift] ELSE Blank]
                  /\ z = (count < P + 1)
  OBVIOUS
<1>6. y = [w EXCEPT !.shown = d, !.isBlank = FALSE, !.isPartialBlank = z, !.lastRowPos = p]
  BY <1>1, <1>3, <1>4, <1>5 DEF paint
<1>7. y = [shown |-> d, offset |-> w.offset, lastRowPos |-> p, isBlank |-> FALSE,
           isPartialBlank |-> z]
  BY <1>6 DEF Shows
<1>8. y.shown = d /\ y.isPartialBlank = z
  BY <1>7
<1>9. from \in Int /\ count \in Int /\ shift \in Int /\ from - shift = p
  <2>1. CASE s > p
    <3>1. from = s /\ count = p + P + 1 - s
      BY <1>2, <1>3, <2>1 DEF most, least
    <3>2. QED
      BY <1>2, <1>4, <2>1, <3>1
  <2>2. CASE s <= p
    BY <1>2, <1>3, <1>4, <2>2 DEF most, least
  <2>3. QED
    BY <1>2, <2>1, <2>2
<1>10. ASSUME NEW k \in Table, p + k - 1 >= s, p + k - 1 < e
       PROVE  d[k] = [version |-> v, pos |-> p + k - 1]
  <2>1. k \in 1..(P + 1)
    BY <1>1, <1>2 DEF Table
  <2>2. k - shift \in 1..count
    <3>1. from <= p + k - 1 /\ p + k - 1 < from + count
      BY <1>2, <1>3, <1>10, <2>1 DEF most, least
    <3>2. QED
      BY <1>9, <2>1, <3>1
  <2>3. PICK j : j = from - s + k - shift
    OBVIOUS
  <2>4. j \in 1..l /\ s + j - 1 = p + k - 1
    BY <1>2, <1>9, <1>10, <2>1, <2>3
  <2>5. b.rows[j] = [version |-> v, pos |-> s + j - 1]
    BY <1>1, <1>2, <2>4 DEF Run
  <2>6. d[k] = b.rows[j]
    BY <1>5, <2>2, <2>3
  <2>7. QED
    BY <2>4, <2>5, <2>6
<1>11. count < P + 1 => e <= p + P \/ s > p
  BY <1>2, <1>3 DEF most, least
<1>12. ASSUME ~(count < P + 1), NEW k \in Table
       PROVE  d[k] = [version |-> v, pos |-> p + k - 1]
  <2>1. s <= p /\ e >= p + P + 1
    BY <1>2, <1>3, <1>12 DEF most, least
  <2>2. k \in 1..(P + 1)
    BY <1>1, <1>2 DEF Table
  <2>3. p + k - 1 >= s /\ p + k - 1 < e
    BY <1>2, <2>1, <2>2
  <2>4. QED
    BY <1>10, <2>3
<1>13. QED
  BY <1>1, <1>5, <1>8, <1>10, <1>11, <1>12 DEF Reflects

LEMMA RefreshedReflects ==
    ASSUME NEW b, NEW v, NEW n \in Nat, Window(b, v, n), NEW w, Pictured(w, v),
           NEW c, Reflects(w, c, v, w.offset),
           NEW p \in Nat, NEW y, y = refreshContents(w, b, p)
    PROVE  Reflects(y, b, v, p)
<1>1. CASE p = w.lastRowPos /\ ~w.isPartialBlank /\ ~w.isBlank
  <2>1. y = w
    BY <1>1 DEF refreshContents
  <2>2. p # -1
    OBVIOUS
  <2>3. w.offset = p
    BY <1>1, <2>2 DEF Pictured, Shows
  <2>4. \A k \in Table : y.shown[k] = [version |-> v, pos |-> p + k - 1]
    BY <1>1, <2>1, <2>3 DEF Reflects
  <2>5. QED
    BY <1>1, <2>1, <2>4 DEF Reflects
<1> DEFINE far == p + PageSize + 1 < b.startPos \/ endPos(b) < p \/ b.rows = <<>>
<1>2. CASE ~(p = w.lastRowPos /\ ~w.isPartialBlank /\ ~w.isBlank) /\ far
  <2>1. y = clearRows(w)
    BY <1>2 DEF refreshContents
  <2>2. PICK o : o = w.offset
    OBVIOUS
  <2>6. Framed(w)
    BY PicturedFramed
  <2>3. y.isBlank
    BY <2>1, <2>6, ClearedRows
  <2>4. ASSUME NEW k \in Table PROVE ~(p + k - 1 >= b.startPos /\ p + k - 1 < endPos(b))
    <3>1. k \in 1..(PageSize + 1) /\ PageSize \in Nat
      BY BufferAssumption DEF Table
    <3>2. b.startPos \in Nat /\ Len(b.rows) \in Nat /\ endPos(b) = b.startPos + Len(b.rows)
      BY DEF Window, Run, endPos
    <3>3. b.rows = <<>> => Len(b.rows) = 0
      OBVIOUS
    <3>4. QED
      BY <1>2, <3>1, <3>2, <3>3
  <2>5. QED
    BY <2>3, <2>4 DEF Reflects
<1>3. CASE ~(p = w.lastRowPos /\ ~w.isPartialBlank /\ ~w.isBlank) /\ ~far
  <2>1. y = paint(w, b, p)
    BY <1>3 DEF refreshContents
  <2>2. b.startPos <= p + PageSize + 1 /\ p <= endPos(b)
    BY <1>3, BufferAssumption DEF Window, Run, endPos
  <2>3. QED
    BY <2>1, <2>2, PaintedReflects DEF Pictured
<1>4. QED
  BY <1>1, <1>2, <1>3

LEMMA ScrolledReflects ==
    ASSUME NEW b, NEW v, NEW n \in Nat, Window(b, v, n), NEW w, Pictured(w, v),
           Reflects(w, b, v, w.offset), NEW p \in Nat, NEW y, y = scrollTo(w, b, p)
    PROVE  Reflects(y, b, v, p) /\ y.offset = p
<1>1. CASE w.offset = p
  BY <1>1 DEF scrollTo
<1>2. CASE w.offset # p
  <2>1. PICK u : u = refreshContents(w, b, p)
    OBVIOUS
  <2>2. Shows(u, v, p) /\ Reflects(u, b, v, p)
    BY <2>1, Refreshed, RefreshedReflects
  <2>3. y = [u EXCEPT !.offset = p]
    BY <1>2, <2>1 DEF scrollTo
  <2>4. y = [shown |-> u.shown, offset |-> p, lastRowPos |-> u.lastRowPos,
             isBlank |-> u.isBlank, isPartialBlank |-> u.isPartialBlank]
    BY <2>2, <2>3 DEF Shows
  <2>5. /\ y.offset = p /\ y.shown = u.shown /\ y.lastRowPos = u.lastRowPos
        /\ y.isBlank = u.isBlank /\ y.isPartialBlank = u.isPartialBlank
    BY <2>4
  <2>6. QED
    BY <2>2, <2>5 DEF Reflects
<1>3. QED
  BY <1>1, <1>2

LEMMA ChangedReflects ==
    ASSUME NEW b, NEW v, NEW n \in Nat, Window(b, v, n), NEW w, Pictured(w, v),
           NEW c, Reflects(w, c, v, w.offset), NEW y, y = bufferChanged(w, b)
    PROVE  Reflects(y, b, v, w.offset) /\ y.offset = w.offset
<1>1. PICK p \in Nat : p = w.offset
  BY DEF Pictured
<1>2. y = refreshContents(w, b, p)
  BY <1>1 DEF bufferChanged
<1>3. Reflects(y, b, v, p) /\ y.offset = w.offset
  BY <1>2, Refreshed, RefreshedReflects
<1>4. QED
  BY <1>1, <1>3

\* An empty buffer leaves the page blank.
LEMMA ClearedReflects ==
    ASSUME NEW w, Framed(w), NEW u, NEW y, y = clearContents(w)
    PROVE  Reflects(y, cleared, u, y.offset) /\ y.offset = 0
<1>1. PICK x : x = clearRows(w)
  OBVIOUS
<1>2. PICK o : o = w.offset
  OBVIOUS
<1>3. Shows(x, u, o) /\ x.offset = w.offset /\ x.isBlank
  BY <1>1, ClearedRows
<1>4. Pictured(x, u)
  BY <1>2, <1>3 DEF Pictured, Framed
<1>5. PICK b : b = cleared
  OBVIOUS
<1>6. Window(b, u, 0) /\ 0 \in Nat /\ b.startPos = 0 /\ endPos(b) = 0
  BY <1>5, EmptyWindow DEF cleared, endPos
<1>7. y = scrollTo(x, b, 0)
  BY <1>1, <1>5 DEF clearContents
<1>8. Reflects(x, b, u, x.offset)
  <2>1. ASSUME NEW k \in Table
        PROVE  ~(x.offset + k - 1 >= b.startPos /\ x.offset + k - 1 < endPos(b))
    <3>1. x.offset \in Nat /\ k \in Int
      BY <1>4, BufferAssumption DEF Pictured, Table
    <3>2. QED
      BY <1>6, <3>1
  <2>2. QED
    BY <1>3, <2>1 DEF Reflects
<1>9. Reflects(y, b, u, 0) /\ y.offset = 0
  BY <1>4, <1>6, <1>7, <1>8, ScrolledReflects
<1>10. QED
  BY <1>5, <1>9

\* b holds the page that begins at o, to the end of the table at most.
Covers(b, o, n) == b.startPos <= o /\ least(o + PageSize, n) <= endPos(b)

\* After the answer to a request for the rows around o the buffer holds the page
\* there, or it was well inside the buffer before.
LEMMA AskedCovers ==
    ASSUME LargeBufferSize >= PageSize,
           NEW b, NEW v, NEW n \in Nat \ {0}, Window(b, v, n), NEW o, Offset(o, n),
           NEW start, start = getFetchOffset(b, o),
           NEW size, size = getFetchSize(b, o, n), NEW m, m = come(size, start, n),
           NEW y, Window(y, v, n), Spans(b, start, m, y)
    PROVE  Covers(y, o, n) \/ (b.startPos < o /\ o + PageSize < endPos(b))
<1>1. PICK s, l, L, P, e : /\ s = b.startPos /\ l = Len(b.rows) /\ L = LargeBufferSize
                           /\ P = PageSize /\ e = endPos(b)
  OBVIOUS
<1>2. PICK t, k, f : t = y.startPos /\ k = Len(y.rows) /\ f = endPos(y)
  OBVIOUS
<1>3. /\ s \in Nat /\ l \in Nat /\ L \in Nat \ {0} /\ P \in Nat \ {0} /\ L >= P
      /\ e = s + l /\ e <= n /\ (b.rows = <<>> => s = 0 /\ l = 0)
      /\ b.rows # <<>> => l >= P \/ (s = 0 /\ l = n)
      /\ o \in Nat /\ (o = 0 \/ o + P <= n)
      /\ t \in Nat /\ k \in Nat /\ f = t + k /\ maxBufferSize = 2 * L
  <2>1. b.rows \in Seq(Rows(v)) /\ y.rows \in Seq(Rows(v))
    BY DEF Window, Run
  <2>2. QED
    BY <1>1, <1>2, <2>1, BufferAssumption DEF Window, Run, Offset, endPos, maxBufferSize
<1>4. start = IF o > s THEN most(o, s + l) ELSE IF o + L >= s THEN most(s - L, 0) ELSE o
  BY <1>1 DEF getFetchOffset, endPos, maxFetchSize
<1>5. size = IF start >= s
             THEN IF start = 0 THEN most(least(L, n - start), L) ELSE least(L, n - start)
             ELSE least(s - start, L)
  BY <1>1 DEF getFetchSize, maxFetchSize
<1> DEFINE inside == s < o /\ o + P < e
           held == t <= o /\ least(o + P, n) <= f
<1> SUFFICES held \/ inside
  BY <1>1, <1>2 DEF Covers
<1>6. \/ /\ b.rows = <<>> \/ start > e \/ start + m < s
         /\ t = start /\ f = start + m
      \/ /\ b.rows # <<>> /\ start > s /\ start = e
         /\ t = s + most((l + m) - 2 * L, 0) /\ f = e + m
      \/ /\ b.rows # <<>> /\ start <= s /\ start + m >= s
         /\ t = start /\ f = start + least(2 * L, (s - start) + l)
  BY <1>1, <1>2, <1>3 DEF Spans
<1>7. CASE o > s
  <2>1. start \in 1..n /\ start > s /\ start >= e /\ start >= o /\ (start = o \/ start = e)
    BY <1>3, <1>4, <1>7 DEF most
  <2>2. m = size /\ size = least(L, n - start) /\ m \in Nat
    BY <1>3, <1>5, <2>1 DEF least, most, come
  <2>3. CASE start > e \/ b.rows = <<>>
    <3>1. start = o /\ o + P <= n
      BY <1>3, <1>7, <2>1, <2>3
    <3>2. m >= P
      BY <1>3, <2>1, <2>2, <3>1 DEF least
    <3>3. t = o /\ f = o + m
      <4>1. ~(start <= s) /\ ~(start = e /\ b.rows # <<>>)
        BY <1>3, <2>1, <2>3
      <4>2. QED
        BY <1>6, <3>1, <4>1
    <3>4. t <= o /\ o + P <= f
      BY <1>3, <2>2, <3>2, <3>3
    <3>5. QED
      BY <1>3, <3>1, <3>4 DEF least
  <2>4. CASE start = e /\ b.rows # <<>>
    <3>1. t = s + most((l + m) - 2 * L, 0) /\ f = e + m
      BY <1>3, <1>6, <2>1, <2>2, <2>4
    <3>2. o + P <= n /\ o <= e
      BY <1>3, <1>7, <2>1, <2>4
    <3>3. CASE o + P >= e
      <4>x. m <= L /\ m \in Nat /\ (m = L \/ m = n - e)
        BY <1>3, <2>1, <2>2, <2>4 DEF least
      <4>1. t <= o
        <5>1. t = s \/ t = s + ((l + m) - 2 * L)
          BY <1>3, <3>1 DEF most
        <5>2. s \in Int /\ l \in Int /\ m \in Int /\ L \in Int /\ o \in Int /\ P \in Int
          BY <1>3, <4>x
        <5>3. m <= L /\ P <= L /\ s + l <= o + P
          BY <1>3, <3>3, <4>x
        <5>4. s + ((l + m) - 2 * L) <= o
          BY <5>2, <5>3
        <5>5. s <= o
          BY <1>7, <5>2
        <5>6. QED
          BY <5>1, <5>4, <5>5
      <4>2. o + P <= f
        <5>1. CASE m = L
          BY <1>3, <3>1, <3>2, <5>1
        <5>2. CASE m = n - e
          <6>1. f = e + (n - e)
            BY <3>1, <5>2
          <6>2. e \in Int /\ n \in Int
            BY <1>3
          <6>3. QED
            BY <3>2, <6>1, <6>2
        <5>3. QED
          BY <4>x, <5>1, <5>2
      <4>3. QED
        BY <1>3, <3>2, <4>1, <4>2 DEF least
    <3>4. CASE o + P < e
      BY <1>7, <3>4
    <3>5. QED
      BY <1>3, <3>3, <3>4
  <2>5. QED
    BY <1>3, <2>1, <2>3, <2>4
<1>8. CASE o <= s
  <2>1. CASE s = 0
    <3>1. start = 0 /\ o = 0
      BY <1>3, <1>4, <1>8, <2>1 DEF most
    <3>2. size = L
      BY <1>3, <1>5, <2>1, <3>1 DEF most, least
    <3>3. m = least(L, n) /\ m \in Nat
      BY <1>3, <3>1, <3>2 DEF least, most, come
    <3>4. CASE b.rows = <<>>
      <4>1. t = 0 /\ f = m
        BY <1>3, <1>6, <2>1, <3>1, <3>3, <3>4
      <4>2. QED
        BY <1>3, <3>1, <3>3, <4>1 DEF least
    <3>5. CASE b.rows # <<>>
      <4>1. t = 0 /\ f = least(2 * L, l)
        <5>1. ~(start > e) /\ ~(start > s) /\ ~(start + m < s) /\ (s - start) + l = l
          BY <1>3, <2>1, <3>1, <3>3
        <5>2. t = start /\ f = start + least(2 * L, l)
          BY <1>6, <3>5, <5>1
        <5>3. least(2 * L, l) \in Nat
          BY <1>3 DEF least
        <5>4. QED
          BY <3>1, <5>2, <5>3
      <4>2. QED
        BY <1>3, <3>1, <3>5, <4>1 DEF least
    <3>6. QED
      BY <3>4, <3>5
  <2>2. CASE s # 0
    <3>1. /\ b.rows # <<>> /\ l >= P
          /\ start \in Nat /\ start <= o /\ start < s
          /\ s <= start + L \/ (start = o /\ o + L < s)
      <4>1. b.rows # <<>> /\ l >= P
        BY <1>3, <2>2
      <4>2. CASE o + L >= s
        <5>1. start = most(s - L, 0)
          BY <1>3, <1>4, <1>8, <4>2
        <5>2. s \in Nat /\ L \in Nat \ {0} /\ o \in Nat
          BY <1>3
        <5>3. start \in Nat /\ start <= o /\ start < s /\ s <= start + L
          BY <1>8, <2>2, <4>2, <5>1, <5>2 DEF most
        <5>4. QED
          BY <4>1, <5>3
      <4>3. CASE o + L < s
        <5>1. start = o
          BY <1>3, <1>4, <1>8, <4>3
        <5>2. QED
          BY <1>3, <4>1, <4>3, <5>1
      <4>4. QED
        BY <1>3, <4>2, <4>3
    <3>2. size = least(s - start, L)
      BY <1>3, <1>5, <3>1
    <3>3. m = size /\ m \in Nat /\ (m = s - start \/ m = L) /\ m <= s - start /\ m <= L
      <4>1. size \in Nat /\ size <= s - start /\ size <= L /\ (size = s - start \/ size = L)
        BY <1>3, <3>1, <3>2 DEF least
      <4>2. m = size
        BY <1>3, <3>1, <4>1 DEF least, most, come
      <4>3. QED
        BY <4>1, <4>2
    <3>4. ~(start > e) /\ ~(start > s)
      BY <1>3, <3>1
    <3>5. CASE start + m < s
      <4>1. t = start /\ f = start + m
        <5>1. ~(start + m >= s)
          BY <1>3, <3>1, <3>3, <3>5
        <5>2. QED
          BY <1>6, <3>4, <5>1
      <4>2. start = o /\ m = L
        BY <1>3, <3>1, <3>2, <3>3, <3>5 DEF least
      <4>3. t <= o /\ o + P <= f
        BY <1>3, <4>1, <4>2
      <4>4. QED
        BY <1>3, <4>3 DEF least
    <3>6. CASE start + m >= s
      <4>1. t = start /\ f = start + least(2 * L, (s - start) + l)
        <5>1. ~(start + m < s)
          BY <1>3, <3>1, <3>3, <3>6
        <5>2. QED
          BY <1>6, <3>1, <3>4, <5>1
      <4>2. f = start + 2 * L \/ f = s + l
        BY <1>3, <3>1, <4>1 DEF least
      <4>3. start + m = s /\ m <= L /\ s <= start + L
        BY <1>3, <3>1, <3>3, <3>6
      <4>4. o + P <= start + 2 * L /\ o + P <= s + l
        BY <1>3, <1>8, <3>1, <4>3
      <4>5. t <= o /\ o + P <= f
        BY <3>1, <4>1, <4>2, <4>4
      <4>6. QED
        BY <1>3, <4>5 DEF least
    <3>7. QED
      BY <1>3, <3>1, <3>3, <3>5, <3>6
  <2>3. QED
    BY <2>1, <2>2
<1>9. QED
  BY <1>3, <1>7, <1>8

\* The page that begins where the view stands is displayed, as far as there are
\* rows.
Full(w, v, n) ==
    \A k \in 1..PageSize : w.offset + k <= n =>
        w.shown[k] = [version |-> v, pos |-> w.offset + k - 1]

Seen(g) ==
    /\ Reflects(g.view, g.buffer, g.version, g.view.offset)
    /\ Offset(g.view.offset, g.total)

\* A are the requests that brought rows.
Numbered(g, e, A) ==
    /\ g.processingRequest # None => g.processingRequest = Len(e.query)
    /\ A \subseteq 1..Len(e.query) /\ g.processingRequest \notin A

\* What is fetched, or will be next, are the rows around those displayed; or what
\* is fetched is of an older table.
Aims(g, e) ==
    g.processingRequest # None =>
        \/ g.unprocessedRequest = g.view.offset
        \/ /\ g.unprocessedRequest = NoWish
           /\ \/ e.query[g.processingRequest] = asked(g, g.view.offset)
              \/ e.query[g.processingRequest].version # g.version

Settled(g, e, A) ==
    g.processingRequest = None /\ Len(e.query) \in A /\ g.buffer.rows # <<>> =>
        Full(g.view, g.version, g.total)

SettledInv ==
    /\ PlacedInv /\ Numbered(grid, engine, applied)
    /\ ~disturbed =>
          /\ Seen(grid)
          /\ ~scrolled => grid.view.offset = scrollTop
          /\ ~strayed => Aims(grid, engine) /\ Settled(grid, engine, applied)

LEMMA CoveredFull ==
    ASSUME NEW w, NEW b, NEW v, NEW n \in Nat, Window(b, v, n), w.offset \in Nat,
           Reflects(w, b, v, w.offset), Covers(b, w.offset, n)
    PROVE  Full(w, v, n)
<1>1. PICK o, s, e : o = w.offset /\ s = b.startPos /\ e = endPos(b)
  OBVIOUS
<1>2. o \in Nat /\ s \in Nat /\ e \in Nat /\ PageSize \in Nat /\ s <= o /\ least(o + PageSize, n) <= e
  BY <1>1, BufferAssumption DEF Window, Run, endPos, Covers
<1>3. ASSUME NEW k \in 1..PageSize, o + k <= n
      PROVE  k \in Table /\ o + k - 1 >= s /\ o + k - 1 < e
  BY <1>2, <1>3 DEF Table, least
<1>4. QED
  BY <1>1, <1>3 DEF Full, Reflects

LEMMA SatisfiedFull ==
    ASSUME NEW g, g.total \in Nat, Window(g.buffer, g.version, g.total), Seen(g),
           satisfied(g, g.view.offset)
    PROVE  Full(g.view, g.version, g.total)
<1>1. PICK w, b, v, n : w = g.view /\ b = g.buffer /\ v = g.version /\ n = g.total
  OBVIOUS
<1>2. /\ n \in Nat /\ Window(b, v, n) /\ w.offset \in Nat /\ Reflects(w, b, v, w.offset)
      /\ isInRange(b, w.offset)
  BY <1>1 DEF Seen, Offset, satisfied
<1>3. Covers(b, w.offset, n)
  <2>1. PICK o, e : o = w.offset /\ e = endPos(b)
    OBVIOUS
  <2>2. o \in Nat /\ e \in Nat /\ PageSize \in Nat /\ b.startPos <= o /\ o + PageSize <= e
    BY <1>2, <2>1, BufferAssumption DEF Window, Run, endPos, isInRange
  <2>3. least(o + PageSize, n) <= e
    BY <1>2, <2>2 DEF least
  <2>4. QED
    BY <2>1, <2>2, <2>3 DEF Covers
<1>4. QED
  BY <1>1, <1>2, <1>3, CoveredFull

\* A page that was well inside the buffer is whole, and not drawn again.
LEMMA WholeStays ==
    ASSUME NEW w, NEW b, NEW v, NEW n \in Nat, Window(b, v, n), Pictured(w, v),
           Reflects(w, b, v, w.offset), b.startPos < w.offset, w.offset + PageSize < endPos(b),
           NEW c, NEW y, y = bufferChanged(w, c)
    PROVE  Full(y, v, n)
<1>1. PICK o, s, e : o = w.offset /\ s = b.startPos /\ e = endPos(b)
  OBVIOUS
<1>2. /\ o \in Nat /\ s \in Nat /\ e \in Nat /\ PageSize \in Nat \ {0}
      /\ s < o /\ o + PageSize < e
  BY <1>1, BufferAssumption DEF Window, Run, endPos, Pictured
<1>3. ASSUME NEW k \in Table
      PROVE  /\ w.shown[k] = [version |-> v, pos |-> o + k - 1]
             /\ w.shown[k] # Blank
  <2>1. k \in Nat /\ o + k - 1 >= s /\ o + k - 1 < e
    BY <1>2 DEF Table
  <2>2. w.shown[k] = [version |-> v, pos |-> o + k - 1]
    BY <1>1, <2>1 DEF Reflects
  <2>3. o + k - 1 # -1
    BY <1>2, <2>1
  <2>4. QED
    BY <2>2, <2>3 DEF Blank
<1>4. 1 \in Table /\ \A k \in 1..PageSize : k \in Table
  BY <1>2 DEF Table
<1>5. ~w.isBlank /\ w.lastRowPos # -1 /\ w.lastRowPos \in {-1, o}
  BY <1>1, <1>3, <1>4 DEF Pictured, Shows
<1>6. w.lastRowPos = o /\ ~w.isPartialBlank
  <2>1. w.lastRowPos = o
    BY <1>5
  <2>2. ~(e <= o + PageSize \/ s > o)
    BY <1>2
  <2>3. QED
    BY <1>1, <1>5, <2>1, <2>2 DEF Reflects
<1>7. y = w
  BY <1>1, <1>5, <1>6 DEF bufferChanged, refreshContents
<1>8. QED
  BY <1>1, <1>3, <1>4, <1>7 DEF Full

\* What fetchBuffer makes of a wish.
LEMMA FetchedAims ==
    ASSUME NEW g, NEW e, NEW p, NEW h, NEW f, Clocked(g, e), Engine(e), Fetched(g, e, p, h, f)
    PROVE  \/ satisfied(g, p) /\ h = g /\ f = e
           \/ g.processingRequest # None /\ h.processingRequest # None /\ h.unprocessedRequest = p
           \/ /\ g.processingRequest = None /\ h.processingRequest # None
              /\ h.unprocessedRequest = g.unprocessedRequest
              /\ f.query[h.processingRequest] = asked(h, p)
<1>1. CASE Asks(g, e, p, h, f)
  <2>1. /\ SameRows(g, h) /\ h.processingRequest = Len(e.query) + 1
        /\ h.unprocessedRequest = g.unprocessedRequest /\ h.processingRequest # None
    BY <1>1, AsksWhat
  <2>2. PICK q : q = asked(g, p)
    OBVIOUS
  <2>3. Sent(e, q, f) /\ mayStillSend(e) /\ g.processingRequest = None
    BY <1>1, <2>2 DEF Asks
  <2>4. f.query[Len(e.query) + 1] = q
    BY <2>3, OneRequestMore
  <2>5. asked(h, p) = asked(g, p)
    BY <2>1, AskedAlike
  <2>6. QED
    BY <2>1, <2>2, <2>3, <2>4, <2>5
<1>2. CASE Waits(g, e, p, h, f)
  <2>1. g.processingRequest # None /\ h = [g EXCEPT !.unprocessedRequest = p]
    BY <1>2 DEF Waits
  <2>2. h.processingRequest = g.processingRequest /\ h.unprocessedRequest = p
    BY <2>1, WaitsWhat
  <2>3. QED
    BY <2>1, <2>2
<1>3. QED
  BY <1>1, <1>2 DEF Fetched

LEMMA FetchedNumbered ==
    ASSUME NEW g, NEW e, NEW A, Clocked(g, e), Engine(e), Numbered(g, e, A),
           NEW p, NEW h, NEW f, Fetched(g, e, p, h, f)
    PROVE  Numbered(h, f, A)
<1>3. CASE h = g /\ f = e
  BY <1>3
<1>4. CASE Waits(g, e, p, h, f)
  <2>1. f = e /\ h = [g EXCEPT !.unprocessedRequest = p]
    BY <1>4 DEF Waits
  <2>2. h.processingRequest = g.processingRequest
    BY <2>1, WaitsWhat
  <2>3. QED
    BY <2>1, <2>2 DEF Numbered
<1>5. CASE Asks(g, e, p, h, f)
  <2>1. h.processingRequest = Len(e.query) + 1
    BY <1>5, AsksWhat
  <2>2. PICK q : q = asked(g, p)
    OBVIOUS
  <2>3. Sent(e, q, f) /\ mayStillSend(e)
    BY <1>5, <2>2 DEF Asks
  <2>4. Len(f.query) = Len(e.query) + 1
    BY <2>3, OneRequestMore
  <2>5. Len(e.query) \in Nat
    BY DEF Engine
  <2>6. QED
    BY <2>1, <2>4, <2>5 DEF Numbered
<1>6. QED
  BY <1>3, <1>4, <1>5 DEF Fetched

\* The last wish, forgotten when it is fetched.
LEMMA ResumedNumbered ==
    ASSUME NEW g, NEW e, NEW A, Clocked(g, e), Engine(e), Numbered(g, e, A),
           NEW h, NEW f, Resumed(g, e, h, f)
    PROVE  Numbered(h, f, A)
<1>1. CASE h = g /\ f = e
  BY <1>1
<1>2. ASSUME NEW x, Fetched(g, e, g.unprocessedRequest, x, f),
             h = [x EXCEPT !.unprocessedRequest = NoWish]
      PROVE  Numbered(h, f, A)
  <2>1. PICK p, u : p = g.unprocessedRequest /\ u = NoWish
    OBVIOUS
  <2>2. Fetched(g, e, p, x, f)
    BY <1>2, <2>1
  <2>3. Numbered(x, f, A)
    BY <2>2, FetchedNumbered
  <2>4. Clocked(x, f)
    BY <2>2, FetchedKeeps
  <2>5. h = [x EXCEPT !.unprocessedRequest = u]
    BY <1>2, <2>1
  <2>6. SameRows(x, h) /\ h.processingRequest = x.processingRequest /\ h.unprocessedRequest = u
    BY <2>4, <2>5, WaitsWhat
  <2>7. QED
    BY <2>3, <2>6 DEF Numbered
<1>3. QED
  BY <1>1, <1>2 DEF Resumed

LEMMA SeenKept ==
    ASSUME NEW g, NEW h, Seen(g), SameRows(g, h)
    PROVE  Seen(h)
BY DEF Seen, SameRows

LEMMA ResumedSettles ==
    ASSUME NEW g, NEW e, NEW A, Clocked(g, e), Engine(e), g.processingRequest = None,
           g.total \in Nat, Window(g.buffer, g.version, g.total), Seen(g),
           \/ g.unprocessedRequest = g.view.offset
           \/ g.unprocessedRequest = NoWish /\ Settled(g, e, A),
           NEW h, NEW f, Resumed(g, e, h, f)
    PROVE  Aims(h, f) /\ Settled(h, f, A)
<1>1. CASE g.unprocessedRequest = NoWish
  <2>1. g.view.offset # NoWish
    BY DEF Seen, Offset, NoWish
  <2>2. h = g /\ f = e /\ Settled(g, e, A)
    BY <1>1, <2>1 DEF Resumed
  <2>3. QED
    BY <2>2 DEF Aims
<1>2. CASE g.unprocessedRequest # NoWish
  <2>1. PICK p, u : p = g.view.offset /\ u = NoWish
    OBVIOUS
  <2>2. p = g.unprocessedRequest
    BY <1>2, <2>1
  <2>3. PICK x : Fetched(g, e, p, x, f) /\ h = [x EXCEPT !.unprocessedRequest = u]
    BY <1>2, <2>1, <2>2 DEF Resumed
  <2>4. Clocked(x, f) /\ SameRows(g, x)
    BY <2>3, FetchedKeeps
  <2>5. SameRows(x, h) /\ h.processingRequest = x.processingRequest /\ h.unprocessedRequest = u
    BY <2>3, <2>4, WaitsWhat
  <2>6. SameRows(g, h) /\ h.view.offset = p
    BY <2>1, <2>4, <2>5 DEF SameRows
  <2>7. CASE satisfied(g, p) /\ x = g
    <3>1. Full(g.view, g.version, g.total)
      BY <2>1, <2>7, SatisfiedFull
    <3>2. Full(h.view, h.version, h.total) /\ h.processingRequest = None
      BY <2>5, <2>6, <2>7, <3>1 DEF SameRows
    <3>3. QED
      BY <3>2 DEF Aims, Settled
  <2>8. CASE x.processingRequest # None /\ f.query[x.processingRequest] = asked(x, p)
    <3>1. asked(h, p) = asked(x, p)
      BY <2>5, AskedAlike
    <3>2. QED
      BY <2>1, <2>5, <2>6, <2>8, <3>1 DEF Aims, Settled
  <2>9. QED
    BY <2>3, <2>7, <2>8, FetchedAims
<1>3. QED
  BY <1>1, <1>2

\* The page comes to rows that the buffer holds while others are fetched.
Strays(g, p) == satisfied(g, p) /\ g.processingRequest # None

Scrolled(g, h, p) == [h EXCEPT !.view = scrollTo(g.view, g.buffer, p)]

\* The page scrolls to p, and the rows around are fetched if they are missing.
LEMMA ScrolledSettles ==
    ASSUME NEW g, NEW e, NEW A, Clocked(g, e), Engine(e), Placed(g, e),
           Seen(g), Numbered(g, e, A),
           g.unprocessedRequest # NoWish => g.processingRequest # None,
           NEW p, Offset(p, g.total), NEW h, NEW f, Fetched(g, e, p, h, f),
           NEW k, k = Scrolled(g, h, p)
    PROVE  /\ Seen(k) /\ Numbered(k, f, A) /\ k.view.offset = p
           /\ ~Strays(g, p) => Aims(k, f) /\ Settled(k, f, A)
<1> PICK v : v = scrollTo(g.view, g.buffer, p)
  OBVIOUS
<1>1. SameRows(g, h) /\ Clocked(h, f)
  BY FetchedKeeps
<1>2. /\ k.buffer = g.buffer /\ k.version = g.version /\ k.view = v /\ k.total = g.total
      /\ k.processingRequest = h.processingRequest /\ k.unprocessedRequest = h.unprocessedRequest
  <2>1. k = [h EXCEPT !.view = v]
    BY DEF Scrolled
  <2>2. QED
    BY <1>1, <2>1, OtherFields DEF SameRows
<1>3. Reflects(v, g.buffer, g.version, p) /\ v.offset = p
  <2>1. PICK b, w, n, o : b = g.buffer /\ w = g.view /\ n = g.total /\ o = g.version
    OBVIOUS
  <2>2. /\ n \in Nat /\ Window(b, o, n) /\ Pictured(w, o) /\ p \in Nat
        /\ Reflects(w, b, o, w.offset) /\ v = scrollTo(w, b, p)
    BY <2>1 DEF Placed, Seen, Offset
  <2>3. Reflects(v, b, o, p) /\ v.offset = p
    BY <2>2, ScrolledReflects
  <2>4. QED
    BY <2>1, <2>3
<1>4. Seen(k) /\ k.view.offset = p
  BY <1>2, <1>3 DEF Seen
<1>5. Numbered(k, f, A)
  <2>1. Numbered(h, f, A)
    BY FetchedNumbered
  <2>2. QED
    BY <1>2, <2>1 DEF Numbered
<1>6. ASSUME ~Strays(g, p)
      PROVE  Aims(k, f) /\ Settled(k, f, A)
  <2>1. CASE satisfied(g, p) /\ h = g /\ f = e
    <3>1. k.processingRequest = None
      BY <1>2, <1>6, <2>1 DEF Strays
    <3>2. satisfied(k, k.view.offset)
      BY <1>2, <1>4, <2>1 DEF satisfied
    <3>3. k.total \in Nat /\ Window(k.buffer, k.version, k.total)
      BY <1>2 DEF Placed
    <3>4. Full(k.view, k.version, k.total)
      BY <1>4, <3>2, <3>3, SatisfiedFull
    <3>5. QED
      BY <3>1, <3>4 DEF Aims, Settled
  <2>2. CASE h.processingRequest # None /\ h.unprocessedRequest = p
    BY <1>2, <1>4, <2>2 DEF Aims, Settled
  <2>3. CASE /\ g.processingRequest = None /\ h.processingRequest # None
             /\ h.unprocessedRequest = g.unprocessedRequest
             /\ f.query[h.processingRequest] = asked(h, p)
    <3>1. asked(k, p) = asked(h, p)
      BY <1>1, <1>2 DEF SameRows, asked
    <3>2. QED
      BY <1>2, <1>4, <2>3, <3>1 DEF Aims, Settled
  <2>4. QED
    BY <2>1, <2>2, <2>3, FetchedAims
<1>7. QED
  BY <1>4, <1>5, <1>6

\* The rows around the page are asked for once more.
LEMMA RefetchedSettles ==
    ASSUME NEW g, NEW e, NEW A, Clocked(g, e), Engine(e), Aims(g, e), Settled(g, e, A),
           g.unprocessedRequest # NoWish => g.processingRequest # None,
           NEW p, p = g.view.offset, NEW h, NEW f, Fetched(g, e, p, h, f)
    PROVE  Aims(h, f) /\ Settled(h, f, A)
<1>1. SameRows(g, h)
  BY FetchedKeeps
<1>2. CASE h = g /\ f = e
  BY <1>2
<1>3. CASE h.processingRequest # None /\ h.unprocessedRequest = p
  BY <1>1, <1>3 DEF Aims, Settled, SameRows
<1>4. CASE /\ g.processingRequest = None /\ h.processingRequest # None
           /\ h.unprocessedRequest = g.unprocessedRequest
           /\ f.query[h.processingRequest] = asked(h, p)
  BY <1>1, <1>4 DEF Aims, Settled, SameRows
<1>5. QED
  BY <1>2, <1>3, <1>4, FetchedAims

\* The rows that request i brings are put into the buffer.
LEMMA UpdatedSettles ==
    ASSUME LargeBufferSize >= PageSize,
           NEW o, NEW e, NEW A, Clocked(o, e), Engine(e), Placed(o, e), Seen(o),
           Numbered(o, e, A), NEW i, i = o.processingRequest, i # None,
           e.query[i].version = o.version,
           NEW y, y = update(o.buffer, rowsOf(e.query[i]), e.query[i].start),
           NEW g, Ended(o, e, g), g.buffer = y, g.view = bufferChanged(o.view, y)
    PROVE  /\ Seen(g) /\ Numbered(g, e, A \union {i}) /\ g.view.offset = o.view.offset
           /\ Aims(o, e) => \/ g.unprocessedRequest = g.view.offset
                            \/ g.unprocessedRequest = NoWish /\ Settled(g, e, A \union {i})
<1>1. PICK b, v, n, w, q : /\ b = o.buffer /\ v = o.version /\ n = o.total /\ w = o.view
                           /\ q = e.query[i]
  OBVIOUS
<1>2. n \in Nat \ {0} /\ Window(b, v, n) /\ Pictured(w, v) /\ Reflects(w, b, v, w.offset)
      /\ Offset(w.offset, n)
  BY <1>1 DEF Placed, Seen
<1>3. PICK p : Offset(p, n) /\ q = asked(o, p)
  BY <1>1 DEF Placed
<1>4. ASSUME NEW r, Offset(r, n), q = asked(o, r)
      PROVE  Window(y, v, n) /\ Spans(b, q.start, come(q.size, q.start, n), y)
  BY <1>1, <1>4, UpdatedFrom
<1>5. PICK u : u = bufferChanged(w, y)
  OBVIOUS
<1>6. Window(y, v, n)
  BY <1>3, <1>4
<1>7. Reflects(u, y, v, w.offset) /\ u.offset = w.offset
  BY <1>2, <1>5, <1>6, ChangedReflects
<1>8. /\ g.buffer = y /\ g.view = u /\ g.total = n /\ g.version = v
      /\ g.processingRequest = None /\ g.unprocessedRequest = o.unprocessedRequest
  BY <1>1, <1>5 DEF Ended
<1>9. Seen(g)
  BY <1>2, <1>7, <1>8 DEF Seen
<1>10. Numbered(g, e, A \union {i})
  <2>1. i = Len(e.query) /\ A \subseteq 1..Len(e.query) /\ Len(e.query) \in Nat
    BY DEF Numbered, Engine
  <2>2. i \in 1..Len(e.query)
    BY <2>1 DEF None
  <2>3. None \notin A \union {i}
    BY <2>1, <2>2 DEF None
  <2>4. QED
    BY <1>8, <2>1, <2>2, <2>3 DEF Numbered
<1>11. ASSUME Aims(o, e)
       PROVE  \/ g.unprocessedRequest = g.view.offset
              \/ g.unprocessedRequest = NoWish /\ Settled(g, e, A \union {i})
  <2>1. CASE o.unprocessedRequest = o.view.offset
    BY <1>1, <1>7, <1>8, <2>1
  <2>2. CASE o.unprocessedRequest = NoWish /\ q = asked(o, w.offset)
    <3>1. PICK a : a = w.offset
      OBVIOUS
    <3>2. PICK start, size : start = q.start /\ size = q.size
      OBVIOUS
    <3>3. start = getFetchOffset(b, a) /\ size = getFetchSize(b, a, n)
      BY <1>1, <2>2, <3>1, <3>2 DEF asked
    <3>4. Spans(b, start, come(size, start, n), y) /\ Offset(a, n)
      BY <1>2, <1>4, <2>2, <3>1, <3>2
    <3>5. Covers(y, a, n) \/ (b.startPos < a /\ a + PageSize < endPos(b))
      BY <1>2, <1>6, <3>3, <3>4, AskedCovers
    <3>6. Full(u, v, n)
      <4>1. CASE Covers(y, a, n)
        <5>1. u.offset \in Nat /\ Reflects(u, y, v, u.offset) /\ Covers(y, u.offset, n)
          BY <1>2, <1>7, <3>1, <4>1 DEF Offset
        <5>2. QED
          BY <1>2, <1>6, <5>1, CoveredFull
      <4>2. CASE b.startPos < a /\ a + PageSize < endPos(b)
        BY <1>2, <1>5, <3>1, <4>2, WholeStays
      <4>3. QED
        BY <3>5, <4>1, <4>2
    <3>7. QED
      BY <1>8, <2>2, <3>6 DEF Settled
  <2>3. q.version = o.version
    BY <1>1
  <2>4. QED
    BY <1>1, <1>11, <2>1, <2>2, <2>3 DEF Aims
<1>12. QED
  BY <1>1, <1>7, <1>8, <1>9, <1>10, <1>11

\* The request that is processed ends without rows.
LEMMA GivenUpSettles ==
    ASSUME NEW o, NEW e, NEW A, Clocked(o, e), Engine(e), Seen(o), Numbered(o, e, A),
           o.processingRequest # None, NEW g, Ended(o, e, g), g.buffer = o.buffer, g.view = o.view
    PROVE  /\ Seen(g) /\ Numbered(g, e, A)
           /\ Aims(o, e) => \/ g.unprocessedRequest = g.view.offset
                            \/ g.unprocessedRequest = NoWish /\ Settled(g, e, A)
<1>1. /\ g.total = o.total /\ g.version = o.version
      /\ g.processingRequest = None /\ g.unprocessedRequest = o.unprocessedRequest
  BY DEF Ended
<1>2. Seen(g)
  BY <1>1 DEF Seen
<1>3. A \subseteq 1..Len(e.query) /\ Len(e.query) \notin A /\ Len(e.query) \in Nat
  BY DEF Numbered, Engine
<1>4. Numbered(g, e, A)
  BY <1>1, <1>3 DEF Numbered, None
<1>5. Settled(g, e, A)
  BY <1>3 DEF Settled
<1>6. QED
  BY <1>1, <1>2, <1>4, <1>5 DEF Aims

\* What SettledInv says of the page, of a state.
Showing(g, e, A, st) ==
    /\ Seen(g)
    /\ ~st => Aims(g, e) /\ Settled(g, e, A)

LEMMA StillUndisturbed ==
    ASSUME PlacedInv', Numbered(grid', engine', applied'),
           ~disturbed' => /\ Showing(grid', engine', applied', strayed')
                          /\ ~scrolled' => grid'.view.offset = scrollTop'
    PROVE  SettledInv'
BY DEF SettledInv, Showing

LEMMA ContentSettles ==
    ASSUME SettledInv, ~disturbed, NEW p, Offset(p, grid.total), contentAt(p), applied' = applied
    PROVE  Showing(grid', engine', applied', strayed') /\ grid'.view.offset = p
<1>1. PICK h : /\ Fetched(grid, engine, p, h, engine')
               /\ grid' = [h EXCEPT !.view = scrollTo(h.view, grid.buffer, p)]
  BY ContentWhat
<1>2. PICK g, e, f, A : g = grid /\ e = engine /\ f = engine' /\ A = applied
  OBVIOUS
<1>3. /\ Clocked(g, e) /\ Engine(e) /\ Placed(g, e) /\ Seen(g) /\ Numbered(g, e, A)
      /\ g.unprocessedRequest # NoWish => g.processingRequest # None
      /\ Offset(p, g.total) /\ Fetched(g, e, p, h, f)
  BY <1>1, <1>2 DEF SettledInv, PlacedInv, AccountsInv
<1>4. h.view = g.view
  BY <1>3, FetchedKeeps DEF SameRows
<1>5. PICK k : k = Scrolled(g, h, p)
  OBVIOUS
<1>6. grid' = k
  BY <1>1, <1>2, <1>4, <1>5 DEF Scrolled
<1>7. /\ Seen(k) /\ Numbered(k, f, A) /\ k.view.offset = p
      /\ ~Strays(g, p) => Aims(k, f) /\ Settled(k, f, A)
  BY <1>2, <1>3, <1>5, ScrolledSettles
<1>8. ~strayed' => ~Strays(g, p)
  BY <1>2 DEF contentAt, Strays
<1>9. Showing(k, f, A, strayed')
  BY <1>7, <1>8 DEF Showing
<1>10. QED
  BY <1>2, <1>6, <1>7, <1>9

LEMMA ScrollSettles ==
    ASSUME SettledInv, PlacedInv', Numbered(grid', engine', applied'),
           userScrolls \/ handleScroll \/ wheel
    PROVE  SettledInv'
<1>1. disturbed' = disturbed /\ applied' = applied
  BY DEF userScrolls, handleScroll, wheel
<1> SUFFICES ASSUME ~disturbed
             PROVE  /\ Showing(grid', engine', applied', strayed')
                    /\ ~scrolled' => grid'.view.offset = scrollTop'
  BY <1>1, StillUndisturbed
<1>2. Offset(scrollTop, grid.total) /\ (grid'.total = grid.total => Offset(scrollTop', grid.total))
  BY <1>1 DEF SettledInv, PlacedInv
<1>3. CASE userScrolls
  <2>1. /\ grid' = grid /\ engine' = engine /\ applied' = applied /\ strayed' = strayed
        /\ scrolled'
    BY <1>3 DEF userScrolls
  <2>2. Showing(grid, engine, applied, strayed)
    BY DEF SettledInv, Showing
  <2>3. QED
    BY <2>1, <2>2
<1>4. CASE handleScroll
  <2>1. PICK p : p = scrollTop
    OBVIOUS
  <2>2. contentAt(p) /\ scrollTop' = p
    BY <1>4, <2>1 DEF handleScroll
  <2>3. QED
    BY <1>1, <1>2, <2>1, <2>2, ContentSettles
<1>5. CASE wheel
  <2>1. PICK p : scrollTop' = p /\ contentAt(p)
    BY <1>5 DEF wheel
  <2>2. grid'.total = grid.total
    <3>1. PICK h : /\ Fetched(grid, engine, p, h, engine')
                   /\ grid' = [h EXCEPT !.view = scrollTo(h.view, grid.buffer, p)]
      BY <2>1, ContentWhat
    <3>2. PICK g, e, f, v : /\ g = grid /\ e = engine /\ f = engine'
                            /\ v = scrollTo(h.view, grid.buffer, p)
      OBVIOUS
    <3>3. Clocked(g, e) /\ Engine(e) /\ Fetched(g, e, p, h, f)
      BY <3>1, <3>2 DEF SettledInv, PlacedInv, AccountsInv
    <3>4. Clocked(h, f) /\ SameRows(g, h)
      BY <3>3, FetchedKeeps
    <3>5. PICK k : k = [h EXCEPT !.view = v]
      OBVIOUS
    <3>6. k.total = h.total
      BY <3>4, <3>5, OtherFields
    <3>7. QED
      BY <3>1, <3>2, <3>4, <3>5, <3>6 DEF SameRows
  <2>3. Offset(p, grid.total)
    BY <1>2, <2>1, <2>2
  <2>4. QED
    BY <1>1, <2>1, <2>3, ContentSettles
<1>6. QED
  BY <1>3, <1>4, <1>5

LEMMA ResetSettles ==
    ASSUME SettledInv, PlacedInv', Numbered(grid', engine', applied'),
           sortHandler \/ setTotalRows
    PROVE  SettledInv'
<1>1. reset
  BY DEF sortHandler, setTotalRows
<1>3. PICK e, f, k, A : e = engine /\ f = engine' /\ k = grid' /\ A = applied
  OBVIOUS
<1>4. strayed' = strayed /\ applied' = A /\ scrollTop' = 0
  BY <1>1, <1>3 DEF reset
<1> SUFFICES ASSUME ~disturbed'
             PROVE  /\ Showing(grid', engine', applied', strayed')
                    /\ grid'.view.offset = scrollTop'
  BY StillUndisturbed
<1>5. PICK g : g = resetContents(grid)
  OBVIOUS
<1>6. /\ Clocked(grid, e) /\ Engine(e) /\ Framed(grid.view) /\ Versioned(grid, e)
      /\ grid.unprocessedRequest # NoWish => grid.processingRequest # None
  BY <1>3 DEF SettledInv, PlacedInv, AccountsInv, FramedInv, Tabled
<1>7. /\ Clocked(g, e) /\ g.buffer = cleared /\ g.view = clearContents(grid.view)
      /\ g.processingRequest = grid.processingRequest
      /\ g.unprocessedRequest = grid.unprocessedRequest /\ g.version = grid.version + 1
  BY <1>5, <1>6, ResetWhat
<1>8. /\ g.view.offset = 0 /\ g.buffer.rows = <<>>
      /\ \A u : Reflects(g.view, g.buffer, u, 0)
  <2>1. PICK w : w = grid.view
    OBVIOUS
  <2>2. PICK y : y = clearContents(w)
    OBVIOUS
  <2>3. Framed(w)
    BY <1>6, <2>1
  <2>4. \A u : Reflects(y, cleared, u, y.offset) /\ y.offset = 0
    BY <2>2, <2>3, ClearedReflects
  <2>5. cleared.rows = <<>>
    BY DEF cleared
  <2>6. QED
    BY <1>7, <2>1, <2>2, <2>4, <2>5
<1>9. \A n : Offset(0, n)
  BY DEF Offset
<1>10. ASSUME g.processingRequest # None
       PROVE  e.query[g.processingRequest].version # g.version
  <2>1. g.processingRequest \in 1..Len(e.query)
    <3>1. g.processingRequest \in 0..Len(e.query) /\ g.processingRequest # 0
      BY <1>7, <1>10 DEF Clocked, None
    <3>2. Len(e.query) \in Nat
      BY <1>6 DEF Engine
    <3>3. QED
      BY <3>1, <3>2
  <2>2. PICK v, u : v = grid.version /\ u = e.query[g.processingRequest].version
    OBVIOUS
  <2>3. v \in Nat /\ u \in Nat /\ u <= v /\ g.version = v + 1
    BY <1>6, <1>7, <2>1, <2>2 DEF Versioned
  <2>4. QED
    BY <2>2, <2>3
<1>11. CASE sortHandler
  <2>1. PICK x \in fetchBuffer(g, e, 0) : leave(x)
    BY <1>3, <1>5, <1>11 DEF sortHandler
  <2>2. Fetched(g, e, 0, x.grid, x.engine)
    BY FetchCases
  <2>3. PICK p : p = g.view.offset
    OBVIOUS
  <2>4. Fetched(g, e, p, k, f)
    BY <1>3, <1>8, <2>1, <2>2, <2>3 DEF leave
  <2>5. Seen(g) /\ SameRows(g, k)
    BY <1>6, <1>7, <1>8, <1>9, <2>4, FetchedKeeps DEF Seen
  <2>6. Seen(k) /\ k.view.offset = p /\ k.buffer.rows = <<>>
    BY <1>8, <2>3, <2>5, SeenKept DEF SameRows
  <2>7. Aims(k, f)
    <3>1. ~satisfied(g, p)
      BY <1>7, <1>8, <2>3, NeverSatisfied
    <3>2. g.processingRequest = None => g.unprocessedRequest = NoWish
      BY <1>6, <1>7
    <3>3. \/ k.unprocessedRequest = p
          \/ k.unprocessedRequest = NoWish /\ f.query[k.processingRequest] = asked(k, p)
      BY <1>6, <1>7, <2>4, <3>1, <3>2, FetchedAims
    <3>4. QED
      BY <2>6, <3>3 DEF Aims
  <2>8. Settled(k, f, A)
    BY <2>6 DEF Settled
  <2>9. QED
    BY <1>3, <1>4, <1>8, <2>3, <2>6, <2>7, <2>8 DEF Showing
<1>12. CASE setTotalRows
  <2>1. PICK n \in Totals : grid' = [g EXCEPT !.total = n]
    BY <1>5, <1>12 DEF setTotalRows
  <2>2. f = e /\ g.unprocessedRequest = NoWish
    BY <1>3, <1>7, <1>12 DEF setTotalRows
  <2>3. k = [g EXCEPT !.total = n]
    BY <1>3, <2>1
  <2>4. /\ k.buffer = g.buffer /\ k.view = g.view /\ k.version = g.version
        /\ k.processingRequest = g.processingRequest
        /\ k.unprocessedRequest = g.unprocessedRequest
    BY <1>7, <2>3, OtherFields
  <2>5. Seen(k) /\ Aims(k, e) /\ Settled(k, e, A)
    BY <1>8, <1>9, <1>10, <2>2, <2>4 DEF Seen, Aims, Settled
  <2>7. QED
    BY <1>3, <1>4, <1>8, <2>2, <2>4, <2>5 DEF Showing
<1>13. QED
  BY <1>11, <1>12

LEMMA RefreshSettles ==
    ASSUME SettledInv, PlacedInv', Numbered(grid', engine', applied'),
           requestContentRefresh
    PROVE  SettledInv'
<1>1. PICK g, e, f, k, A : g = grid /\ e = engine /\ f = engine' /\ k = grid' /\ A = applied
  OBVIOUS
<1>2. /\ disturbed' = disturbed /\ scrollTop' = scrollTop /\ scrolled' = scrolled
      /\ strayed' = strayed /\ applied' = A
  BY <1>1 DEF requestContentRefresh
<1> SUFFICES ASSUME ~disturbed
             PROVE  /\ Showing(grid', engine', applied', strayed')
                    /\ ~scrolled' => grid'.view.offset = scrollTop'
  BY <1>2, StillUndisturbed
<1>3. /\ Clocked(g, e) /\ Engine(e) /\ Seen(g) /\ Numbered(g, e, A)
      /\ ~strayed => Aims(g, e) /\ Settled(g, e, A)
      /\ ~scrolled => g.view.offset = scrollTop
      /\ g.unprocessedRequest # NoWish => g.processingRequest # None
  BY <1>1 DEF SettledInv, PlacedInv, AccountsInv
<1>4. PICK x \in fetchBuffer(g, e, 0) : leave(x)
  BY <1>1 DEF requestContentRefresh
<1>5. Fetched(g, e, 0, x.grid, x.engine)
  BY FetchCases
<1>6. PICK p : p = g.view.offset
  OBVIOUS
<1>7. Fetched(g, e, p, k, f)
  BY <1>1, <1>4, <1>5, <1>6 DEF leave, requestContentRefresh
<1>8. Seen(k) /\ k.view.offset = g.view.offset
  BY <1>3, <1>7, SeenKept, FetchedKeeps DEF SameRows
<1>9. ~strayed => Aims(k, f) /\ Settled(k, f, A)
  BY <1>3, <1>6, <1>7, RefetchedSettles
<1>10. QED
  BY <1>1, <1>2, <1>3, <1>8, <1>9 DEF Showing

\* What the grid makes of the last wish once a request has ended.
LEMMA EndedSettles ==
    ASSUME NEW o, NEW e, Clocked(o, e), Engine(e), Placed(o, e), NEW g, Ended(o, e, g),
           Window(g.buffer, o.version, o.total), NEW B, Seen(g), Numbered(g, e, B),
           NEW h, NEW f, Resumed(g, e, h, f)
    PROVE  /\ Seen(h) /\ Numbered(h, f, B) /\ h.view.offset = g.view.offset
           /\ \/ g.unprocessedRequest = g.view.offset
              \/ g.unprocessedRequest = NoWish /\ Settled(g, e, B)
              => Aims(h, f) /\ Settled(h, f, B)
<1>1. /\ Clocked(g, e) /\ g.processingRequest = None
      /\ g.total \in Nat /\ Window(g.buffer, g.version, g.total)
  BY DEF Ended, Placed
<1>2. Seen(h) /\ Numbered(h, f, B) /\ h.view.offset = g.view.offset
  BY <1>1, ResumedNumbered, ResumedKeeps, SeenKept DEF SameRows
<1>3. ASSUME \/ g.unprocessedRequest = g.view.offset
             \/ g.unprocessedRequest = NoWish /\ Settled(g, e, B)
      PROVE  Aims(h, f) /\ Settled(h, f, B)
  BY <1>1, <1>3, ResumedSettles
<1>4. QED
  BY <1>2, <1>3

\* Only the numbers of the requests and what they ask for matter.
LEMMA SameQueries ==
    ASSUME NEW g, NEW e, NEW A, NEW f, f.query = e.query
    PROVE  /\ Numbered(g, e, A) => Numbered(g, f, A)
           /\ Aims(g, e) => Aims(g, f)
           /\ Settled(g, e, A) => Settled(g, f, A)
BY DEF Numbered, Aims, Settled

LEMMA AnswerSettles ==
    ASSUME LargeBufferSize >= PageSize, SettledInv, PlacedInv', Numbered(grid', engine', applied'),
           NEW i \in Requests, gridAnswer(i) \/ badAnswer(i)
    PROVE  SettledInv'
<1>1. /\ scrollTop' = scrollTop /\ scrolled' = scrolled /\ strayed' = strayed
      /\ ~disturbed' => ~disturbed /\ (gridAnswer(i) => ~unwanted(i))
  BY AnswerDisturbs
<1> SUFFICES ASSUME ~disturbed, gridAnswer(i) => ~unwanted(i)
             PROVE  /\ Showing(grid', engine', applied', strayed')
                    /\ ~scrolled' => grid'.view.offset = scrollTop'
  BY <1>1, StillUndisturbed
<1>2. PICK o, e, k, A, B : o = grid /\ e = engine /\ k = engine' /\ A = applied /\ B = applied'
  OBVIOUS
<1>3. /\ Clocked(o, e) /\ Engine(e) /\ Placed(o, e) /\ Seen(o) /\ Numbered(o, e, A)
      /\ ~strayed => Aims(o, e) /\ Settled(o, e, A)
      /\ ~scrolled => o.view.offset = scrollTop
      /\ e.ajax.state[i] = "open"
      /\ o.unprocessedRequest # NoWish => o.processingRequest # None
  BY <1>2 DEF SettledInv, PlacedInv, AccountsInv, gridAnswer, badAnswer, openRequest
<1>4. gridAnswer(i) /\ o.processingRequest # None =>
          i = o.processingRequest /\ e.query[i].version = o.version
  BY <1>2 DEF unwanted
<1>5. PICK g, h, f : /\ Ended(o, e, g) /\ Resumed(g, e, h, f) /\ h = grid' /\ Taken(f, i, k)
                     /\ Window(g.buffer, o.version, o.total) /\ Seen(g) /\ Numbered(g, e, B)
                     /\ g.view.offset = o.view.offset
                     /\ Aims(o, e) /\ Settled(o, e, A) =>
                           \/ g.unprocessedRequest = g.view.offset
                           \/ g.unprocessedRequest = NoWish /\ Settled(g, e, B)
  <2>1. CASE gridAnswer(i)
    <3>1. PICK g : g = ajaxUpdate(grid, i)
      OBVIOUS
    <3>2. \E x \in processQueuedRequest(g, engine) :
             leave([x EXCEPT !.engine.ajax = respondComplete(@, i, FALSE)])
      BY <2>1, <3>1 DEF gridAnswer
    <3>10. \E f : Resumed(g, engine, grid', f) /\ Taken(f, i, engine')
      BY <3>2, AnswerWhat
    <3>3. /\ Ended(o, e, g)
          /\ \/ /\ o.processingRequest = None /\ g.buffer = o.buffer /\ g.view = o.view
             \/ /\ o.processingRequest # None
                /\ g.buffer = UpdatedBy(i) /\ g.view = bufferChanged(o.view, UpdatedBy(i))
      BY <1>2, <1>3, <3>1, UpdateWhat
    <3>12. CASE o.processingRequest # None
      <4>1. i = o.processingRequest /\ i # None /\ e.query[i].version = o.version
        BY <1>4, <2>1, <3>12
      <4>2. PICK y : y = update(o.buffer, rowsOf(e.query[i]), e.query[i].start)
        OBVIOUS
      <4>3. UpdatedBy(i) = y
        BY <1>2, <4>1, <4>2 DEF UpdatedBy
      <4>4. g.buffer = y /\ g.view = bufferChanged(o.view, y)
        BY <3>3, <3>12, <4>3
      <4>5. B = A \union {i}
        BY <1>2, <2>1, <4>1 DEF gridAnswer
      <4>6. /\ Seen(g) /\ Numbered(g, e, B) /\ g.view.offset = o.view.offset
            /\ Aims(o, e) => \/ g.unprocessedRequest = g.view.offset
                             \/ g.unprocessedRequest = NoWish /\ Settled(g, e, B)
        BY <1>3, <3>3, <4>1, <4>2, <4>4, <4>5, UpdatedSettles
      <4>7. Window(y, o.version, o.total)
        <5>1. PICK p : Offset(p, o.total) /\ e.query[i] = asked(o, p)
          BY <1>3, <4>1 DEF Placed
        <5>2. PICK q : q = e.query[i]
          OBVIOUS
        <5>3. QED
          BY <1>3, <4>2, <5>1, <5>2, UpdatedFrom
      <4>8. QED
        BY <1>2, <3>3, <3>10, <4>4, <4>6, <4>7
    <3>13. CASE o.processingRequest = None
      <4>1. /\ g.buffer = o.buffer /\ g.view = o.view /\ g.total = o.total
            /\ g.version = o.version /\ g.processingRequest = None
            /\ g.unprocessedRequest = NoWish
        BY <1>3, <3>3, <3>13 DEF Ended
      <4>2. B = A
        BY <1>2, <2>1, <3>13 DEF gridAnswer
      <4>3. Seen(g) /\ Numbered(g, e, B) /\ Window(g.buffer, o.version, o.total)
        BY <1>3, <3>13, <4>1, <4>2 DEF Seen, Numbered, Placed
      <4>4. Settled(o, e, A) => Settled(g, e, B)
        BY <3>13, <4>1, <4>2 DEF Settled
      <4>5. QED
        BY <1>2, <3>3, <3>10, <4>1, <4>3, <4>4
    <3>14. QED
      BY <3>12, <3>13
  <2>2. CASE badAnswer(i)
    <3>1. PICK t : t = o.timeoutHandler
      OBVIOUS
    <3>2. PICK g : g = GivenUp(o, t)
      OBVIOUS
    <3>3. \E x \in processQueuedRequest(g, engine) :
             leave([x EXCEPT !.engine.ajax = respondComplete(@, i, FALSE)])
      BY <1>2, <2>2, <3>1, <3>2 DEF badAnswer, GivenUp
    <3>4. Without(o, t, g)
      BY <3>2 DEF Without
    <3>5. Ended(o, e, g) /\ g.buffer = o.buffer /\ g.view = o.view
      BY <1>3, <3>1, <3>4, EndedWithout
    <3>6. B = A
      BY <1>2, <2>2 DEF badAnswer
    <3>7. /\ Seen(g) /\ Numbered(g, e, B)
          /\ Aims(o, e) /\ Settled(o, e, A) =>
                \/ g.unprocessedRequest = g.view.offset
                \/ g.unprocessedRequest = NoWish /\ Settled(g, e, B)
      <4>1. CASE o.processingRequest # None
        BY <1>3, <3>5, <3>6, <4>1, GivenUpSettles
      <4>2. CASE o.processingRequest = None
        <5>1. /\ g.total = o.total /\ g.version = o.version /\ g.processingRequest = None
              /\ g.unprocessedRequest = NoWish
          BY <1>3, <3>5, <4>2 DEF Ended
        <5>2. Seen(g) /\ Numbered(g, e, B)
          BY <1>3, <3>5, <3>6, <4>2, <5>1 DEF Seen, Numbered
        <5>3. Settled(o, e, A) => Settled(g, e, B)
          BY <3>5, <3>6, <4>2, <5>1 DEF Settled
        <5>4. QED
          BY <5>1, <5>2, <5>3
      <4>3. QED
        BY <4>1, <4>2
    <3>8. Window(g.buffer, o.version, o.total)
      BY <1>3, <3>5 DEF Placed
    <3>9. \E f : Resumed(g, engine, grid', f) /\ Taken(f, i, engine')
      BY <3>3, AnswerWhat
    <3>10. QED
      BY <1>2, <3>5, <3>7, <3>8, <3>9
  <2>3. QED
    BY <2>1, <2>2
<1>6. /\ Seen(h) /\ Numbered(h, f, B) /\ h.view.offset = o.view.offset
      /\ Aims(o, e) /\ Settled(o, e, A) => Aims(h, f) /\ Settled(h, f, B)
  BY <1>3, <1>5, EndedSettles
<1>7. k.query = f.query
  BY <1>3, <1>5, AnsweredThen, ResumedKeeps DEF Ended
<1>8. Aims(o, e) /\ Settled(o, e, A) => Aims(h, k) /\ Settled(h, k, B)
  BY <1>6, <1>7, SameQueries
<1>9. QED
  BY <1>1, <1>2, <1>3, <1>5, <1>6, <1>8 DEF Showing

LEMMA FailureSettles ==
    ASSUME SettledInv, PlacedInv', Numbered(grid', engine', applied'),
           NEW i \in Requests, failure(i)
    PROVE  SettledInv'
<1>1. /\ disturbed' = disturbed /\ scrollTop' = scrollTop /\ scrolled' = scrolled
      /\ strayed' = strayed /\ grid' = grid /\ applied' = applied
  BY DEF failure
<1> SUFFICES ASSUME ~disturbed
             PROVE  /\ Showing(grid', engine', applied', strayed')
                    /\ ~scrolled' => grid'.view.offset = scrollTop'
  BY <1>1, StillUndisturbed
<1>2. PICK o, e, k, A : o = grid /\ e = engine /\ k = engine' /\ A = applied
  OBVIOUS
<1>3. /\ Engine(e) /\ e.ajax.state[i] = "open" /\ Showing(o, e, A, strayed)
      /\ ~scrolled => o.view.offset = scrollTop
  BY <1>2 DEF SettledInv, PlacedInv, AccountsInv, failure, openRequest, Showing
<1>4. Taken(e, i, k) \/ Refused(e, i, k)
  BY <1>2, FailureWhat
<1>5. k.query = e.query
  BY <1>3, <1>4, Answered
<1>6. Showing(o, k, A, strayed)
  BY <1>3, <1>5, SameQueries DEF Showing
<1>7. QED
  BY <1>1, <1>2, <1>3, <1>6

LEMMA TimeoutSettles ==
    ASSUME SettledInv, PlacedInv', Numbered(grid', engine', applied'),
           NEW i \in Requests, handleTimedOut(i)
    PROVE  SettledInv'
<1>1. PICK o, e, h, f, A : o = grid /\ e = engine /\ h = grid' /\ f = engine' /\ A = applied
  OBVIOUS
<1>2. /\ scrollTop' = scrollTop /\ scrolled' = scrolled /\ strayed' = strayed /\ applied' = A
      /\ ~disturbed' => ~disturbed
  BY <1>1 DEF handleTimedOut
<1> SUFFICES ASSUME ~disturbed
             PROVE  /\ Showing(grid', engine', applied', strayed')
                    /\ ~scrolled' => grid'.view.offset = scrollTop'
  BY <1>2, StillUndisturbed
<1>3. /\ Clocked(o, e) /\ Engine(e) /\ i \in o.timers
      /\ Placed(o, e) /\ Seen(o) /\ Numbered(o, e, A)
      /\ ~strayed => Aims(o, e)
      /\ ~scrolled => o.view.offset = scrollTop
  BY <1>1 DEF SettledInv, PlacedInv, AccountsInv, handleTimedOut
<1>4. i = o.processingRequest /\ i # None
  BY <1>3 DEF Clocked
<1>5. PICK g : g = GivenUp(o, i)
  OBVIOUS
<1>6. Ended(o, e, g) /\ g.buffer = o.buffer /\ g.view = o.view
  <2>1. Without(o, i, g)
    BY <1>5 DEF Without
  <2>2. QED
    BY <1>3, <1>4, <2>1, EndedWithout
<1>7. PICK x \in processQueuedRequest(g, e) : leave(x)
  BY <1>1, <1>5 DEF handleTimedOut, GivenUp
<1>8. Resumed(g, e, x.grid, x.engine)
  BY QueuedCases
<1>9. Resumed(g, e, h, f)
  BY <1>1, <1>7, <1>8 DEF leave
<1>10. /\ Seen(g) /\ Numbered(g, e, A)
       /\ Aims(o, e) => \/ g.unprocessedRequest = g.view.offset
                        \/ g.unprocessedRequest = NoWish /\ Settled(g, e, A)
  BY <1>3, <1>4, <1>6, GivenUpSettles
<1>11. Window(g.buffer, o.version, o.total)
  BY <1>3, <1>6 DEF Placed
<1>12. /\ Seen(h) /\ Numbered(h, f, A) /\ h.view.offset = o.view.offset
       /\ Aims(o, e) => Aims(h, f) /\ Settled(h, f, A)
  BY <1>3, <1>6, <1>9, <1>10, <1>11, EndedSettles
<1>13. QED
  BY <1>1, <1>2, <1>3, <1>12 DEF Showing

\* Rows go into the buffer after the last request at most, and it is processed no
\* more then.
LEMMA NextNumbered ==
    ASSUME AccountsInv, Numbered(grid, engine, applied), [Next]_vars
    PROVE  Numbered(grid', engine', applied')
<1>1. PICK o, e, h, f, A, B : /\ o = grid /\ e = engine /\ h = grid' /\ f = engine'
                              /\ A = applied /\ B = applied'
  OBVIOUS
<1>2. Clocked(o, e) /\ Engine(e) /\ Numbered(o, e, A)
  BY <1>1 DEF AccountsInv
<1>3. ASSUME NEW p, contentAt(p), applied' = applied
      PROVE  Numbered(grid', engine', applied')
  <2>1. PICK g : /\ Fetched(grid, engine, p, g, engine')
                 /\ grid' = [g EXCEPT !.view = scrollTo(g.view, grid.buffer, p)]
    BY <1>3, ContentWhat
  <2>2. PICK v : v = scrollTo(g.view, grid.buffer, p)
    OBVIOUS
  <2>3. Numbered(g, f, A) /\ Clocked(g, f)
    BY <1>1, <1>2, <2>1, FetchedNumbered, FetchedKeeps
  <2>4. h = [g EXCEPT !.view = v]
    BY <1>1, <2>1, <2>2
  <2>5. h.processingRequest = g.processingRequest
    BY <2>3, <2>4, OtherFields
  <2>6. QED
    BY <1>1, <1>3, <2>3, <2>5 DEF Numbered
<1>4. CASE userScrolls \/ handleScroll \/ wheel
  BY <1>2, <1>1, <1>3, <1>4 DEF userScrolls, handleScroll, wheel
<1>5. CASE sortHandler \/ setTotalRows \/ requestContentRefresh
  <2>1. PICK g : g = resetContents(o)
    OBVIOUS
  <2>2. Clocked(g, e) /\ g.processingRequest = o.processingRequest
    BY <1>2, <2>1, ResetWhat
  <2>3. Numbered(g, e, A) /\ B = A
    BY <1>1, <1>2, <1>5, <2>2 DEF Numbered, sortHandler, setTotalRows, requestContentRefresh,
                                  reset
  <2>4. CASE sortHandler \/ requestContentRefresh
    <3>1. PICK c \in {g, o} : \E x \in fetchBuffer(c, e, 0) : leave(x)
      BY <1>1, <2>1, <2>4 DEF sortHandler, requestContentRefresh
    <3>2. PICK x \in fetchBuffer(c, e, 0) : leave(x)
      BY <3>1
    <3>3. Fetched(c, e, 0, x.grid, x.engine)
      BY FetchCases
    <3>4. Fetched(c, e, 0, h, f)
      BY <1>1, <3>2, <3>3 DEF leave
    <3>5. Clocked(c, e) /\ Numbered(c, e, A)
      BY <1>2, <2>2, <2>3, <3>1
    <3>6. Numbered(h, f, A)
      BY <1>2, <3>4, <3>5, FetchedNumbered
    <3>7. QED
      BY <1>1, <2>3, <3>6
  <2>5. CASE setTotalRows
    <3>1. PICK n : h = [g EXCEPT !.total = n]
      BY <1>1, <2>1, <2>5 DEF setTotalRows
    <3>2. h.processingRequest = g.processingRequest
      BY <2>2, <3>1, OtherFields
    <3>3. f = e
      BY <1>1, <2>5 DEF setTotalRows
    <3>4. QED
      BY <1>1, <2>3, <3>2, <3>3 DEF Numbered
  <2>6. QED
    BY <1>5, <2>4, <2>5
<1>6. ASSUME NEW g, Ended(o, e, g), Resumed(g, e, h, f), B \subseteq A \union ({o.processingRequest} \ {None})
      PROVE  Numbered(h, f, B)
  <2>1. Clocked(g, e) /\ g.processingRequest = None
    BY <1>6 DEF Ended
  <2>2. o.processingRequest # None => o.processingRequest \in 1..Len(e.query)
    <3>1. Len(e.query) \in Nat /\ o.processingRequest \in 0..Len(e.query)
      BY <1>2 DEF Engine, Clocked
    <3>2. QED
      BY <3>1 DEF None
  <2>3. B \subseteq 1..Len(e.query)
    BY <1>2, <1>6, <2>2 DEF Numbered
  <2>4. None \notin B
    BY <2>3 DEF None
  <2>5. Numbered(g, e, B)
    BY <2>1, <2>3, <2>4 DEF Numbered
  <2>6. QED
    BY <1>2, <1>6, <2>1, <2>5, ResumedNumbered
<1>7. ASSUME NEW i \in Requests, gridAnswer(i) \/ badAnswer(i)
      PROVE  Numbered(grid', engine', applied')
  <2>1. e.ajax.state[i] = "open"
    BY <1>1, <1>7 DEF gridAnswer, badAnswer, openRequest
  <2>2. PICK g, d : Ended(o, e, g) /\ Resumed(g, e, h, d) /\ Taken(d, i, f)
    <3>1. CASE gridAnswer(i)
      <4>1. PICK g : g = ajaxUpdate(grid, i)
        OBVIOUS
      <4>2. \E x \in processQueuedRequest(g, engine) :
               leave([x EXCEPT !.engine.ajax = respondComplete(@, i, FALSE)])
        BY <3>1, <4>1 DEF gridAnswer
      <4>3. Ended(o, e, g)
        BY <1>1, <1>2, <4>1, UpdateWhat
      <4>4. QED
        BY <1>1, <4>2, <4>3, AnswerWhat
    <3>2. CASE badAnswer(i)
      <4>1. PICK t : t = o.timeoutHandler
        OBVIOUS
      <4>2. PICK g : g = GivenUp(o, t)
        OBVIOUS
      <4>3. \E x \in processQueuedRequest(g, engine) :
               leave([x EXCEPT !.engine.ajax = respondComplete(@, i, FALSE)])
        BY <1>1, <3>2, <4>1, <4>2 DEF badAnswer, GivenUp
      <4>4. Without(o, t, g)
        BY <4>2 DEF Without
      <4>5. Ended(o, e, g)
        BY <1>2, <4>1, <4>4, EndedWithout
      <4>6. QED
        BY <1>1, <4>3, <4>5, AnswerWhat
    <3>3. QED
      BY <1>7, <3>1, <3>2
  <2>3. B \subseteq A \union ({o.processingRequest} \ {None})
    <3>1. None \notin A
      BY <1>2 DEF Numbered, None
    <3>2. QED
      BY <1>1, <1>7, <3>1 DEF gridAnswer, badAnswer
  <2>4. PICK C : C = B
    OBVIOUS
  <2>5. Numbered(h, d, B)
    <3>1. \A x, y : Resumed(g, e, x, y) /\ x = h /\ y = d => Numbered(h, d, B)
      <4> SUFFICES ASSUME Resumed(g, e, h, d) PROVE Numbered(h, d, B)
        OBVIOUS
      <4>1. Clocked(g, e) /\ g.processingRequest = None
        BY <2>2 DEF Ended
      <4>2. o.processingRequest # None => o.processingRequest \in 1..Len(e.query)
        <5>1. Len(e.query) \in Nat /\ o.processingRequest \in 0..Len(e.query)
          BY <1>2 DEF Engine, Clocked
        <5>2. QED
          BY <5>1 DEF None
      <4>3. B \subseteq 1..Len(e.query)
        BY <1>2, <2>3, <4>2 DEF Numbered
      <4>4. None \notin B
        BY <4>3 DEF None
      <4>5. Numbered(g, e, B)
        BY <4>1, <4>3, <4>4 DEF Numbered
      <4>6. QED
        BY <1>2, <4>1, <4>5, ResumedNumbered
    <3>2. QED
      BY <2>2, <3>1
  <2>6. f.query = d.query
    BY <1>2, <2>1, <2>2, AnsweredThen, ResumedKeeps DEF Ended
  <2>7. QED
    BY <1>1, <2>5, <2>6, SameQueries
<1>8. ASSUME NEW i \in Requests, failure(i)
      PROVE  Numbered(grid', engine', applied')
  <2>1. e.ajax.state[i] = "open" /\ h = o /\ B = A
    BY <1>1, <1>8 DEF failure, openRequest
  <2>2. Taken(e, i, f) \/ Refused(e, i, f)
    BY <1>1, <1>8, FailureWhat
  <2>3. f.query = e.query
    BY <1>2, <2>1, <2>2, Answered
  <2>4. QED
    BY <1>1, <1>2, <2>1, <2>3, SameQueries
<1>9. ASSUME NEW i \in Requests, handleTimedOut(i)
      PROVE  Numbered(grid', engine', applied')
  <2>1. i \in o.timers /\ B = A
    BY <1>1, <1>9 DEF handleTimedOut
  <2>2. i = o.processingRequest
    BY <1>2, <2>1 DEF Clocked
  <2>3. PICK g : g = GivenUp(o, i)
    OBVIOUS
  <2>4. Without(o, i, g)
    BY <2>3 DEF Without
  <2>5. Ended(o, e, g)
    BY <1>2, <2>2, <2>4, EndedWithout
  <2>6. PICK x \in processQueuedRequest(g, e) : leave(x)
    BY <1>1, <1>9, <2>3 DEF handleTimedOut, GivenUp
  <2>7. Resumed(g, e, x.grid, x.engine)
    BY QueuedCases
  <2>8. Resumed(g, e, h, f)
    BY <1>1, <2>6, <2>7 DEF leave
  <2>9. B \subseteq A \union ({o.processingRequest} \ {None})
    <3>1. None \notin A
      BY <1>2 DEF Numbered, None
    <3>2. QED
      BY <2>1, <3>1
  <2>10. Numbered(h, f, B)
    BY <1>6, <2>5, <2>8, <2>9
  <2>11. QED
    BY <1>1, <2>10
<1>10. CASE UNCHANGED vars
  BY <1>10 DEF vars
<1>11. QED
  BY <1>4, <1>5, <1>7, <1>8, <1>9, <1>10 DEF Next

LEMMA InitSettles ==
    ASSUME LargeBufferSize >= PageSize
    PROVE  Init => SettledInv
<1> SUFFICES ASSUME Init PROVE SettledInv
  OBVIOUS
<1>1. PICK n, p, g, e : Begun(n, p, g, e)
  BY InitWhat
<1>2. /\ Clocked(g, e) /\ Engine(e) /\ g.unprocessedRequest = NoWish /\ Len(e.query) = 0
      /\ g.buffer = cleared /\ g.view = scrollTo(emptyView, cleared, p)
      /\ g.total = n /\ g.version = 0 /\ g.processingRequest = None
  BY <1>1, NewGridWhat, NewEngineWhat DEF Begun
<1>3. n \in Nat \ {0}
  BY <1>1, GridAssumption DEF Begun
<1>4. p \in Nat /\ Offset(p, n)
  <2>1. p \in 0..scrollMax(n)
    BY <1>1 DEF Begun
  <2>2. QED
    BY <1>3, <2>1, BufferAssumption DEF Offset, scrollMax, most
<1>5. PICK b, u, v : b = cleared /\ u = emptyView /\ v = scrollTo(u, b, p)
  OBVIOUS
<1>6. Window(b, 0, n) /\ b.startPos = 0 /\ endPos(b) = 0 /\ b.rows = <<>>
  BY <1>3, <1>5, EmptyWindow DEF cleared, endPos
<1>7. Pictured(u, 0) /\ u.offset = 0 /\ u.lastRowPos = -1
  BY <1>5 DEF emptyView, Pictured, Shows
<1>8. Reflects(u, b, 0, u.offset)
  <2>1. ASSUME NEW k \in Table PROVE ~(0 + k - 1 >= b.startPos /\ 0 + k - 1 < endPos(b))
    <3>1. k \in Nat \ {0}
      BY BufferAssumption DEF Table
    <3>2. QED
      BY <1>6, <3>1
  <2>2. QED
    BY <1>7, <2>1 DEF Reflects
<1>9. Reflects(v, b, 0, p) /\ v.offset = p
  BY <1>3, <1>4, <1>5, <1>6, <1>7, <1>8, ScrolledReflects
<1>10. Seen(g) /\ g.view.offset = p
  BY <1>2, <1>4, <1>5, <1>9 DEF Seen
<1>11. Numbered(g, e, {}) /\ Aims(g, e) /\ Settled(g, e, {})
  BY <1>2, <1>5, <1>6 DEF Numbered, Aims, Settled
<1>12. /\ Seen(grid) /\ grid.view.offset = p /\ Numbered(grid, engine, {})
       /\ Aims(grid, engine) /\ Settled(grid, engine, {})
  <2>1. CASE grid = g /\ engine = e
    BY <1>10, <1>11, <2>1
  <2>2. CASE Fetched(g, e, p, grid, engine)
    <3>1. PICK h, f : h = grid /\ f = engine
      OBVIOUS
    <3>2. Fetched(g, e, p, h, f)
      BY <2>2, <3>1
    <3>3. SameRows(g, h) /\ Numbered(h, f, {})
      BY <1>2, <1>11, <3>2, FetchedKeeps, FetchedNumbered
    <3>4. Seen(h) /\ h.view.offset = p
      BY <1>10, <3>3, SeenKept DEF SameRows
    <3>5. Aims(h, f) /\ Settled(h, f, {})
      BY <1>2, <1>10, <1>11, <3>2, RefetchedSettles
    <3>6. QED
      BY <3>1, <3>3, <3>4, <3>5
  <2>3. QED
    BY <1>1, <2>1, <2>2 DEF Begun
<1>13. scrollTop = p /\ applied = {}
  BY <1>1 DEF Begun, Init
<1>14. QED
  BY <1>12, <1>13, InitPlaced DEF SettledInv

LEMMA NextSettles ==
    ASSUME LargeBufferSize >= PageSize
    PROVE  SettledInv /\ [Next]_vars => SettledInv'
<1> SUFFICES ASSUME SettledInv, [Next]_vars PROVE SettledInv'
  OBVIOUS
<1>1. PlacedInv'
  BY NextPlaced DEF SettledInv
<1>10. Numbered(grid', engine', applied')
  BY NextNumbered DEF SettledInv, PlacedInv
<1>2. CASE UNCHANGED vars
  BY <1>1, <1>2, <1>10 DEF vars, SettledInv
<1>3. CASE userScrolls \/ handleScroll \/ wheel
  BY <1>1, <1>10, <1>3, ScrollSettles
<1>4. CASE sortHandler \/ setTotalRows
  BY <1>1, <1>10, <1>4, ResetSettles
<1>5. CASE requestContentRefresh
  BY <1>1, <1>10, <1>5, RefreshSettles
<1>6. ASSUME NEW i \in Requests, gridAnswer(i) \/ badAnswer(i) PROVE SettledInv'
  BY <1>1, <1>10, <1>6, AnswerSettles
<1>7. ASSUME NEW i \in Requests, failure(i) PROVE SettledInv'
  BY <1>1, <1>10, <1>7, FailureSettles
<1>8. ASSUME NEW i \in Requests, handleTimedOut(i) PROVE SettledInv'
  BY <1>1, <1>10, <1>8, TimeoutSettles
<1>9. QED
  BY <1>2, <1>3, <1>4, <1>5, <1>6, <1>7, <1>8 DEF Next

\* If a page of rows is fetched at least, the page shows what the scroller points
\* at once the grid is at rest and the last request brought rows: the wish that
\* waited is fetched, an answer is displayed, and a page that is not drawn again
\* was complete (rico.js:2167-2203, 2389-2408, 2434-2439).  Excepted are a grid
\* that was disturbed and scrolling back to rows the next answer replaces
\* (strayed), as in ViewSettles.
THEOREM ViewShowsWhatIsWanted ==
    ASSUME LargeBufferSize >= PageSize
    PROVE  Spec => []ViewSettles
<1>1. SettledInv => ViewSettles
  <2> SUFFICES ASSUME SettledInv, ~disturbed, ~strayed, ~scrolled,
                      grid.processingRequest = None, Len(engine.query) \in applied,
                      grid.buffer.rows # <<>>,
                      NEW k \in 1..PageSize, scrollTop + k <= grid.total
               PROVE  grid.view.shown[k] = [version |-> grid.version, pos |-> scrollTop + k - 1]
    BY DEF ViewSettles
  <2>1. Settled(grid, engine, applied) /\ grid.view.offset = scrollTop
    BY DEF SettledInv
  <2>2. Full(grid.view, grid.version, grid.total)
    BY <2>1 DEF Settled
  <2>3. QED
    BY <2>1, <2>2 DEF Full
<1>2. SettledInv /\ [Next]_vars => SettledInv'
  BY NextSettles
<1>3. QED
  BY InitSettles, <1>1, <1>2, PTL DEF Spec

=============================================================================
