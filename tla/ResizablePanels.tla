-------------------------- MODULE ResizablePanels --------------------------
(***************************************************************************)
(* Two panels with a handle between them (components/                      *)
(* ResizablePanels.svelte, used by routes/LogViewer.svelte): the share of  *)
(* the first one, in percent, follows the mouse, a finger or the arrow     *)
(* keys and is kept in the browser's storage under one key.  The listeners *)
(* of a drag are on the document: they outlive the component.              *)
(***************************************************************************)
EXTENDS Integers, FiniteSetsExt

CONSTANTS
  Positions,     \* where the pointer may be, in percent of the container
  Stored,        \* what may be stored when the page is opened
  defaultSize, minSize, Step,
  None,
  LeaveWhileDragging   \* is the page left while the handle is held?

PanelsAssumption ==
  /\ Positions \subseteq Int /\ Stored \subseteq Int
  /\ minSize \in 0..50 /\ defaultSize \in minSize..(100 - minSize) /\ Step \in Nat
  /\ LeaveWhileDragging \in BOOLEAN

VARIABLES
  saved,         \* localStorage's panel-size-<storageKey>
  leftSize,
  isDragging,
  mouse, touch,  \* the listeners of each kind on the document
  finger,        \* where the finger went down: "up" when there is none
  left           \* the size a component that is gone will save when its drag ends; None

vars == <<saved, leftSize, isDragging, mouse, touch, finger, left>>

Bounded == minSize..(100 - minSize)
\* what a component that is mounted finds
LoadedSize(s) == IF s \in Bounded THEN s ELSE defaultSize
Clamp(size) == Max({minSize, Min({100 - minSize, size})})

Init ==
  /\ saved \in Stored \cup {-1}            \* -1: nothing that can be read as a number
  /\ leftSize = LoadedSize(saved)
  /\ isDragging = FALSE /\ mouse = FALSE /\ touch = FALSE /\ finger = "up" /\ left = None

HandleMouseDown ==
  /\ mouse' = TRUE /\ isDragging' = TRUE
  /\ UNCHANGED <<saved, leftSize, touch, finger, left>>

HandleTouchStart ==
  /\ finger = "up" /\ finger' = "handle"
  /\ touch' = TRUE /\ isDragging' = TRUE
  /\ UNCHANGED <<saved, leftSize, mouse, left>>

\* a finger that does not touch the handle
TouchElsewhere ==
  /\ finger = "up" /\ finger' = "elsewhere"
  /\ UNCHANGED <<saved, leftSize, isDragging, mouse, touch, left>>

\* updateSize, of a mouse and of a finger; which finger is not looked at
UpdateSize(position) ==
  /\ isDragging /\ leftSize' = Clamp(position)
  /\ UNCHANGED <<saved, isDragging, mouse, touch, finger, left>>
HandleMouseMove(position) == mouse /\ UpdateSize(position)
HandleTouchMove(position) == touch /\ finger # "up" /\ UpdateSize(position)

\* saveSize, by whichever component listens
SaveSize == saved' = leftSize

HandleMouseUp ==
  /\ mouse /\ mouse' = FALSE /\ isDragging' = FALSE /\ SaveSize
  /\ UNCHANGED <<leftSize, touch, finger, left>>

\* the end of a drag that is not saved
TouchEndOnly ==
  /\ finger # "up" /\ finger' = "up"
  /\ IF touch THEN touch' = FALSE /\ isDragging' = FALSE /\ UNCHANGED saved
     ELSE UNCHANGED <<touch, isDragging, saved>>
  /\ UNCHANGED <<leftSize, mouse, left>>

HandleTouchEnd ==
  /\ finger # "up" /\ finger' = "up"
  /\ IF touch THEN touch' = FALSE /\ isDragging' = FALSE /\ SaveSize
     ELSE UNCHANGED <<touch, isDragging, saved>>
  /\ UNCHANGED <<leftSize, mouse, left>>

\* touchcancel has no listener
TouchCancelled ==
  /\ finger # "up" /\ finger' = "up"
  /\ UNCHANGED <<saved, leftSize, isDragging, mouse, touch, left>>

HandleKeyDown(delta) ==
  /\ leftSize' = Clamp(leftSize + delta) /\ saved' = leftSize'
  /\ UNCHANGED <<isDragging, mouse, touch, finger, left>>

\* another route and back: a new component; the old one's listeners stay
Remount ==
  /\ left = None /\ (mouse \/ touch => LeaveWhileDragging)
  /\ left' = IF mouse \/ touch THEN leftSize ELSE None
  /\ leftSize' = LoadedSize(saved) /\ isDragging' = FALSE /\ mouse' = FALSE /\ touch' = FALSE
  /\ UNCHANGED <<saved, finger>>

LeftDragEnds ==
  /\ left # None /\ saved' = left /\ left' = None
  /\ UNCHANGED <<leftSize, isDragging, mouse, touch, finger>>

Next ==
  \/ HandleMouseDown \/ HandleTouchStart \/ TouchElsewhere
  \/ \E position \in Positions : HandleMouseMove(position) \/ HandleTouchMove(position)
  \/ HandleMouseUp \/ HandleTouchEnd \/ TouchCancelled
  \/ \E delta \in {-Step, Step} : HandleKeyDown(delta)
  \/ Remount \/ LeftDragEnds

Spec == Init /\ [][Next]_vars

-----------------------------------------------------------------------------
\* Once the handle is released, the size on the screen is the one the next visit
\* will find, and always one that leaves both panels reachable.  Not with
\* LeaveWhileDragging: the component that is gone saves its own size when the
\* button is released, over what the new one shows.
SizeKept == (~isDragging => LoadedSize(saved) = leftSize) /\ leftSize \in Bounded
=============================================================================
