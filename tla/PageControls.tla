---------------------------- MODULE PageControls ----------------------------
(***************************************************************************)
(* What a visitor handles on two pages of apps/web: in the settings the    *)
(* time zone (Combobox) and the roles (TagInput), in the library the files *)
(* dragged over the page, with the notice of the connection beside it.     *)
(*                                                                         *)
(* React renders between two events of the visitor, so that a handler sees *)
(* the state the last one left.                                            *)
(***************************************************************************)
EXTENDS Integers, FiniteSets, Sequences, SequencesExt, FiniteSetsExt, Functions

CONSTANTS
    Zones,        \* the options of the combobox, its empty one first
    Found,        \* per query, the options it finds, in their order
    Texts,        \* what can be typed in the field of the tags
    Trimmed,      \* per text, the text without the blanks around it
    NoText,
    SavedRoles,   \* roles a profile may come with
    TagLimit,     \* PROFILE_ROLES_MAX
    MaxDepth      \* bound: elements entered and not left

ASSUME PageControlsAssumption ==
    /\ Zones \in Seq(Range(Zones)) /\ Zones # <<>>
    /\ Found \in [DOMAIN Found -> Seq(DOMAIN Zones)]
    /\ \E q \in DOMAIN Found : Found[q] = [i \in DOMAIN Zones |-> i]
    /\ NoText \in Texts /\ Trimmed \in [Texts -> Texts] /\ Trimmed[NoText] = NoText
    /\ TagLimit \in Nat /\ MaxDepth \in Nat
    /\ \A r \in SavedRoles : r \in Seq(Texts) /\ Len(r) <= TagLimit /\ IsInjective(r)

VARIABLES
    place,   \* the page: settings or library
    menu,    \* the combobox: its value, open, query and active (from 0)
    tags,    \* value and draft of the TagInput
    drag,    \* the pointer with what it carries, over what, and PageDropOverlay
    link     \* status of the events, and what ConnectionIndicator shows of it

controlVars == <<place, menu, tags, drag, link>>

Queries == DOMAIN Found
LinkStatuses == {"connecting", "connected", "reconnecting", "offline"}
Elements == {"page", "zone"}
Given == {"zone", "page"}    \* a drop the window has not heard of yet
NoDrag == [at |-> "nowhere", files |-> FALSE, under |-> <<>>, depth |-> 0, covered |-> FALSE,
           over |-> FALSE, zone |-> TRUE, taken |-> 0]

PageControlsTypeOK ==
    /\ place \in {"settings", "library"}
    /\ menu \in [value: DOMAIN Zones, open: BOOLEAN, query: Queries, active: -1 .. Len(Zones) - 1]
    /\ tags.value \in Seq(Texts) /\ tags.draft \in Texts
    /\ drag.at \in {"nowhere", "window", "dropped"} \cup Given
    /\ drag.under \in Seq(Elements) /\ drag.depth \in Nat /\ drag.taken \in 0 .. 2
    /\ {drag.files, drag.covered, drag.over, drag.zone} \subseteq BOOLEAN
    /\ link \in [status: LinkStatuses, shown: LinkStatuses, timer: BOOLEAN]

\* The query nothing was typed for finds every option.
NoQuery == CHOOSE q \in Queries : Found[q] = [i \in DOMAIN Zones |-> i]

PageControlsInit ==
    /\ place \in {"settings", "library"}
    /\ menu = [value |-> 1, open |-> FALSE, query |-> NoQuery, active |-> 0]
    /\ tags = [value |-> <<>>, draft |-> NoText]
    /\ drag = NoDrag
    /\ link = [status |-> "connecting", shown |-> "connecting", timer |-> FALSE]

Only(p) == place = p /\ UNCHANGED place
-----------------------------------------------------------------------------
(* Combobox *)

Listed == Found[menu.query]
Closed(m) == [m EXCEPT !.open = FALSE, !.query = NoQuery]
\* show puts the highlight on the option chosen last.
Opened == [menu EXCEPT !.open = TRUE, !.query = NoQuery, !.active = menu.value - 1]
\* choose: the option, or none where the highlight is on nothing.
Chosen(i) == Closed(IF i \in DOMAIN Listed THEN [menu EXCEPT !.value = Listed[i]] ELSE menu)

Arrow(step) ==
    menu' = IF ~menu.open THEN Opened
            ELSE [menu EXCEPT !.active = Min({Len(Listed) - 1, Max({0, @ + step})})]
PressEnter == menu.open /\ menu' = Chosen(menu.active + 1)
LeaveField == menu' = Closed(menu)    \* Escape, or onBlur

\* onChange of the input
Search(q) == menu' = [menu EXCEPT !.query = q, !.active = 0, !.open = TRUE]
Hover(i) ==
    /\ menu.open /\ i \in DOMAIN Listed
    /\ menu' = [menu EXCEPT !.active = i - 1]
Point(i) == menu.open /\ i \in DOMAIN Listed /\ menu' = Chosen(i)
ClickField == menu' = IF menu.open THEN menu ELSE Opened

UseCombobox ==
    /\ Only("settings")
    /\ \/ Arrow(1) \/ Arrow(-1) \/ PressEnter
       \/ \E q \in Queries : Search(q)
       \/ \E i \in DOMAIN Zones : Hover(i) \/ Point(i)
       \/ ClickField \/ LeaveField
    /\ UNCHANGED <<tags, drag, link>>
-----------------------------------------------------------------------------
(* TagInput *)

\* add: a new text, while there is room; the draft goes either way.
Add ==
    LET tag == Trimmed[tags.draft]
        new == tag # NoText /\ tag \notin Range(tags.value) /\ Len(tags.value) < TagLimit
    IN  tags' = [value |-> IF new THEN Append(tags.value, tag) ELSE tags.value, draft |-> NoText]

\* Typing, Enter, a comma, Backspace and leaving: the input is disabled when
\* the list is full.
TypeTag ==
    /\ Len(tags.value) < TagLimit
    /\ \/ \E t \in Texts : tags' = [tags EXCEPT !.draft = t]
       \/ Add
       \/ /\ tags.draft = NoText /\ tags.value # <<>>
          /\ tags' = [tags EXCEPT !.value = Front(@)]

RemoveTag(i) == i \in DOMAIN tags.value /\ tags' = [tags EXCEPT !.value = RemoveAt(@, i)]
\* The form takes the profile anew; what is being typed stays.
ReloadTags(r) == tags' = [tags EXCEPT !.value = r]

UseTags ==
    /\ Only("settings")
    /\ TypeTag \/ (\E i \in DOMAIN tags.value : RemoveTag(i)) \/ (\E r \in SavedRoles : ReloadTags(r))
    /\ UNCHANGED <<menu, drag, link>>
-----------------------------------------------------------------------------
(* MediaDropzone and PageDropOverlay.  The browser enters the next element *)
(* before it leaves the last one; an element that was taken off the page   *)
(* hears no dragleave that reaches the window.                             *)

StartDrag ==
    /\ drag.at \in {"nowhere", "dropped"}
    /\ \E f \in BOOLEAN :
          drag' = [drag EXCEPT !.at = "window", !.files = f, !.under = <<>>, !.taken = 0]

Enter(e) ==
    /\ drag.at = "window" /\ Len(drag.under) < 2 /\ e \notin Range(drag.under)
    /\ e = "zone" => drag.zone
    /\ drag.depth < MaxDepth
    /\ drag' = [drag EXCEPT !.under = Append(@, e),
                            !.depth = IF drag.files THEN @ + 1 ELSE @,
                            !.covered = @ \/ drag.files]

HoverZone ==
    /\ drag.at = "window" /\ drag.under # <<>> /\ Last(drag.under) = "zone"
    /\ drag' = [drag EXCEPT !.over = TRUE]

LeaveElement ==
    LET depth == IF drag.files THEN Max({0, drag.depth - 1}) ELSE drag.depth
    IN  /\ drag.at = "window" /\ drag.under # <<>>
        /\ drag' = [drag EXCEPT !.under = Tail(@), !.depth = depth,
                                !.covered = IF drag.files /\ depth = 0 THEN FALSE ELSE @,
                                !.over = @ /\ Head(drag.under) # "zone"]

Abandon == drag.at = "window" /\ drag.under = <<>> /\ drag' = [drag EXCEPT !.at = "nowhere"]

\* The library has its first item, or loses its last: the large zone goes or comes.
ZoneComesOrGoes ==
    drag' = [drag EXCEPT !.zone = ~@, !.over = FALSE,
                         !.under = IF "page" \in Range(@) THEN <<"page">> ELSE <<>>]

\* A drop is heard by the zone under it first, then by the window.
Drop ==
    /\ drag.at = "window" /\ Len(drag.under) = 1
    /\ drag' = [drag EXCEPT !.at = Head(drag.under), !.over = FALSE,
                            !.taken = IF Head(drag.under) = "zone" /\ drag.files THEN @ + 1 ELSE @]

\* Mutant: the window does not ask where the files fell.
WindowHearsAny ==
    /\ drag.at \in Given
    /\ drag' = IF drag.files
               THEN [drag EXCEPT !.at = "dropped", !.depth = 0, !.covered = FALSE, !.taken = @ + 1]
               ELSE [drag EXCEPT !.at = "dropped"]

\* onDrop of the window; the zone may have left the page since, with the label
\* its target lies in.
WindowHears ==
    /\ drag.at \in Given
    /\ drag' = IF drag.files
               THEN [drag EXCEPT !.at = "dropped", !.depth = 0, !.covered = FALSE,
                                 !.taken = IF drag.at = "zone" THEN @ ELSE @ + 1]
               ELSE [drag EXCEPT !.at = "dropped"]

DragFiles ==
    /\ Only("library")
    /\ \/ StartDrag \/ HoverZone \/ LeaveElement \/ Abandon \/ ZoneComesOrGoes \/ Drop \/ WindowHears
       \/ \E e \in Elements : Enter(e)
    /\ UNCHANGED <<menu, tags, link>>
-----------------------------------------------------------------------------
(* ConnectionIndicator *)

Calm == {"connecting", "connected"}

\* setStatus of the events; "offline" lasts until a connection is made.
StatusChanges(s) ==
    /\ s # link.status
    /\ ~(link.status = "offline" /\ s = "reconnecting")
    /\ link' = [status |-> s, shown |-> IF s \in Calm THEN s ELSE link.shown, timer |-> s \notin Calm]

ShowStatus == link.timer /\ link' = [link EXCEPT !.shown = link.status, !.timer = FALSE]

WatchConnection ==
    /\ Only("library")
    /\ ShowStatus \/ (\E s \in LinkStatuses : StatusChanges(s))
    /\ UNCHANGED <<menu, tags, drag>>

PageControlsNext == UseCombobox \/ UseTags \/ DragFiles \/ WatchConnection

PageControlsSpec == PageControlsInit /\ [][PageControlsNext]_controlVars
-----------------------------------------------------------------------------
\* Enter and aria-activedescendant never point beside the options on display.
HighlightIsListed ==
    menu.open /\ Listed # <<>> => menu.active + 1 \in DOMAIN Listed

\* However roles are typed, removed and reloaded, none is there twice and no
\* more than the API takes.
RolesAreTakeable == IsInjective(tags.value) /\ Len(tags.value) <= TagLimit

\* What ConnectionIndicator shows is the status, or will be.
NoticeCatchesUp == link.shown = link.status \/ link.timer

\* Two handlers hear of a drop, the zone's and the window's, and files are
\* enqueued by exactly one; the other controls take what they display.
InputIsTakenOnce ==
    /\ drag.at = "dropped" /\ drag.files => drag.taken = 1
    /\ HighlightIsListed /\ RolesAreTakeable /\ NoticeCatchesUp
=============================================================================
