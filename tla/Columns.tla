------------------------------ MODULE Columns ------------------------------
(***************************************************************************)
(* The columns of the process list.  The widget keeps which fields are     *)
(* shown, in which order and how wide, in the user interface's settings,   *)
(* which are saved whenever one changes; a header of buttons that are      *)
(* dragged, resized and clicked; a menu that switches fields on and off    *)
(* and is applied or closed; and a cache of rows, each built once with the *)
(* fields of that moment.  When the columns change the list is emptied,    *)
(* all rows are thrown away a few at a time, and a second after the last   *)
(* one the list is asked for again.  All of it happens on the main thread; *)
(* what is hard is the order in which menu, mouse, timers and list come.   *)
(***************************************************************************)
EXTENDS Integers, Sequences, FiniteSets, SequencesExt

CONSTANTS
  N,          \* fields are 1 .. N, and the first never moves
  Items,      \* the places in the list that are in sight
  CacheSize,  \* rows that are built ahead (30 in the code)
  Keep,       \* unused rows above which another one is deleted (10)
  Batch,      \* rows deleted at a time (20)
  MaxInputs   \* bound: what the user and the list's measuring do

ASSUME ColumnsAssumption ==
  /\ N \in Nat \ {0} /\ CacheSize \in Nat \ {0} /\ Keep \in Nat
  /\ Batch \in Nat \ {0} /\ MaxInputs \in Nat /\ IsFiniteSet(Items)

VARIABLES
  state,      \* whether the window is open
  mask,       \* the fields that are switched on
  order,      \* the order of all fields
  widths,     \* their widths
  saved,      \* the same in the configuration file
  enabled,    \* the fields the widget takes for shown
  header,     \* the buttons that are in the header
  menu,       \* the fields menu
  mouse,      \* the left button on a header
  ignore,     \* whether the next click on a header does not sort
  items,      \* the row in each place of the list
  listed,     \* whether the list has items
  built,      \* whether there is a cache of rows
  unused,     \* its unused rows, the next to be used first
  orphans,    \* used rows that are in no place of the list
  pending,    \* rows that are to be deleted
  timer,      \* the timer that deletes them
  deferred,   \* the timer that asks for the list
  skip,       \* whether the next list is not shown
  irregular,  \* what ever was out of the ordinary
  inputs

settings == <<mask, order, widths>>
widget == <<enabled, header>>
pointer == <<mouse, ignore>>
rows == <<items, built, unused, orphans>>
timers == <<pending, timer, deferred>>
columnsVars == <<state, settings, saved, widget, menu, pointer, rows, listed, timers,
          skip, irregular, inputs>>

-----------------------------------------------------------------------------
Fields == 1 .. N
First == 1
Movable == Fields \ {First}

(* Widths: never set, the least a field may have, the default.             *)
Widths == 0 .. 2

NoRow == [cols |-> <<>>, at |-> "none"]
NoRows == [i \in Items |-> NoRow]
NoMenu == [open |-> FALSE, snapshot |-> {}, changed |-> FALSE]
NoMouse == [at |-> "idle", field |-> First, gap |-> 0, moved |-> FALSE]

Columns == UNION {[1 .. n -> Fields] : n \in 0 .. N}
Settings == [mask : SUBSET Movable, order : [Fields -> Fields],
             widths : [Fields -> Widths]]
Menus == [open : BOOLEAN, snapshot : SUBSET Movable, changed : BOOLEAN]
Mice == [at : {"idle", "pressed", "drag", "resize", "up"}, field : Fields,
         gap : 0 .. N, moved : BOOLEAN]
Rows == [cols : Columns, at : {"none", "active", "loose"}]

ColumnsTyped ==
  /\ state \in {"open", "closed"}
  /\ mask \in SUBSET Movable
  /\ order \in [Fields -> Fields]
  /\ widths \in [Fields -> Widths]
  /\ saved \in Settings
  /\ enabled \in SUBSET Fields
  /\ header \in Columns
  /\ menu \in Menus
  /\ mouse \in Mice /\ ignore \in BOOLEAN
  /\ items \in [Items -> Rows]
  /\ listed \in BOOLEAN /\ built \in BOOLEAN
  /\ unused \in Seq(Columns) /\ orphans \in Nat
  /\ pending \in Nat /\ timer \in BOOLEAN /\ deferred \in BOOLEAN
  /\ skip \in BOOLEAN
  /\ irregular \subseteq {"made", "reset", "closed", "outside", "swallowed"}
  /\ inputs \in 0 .. MaxInputs

-----------------------------------------------------------------------------
(* The order of the fields *)

(* The fields that are shown, in their order.                              *)
Visible(ord, on) ==
  LET upTo[i \in 0 .. Len(ord)] ==
        IF i = 0 THEN <<>>
        ELSE IF ord[i] \in on THEN Append(upTo[i - 1], ord[i]) ELSE upTo[i - 1]
  IN upTo[Len(ord)]

(* What an order that was read becomes: the first field, then each that is *)
(* there the first time, then those that are not there.                    *)
Sanitized(raw) ==
  LET at == Visible([i \in Fields |-> i],
              {i \in Fields : raw[i] \in Movable /\ \A j \in 1 .. i - 1 : raw[j] # raw[i]})
      kept == [k \in DOMAIN at |-> raw[at[k]]]
  IN <<First>> \o kept
       \o Visible([f \in Fields |-> f], Movable \ {kept[k] : k \in DOMAIN kept})

Pos(ord, f) == CHOOSE i \in DOMAIN ord : ord[i] = f

(* A field taken to a position, but not before the first field.            *)
Moved(ord, f, to) ==
  LET least == IF N > 1 THEN 2 ELSE 1
      pos == IF to < least THEN least ELSE IF to > N THEN N ELSE to
  IN InsertAt(RemoveAt(ord, Pos(ord, f)), pos, f)

(* Where a field is dropped that is held over a gap between the others     *)
(* that are shown: before the one after the gap, or behind the last.       *)
DropPos(f, gap) ==
  LET others == Visible(order, enabled \ {f, First})
  IN IF gap < Len(others) THEN Pos(order, others[gap + 1])
     ELSE (IF others = <<>> THEN 2 ELSE Pos(order, Last(others))) + 1

(* Mutant of Dropped: the field's own place is not accounted for.          *)
DroppedPast(f, gap) == Moved(order, f, DropPos(f, gap))

(* The order after a drag: the places behind the field move up.            *)
Dropped(f, gap) ==
  LET to == DropPos(f, gap)
  IN Moved(order, f, IF to > Pos(order, f) THEN to - 1 ELSE to)

(* The field that is shown before another one.                             *)
Previous(f) ==
  LET before == Visible(SubSeq(order, 1, Pos(order, f) - 1), enabled)
  IN Last(before)

-----------------------------------------------------------------------------
(* Settings *)

(* Fields that are switched on, and the one that always is.                *)
Synced(m) == m \cup {First}

(* A field without a width has its default as soon as it is shown.         *)
Filled(w, on) ==
  [f \in Fields |-> IF f \in on /\ w[f] = 0 THEN 2 ELSE w[f]]

Save(m, ord, w) == saved' = [mask |-> m, order |-> ord, widths |-> w]

(* Every change of the mask, by the menu, is saved, applied or not, and    *)
(* the next list is not shown.                                             *)
Notify(m) == Save(m, order, widths) /\ skip' = TRUE

-----------------------------------------------------------------------------
(* Rows *)

(* A row has a cell for each field that is on when it is built.            *)
Cells(ord, on) == Visible(ord, on)
NewRow == Cells(order, Synced(mask))

(* Mutant of ResetRows: the rows that are not in use stay as they are.     *)
ResetRowsInUse(ord, m) ==
  /\ items' = NoRows /\ orphans' = 0 /\ listed' = FALSE
  /\ UNCHANGED <<built, unused>>
  /\ IF built THEN pending' = pending + orphans /\ timer' = TRUE
     ELSE UNCHANGED <<pending, timer>>
  /\ UNCHANGED deferred

(* The list is emptied, then all rows of the cache are to be deleted and   *)
(* new ones are built; what the cache had to delete or did not know is     *)
(* deleted at once.                                                        *)
ResetRows(ord, m) ==
  LET used == Cardinality({i \in Items : items[i].at = "active"})
      room == IF Len(unused) > Keep THEN 0 ELSE Keep + 1 - Len(unused)
      back == IF used < room THEN used ELSE room
  IN /\ items' = NoRows /\ orphans' = 0 /\ listed' = FALSE
     /\ UNCHANGED <<built, deferred>>
     /\ IF built
        THEN /\ unused' = [k \in 1 .. CacheSize |-> Cells(ord, Synced(m))]
             /\ pending' = pending + Len(unused) + back + orphans
             /\ timer' = TRUE
        ELSE UNCHANGED <<unused, pending, timer>>

(* _evisum_ui_process_list_content_reset: header and rows for an order and *)
(* the mask there is, though a menu may be open that has changed it.       *)
Reset(ord) ==
  /\ enabled' = Synced(mask)
  /\ header' = Visible(ord, Synced(mask))
  /\ widths' = Filled(widths, Synced(mask))
  /\ ResetRows(ord, mask)

-----------------------------------------------------------------------------
(* The fields menu *)

Input == inputs < MaxInputs /\ inputs' = inputs + 1

(* A menu of the fields; one can be applied that differs from the file.    *)
NewMenu == [open |-> TRUE, snapshot |-> mask, changed |-> saved.mask # mask]

(* The right button on a header.                                           *)
MenuShow ==
  /\ state = "open" /\ ~menu.open /\ Input
  /\ menu' = NewMenu
  /\ enabled' = Synced(mask)
  /\ Notify(mask)
  /\ UNCHANGED <<state, settings, header, pointer, rows, listed, timers, irregular>>

(* A field is switched on or off, for the widget at once.                  *)
Toggle(f) ==
  /\ menu.open /\ Input
  /\ mask' = (mask \ {f}) \cup ({f} \ mask)
  /\ enabled' = Synced(mask')
  /\ menu' = [menu EXCEPT !.changed = saved.mask # mask']
  /\ Notify(mask')
  /\ UNCHANGED <<state, order, widths, header, pointer, rows, listed, timers,
                 irregular>>

(* The apply icon is there when something was changed.                     *)
MenuApply ==
  /\ menu.open /\ menu.changed
  /\ menu' = NoMenu
  /\ Reset(order)
  /\ UNCHANGED <<state, mask, order, saved, pointer, skip, irregular, inputs>>

(* Closed without: what was switched is as it was.                         *)
Dismiss ==
  /\ mask' = menu.snapshot /\ enabled' = Synced(menu.snapshot)
  /\ menu' = NoMenu
  /\ Notify(menu.snapshot)

(* The close icon, or the window is resized.                               *)
MenuClose ==
  /\ menu.open /\ Dismiss
  /\ UNCHANGED <<state, order, widths, header, pointer, rows, listed, timers,
                 irregular, inputs>>

-----------------------------------------------------------------------------
(* The mouse on the header *)

pointerRest == <<state, mask, saved, menu, skip, inputs>>

(* The parts of a button: its right edge resizes its field, its left edge  *)
(* the field before.                                                       *)
Held(f, part) ==
  CASE part = "right" -> [at |-> "resize", field |-> f, gap |-> 0, moved |-> TRUE]
    [] part = "left" ->
         [at |-> "resize", field |-> Previous(f), gap |-> 0, moved |-> TRUE]
    [] part = "middle" -> [at |-> "pressed", field |-> f, gap |-> 0, moved |-> FALSE]

(* The left button on one of the fields but the first.                     *)
Press(f, part) ==
  /\ state = "open" /\ mouse.at = "idle" /\ Input
  /\ f \in Movable /\ Contains(header, f)
  /\ mouse' = Held(f, part)
  /\ UNCHANGED <<state, settings, saved, widget, menu, ignore, rows, listed, timers,
                 skip, irregular>>

(* Far enough from where it was pressed it is a drag, over one gap or      *)
(* another of the other fields.                                            *)
Drag(gap) ==
  /\ mouse.at \in {"pressed", "drag"} /\ gap <= Len(header)
  /\ mouse' = [mouse EXCEPT !.at = "drag", !.gap = gap, !.moved = TRUE]
  /\ ignore' = IF mouse.at = "pressed" THEN TRUE ELSE ignore
  /\ UNCHANGED <<pointerRest, order, widths, widget, rows, listed, timers, irregular>>

(* A width that follows the mouse, but not below the least.                *)
Resize(w) ==
  /\ mouse.at = "resize"
  /\ widths' = Filled([widths EXCEPT ![mouse.field] = w], Synced(mask))
  /\ UNCHANGED <<pointerRest, order, widget, pointer, rows, listed, timers, irregular>>

Released == mouse' = [NoMouse EXCEPT !.at = "up", !.moved = mouse.moved]

(* The end of a drag: a new order is shown and saved.                      *)
Drop ==
  LET new == Dropped(mouse.field, mouse.gap) IN
  /\ mouse.at = "drag" /\ Released
  /\ IF new = order
     THEN UNCHANGED <<order, widths, saved, widget, ignore, rows, listed, timers,
                      irregular>>
     ELSE /\ order' = new /\ ignore' = TRUE
          /\ Reset(new)
          /\ Save(mask, new, widths')
          /\ irregular' = irregular \cup
               (IF menu.open /\ mask # menu.snapshot THEN {"reset"} ELSE {})
  /\ UNCHANGED <<state, mask, menu, skip, inputs>>

(* The end of a resize: the width the button has by then.                  *)
ResizeEnd(w) ==
  /\ mouse.at = "resize" /\ Released
  /\ widths' = Filled([widths EXCEPT ![mouse.field] = w], Synced(mask))
  /\ ignore' = TRUE
  /\ Save(mask, order, widths')
  /\ UNCHANGED <<state, mask, order, widget, menu, rows, listed, timers, skip,
                 irregular, inputs>>

(* Released where it was pressed.                                          *)
ReleaseInPlace ==
  /\ mouse.at = "pressed" /\ Released
  /\ UNCHANGED <<pointerRest, order, widths, widget, ignore, rows, listed, timers,
                 irregular>>

(* The button was released over the header it was pressed on, which is a   *)
(* click: it is ignored after a drag, closes the menu, or sorts the list.  *)
Click ==
  /\ mouse.at = "up" /\ mouse' = NoMouse
  /\ ignore' = FALSE
  /\ irregular' = irregular \cup
       (IF ignore /\ ~mouse.moved THEN {"swallowed"} ELSE {})
  /\ IF ignore THEN UNCHANGED <<mask, enabled, menu, saved, skip>>
     ELSE IF menu.open THEN Dismiss
     ELSE skip' = FALSE /\ UNCHANGED <<mask, enabled, menu, saved>>
  /\ UNCHANGED <<state, order, widths, header, rows, listed, timers, inputs>>

(* It was released elsewhere: there is no click to ignore, and the next    *)
(* one is ignored instead.                                                 *)
NoClick ==
  /\ mouse.at = "up" /\ mouse' = NoMouse
  /\ irregular' = irregular \cup (IF ignore THEN {"outside"} ELSE {})
  /\ UNCHANGED <<state, settings, saved, widget, menu, ignore, rows, listed, timers,
                 skip, inputs>>

-----------------------------------------------------------------------------
(* The list *)

(* The unused rows of a cache, which is built with the first that is asked *)
(* for, and the row that is taken from it: an unused or a new one.         *)
Cached == IF built THEN unused ELSE [k \in 1 .. CacheSize |-> NewRow]
Taken == IF Cached = <<>> THEN NewRow ELSE Head(Cached)
Rest == IF Cached = <<>> THEN <<>> ELSE Tail(Cached)

(* Whether a row is built for other fields than the menu was opened with.  *)
Made == IF (~built \/ Cached = <<>>) /\ menu.open /\ mask # menu.snapshot
        THEN {"made"} ELSE {}

(* A width the first field needs for a command; it only grows.             *)
CmdWidth(w) ==
  IF widths[First] >= w THEN widths
  ELSE Filled([widths EXCEPT ![First] = w], Synced(mask))

(* _evisum_ui_process_list_content_get: an item comes into sight.          *)
Realize(i) ==
  /\ listed /\ items[i] = NoRow
  /\ items' = [items EXCEPT ![i] = [cols |-> Taken, at |-> "active"]]
  /\ built' = TRUE /\ unused' = Rest
  /\ \E w \in 1 .. 2 : widths' = CmdWidth(w)
  /\ irregular' = irregular \cup Made
  /\ UNCHANGED <<state, mask, order, saved, widget, menu, pointer, orphans, listed,
                 timers, skip, inputs>>

(* An item goes out of sight: its row is unused, unless there are many; a  *)
(* row the cache does not know is deleted.                                 *)
Unrealize(i) ==
  /\ items[i] # NoRow
  /\ items' = [items EXCEPT ![i] = NoRow]
  /\ unused' = IF items[i].at = "active" /\ Len(unused) <= Keep
               THEN <<items[i].cols>> \o unused ELSE unused
  /\ UNCHANGED <<state, settings, saved, widget, menu, pointer, built, orphans, listed,
                 timers, skip, irregular, inputs>>

(* The list measures an item with a row it does not give back.             *)
Measure ==
  /\ listed /\ Input
  /\ built' = TRUE /\ unused' = Rest /\ orphans' = orphans + 1
  /\ irregular' = irregular \cup Made
  /\ UNCHANGED <<state, settings, saved, widget, menu, pointer, items, listed, timers,
                 skip>>

(* With more than twice as many rows in use as are in sight the cache is   *)
(* to forget those that are not; it compares rows with items of the list,  *)
(* and forgets them all.                                                   *)
Steal ==
  LET realized == {i \in Items : items[i] # NoRow}
      active == {i \in Items : items[i].at = "active"}
  IN IF Cardinality(active) + orphans > 2 * Cardinality(realized)
     THEN /\ orphans' = 0
          /\ items' = [i \in Items |-> IF items[i] = NoRow THEN NoRow
                                       ELSE [items[i] EXCEPT !.at = "loose"]]
     ELSE UNCHANGED <<orphans, items>>

(* Mutant of Update: after a list that is not shown none is.               *)
UpdateSkipping ==
  /\ state = "open"
  /\ UNCHANGED skip
  /\ IF skip THEN UNCHANGED <<listed, orphans, items>> ELSE listed' = TRUE /\ Steal
  /\ UNCHANGED <<state, settings, saved, widget, menu, pointer, built, unused, timers,
                 irregular, inputs>>

(* The worker's next list, which is not shown if it is to be skipped.      *)
Update ==
  /\ state = "open"
  /\ skip' = FALSE
  /\ IF skip THEN UNCHANGED <<listed, orphans, items>> ELSE listed' = TRUE /\ Steal
  /\ UNCHANGED <<state, settings, saved, widget, menu, pointer, built, unused, timers,
                 irregular, inputs>>

-----------------------------------------------------------------------------
(* Timers *)

(* Rows are deleted, some at a time; after the last the list is to be      *)
(* asked for in a second, which starts again if it had begun.              *)
DeletePending ==
  /\ timer
  /\ pending' = IF pending > Batch THEN pending - Batch ELSE 0
  /\ timer' = (pending > Batch)
  /\ deferred' = (deferred \/ pending <= Batch)
  /\ UNCHANGED <<state, settings, saved, widget, menu, pointer, rows, listed, skip,
                 irregular, inputs>>

Deferred ==
  /\ deferred /\ deferred' = FALSE /\ skip' = FALSE
  /\ UNCHANGED <<state, settings, saved, widget, menu, pointer, rows, listed, pending,
                 timer, irregular, inputs>>

-----------------------------------------------------------------------------
(* The window *)

NoWindow ==
  /\ menu' = NoMenu /\ mouse' = NoMouse /\ ignore' = FALSE
  /\ items' = NoRows /\ built' = FALSE /\ unused' = <<>> /\ orphans' = 0
  /\ listed' = FALSE /\ pending' = 0 /\ timer' = FALSE /\ deferred' = FALSE
  /\ skip' = FALSE

(* The settings are saved, the window is forgotten, and then the menu is   *)
(* dismissed: what it saves again is not this window's any more.           *)
Close ==
  /\ state = "open" /\ Input
  /\ state' = "closed" /\ header' = <<>>
  /\ Save(mask, order, widths)
  /\ mask' = IF menu.open THEN menu.snapshot ELSE mask
  /\ enabled' = {} /\ NoWindow
  /\ irregular' = irregular \cup
       (IF menu.open /\ mask # menu.snapshot THEN {"closed"} ELSE {})
  /\ UNCHANGED <<order, widths>>

(* The header of a new window, whatever the order that was read.           *)
Opened(m, ord, w) ==
  /\ mask' = m /\ order' = ord
  /\ widths' = Filled(w, Synced(m))
  /\ enabled' = Synced(m) /\ header' = Visible(ord, Synced(m))

(* Opened again, by the same process or, with what was saved, by another.  *)
Open ==
  /\ state = "closed" /\ state' = "open"
  /\ \/ /\ Opened(mask, order, widths)
        /\ irregular' = irregular \cap {"closed"}
     \/ /\ Opened(saved.mask, Sanitized(saved.order), saved.widths)
        /\ irregular' = {}
  /\ UNCHANGED <<saved, menu, pointer, rows, listed, timers, skip, inputs>>

ColumnsInit ==
  /\ state = "open" /\ mask \in SUBSET Movable
  /\ \E raw \in [Fields -> 0 .. N + 1] : order = Sanitized(raw)
  /\ widths = Filled([f \in Fields |-> 0], Synced(mask))
  /\ saved = [mask |-> mask, order |-> order, widths |-> [f \in Fields |-> 0]]
  /\ enabled = Synced(mask) /\ header = Visible(order, Synced(mask))
  /\ menu = NoMenu /\ mouse = NoMouse /\ ignore = FALSE
  /\ items = NoRows /\ built = FALSE /\ unused = <<>> /\ orphans = 0
  /\ listed = FALSE /\ pending = 0 /\ timer = FALSE /\ deferred = FALSE
  /\ skip = FALSE /\ irregular = {} /\ inputs = 0

-----------------------------------------------------------------------------
Menu == MenuShow \/ MenuApply \/ MenuClose \/ \E f \in Movable : Toggle(f)
Mouse ==
  \/ \E f \in Movable, part \in {"left", "middle", "right"} : Press(f, part)
  \/ \E gap \in 0 .. N : Drag(gap)
  \/ \E w \in 1 .. 2 : Resize(w) \/ ResizeEnd(w)
  \/ Drop \/ ReleaseInPlace \/ Click \/ NoClick
RowsStep == Measure \/ Update \/ \E i \in Items : Realize(i) \/ Unrealize(i)
Timers == DeletePending \/ Deferred

ColumnsNext == Menu \/ Mouse \/ RowsStep \/ Timers \/ Close \/ Open

(* Lists keep coming from the worker, and timers fire.                     *)
ColumnsSpec ==
  /\ ColumnsInit /\ [][ColumnsNext]_columnsVars
  /\ WF_columnsVars(Update) /\ WF_columnsVars(DeletePending) /\ WF_columnsVars(Deferred)

-----------------------------------------------------------------------------
(* Properties *)

(* Whatever order was read from the file, and whatever was dragged where,  *)
(* each field has one place and the first has the first                    *)
(* (evisum_ui_widget_exel.c:96-160, evisum_ui.c:25-52).                    *)
OrderIsWhole ==
  /\ order[1] = First /\ saved.order[1] = First
  /\ Fields \subseteq {order[i] : i \in DOMAIN order}
  /\ Fields \subseteq {saved.order[i] : i \in DOMAIN saved.order}

(* A field is where it was dropped: among the fields that are shown, in    *)
(* the gap the mouse was over, wherever hidden fields are                  *)
(* (evisum_ui_widget_exel.c:385-431).                                      *)
DropsWhereShown ==
  [][mouse.at = "drag" /\ mouse'.at = "up" /\ header = Visible(order, enabled)
     /\ Contains(header, mouse.field) /\ mouse.gap <= Len(header) - 2 =>
       Visible(order', enabled) =
         InsertAt(Visible(header, Fields \ {mouse.field}), mouse.gap + 2, mouse.field)
  ]_columnsVars

(* The header shows the fields that are switched on, unless one was        *)
(* dragged while a menu was open whose changes were then given up: the     *)
(* header had them already (evisum_ui_widget_exel.c:1156-1170,             *)
(* evisum_ui_process_list.c:331-345).                                      *)
HeaderIsMask ==
  state = "open" /\ ~menu.open =>
    \/ header = Visible(order, Synced(mask))
    \/ "reset" \in irregular

(* Every row in the list has the columns of the header above it, and so    *)
(* has every row that will be taken for one; unless it was built while the *)
(* menu had changed the fields, which it keeps when the menu is closed     *)
(* (evisum_ui_widget_exel.c:1571-1589, evisum_ui_cache.c:51-95).           *)
RowsFitHeader ==
  \/ irregular \cap {"made", "reset"} # {}
  \/ /\ \A i \in Items : items[i] = NoRow \/ items[i].cols = header
     /\ \A k \in DOMAIN unused : unused[k] = header

(* What the next start will show is what is switched on, and its order, in *)
(* an open menu, too; when the window is closed, and the widths.  Only a   *)
(* window closed with changes in its menu saves the mask that it then      *)
(* gives up (evisum_ui_process_list.c:2352-2396, evisum_ui.c:54-144).      *)
SavedIsShown ==
  \/ "closed" \in irregular
  \/ /\ saved.mask = mask /\ saved.order = order
     /\ state = "closed" => saved.widths = widths

(* A click that ends no drag is never ignored, unless a drag before it     *)
(* ended outside of its header (evisum_ui_widget_exel.c:1119-1125,         *)
(* evisum_ui_process_list.c:380-398).                                      *)
SwallowedExplained == "swallowed" \in irregular => "outside" \in irregular

(* What holds of settings, header, rows and mouse at every step.           *)
ColumnsInv ==
  /\ ColumnsTyped /\ OrderIsWhole /\ HeaderIsMask /\ RowsFitHeader
  /\ SavedIsShown /\ SwallowedExplained

(* After the columns changed the rows of before are deleted and the list   *)
(* is shown again (evisum_ui_cache.c:99-125,                               *)
(* evisum_ui_process_list.c:288-302).                                      *)
Settles == []<>(state = "closed" \/ (listed /\ pending = 0 /\ ~deferred))
=============================================================================
