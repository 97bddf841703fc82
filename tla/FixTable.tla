------------------------------ MODULE FixTable ------------------------------
(* The interactive advisory table, internal/fix/fixui: a loop that measures   *)
(* the terminal, lays the table out, paints one frame, blocks for one event   *)
(* and handles it.  The terminal may be resized at any moment, a fix may fail, *)
(* and an event is a key or a click on a cell of the screen.                  *)
(*                                                                            *)
(* Widths and screen positions are numbers, texts only their widths; rows of  *)
(* the table count from 0, as screen rows and columns do.                     *)
EXTENDS Integers, Sequences, FiniteSets, FiniteSetsExt, SequencesExt

CONSTANTS
  Targets,      \* the packages of the plan, a sequence of records
  Sizes,        \* the sizes <<columns, rows>> the terminal can have
  MaxFailed     \* bound: fixes that fail in one session

Columns == {"package", "vuln", "severity", "installed", "fixTo", "action"}

ASSUME FixTableAssumption ==
  /\ MaxFailed \in Nat
  /\ \A s \in Sizes : s[1] \in Nat \ {0} /\ s[2] \in Nat \ {0}
  /\ Targets \in Seq([vulns : Nat, fixable : BOOLEAN, width : [Columns \ {"action"} -> Nat]]) \ {<<>>}

VARIABLES
  terminal,     \* its size now
  phase,        \* "layout", "wait", "handle" or "quit"
  cursor, top,  \* the selected row and the first visible one
  layout,       \* widths and shown of the columns, bodyRows, the ACTION cell
  frame,        \* what is painted
  event,        \* the event being handled
  state,        \* per package: "open", "applied" or "failed"
  outcome       \* the fixes applied, in order, and how many failed
tvars == <<terminal, phase, cursor, top, layout, frame, event, state, outcome>>

chromeAbove == 6
chromeBelow == 6
hardMin == 8
margin == 1
MinHeight == chromeAbove + chromeBelow + 1
MinWidth == margin + 1 + 4 * (hardMin + 3)

(* buildRows: a row per advisory, or one for a package without any. *)
rowsOf(t) == IF Targets[t].vulns = 0 THEN 1 ELSE Targets[t].vulns
rows == FlattenSeq([t \in DOMAIN Targets |-> [k \in 1 .. rowsOf(t) |-> t]])
targetAt(i) == rows[i + 1]

-----------------------------------------------------------------------------
(* Layout *)

headers == [package |-> 7, vuln |-> 13, severity |-> 8, installed |-> 9, fixTo |-> 6, action |-> 6]
minWidths == [package |-> 10, vuln |-> 12, severity |-> 8, installed |-> 9, fixTo |-> 8, action |-> 8]
hardFloors == [c \in Columns |-> IF minWidths[c] < hardMin THEN minWidths[c] ELSE hardMin]

actionLabel(t) == IF state[t] = "failed" \/ (state[t] = "open" /\ ~Targets[t].fixable) THEN 8 ELSE 7
grown(c) ==
  Max({headers[c]} \cup {IF c = "action" THEN actionLabel(t) ELSE Targets[t].width[c] : t \in DOMAIN Targets})

Least(a, b) == IF a < b THEN a ELSE b
Most(a, b) == IF a > b THEN a ELSE b
tableWidth(widths, shown) ==
  LET cell(c) == IF c \in shown THEN widths[c] + 3 ELSE 0
  IN margin + 1 + cell("package") + cell("vuln") + cell("severity")
       + cell("installed") + cell("fixTo") + cell("action")
(* shrink: one turn of the loop for every place the table is too wide by; the
   wider of two columns gives way, or none when the wider one is at its floor. *)
wider(widths, a, b) == IF widths[b] > widths[a] THEN b ELSE a
narrowed(widths, a, b, floors) ==
  LET c == wider(widths, a, b)
  IN IF widths[c] <= floors[c] THEN widths ELSE [widths EXCEPT ![c] = @ - 1]
shrink(widths, shown, a, b, floors, w) ==
  LET excess == Most(0, tableWidth(widths, shown) - w)
      turn[n \in 0 .. excess] == IF n = 0 THEN widths ELSE narrowed(turn[n - 1], a, b, floors)
  IN turn[excess]
keptAll(widths, w) == Columns      \* a mutant: no column is dropped
(* dropOrder: severity goes first, then the installed version. *)
kept(widths, w) ==
  IF tableWidth(widths, Columns) <= w THEN Columns
  ELSE IF tableWidth(widths, Columns \ {"severity"}) <= w THEN Columns \ {"severity"}
  ELSE Columns \ {"severity", "installed"}
columnsFor(w) ==
  LET soft  == shrink([c \in Columns |-> grown(c)], Columns, "vuln", "package", minWidths, w)
      shown == kept(soft, w)
      hard  == shrink(soft, shown, "vuln", "package", hardFloors, w)
  IN [widths |-> shrink(hard, shown, "fixTo", "vuln", hardFloors, w), shown |-> shown]

layoutFor(w, h) ==
  LET cols == columnsFor(w)
      x0   == tableWidth(cols.widths, cols.shown \ {"action"})
  IN [widths |-> cols.widths, shown |-> cols.shown,
      bodyRows |-> Least(Most(1, h - chromeAbove - chromeBelow), Len(rows)),
      x0 |-> x0, x1 |-> x0 + cols.widths["action"] + 2]

(* scrollIntoView *)
scrolled(c, first, body) ==
  LET up == IF c < first THEN c ELSE first
      dn == IF c >= up + body THEN c - body + 1 ELSE up
  IN Most(0, IF dn > Len(rows) - body THEN Len(rows) - body ELSE dn)

(* render: the screen row of every visible row of the table, the lines and the
   columns it takes, or the notice of a terminal too small for it. *)
noFrame == [kind |-> "none", size |-> <<0, 0>>, lines |-> 0, width |-> 0, body |-> <<>>, selected |-> 0]
render(lay, first, w, h) ==
  IF w < MinWidth \/ h < MinHeight
  THEN [noFrame EXCEPT !.kind = "tooSmall", !.size = <<w, h>>, !.lines = Least(8, h), !.width = w]
  ELSE [kind |-> "table", size |-> <<w, h>>, selected |-> cursor,
        body |-> [y \in chromeAbove .. chromeAbove + lay.bodyRows - 1 |-> first + y - chromeAbove],
        lines |-> chromeAbove + lay.bodyRows + chromeBelow,
        width |-> tableWidth(lay.widths, lay.shown)]

-----------------------------------------------------------------------------
(* The loop of Run *)

Key(k) == [kind |-> k, col |-> 0, row |-> 0]
Keys == {Key(k) : k \in {"up", "down", "pageUp", "pageDown", "home", "end", "activate", "fixAll", "help"}}
Clicks ==
  {[kind |-> "click", col |-> x, row |-> y] :
     x \in {margin, layout.x0 - 1, layout.x0, layout.x1 - 1, layout.x1},
     y \in {chromeAbove - 1, chromeAbove, chromeAbove + layout.bodyRows - 1, chromeAbove + layout.bodyRows}}

TableInit ==
  /\ terminal \in Sizes
  /\ phase = "layout" /\ cursor = 0 /\ top = 0 /\ frame = noFrame /\ event = Key("none")
  /\ layout = [widths |-> headers, shown |-> Columns, bodyRows |-> 0, x0 |-> 0, x1 |-> 0]
  /\ state = [t \in DOMAIN Targets |-> "open"]
  /\ outcome = [applied |-> <<>>, failed |-> 0]

(* Only what happens while the loop is blocked can be told apart. *)
Resize ==
  /\ phase = "wait"
  /\ terminal' \in Sizes \ {terminal}
  /\ UNCHANGED <<phase, cursor, top, layout, frame, event, state, outcome>>

Paint ==
  /\ phase = "layout"
  /\ LET lay == layoutFor(terminal[1], terminal[2])
     IN /\ layout' = lay
        /\ top' = scrolled(cursor, top, lay.bodyRows)
        /\ frame' = render(lay, top', terminal[1], terminal[2])
  /\ phase' = "wait"
  /\ UNCHANGED <<terminal, cursor, event, state, outcome>>

(* reader.next: a key, a click, or the end of the input. *)
Read ==
  /\ phase = "wait"
  /\ \/ event' \in Keys \cup Clicks /\ phase' = "handle"
     \/ event' = Key("quit") /\ phase' = "quit"
  /\ UNCHANGED <<terminal, cursor, top, layout, frame, state, outcome>>

clamp(i) == Most(0, Least(i, Len(rows) - 1))
movedTo ==
  CASE event.kind = "up"       -> clamp(cursor - 1)
    [] event.kind = "down"     -> clamp(cursor + 1)
    [] event.kind = "pageUp"   -> clamp(cursor - layout.bodyRows)
    [] event.kind = "pageDown" -> clamp(cursor + layout.bodyRows)
    [] event.kind = "home"     -> 0
    [] event.kind = "end"      -> Len(rows) - 1
    [] OTHER                   -> cursor

(* apply: what is fixed already, or cannot be, is not tried; a fix may fail. *)
open(ts) == {t \in ts : state[t] # "applied" /\ Targets[t].fixable}
apply(ts) ==
  \E bad \in SUBSET open(ts) :
    LET good == open(ts) \ bad
    IN /\ outcome.failed + Cardinality(bad) <= MaxFailed
       /\ state' = [t \in DOMAIN state |-> IF t \in bad THEN "failed" ELSE IF t \in good THEN "applied" ELSE state[t]]
       /\ outcome' = [applied |-> outcome.applied \o SetToSortSeq(good, <), failed |-> outcome.failed + Cardinality(bad)]

handled(c) ==
  /\ cursor' = c
  /\ top' = scrolled(c, top, layout.bodyRows)
  /\ phase' = "layout" /\ event' = Key("none")
  /\ UNCHANGED <<terminal, layout, frame>>
Move ==
  /\ phase = "handle" /\ event.kind \notin {"activate", "fixAll", "click"}
  /\ handled(movedTo) /\ UNCHANGED <<state, outcome>>
Activate == phase = "handle" /\ event.kind = "activate" /\ apply({targetAt(cursor)}) /\ handled(cursor)
FixAll == phase = "handle" /\ event.kind = "fixAll" /\ apply(DOMAIN Targets) /\ handled(cursor)

clickedBelow == cursor + event.row - chromeAbove     \* a mutant: counted from the selected row
(* click: a row of the body is selected, and in the ACTION column fixed. *)
clicked == top + event.row - chromeAbove
onRow == event.row >= chromeAbove /\ clicked \in 0 .. Len(rows) - 1 /\ clicked < top + layout.bodyRows
onAction == event.col >= layout.x0 /\ event.col < layout.x1
Click ==
  /\ phase = "handle" /\ event.kind = "click"
  /\ \/ onRow /\ onAction /\ apply({targetAt(clicked)}) /\ handled(clicked)
     \/ onRow /\ ~onAction /\ handled(clicked) /\ UNCHANGED <<state, outcome>>
     \/ ~onRow /\ handled(cursor) /\ UNCHANGED <<state, outcome>>

TableNext == Resize \/ Paint \/ Read \/ Move \/ Activate \/ FixAll \/ Click
TableSpec == TableInit /\ [][TableNext]_tvars

-----------------------------------------------------------------------------
(* A frame never scrolls or wraps on the terminal it was painted for, and the
   selected row is on it: one line or one column too many would move every row
   off the place a click is looked up at (fixui.go:128, fixui.go:196). *)
FrameFits ==
  phase = "wait" =>
    /\ frame.lines <= frame.size[2]
    /\ frame.width <= frame.size[1]
    /\ frame.kind = "table" => cursor \in Range(frame.body) /\ frame.selected = cursor

(* While the table is on the screen, a click fixes the package drawn where the
   click landed, and enter the package drawn as selected, whatever the size of
   the terminal has become since; nothing else is fixed (fixui.go:349). *)
Shown(e) ==
  IF e.kind = "click" THEN IF e.row \in DOMAIN frame.body THEN {targetAt(frame.body[e.row])} ELSE {}
  ELSE {targetAt(frame.selected)}
ActsOnTheShown ==
  [][ /\ <<state, outcome>>' # <<state, outcome>>
      /\ frame.kind = "table" /\ event.kind # "fixAll"
      => \A t \in DOMAIN state : state'[t] # state[t] => t \in Shown(event) ]_tvars
=============================================================================
