----------------------------- MODULE LogStream -----------------------------
(***************************************************************************)
(* The live log of a process (web/src/hooks/useLogStream.ts, and the same  *)
(* effect in ProcessDetail): a timer asks the server for what came after a *)
(* cursor and appends the answer to the lines on display.  A new tick does *)
(* not wait for the previous answer, answers may be lost or come in any    *)
(* order, and the user changes the selection or pauses at any time.        *)
(*                                                                         *)
(* A selection stands for agent, process, stream and limit, a row's tag    *)
(* for what the server's query tells apart.  A row's number is its rowid.  *)
(* Definitions headed "Slip" are plausible mistakes; nothing uses them.    *)
(***************************************************************************)
EXTENDS Sequences, SequencesExt, FiniteSets, FiniteSetsExt, Integers

CONSTANTS
  Tags,       \* what rows are told apart by
  Selections, \* what can be selected, and the first selection
  FirstSelection,
  Shows,      \* selection -> the tags of its rows
  Limit,      \* rows per answer
  LogCap,     \* LOG_CAP, lines kept on display
  MaxRows,    \* bound: rows ever logged
  MaxTicks,   \* bound: ticks waiting for an answer
  Unanswered

VARIABLES
  mounted,    \* the view is on screen
  selection,  \* agent, proc, stream, limit
  paused,     \* ~enabled
  lines,      \* the rows on display, in order
  cursor,     \* cursorRef
  first,      \* no answer has arrived since the effect ran
  ticks,      \* requests of the timer, in the order they were sent
  logged,     \* the server's rows
  disturbed   \* history: since the last reset ticks overlapped or the view was resumed

view == <<mounted, selection, paused>>
vars == <<view, lines, cursor, first, ticks, logged, disturbed>>

-----------------------------------------------------------------------------
Rows == 1 .. Len(logged)

\* Every variable has its type.
TypeOK ==
  /\ mounted \in {"here", "away"} /\ selection \in Selections /\ paused \in BOOLEAN
  /\ lines \in Seq(Nat) /\ Len(lines) <= LogCap
  /\ \A i \in DOMAIN lines : lines[i] \in Rows
  /\ cursor \in Nat /\ first \in BOOLEAN /\ disturbed \in BOOLEAN
  /\ \A i \in DOMAIN ticks : ticks[i].for \in Selections /\ ticks[i].after \in Nat
  /\ logged \in Seq(Tags)

-----------------------------------------------------------------------------
(* logstore.Since: the rows after a cursor, oldest first and at most Limit;  *)
(* without a cursor, the newest Limit.                                       *)

RowsOf(sel) == {i \in Rows : logged[i] \in Shows[sel]}

\* The rows of a set, oldest first: the i-th has i - 1 before it.  (SetToSortSeq of
\* SequencesExt is the same; its SortSeq is opaque to the provers.)
OldestFirst(S) ==
  [i \in 1 .. Cardinality(S) |-> CHOOSE r \in S : Cardinality({j \in S : j < r}) = i - 1]

Since(sel, after) ==
  LET fresh == {i \in RowsOf(sel) : i > after}
      picked == IF after > 0
                  THEN {i \in fresh : Cardinality({j \in fresh : j < i}) < Limit}
                  ELSE {i \in fresh : Cardinality({j \in fresh : j > i}) < Limit}
  IN OldestFirst(picked)

\* The cursor sent along: the last row's, or the one asked with.
CursorOf(rows, after) == IF rows = <<>> THEN after ELSE Last(rows)

\* The process logs a line.
Log ==
  /\ Len(logged) < MaxRows
  /\ \E t \in Tags : logged' = Append(logged, t)
  /\ UNCHANGED <<view, lines, cursor, first, ticks, disturbed>>

-----------------------------------------------------------------------------
(* The effects. *)

Init ==
  /\ mounted = "here" /\ selection = FirstSelection /\ paused = FALSE
  /\ lines = <<>> /\ cursor = 0 /\ first = TRUE
  /\ ticks = <<>> /\ logged = <<>> /\ disturbed = FALSE

\* Slip: an answer is used although its effect was cleaned up.
StopForgotten == ticks

\* stop: the answers of earlier ticks are ignored, which is as if they were lost.
Stopped == <<>>

\* The reset when a key parameter changes.
Reset == lines' = <<>> /\ cursor' = 0 /\ disturbed' = FALSE

Select ==
  /\ mounted = "here"
  /\ selection' \in Selections \ {selection}
  /\ Reset /\ first' = TRUE /\ ticks' = Stopped
  /\ UNCHANGED <<mounted, paused, logged>>

\* The pause button of the modal.  Resuming runs the effect from its start, with
\* the lines and the cursor that are there.
Pause ==
  /\ mounted = "here"
  /\ paused' = ~paused
  /\ first' = TRUE /\ ticks' = Stopped
  /\ disturbed' = TRUE
  /\ UNCHANGED <<mounted, selection, lines, cursor, logged>>

Leave ==
  /\ mounted = "here" /\ mounted' = "away"
  /\ selection' = FirstSelection /\ paused' = FALSE
  /\ Reset /\ first' = TRUE /\ ticks' = <<>>
  /\ UNCHANGED logged

Return ==
  /\ mounted = "away" /\ mounted' = "here"
  /\ UNCHANGED <<selection, paused, lines, cursor, first, ticks, logged, disturbed>>

-----------------------------------------------------------------------------
(* Ticks. *)

AskAfter == IF first THEN 0 ELSE cursor

\* The timer fires, whether or not the last answer has come.
Tick ==
  /\ mounted = "here" /\ ~paused
  /\ Len(ticks) < MaxTicks
  /\ ticks' = Append(ticks, [for |-> selection, after |-> AskAfter, reply |-> Unanswered])
  /\ disturbed' = (disturbed \/ ticks # <<>>)
  /\ UNCHANGED <<view, lines, cursor, first, logged>>

Serve ==
  /\ \E i \in DOMAIN ticks :
       /\ ticks[i].reply = Unanswered
       /\ ticks' = [ticks EXCEPT ![i].reply = Since(ticks[i].for, ticks[i].after)]
  /\ UNCHANGED <<view, lines, cursor, first, logged, disturbed>>

\* A request or an answer is lost: best effort.
Lose ==
  /\ \E i \in DOMAIN ticks : ticks' = RemoveAt(ticks, i)
  /\ UNCHANGED <<view, lines, cursor, first, logged, disturbed>>

\* Slip: of an answer that fills the display, the newest lines are cut.
KeepOldest(s) == IF Len(s) > LogCap THEN SubSeq(s, 1, LogCap) ELSE s

\* Slip: the display grows without bound.
Uncapped(s) == s

\* At most LOG_CAP lines stay, the newest.
Capped(s) == IF Len(s) > LogCap THEN SubSeq(s, Len(s) - LogCap + 1, Len(s)) ELSE s

\* A cursor of 0 is no cursor.
NewCursor(t) == LET c == CursorOf(t.reply, t.after) IN IF c = 0 THEN cursor ELSE c

Answer ==
  \E i \in DOMAIN ticks :
    /\ ticks[i].reply # Unanswered
    /\ ticks' = RemoveAt(ticks, i)
    /\ cursor' = NewCursor(ticks[i])
    /\ first' = FALSE
    /\ lines' = Capped(lines \o ticks[i].reply)
    /\ UNCHANGED <<view, logged, disturbed>>

Next == Log \/ Select \/ Pause \/ Leave \/ Return \/ Tick \/ Serve \/ Lose \/ Answer

\* The interval fires; of the requests sent again and again one reaches the server,
\* and of the answers one the view.
Fairness == WF_vars(Tick) /\ SF_vars(Serve) /\ SF_vars(Answer)

Spec == Init /\ [][Next]_vars /\ Fairness

-----------------------------------------------------------------------------
\* What is on display belongs to the selection on display, also when the answer
\* to a request for another one arrives after the switch.
LinesOfSelection == \A i \in DOMAIN lines : lines[i] \in RowsOf(selection)

\* While answers come before the next tick, each row is shown once and in order,
\* and none between the oldest line and the cursor is missing; at LOG_CAP the
\* oldest go.
EachRowOnce ==
  ~disturbed /\ lines # <<>> =>
    /\ lines = OldestFirst({r \in RowsOf(selection) : lines[1] <= r /\ r <= Last(lines)})
    /\ cursor = Last(lines)

\* A watched log catches up: when nothing more is logged, the selection's last
\* row gets on display, whatever was lost, overtaken or fetched twice before.
CatchesUp ==
  \A sel \in Selections :
    mounted = "here" /\ ~paused /\ selection = sel /\ RowsOf(sel) # {} ~>
      \/ selection # sel \/ mounted # "here" \/ paused
      \/ \E i \in DOMAIN lines : lines[i] = Max(RowsOf(sel))
=============================================================================
