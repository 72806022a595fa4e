------------------------------ MODULE PaneEcho ------------------------------
(***************************************************************************)
(* The echo ledger of the MCP server (apps/mcp/src/pane_echo.cpp): what    *)
(* the server itself typed into a pane, so that a wait can tell the echo   *)
(* of its own input from output.  A record per pane; the operations are    *)
(* functions from record to record.  Text is a sequence of words and       *)
(* blanks, "nl" is a line end.                                             *)
(***************************************************************************)
EXTENDS Naturals, Sequences, SequencesExt

CONSTANTS
  RecentCap,   \* kRecentCap: lines remembered after they were submitted
  TextCap      \* kTextCap: words kept of one unsubmitted line

NoEcho ==
  [inFlight |-> 0, pending |-> <<>>, captured |-> FALSE, over |-> FALSE, recent |-> <<>>]

AppendText(s, text) ==
  CASE s.over -> s
    [] ~s.over /\ Len(text) > TextCap - Len(s.pending) ->
         [s EXCEPT !.pending = <<>>, !.over = TRUE]
    [] OTHER -> [s EXCEPT !.pending = @ \o text]

(* The newest RecentCap lines stay. *)
PushRecent(s, text) ==
  IF text = <<>> THEN s
    ELSE LET all == Append(s.recent, text)
         IN  [s EXCEPT !.recent = IF Len(all) > RecentCap THEN Tail(all) ELSE all]

MutEndLine(s) == [s EXCEPT !.pending = <<>>, !.captured = FALSE, !.over = FALSE]

EndLine(s) ==
  [PushRecent(s, s.pending) EXCEPT !.pending = <<>>, !.captured = FALSE, !.over = FALSE]

(* A line is remembered before its first correction: a shell may redraw    *)
(* the uncorrected one.                                                    *)
Erase(s) ==
  LET t == IF s.captured THEN s ELSE [PushRecent(s, s.pending) EXCEPT !.captured = TRUE]
  IN  IF t.pending = <<>> THEN t ELSE [t EXCEPT !.pending = Front(@)]

(* The keys that are one character and stand for themselves. *)
Characters == {"w"}

classify_key(k) ==
  CASE k \in {"C-m", "Enter", "KPEnter"} -> "submit"
    [] k \in {"C-c", "C-u"} -> "kill"
    [] k \in {"BSpace", "C-h"} -> "erase"
    [] k \in {"DC", "Delete"} -> "noop"
    [] k \in {"Space"} \cup Characters -> "text"
    [] OTHER -> "unknown"

KeyText(k) == IF k = "Space" THEN <<" ">> ELSE <<k>>

ApplyEffect(s, key) ==
  CASE classify_key(key) \in {"submit", "kill"} -> EndLine(s)
    [] classify_key(key) = "erase" -> Erase(s)
    [] classify_key(key) = "noop" -> s
    [] classify_key(key) = "text" -> [AppendText(s, KeyText(key)) EXCEPT !.captured = FALSE]
    [] OTHER -> [s EXCEPT !.pending = <<>>, !.captured = FALSE]

note_key_dispatch(s, key, enter) ==
  LET t == ApplyEffect([s EXCEPT !.inFlight = @ + 1], key)
  IN  IF enter THEN EndLine(t) ELSE t

note_literal_write(s, text, enter) ==
  FoldLeft(LAMBDA t, word : IF word = "nl" THEN EndLine(t) ELSE AppendText(t, <<word>>),
           [s EXCEPT !.inFlight = @ + 1, !.captured = FALSE],
           IF enter THEN Append(text, "nl") ELSE text)

(* PaneEchoEdit::commit; a rollback puts the earlier record back. *)
CommitEdit(s) == [s EXCEPT !.inFlight = IF @ # 0 THEN @ - 1 ELSE 0]

(* kRecentTtl: the oldest submitted line is forgotten. *)
PruneRecent(s) == [s EXCEPT !.recent = Tail(@)]

(* kRecordTtl, or more panes than kPaneCap: a record nobody is dispatching *)
(* to goes as a whole.                                                     *)
PruneRecord(s) == IF s.inFlight = 0 THEN NoEcho ELSE s

live_echo(s) ==
  [inputPending |-> s.inFlight # 0 \/ s.pending # <<>>, pending |-> s.pending,
   recent |-> ToSet(s.recent)]
=============================================================================
