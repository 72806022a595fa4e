---------------------------- MODULE WaitForText ----------------------------
(***************************************************************************)
(* wait_for_text (src/wait.cpp, include/libtmux/capture.hpp and the MCP    *)
(* tool apps/mcp/src/wait_for_text.cpp): one wait for the word "w" on a    *)
(* pane, while other calls of the same process type into that pane and its *)
(* shell echoes, redraws and prints.  The wait reads the screen at entry,  *)
(* opens a control connection, reads the screen again, and from then on    *)
(* reads it whenever the connection reports output; without a connection   *)
(* it polls.  A row is a sequence of words, blanks and prompts, and the    *)
(* last row is the cursor's.                                               *)
(***************************************************************************)
EXTENDS Naturals, PaneEcho

CONSTANTS
  MaxEvents,     \* things that happen in the pane
  MaxRows,       \* rows of the pane
  MaxQueue,      \* notifications the connection retains
  MaxSearches,   \* match_budget, in captures
  MaxFaults      \* the pane's death, and commands that fail while it lives

VARIABLES
  world,   \* the pane, its server, and the control client
  echo,    \* the pane's record in the ledger, and the dispatch in flight
  wait     \* Wait, and where the call stands

waitVars == <<world, echo, wait>>

Typed == <<"e", " ", "w">>  \* a command line that contains the wanted word
NoScreen == <<>>
NoCursor == 0

NewWorld ==
  [screen |-> << <<>> >>, pane |-> "live", stream |-> "none", attached |-> FALSE,
   queue |-> 0, late |-> FALSE, produced |-> FALSE, lapses |-> {}, prompt |-> <<>>,
   events |-> 0, faults |-> 0]

NewWait ==
  [pc |-> "identify", phase |-> "entry", identified |-> FALSE, screen |-> NoScreen,
   cursor |-> NoCursor, last |-> NoCursor, seen |-> {}, budget |-> MaxSearches,
   batch |-> 0, own |-> FALSE, result |-> "none"]

WaitInit ==
  /\ \E prompt \in {<<"$">>, <<"x">>} :
       world = [NewWorld EXCEPT !.screen = <<prompt>>, !.prompt = prompt]
  /\ echo = [record |-> NoEcho, previous |-> NoEcho, key |-> "none"]
  /\ wait = NewWait

-----------------------------------------------------------------------------
(* The pane (external): its shell echoes what arrives, redraws, prints.    *)

MayFail == world.faults < MaxFaults
Failing == [world EXCEPT !.faults = @ + 1]

CursorRow == Last(world.screen)

Visible(rows) ==
  IF Len(rows) > MaxRows THEN SubSeq(rows, Len(rows) - MaxRows + 1, Len(rows)) ELSE rows

(* Output of the pane is queued for a control client that is not paused;   *)
(* a full queue drops its oldest entry.                                    *)
Shows(rows) ==
  [world EXCEPT !.screen = Visible(rows),
     !.queue = IF world.stream = "open" /\ @ < MaxQueue THEN @ + 1 ELSE @]

(* The pane is followed until the ledger no longer answers for a line. *)
Lively == world.pane = "live" /\ world.events < MaxEvents /\ world.lapses = {}

(* What the tty shows once a dispatch arrives. *)
Echoed(key) ==
  LET above == Front(world.screen) IN
  CASE key = "type" -> Append(above, CursorRow \o Typed)
    [] key = "line" -> above \o <<CursorRow \o Typed, world.prompt>>
    [] key = "Enter" -> Append(world.screen, world.prompt)
    [] key = "C-u" -> Append(above, world.prompt)
    [] key = "BSpace" -> Append(above, IF CursorRow \in {<<>>, world.prompt} THEN CursorRow
                                                                        ELSE Front(CursorRow))
    [] classify_key(key) = "text" -> Append(above, CursorRow \o KeyText(key))
    [] OTHER -> world.screen

(* Words are made of word bytes; a blank and the usual prompt end in none. *)
is_word_byte(token) == token \notin {" ", "$"}

(* What arrives at the cursor directly after a word and begins with one. *)
Abuts(text) ==
  /\ text # <<>> /\ CursorRow # <<>>
  /\ is_word_byte(Last(CursorRow)) /\ is_word_byte(Head(text))

Prints ==
  /\ Lively
  /\ \E word \in {"w", "x"}, newline \in BOOLEAN :
       LET rows == Append(Front(world.screen), Append(CursorRow, word)) IN
       /\ newline => word = "w"
       /\ world' = [Shows(IF newline THEN Append(rows, <<>>) ELSE rows)
                       EXCEPT !.produced = @ \/ word = "w", !.events = @ + 1,
                              !.lapses = @ \cup {l \in {"abutting"} : Abuts(<<word>>)}]
  /\ UNCHANGED <<echo, wait>>

(* A shell repaints its prompt and the unsubmitted line below. *)
Redraws ==
  /\ Lively /\ CursorRow # <<>>
  /\ world' = [Shows(Append(world.screen, CursorRow)) EXCEPT !.events = @ + 1]
  /\ UNCHANGED <<echo, wait>>

(* The stream ends with the pane when the session does. *)
PaneDies ==
  /\ world.pane = "live" /\ MayFail
  /\ \E s \in {world.stream} \cup ({"ended"} \ {t \in {"ended"} : world.stream = "none"}) :
       world' = [Failing EXCEPT !.pane = "gone", !.stream = s]
  /\ UNCHANGED <<echo, wait>>

(* tmux discards the queue of a pane that is too far behind and says       *)
(* %pause; no %output follows until the client asks to continue.           *)
Pause ==
  /\ world.stream = "open" /\ world.queue > 0
  /\ world' = [world EXCEPT !.stream = "paused", !.queue = 0]
  /\ UNCHANGED <<echo, wait>>

StreamEnds ==
  /\ world.stream \in {"open", "paused"}
  /\ world' = [world EXCEPT !.stream = "ended"]
  /\ UNCHANGED <<echo, wait>>

DeadlinePasses ==
  /\ ~world.late /\ wait.result = "none" /\ world' = [world EXCEPT !.late = TRUE]
  /\ UNCHANGED <<echo, wait>>

-----------------------------------------------------------------------------
(* Other calls of this process type into the pane: the ledger is written   *)
(* before the dispatch and restored when nothing was sent.                 *)

Noted(key) ==
  CASE key = "type" -> note_literal_write(echo.record, Typed, FALSE)
    [] key = "line" -> note_literal_write(echo.record, Typed, TRUE)
    [] OTHER -> note_key_dispatch(echo.record, key, FALSE)

ArrivingText(key) ==
  CASE key \in {"type", "line"} -> Typed
    [] classify_key(key) = "text" -> KeyText(key)
    [] OTHER -> <<>>

(* What the ledger cannot answer for from here on: a line it stopped       *)
(* following or had no room for, a line that grew after it was shown, and  *)
(* two lines one of which occurs in the other.  A fourth lapse is an echo  *)
(* that is not a whole occurrence on the screen, because a word abuts it.  *)
Remembered(r) == ToSet(r.recent) \cup ({r.pending} \ {<<>>})

IsInfix(a, b) == \E i \in DOMAIN b : IsPrefix(a, SubSeq(b, i, Len(b)))

Lapses(key) ==
  LET held == wait.seen \cup Remembered(echo.record) \cup Remembered(Noted(key)) IN
  {l \in {"forgotten", "extended", "nested"} :
     CASE l = "forgotten" -> \/ key = "Left" \/ Noted(key).over
                             \/ /\ echo.record.pending # <<>>
                                /\ Len(echo.record.recent) = RecentCap
       [] l = "extended" -> ArrivingText(key) # <<>> /\ echo.record.pending # <<>>
       [] OTHER -> \E a, b \in held : a # b /\ IsInfix(a, b)}

NoteInput ==
  /\ Lively /\ echo.key = "none"
  /\ \E key \in {"type", "line", "Enter", "C-u", "BSpace", "Left", "w"} :
       /\ echo' = [record |-> Noted(key), previous |-> echo.record, key |-> key]
       /\ world' = [world EXCEPT !.events = @ + 1, !.lapses = @ \cup Lapses(key)]
  /\ UNCHANGED wait

Dispatched ==
  /\ echo.key \notin {"none", "sent"}
  /\ \/ /\ world.pane = "live"
        /\ world' = [Shows(Echoed(echo.key)) EXCEPT
             !.lapses = @ \cup {l \in {"abutting"} : Abuts(ArrivingText(echo.key))}]
        /\ echo' = [echo EXCEPT !.previous = NoEcho, !.key = "sent"]
     \/ /\ echo' = [echo EXCEPT !.record = echo.previous, !.previous = NoEcho,
                                !.key = "none"]
        /\ UNCHANGED world
  /\ UNCHANGED wait

Committed ==
  /\ echo.key = "sent"
  /\ echo' = [echo EXCEPT !.record = CommitEdit(@), !.key = "none"]
  /\ UNCHANGED <<world, wait>>

EchoExpires ==
  /\ echo.key = "none" /\ Lively
  /\ \/ /\ echo.record.recent # <<>>
        /\ echo' = [echo EXCEPT !.record = PruneRecent(@)]
     \/ /\ echo.record # NoEcho
        /\ echo' = [echo EXCEPT !.record = PruneRecord(@)]
  /\ world' = [world EXCEPT !.lapses = @ \cup {"forgotten"}, !.events = @ + 1]
  /\ UNCHANGED wait

-----------------------------------------------------------------------------
(* Whether a captured screen confirms the wait. *)

Wanted(row) == Contains(row, "w")

Present(rows) == \E i \in DOMAIN rows : Wanted(rows[i])

(* An occurrence of entry from at on opens and closes at a word boundary. *)
WholeAt(row, entry, at) ==
  LET end == at + Len(entry) - 1 IN
  /\ end <= Len(row) /\ SubSeq(row, at, end) = entry
  /\ at = 1 \/ ~is_word_byte(row[at - 1]) \/ ~is_word_byte(Head(entry))
  /\ end = Len(row) \/ ~is_word_byte(row[end + 1]) \/ ~is_word_byte(Last(entry))

(* Every whole occurrence of one entry is cut from a row. *)
MaskEntry(row, entry) ==
  LET rest[i \in 1 .. Len(row) + 1] ==
        IF i > Len(row) THEN <<>>
        ELSE IF WholeAt(row, entry, i) THEN rest[i + Len(entry)]
        ELSE <<row[i]>> \o rest[i + 1]
  IN rest[1]

(* The entries are cut one after the other, in the order they are held:    *)
(* the submitted lines sorted (std::set), the pending line last.           *)
MaskedRow(row, entries) == FoldLeft(LAMBDA r, e : MaskEntry(r, e), row, entries)

(* The last row that is not blank; capture-pane strips trailing blanks. *)
LastText(rows) == Max({0} \cup {i \in DOMAIN rows : ~(ToSet(rows[i]) \subseteq {" "})})

output_confirms(rows, sent, cursor, pending) ==
  LET active == IF cursor = NoCursor THEN LastText(rows) ELSE cursor
      excluded == cursor = NoCursor \/ (sent # <<>> /\ pending)
  IN  /\ ~(/\ excluded /\ active \in DOMAIN rows /\ Wanted(rows[active])
           /\ ~Present(SubSeq(rows, 1, active - 1)))
      /\ \E i \in DOMAIN rows : Wanted(MaskedRow(rows[i], sent))

(* std::set orders lines by their bytes. *)
Byte == [t \in {" ", "e", "w"} |-> CASE t = " " -> 0 [] t = "e" -> 1 [] OTHER -> 2]

Before(a, b) ==
  \/ IsStrictPrefix(a, b)
  \/ \E i \in DOMAIN a \cap DOMAIN b :
       SubSeq(a, 1, i - 1) = SubSeq(b, 1, i - 1) /\ Byte[a[i]] < Byte[b[i]]

(* The submitted lines a wait has seen stay discounted for its lifetime. *)
SeenNow == IF wait.identified THEN wait.seen \cup live_echo(echo.record).recent ELSE {}

Discounted ==
  LET live == live_echo(echo.record)
      lines == SetToSortSeq(SeenNow, Before)
  IN  IF wait.identified /\ live.pending # <<>> THEN Append(lines, live.pending) ELSE lines

Confirms(rows, cursor) ==
  output_confirms(rows, Discounted, cursor,
                  wait.identified /\ live_echo(echo.record).inputPending)

-----------------------------------------------------------------------------
(* The wait. *)

(* The call has its answer; its locals go. *)
Done(w, result) ==
  [NewWait EXCEPT !.pc = IF world.attached THEN "closing" ELSE "done",
                  !.own = w.own, !.result = result]

TimedOut(rows, cursor) ==
  IF Confirms(rows, cursor) THEN "matched"
    ELSE IF Present(rows) THEN "unconfirmed" ELSE "timed_out"

(* The MCP tool asks for the daemon's identity; without it nothing is      *)
(* discounted.                                                             *)
Identify ==
  /\ wait.pc = "identify"
  /\ \/ /\ world.pane = "live" /\ UNCHANGED world
        /\ wait' = [wait EXCEPT !.pc = "lookup", !.identified = TRUE]
     \/ /\ MayFail /\ world' = [Failing EXCEPT !.lapses = @ \cup {"forgotten"}]
        /\ wait' = [wait EXCEPT !.pc = "lookup"]
     \/ /\ world.pane = "gone" /\ UNCHANGED world
        /\ wait' = [wait EXCEPT !.pc = "lookup"]
  /\ UNCHANGED echo

(* Server::wait_for_text resolves the target and its session. *)
Lookup ==
  /\ wait.pc = "lookup"
  /\ wait' = CASE world.late -> Done(wait, "timed_out")
               [] ~world.late /\ world.pane = "gone" -> Done(wait, "failed")
               [] OTHER -> [wait EXCEPT !.pc = "cursor"]
  /\ UNCHANGED <<world, echo>>

Cancel ==
  /\ wait.pc \in {"lookup", "cursor", "capture", "connect", "watch"}
  /\ wait' = Done(wait, "cancelled")
  /\ UNCHANGED <<world, echo>>

(* grid_before_deadline: the cursor first, and no cursor when that fails. *)
ReadCursor ==
  /\ wait.pc = "cursor"
  /\ \/ /\ world.pane = "live" /\ ~world.late /\ UNCHANGED world
        /\ wait' = [wait EXCEPT !.pc = "capture", !.cursor = Len(world.screen)]
     \/ /\ world.pane = "gone" \/ world.late
        /\ wait' = [wait EXCEPT !.pc = "capture", !.cursor = NoCursor]
        /\ UNCHANGED world
     \/ /\ MayFail /\ world' = Failing
        /\ wait' = [wait EXCEPT !.pc = "capture", !.cursor = NoCursor]
  /\ UNCHANGED echo

Capture ==
  /\ wait.pc = "capture"
  /\ \/ /\ ~world.late /\ world.pane = "live" /\ UNCHANGED world
        /\ wait' = [wait EXCEPT !.pc = "judge", !.screen = world.screen,
                      !.last = wait.cursor]
     \/ /\ world.late /\ UNCHANGED world
        /\ wait' = Done(wait, TimedOut(wait.screen, wait.last))
     \/ /\ ~world.late /\ world.pane = "gone" /\ UNCHANGED world
        /\ wait' = Done(wait, "pane_died")
     \/ /\ ~world.late /\ MayFail /\ world' = Failing
        /\ wait' = Done(wait, "failed")
  /\ UNCHANGED echo

(* Where a capture that settled nothing leads. *)
Onward(w) ==
  CASE w.phase = "entry" -> [w EXCEPT !.pc = "connect"]
    [] w.phase = "after_connect" -> [w EXCEPT !.pc = "watch", !.phase = "stream"]
    [] w.phase = "stream" -> IF w.batch > 0
                               THEN [w EXCEPT !.pc = "cursor", !.batch = @ - 1]
                               ELSE [w EXCEPT !.pc = "watch"]
    [] OTHER -> [w EXCEPT !.pc = "cursor"]

Judge ==
  /\ wait.pc = "judge"
  /\ LET present == Present(wait.screen)
         spent == [wait EXCEPT !.budget = @ - 1, !.seen = IF present THEN SeenNow ELSE @]
     IN  wait' = CASE wait.budget = 0 /\ (wait.phase = "entry" \/ ~world.late) ->
                        Done(wait, "truncated")
                   [] world.late /\ (wait.phase # "entry" \/ wait.budget > 0) ->
                        Done(wait, TimedOut(wait.screen, wait.last))
                   [] OTHER -> IF present /\ Confirms(wait.screen, wait.last)
                                 THEN Done(spent, "matched") ELSE Onward(spent)
  /\ UNCHANGED <<world, echo>>

(* No socket, no session or no connection: the wait polls. *)
Connect ==
  /\ wait.pc = "connect"
  /\ \/ /\ world.late /\ UNCHANGED world
        /\ wait' = Done(wait, TimedOut(wait.screen, NoCursor))
     \/ /\ ~world.late /\ world.pane = "live"
        /\ world' = [world EXCEPT !.stream = "open", !.attached = TRUE]
        /\ wait' = [wait EXCEPT !.pc = "observe"]
     \/ /\ ~world.late /\ UNCHANGED world
        /\ wait' = [wait EXCEPT !.pc = "cursor", !.phase = "poll"]
  /\ UNCHANGED echo

MutObserve ==
  /\ wait.pc = "observe"
  /\ wait' = [wait EXCEPT !.own = TRUE, !.pc = "watch", !.phase = "stream"]
  /\ UNCHANGED <<world, echo>>

(* OwnObservationClient is registered; then the screen is read again. *)
Observe ==
  /\ wait.pc = "observe"
  /\ wait' = [wait EXCEPT !.own = TRUE, !.pc = "cursor", !.phase = "after_connect"]
  /\ UNCHANGED <<world, echo>>

(* wait_for_notifications answers with a batch; an early empty answer is a *)
(* stream that ended; a quiet slice checks that the pane is there.         *)
Watch ==
  /\ wait.pc = "watch"
  /\ \/ /\ world.late /\ UNCHANGED world
        /\ wait' = Done(wait, TimedOut(wait.screen, wait.last))
     \/ /\ ~world.late /\ world.queue > 0
        /\ world' = [world EXCEPT !.queue = 0]
        /\ wait' = [wait EXCEPT !.pc = "cursor", !.batch = world.queue - 1]
     \/ /\ ~world.late /\ world.stream = "ended" /\ world.queue = 0 /\ UNCHANGED world
        /\ wait' = [wait EXCEPT !.pc = "cursor", !.phase = "poll"]
     \/ /\ ~world.late /\ world.pane = "gone" /\ UNCHANGED world
        /\ wait' = Done(wait, "pane_died")
     \/ /\ ~world.late /\ MayFail /\ world' = Failing
        /\ wait' = Done(wait, "pane_died")
  /\ UNCHANGED echo

(* The locals go in reverse order: the registration before the connection. *)
Forget ==
  /\ wait.pc = "closing"
  /\ wait' = [wait EXCEPT !.own = FALSE, !.pc = "detach"]
  /\ UNCHANGED <<world, echo>>

Detach ==
  /\ wait.pc = "detach"
  /\ world' = [world EXCEPT !.attached = FALSE, !.stream = "none", !.queue = 0]
  /\ wait' = [wait EXCEPT !.pc = "done"]
  /\ UNCHANGED echo

WaitSteps ==
  \/ Identify \/ Lookup \/ ReadCursor \/ Capture \/ Judge \/ Connect \/ Observe
  \/ Watch \/ Forget \/ Detach

(* The pane is followed until the wait has its answer, and what it shows   *)
(* until the deadline: no command is sent after it, so no screen is read.  *)
PaneSteps ==
  /\ wait.result = "none"
  /\ \/ ~world.late /\ (Prints \/ Redraws \/ PaneDies \/ Pause \/ StreamEnds)
     \/ NoteInput \/ Dispatched \/ Committed \/ EchoExpires

WaitNext == PaneSteps \/ DeadlinePasses \/ Cancel \/ WaitSteps

WaitSpec == WaitInit /\ [][WaitNext]_waitVars

-----------------------------------------------------------------------------
(* A wait that sleeps on a control stream with nothing left to read has    *)
(* the pane's screen as it is: no output fell between the capture at       *)
(* entry, the start of the connection and the notifications.               *)
NothingMissed ==
  wait.pc = "watch" /\ world.stream = "open" /\ world.queue = 0 =>
    wait.screen = world.screen

(* The same for a pane tmux paused: the wait set pause_after, and %pause   *)
(* is the only report that output was dropped.                             *)
PauseNoticed ==
  wait.pc = "watch" /\ world.stream \in {"open", "paused"} /\ world.queue = 0 =>
    wait.screen = world.screen

(* A match is something the pane produced, however the captures, the       *)
(* dispatches, their echoes and the redraws interleave; except for lines   *)
(* the ledger no longer answers for, and for an echo that a word abuts: a  *)
(* prompt that ends in a word byte, or output in the row of the echo.  The *)
(* code masks whole occurrences only.                                      *)
OwnLinesMasked ==
  wait.result = "matched" /\ world.lapses = {} => world.produced

(* The same for every line the ledger still holds. *)
NotOwnText ==
  wait.result = "matched" /\ world.lapses \subseteq {"nested"} => world.produced

=============================================================================
