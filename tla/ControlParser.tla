--------------------------- MODULE ControlParser ---------------------------
(***************************************************************************)
(* The decoder of tmux's control mode (src/control.cpp): bytes are fed in  *)
(* whatever chunks a read returns, and reply blocks and notifications come *)
(* out.  tmux is the encoder on the other side; it may also say something  *)
(* no release says, and die in the middle of a line.  The words of a line  *)
(* are its bytes here, and "g1" stands for the three numbers of a guard.   *)
(***************************************************************************)
EXTENDS Naturals, Sequences, SequencesExt

CONSTANTS
  Retained,      \* retained_reply_bytes
  LineBytes,     \* line_bytes
  MaxMessages    \* things tmux says

VARIABLES
  said,      \* tmux: the messages, oldest first
  wire,      \* bytes on their way
  parser,    \* Parser
  events     \* what feed has returned, in order

parserVars == <<said, wire, parser, events>>

-----------------------------------------------------------------------------
(* What tmux says, and how (external): a line is a sequence of words, with *)
(* one space between two of them.  "esc" is a byte written as an octal     *)
(* escape, "bad" an escape that is none.                                   *)

Bodies == {<<>>, <<<<"t">>>>, <<<<"end", "g2">>, <<"t">>>>, <<<<"t", "t">>, <<>>, <<"output">>>>}

Replies ==
  [type : {"reply"}, guard : {"g1"}, terminal : {"end"}, body : Bodies]
    \cup [type : {"reply"}, guard : {"g1"}, terminal : {"error"}, body : {<<<<"t">>>>}]

(* A window may be given a name that looks like an id. *)
Notifications ==
  [type : {"output"}, payload : {<<"t">>, <<"@1", "ctl">>}]
    \cup [type : {"extended"}, payload : {<<"ctl", ":", "t">>}]
    \cup [type : {"renamed"}, text : {<<"t", "@home">>, <<"@1">>, <<"@home", "t">>, <<"$1">>}]
    \cup [type : {"subscribed"}, pane : {"%1", "-"}]
    \cup {[type |-> "exit"]}

(* What no supported tmux says. *)
Garbage ==
  [type : {"garbage"},
   line : {<<"begin">>, <<"begin", "t">>, <<"end", "g1">>, <<"output", "%1">>,
           <<"output", "%1", "bad">>, <<"extended", "%1", "t">>,
           [i \in 1..(LineBytes + 1) |-> "t"]}]

Escape(payload) == [i \in DOMAIN payload |-> IF payload[i] = "ctl" THEN "esc" ELSE payload[i]]

Subscribed(m) == <<"t", "$1", "@1", "t", m.pane, ":", "t">>

Lines(m) ==
  CASE m.type = "reply" -> <<<<"begin", m.guard>>>> \o m.body \o <<<<m.terminal, m.guard>>>>
    [] m.type = "output" -> <<<<"output", "%1">> \o Escape(m.payload)>>
    [] m.type = "extended" -> <<<<"extended", "%1", "t", ":">> \o Escape(m.payload)>>
    [] m.type = "renamed" -> <<<<"renamed", "@1">> \o m.text>>
    [] m.type = "subscribed" -> <<<<"subscribed">> \o Subscribed(m)>>
    [] m.type = "exit" -> <<<<"exit">>>>
    [] OTHER -> <<m.line>>

Joined(lines) == FoldLeft(LAMBDA s, line : s \o line \o <<"nl">>, <<>>, lines)

-----------------------------------------------------------------------------
(* Lines outside a block. *)

Refusal == [ok |-> FALSE]

(* The words of a line from the one after the first ":" at or after from. *)
Delimiters(line, from) == {i \in from..Len(line) : line[i] = ":" /\ i < Len(line)}
AfterDelimiter(line, from) ==
  (CHOOSE i \in Delimiters(line, from) : \A j \in Delimiters(line, from) : i <= j) + 1

decode_octal_payload(line, start) ==
  LET decoded(i) == IF i >= start /\ line[i] = "esc" THEN "ctl" ELSE line[i]
  IN  IF \E i \in start..Len(line) : line[i] = "bad" THEN Refusal
        ELSE [ok |-> TRUE, body |-> [i \in DOMAIN line |-> decoded(i)]]

notification_body(line) ==
  CASE Len(line) > 1 /\ Head(line) = "output" ->
         IF Len(line) = 2 THEN Refusal ELSE decode_octal_payload(line, 3)
    [] Len(line) > 1 /\ Head(line) = "extended" ->
         IF Delimiters(line, 3) = {} THEN Refusal
           ELSE decode_octal_payload(line, AfterDelimiter(line, 3))
    [] OTHER -> [ok |-> TRUE, body |-> line]

NoIds == [session |-> "", window |-> "", pane |-> ""]

(* What a word that begins with $, @ or % is taken for. *)
Prefixed == [session |-> {"$1"}, window |-> {"@1", "@home"}, pane |-> {"%1"}]

place_argument(ids, field) ==
  [k \in DOMAIN ids |-> IF field \in Prefixed[k] THEN field ELSE ids[k]]

(* The first argument that places no new id begins the text, which runs to *)
(* the end of the line.                                                    *)
PlaceOrText(acc, field) ==
  LET ids == place_argument(acc.ids, field)
  IN  IF acc.rest # <<>> \/ ids = acc.ids THEN [acc EXCEPT !.rest = Append(@, field)]
        ELSE [acc EXCEPT !.ids = ids]

parse(body) ==
  LET said_(ids, from) ==
        [kind |-> Head(body), ids |-> ids, rest |-> SubSeq(body, from, Len(body))]
      placed(fields) == FoldLeft(place_argument, NoIds, fields)
  IN  CASE body = <<>> -> [kind |-> "", ids |-> NoIds, rest |-> <<>>]
        [] body # <<>> /\ Head(body) = "output" -> said_(placed(<<body[2]>>), 3)
        [] body # <<>> /\ Head(body) = "extended" ->
             said_(placed(<<body[2]>>), AfterDelimiter(body, 4))
        [] body # <<>> /\ Head(body) = "subscribed" ->
             said_(placed(<<body[3], body[4], body[6]>>), 2)
        [] OTHER ->
             FoldLeft(PlaceOrText, [kind |-> Head(body), ids |-> NoIds, rest |-> <<>>], Tail(body))

-----------------------------------------------------------------------------
(* Parser. *)

NoBlock == [open |-> FALSE]

NewParser == [pending |-> <<>>, block |-> NoBlock, failure |-> FALSE, finished |-> FALSE]

Closes(line, block) == Len(line) = 2 /\ line[1] \in {"end", "error"} /\ line[2] = block.guard

(* parse_begin. *)
Opens(line) == Len(line) = 2 /\ line[2] \in {"g1", "g2"}

(* Counted in full, retained up to the bound. *)
Retain(block, line) ==
  LET arriving == Append(line, "nl")
      counted == [block EXCEPT !.bytes = @ + Len(arriving)]
      room == Retained - Len(block.body)
  IN  CASE Retained = 0 \/ Len(arriving) <= room -> [counted EXCEPT !.body = @ \o arriving]
        [] Retained # 0 /\ Len(arriving) > room /\ ~block.truncated ->
             [counted EXCEPT !.body = @ \o SubSeq(line, 1, room), !.truncated = TRUE]
        [] OTHER -> counted

(* consume_line: a is the parser and the events of this feed. *)
consume_line(a, line) ==
  LET block == a.parser.block
      fail == [a EXCEPT !.parser.failure = TRUE]
      said_(e) == [a EXCEPT !.out = Append(@, e)]
  IN  CASE block.open /\ Closes(line, block) ->
             [said_([kind |-> "reply", guard |-> block.guard, terminal |-> line[1],
                     body |-> block.body, truncated |-> block.truncated, bytes |-> block.bytes])
                EXCEPT !.parser.block = NoBlock]
        [] block.open /\ ~Closes(line, block) -> [a EXCEPT !.parser.block = Retain(block, line)]
        [] ~block.open /\ line # <<>> /\ Head(line) = "begin" ->
             IF Opens(line)
               THEN [a EXCEPT !.parser.block = [open |-> TRUE, guard |-> line[2], body |-> <<>>,
                                                truncated |-> FALSE, bytes |-> 0]]
               ELSE fail
        [] ~block.open /\ line # <<>> /\ Head(line) \in {"end", "error"} -> fail
        [] OTHER -> LET n == notification_body(line)
                    IN  IF n.ok THEN said_(parse(n.body)) ELSE fail

MutTake(a, b) ==
  IF b = "nl" THEN consume_line(a, a.parser.pending)
    ELSE [a EXCEPT !.parser.pending = Append(@, b)]

(* A line end consumes what was pending; a line past the bound is refused. *)
Take(a, b) ==
  CASE a.parser.failure -> a
    [] ~a.parser.failure /\ b = "nl" ->
         [consume_line(a, a.parser.pending) EXCEPT !.parser.pending = <<>>]
    [] ~a.parser.failure /\ b # "nl" /\ LineBytes # 0 /\ Len(a.parser.pending) = LineBytes ->
         [a EXCEPT !.parser.failure = TRUE, !.parser.pending = <<>>]
    [] OTHER -> [a EXCEPT !.parser.pending = Append(@, b)]

(* The events of a feed that fails are not returned. *)
feed(p, chunk) ==
  IF p.failure THEN [parser |-> p, out |-> <<>>]
    ELSE IF p.finished THEN [parser |-> [p EXCEPT !.failure = TRUE], out |-> <<>>]
    ELSE LET a == FoldLeft(Take, [parser |-> p, out |-> <<>>], chunk)
         IN  IF a.parser.failure THEN [a EXCEPT !.out = <<>>] ELSE a

finish(p) ==
  IF p.failure \/ p.finished THEN p
    ELSE IF p.pending # <<>> \/ p.block.open THEN [p EXCEPT !.failure = TRUE]
    ELSE [p EXCEPT !.finished = TRUE]

-----------------------------------------------------------------------------
ParserInit == said = <<>> /\ wire = <<>> /\ parser = NewParser /\ events = <<>>

Broken == \E i \in DOMAIN said : said[i].type \in {"garbage", "dead"}

Say ==
  /\ Len(said) < MaxMessages /\ ~Broken /\ ~parser.finished
  /\ \E m \in Replies \cup Notifications \cup Garbage :
       said' = Append(said, m) /\ wire' = wire \o Joined(Lines(m))
  /\ UNCHANGED <<parser, events>>

(* tmux dies before the last n bytes are out. *)
Dies ==
  /\ ~Broken /\ ~parser.finished
  /\ \E n \in 1..Len(wire) : /\ wire' = SubSeq(wire, 1, Len(wire) - n)
                           /\ said' = Append(said, [type |-> "dead", lost |-> n])
  /\ UNCHANGED <<parser, events>>

(* A read. *)
Feed ==
  /\ ~parser.failure
  /\ \E n \in 1..Len(wire) :
       LET a == feed(parser, SubSeq(wire, 1, n)) IN
       /\ parser' = a.parser /\ events' = events \o a.out
       /\ wire' = SubSeq(wire, n + 1, Len(wire))
  /\ UNCHANGED said

(* End of file. *)
Finish ==
  /\ wire = <<>> /\ ~parser.failure /\ ~parser.finished
  /\ parser' = finish(parser)
  /\ UNCHANGED <<said, wire, events>>

ParserNext == Say \/ Dies \/ Feed \/ Finish

ParserSpec == ParserInit /\ [][ParserNext]_parserVars

-----------------------------------------------------------------------------
(* What a message should come out as. *)
Meaning(m) ==
  LET body == IF m.type = "reply" THEN Joined(m.body) ELSE <<>>
      in(ids, rest) == [kind |-> m.type, ids |-> ids, rest |-> rest]
  IN  CASE m.type = "reply" ->
             [kind |-> "reply", guard |-> m.guard, terminal |-> m.terminal,
              body |-> IF Len(body) <= Retained THEN body ELSE SubSeq(body, 1, Retained),
              truncated |-> Len(body) > Retained, bytes |-> Len(body)]
        [] m.type \in {"output", "extended"} -> in([NoIds EXCEPT !.pane = "%1"], m.payload)
        [] m.type = "renamed" -> in([NoIds EXCEPT !.window = "@1"], m.text)
        [] m.type = "subscribed" ->
             in([session |-> "$1", window |-> "@1", pane |-> IF m.pane = "-" THEN "" ELSE m.pane],
                Subscribed(m))
        [] OTHER -> in(NoIds, <<>>)

(* A name whose first word looks like an id, other than the window's own,  *)
(* is read as one: parse cannot tell the two apart.                        *)
LooksLikeIds(m) ==
  m.type = "renamed" /\ Head(m.text) # "@1" /\ place_argument(NoIds, Head(m.text)) # NoIds

(* How far tmux got: the messages that are out whole, and whether it died  *)
(* within the one after them.                                              *)
Spoken == SelectSeq(said, LAMBDA m : m.type \notin {"garbage", "dead"})
Lost == IF said # <<>> /\ Last(said).type = "dead" THEN Last(said).lost ELSE 0
Size(n) == FoldLeft(LAMBDA k, m : k + Len(Joined(Lines(m))), 0, SubSeq(Spoken, 1, n))
Out == {n \in 0..Len(Spoken) : Size(n) <= Size(Len(Spoken)) - Lost}
Whole == CHOOSE n \in Out : \A k \in Out : k <= n
CutShort == Size(Whole) # Size(Len(Spoken)) - Lost
BrokeProtocol == \E i \in DOMAIN said : said[i].type = "garbage"

(* Whatever the chunks: what the decoder returns is what tmux said, in     *)
(* order and once, a name that looks like an id alone being misread; once  *)
(* everything is read nothing that came out whole is missing; a stream is  *)
(* refused only if tmux broke the protocol or died within a message, and   *)
(* then always (feed, and finish at the end of file); and what is kept     *)
(* stays within the bounds.                                                *)
AsTmuxSaid ==
  /\ Len(events) <= Whole
  /\ \A i \in DOMAIN events :
       IF LooksLikeIds(Spoken[i]) THEN events[i].kind = Spoken[i].type
         ELSE events[i] = Meaning(Spoken[i])
  /\ wire = <<>> /\ ~BrokeProtocol => Len(events) = Whole
  /\ parser.failure => BrokeProtocol \/ CutShort
  /\ wire = <<>> /\ BrokeProtocol => parser.failure
  /\ parser.finished => ~BrokeProtocol /\ ~CutShort
  /\ Len(parser.pending) <= LineBytes

(* The window of a rename is the one that was renamed, and the text its    *)
(* new name, whatever the name looks like.                                 *)
NamesKept == \A i \in DOMAIN events : events[i] = Meaning(Spoken[i])
=============================================================================
