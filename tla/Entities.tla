------------------------------ MODULE Entities ------------------------------
(***************************************************************************)
(* The typed entities of src/entities.cpp, src/server.cpp and              *)
(* src/acquire.hpp: a handle is one row of a listing, and every method     *)
(* turns it into a tmux target, runs one or two commands and reads a row   *)
(* back.  Between the listing and the command, and between two commands of *)
(* one method, other clients kill, link, move, break and join the objects  *)
(* the handle names, so what the model asks is whether a stale handle can  *)
(* act on, or answer for, an object nobody asked about.                    *)
(*                                                                         *)
(* tmux itself is external: which contexts a target resolves to, what each *)
(* command changes, and that ids are never reused within one server.  The  *)
(* current window of a session and the active pane of a window are any of  *)
(* those they hold.  A second server carries the same ids.                 *)
(***************************************************************************)
EXTENDS Naturals, FiniteSets, Functions

CONSTANTS Sessions, Windows, Panes, Buffers, None,
          InitialWorlds, \* the worlds the handle may be listed from
          MaxEvents,     \* bound on what other clients do
          MaxFaults      \* bound on commands the transport fails

VARIABLES tmux,    \* [links, home, name, buffers, used]
          server,  \* [psmux, release]: what the handle's connection found
          call,    \* the method in progress
          events, faults

entityVars == <<tmux, server, call, events, faults>>

-----------------------------------------------------------------------------
(* tmux: windows are linked into sessions and hold panes. *)

Contexts(t) == {c \in [s: Sessions, w: Windows, p: Panes] :
                  <<c.s, c.w>> \in t.links /\ t.home[c.p] = c.w}

\* A window without panes closes, and a pane without a linked window ends.
Settle(t) ==
  LET open == {w \in Windows : \E c \in Contexts(t) : c.w = w} IN
  [t EXCEPT !.links = {l \in @ : l[2] \in open},
            !.home = [p \in Panes |-> IF @[p] \in open THEN @[p] ELSE None]]

FreshWindows(t) == {w \in Windows : w \notin t.used}
FreshPanes(t) == {p \in Panes : p \notin t.used}

Alone(t, p) == \A q \in Panes : t.home[q] = t.home[p] => q = p

Broken(t, s, p, w, name) ==
  Settle([t EXCEPT !.links = @ \cup {<<s, w>>}, !.home[p] = w,
                   !.name[w] = name, !.used = @ \cup {w}])

\* What resolving a target finds.  A command that changes something fails
\* when its target is gone.
Resolve(t, target) ==
  {c \in Contexts(t) : /\ target.s \in {None, c.s}
                       /\ target.w \in {None, c.w}
                       /\ target.p \in {None, c.p}}

\* display-message answers for the container when only the container is left.
Describe(t, target) ==
  IF Resolve(t, target) = {} /\ target.w # None
  THEN Resolve(t, [target EXCEPT !.w = None]) ELSE Resolve(t, target)

Obj(srv, kind, s, w, x) == [srv |-> srv, kind |-> kind, s |-> s, w |-> w, x |-> x]

\* The objects one command acts on, in the context its target resolved to.
Acted(does, c) ==
  CASE does \in {"kill-session", "touch-session", "create"} ->
         {Obj("own", "session", c.s, None, None)}
    [] does \in {"kill-window", "touch-window", "split"} ->
         {Obj("own", "window", None, c.w, None)}
    [] does \in {"unlink", "select-link"} ->
         {Obj("own", "link", c.s, c.w, None)}
    [] does \in {"kill-pane", "touch-pane", "split-pane", "break"} ->
         {Obj("own", "pane", None, None, c.p)}
    [] does = "touch-client" -> {Obj("own", "client", None, None, None)}
    [] does \in {"touch-server", "new-session", "wait", "kill-server"} ->
         {Obj("own", "server", None, None, None)}

Changed(t, does, c) ==
  CASE does = "kill-session" -> {[t EXCEPT !.links = {l \in @ : l[1] # c.s}]}
    [] does = "kill-window" -> {[t EXCEPT !.links = {l \in @ : l[2] # c.w}]}
    [] does = "kill-pane" -> {[t EXCEPT !.home[c.p] = None]}
    [] does = "kill-server" -> {[t EXCEPT !.links = {}]}
    [] does = "unlink" ->
         {[t EXCEPT !.links = @ \ {<<c.s, c.w>>}] :
            s \in {s \in Sessions \ {c.s} : <<s, c.w>> \in t.links}}
    [] does = "create" ->
         {[t EXCEPT !.links = @ \cup {<<c.s, f[1]>>}, !.home[f[2]] = f[1],
                    !.used = @ \cup {f[1], f[2]}] :
            f \in FreshWindows(t) \X FreshPanes(t)}
    [] does \in {"split", "split-pane"} ->
         {[t EXCEPT !.home[p] = c.w, !.used = @ \cup {p}] : p \in FreshPanes(t)}
    [] OTHER -> {t}

\* What another client does meanwhile.
Others(t) ==
  UNION {{Settle(u) : u \in Changed(t, d, c)} :
           d \in {"kill-server", "kill-session", "kill-window", "kill-pane", "unlink"},
           c \in Contexts(t)}
  \cup {Settle([t EXCEPT !.links = @ \cup {<<s, c.w>>}]) : s \in Sessions, c \in Contexts(t)}
  \cup {Settle([t EXCEPT !.home[c.p] = d.w]) : c \in Contexts(t), d \in Contexts(t)}
  \cup {Broken(t, c.s, c.p, w, "other") :
          c \in {c \in Contexts(t) : ~Alone(t, c.p)}, w \in FreshWindows(t)}
  \cup {[t EXCEPT !.buffers = @ \ {b}] : b \in t.buffers}

-----------------------------------------------------------------------------
(* The methods.  A shape says which handle a method is called on, whether  *)
(* psmux is refused it, what its argument may be, what its command does,   *)
(* what is asked after it and whose identity the answer must carry.        *)

Shape(on, guarded, arg, does, then, answer) ==
  [on |-> on, guarded |-> guarded, arg |-> arg, does |-> does, then |-> then, answer |-> answer]

Query(on, guarded, answer) == Shape(on, guarded, "none", "read", "none", answer)
Change(on, arg, does) == Shape(on, TRUE, arg, does, "none", "none")

SessionQueries ==
  [m \in {"windows", "panes", "active_window", "active_pane"} |-> Query("session", FALSE, "any")]

SessionSelects ==
  [m \in {"next-window", "previous-window", "last-window"} |->
     Shape("session", TRUE, "none", "touch-session", "active_window", "any")]

NewWindow ==
  [m \in {"new-window"} |-> Shape("session", TRUE, "name", "create", "none", "any")]

SessionMethods ==
  [m \in {"rename-session", "kill-session", "refresh", "options", "option", "set-option",
          "unset-option", "expand", "display-message", "attach", "detach-client", "hooks",
          "set-hook"} |->
     CASE m = "rename-session" -> Change("session", "name", "touch-session")
       [] m = "kill-session" -> Change("session", "none", "kill-session")
       [] m \in {"refresh", "expand"} -> Query("session", FALSE, "self")
       [] m \in {"options", "option", "hooks", "attach"} -> Query("session", TRUE, "any")
       [] OTHER -> Change("session", "none", "touch-session")]

WindowQueries ==
  [m \in {"session", "panes", "active_pane"} |->
     Query("window", FALSE, IF m = "active_pane" THEN "active" ELSE "any")]

WindowSplit ==
  [m \in {"split-window"} |-> Shape("window", TRUE, "size", "split", "none", "any")]

WindowMethods ==
  [m \in {"rename-window", "select-window", "display-message", "expand", "kill-window",
          "select-layout", "resize-window", "next-layout", "previous-layout",
          "rotate-window", "last-pane"} |->
     CASE m = "rename-window" -> Change("window", "name", "touch-window")
       [] m \in {"select-layout", "resize-window"} -> Change("window", "size", "touch-window")
       [] m = "select-window" -> Change("window", "none", "select-link")
       [] m = "kill-window" -> Change("window", "none", "kill-window")
       [] m = "expand" -> Query("window", FALSE, "self")
       [] m = "last-pane" -> Shape("window", TRUE, "none", "touch-window", "active_pane", "active")
       [] OTHER -> Change("window", "none", "touch-window")]

WindowLinks ==
  [m \in {"link-window", "unlink-window", "swap-window", "move-window"} |->
     CASE m = "link-window" -> Change("window", "session", "touch-window")
       [] m = "unlink-window" -> Change("window", "none", "unlink")
       [] m = "swap-window" -> Change("window", "window", "select-link")
       [] m = "move-window" -> Change("window", "size", "select-link")]

WindowState ==
  [m \in {"refresh", "options", "option", "set-option", "unset-option"} |->
     CASE m = "refresh" -> Query("window", FALSE, "self")
       [] m \in {"options", "option"} -> Query("window", TRUE, "any")
       [] OTHER -> Change("window", "none", "touch-window")]

PaneQueries == [m \in {"window", "session"} |-> Query("pane", FALSE, "any")]

PaneInput ==
  [m \in {"send_text", "send_line", "send_key"} |->
     Change("pane", IF m = "send_line" THEN "none" ELSE "size", "touch-pane")]

PaneSplit ==
  [m \in {"split-window"} |-> Shape("pane", TRUE, "size", "split-pane", "none", "any")]

PaneCapture == [m \in {"capture-pane"} |-> Query("pane", TRUE, "any")]

PaneSizes ==
  [m \in {"set_width", "set_height", "toggle_zoom", "swap-pane"} |->
     CASE m = "swap-pane" -> Change("pane", "pane", "touch-pane")
       [] m = "toggle_zoom" -> Change("pane", "none", "touch-pane")
       [] OTHER -> Change("pane", "size", "touch-pane")]

PaneMethods ==
  [m \in {"join-pane", "copy-mode", "leave_mode", "pipe_to", "stop_piping", "set_title",
          "respawn-pane", "clear-history", "select-pane"} |->
     CASE m = "join-pane" -> Change("pane", "window", "touch-pane")
       [] m = "pipe_to" -> Change("pane", "size", "touch-pane")
       [] OTHER -> Change("pane", "none", "touch-pane")]

PaneState ==
  [m \in {"display-message", "expand", "kill-pane", "refresh", "options", "option",
          "set-option", "unset-option"} |->
     CASE m \in {"expand", "refresh"} -> Query("pane", FALSE, "self")
       [] m = "kill-pane" -> Change("pane", "none", "kill-pane")
       [] m \in {"options", "option"} -> Query("pane", TRUE, "any")
       [] OTHER -> Change("pane", "none", "touch-pane")]

BreakOut == [m \in {"break-pane"} |-> Shape("pane", TRUE, "break", "break", "none", "broken")]

PasteBuffer == [m \in {"paste-buffer"} |-> Change("pane", "buffer", "touch-pane")]

BufferMethods ==
  [m \in {"show-buffer", "delete-buffer"} |->
     IF m = "show-buffer" THEN Query("buffer", TRUE, "any")
     ELSE Change("buffer", "release", "delete-buffer")]

ClientMethods ==
  [m \in {"session", "switch-client", "detach-client", "refresh-client"} |->
     CASE m = "session" -> Query("client", TRUE, "any")
       [] m = "switch-client" -> Change("client", "session", "touch-client")
       [] OTHER -> Change("client", "none", "touch-client")]

ServerLifetime ==
  [m \in {"check_alive", "kill-server"} |->
     IF m = "check_alive" THEN Query("server", FALSE, "any")
     ELSE Shape("server", FALSE, "none", "kill-server", "none", "none")]

ServerListings ==
  [m \in {"sessions", "windows", "panes", "clients", "commands", "buffers"} |->
     Query("server", m \in {"clients", "commands", "buffers"}, "any")]

WaitFor ==
  [m \in {"wait-for", "signal"} |->
     Shape("server", TRUE, "size", IF m = "signal" THEN "touch-server" ELSE "wait",
           IF m = "signal" THEN "none" ELSE "alive", "none")]

ServerBuffers ==
  [m \in {"load-buffer", "save-buffer"} |-> Change("server", "size", "touch-server")]

ServerKeys ==
  [m \in {"bind-key", "unbind-key", "run-shell", "source-file", "check_file", "expand",
          "display-message", "set-buffer"} |->
     CASE m = "expand" -> Query("server", TRUE, "any")
       [] m \in {"bind-key", "unbind-key", "run-shell"} -> Change("server", "size", "touch-server")
       [] OTHER -> Change("server", "none", "touch-server")]

ServerLookups ==
  [m \in {"session", "window", "pane"} |-> Query("server", m # "session", "any")]

NewSession ==
  [m \in {"new-session"} |-> Shape("server", TRUE, "name", "new-session", "none", "any")]

ServerState ==
  [m \in {"show-options", "set-option", "show-hooks", "set-hook", "show-environment",
          "set-environment", "unset_environment", "remove_environment"} |->
     CASE m \in {"show-options", "show-hooks"} -> Query("server", TRUE, "any")
       [] m = "show-environment" -> Query("server", FALSE, "any")
       [] m \in {"set-option", "set-hook"} -> Change("server", "none", "touch-server")
       [] OTHER -> Shape("server", FALSE, "none", "touch-server", "none", "none")]

Methods ==
  UNION {Range(f) : f \in {SessionQueries, SessionSelects, NewWindow, SessionMethods,
                           WindowQueries, WindowSplit, WindowMethods, WindowLinks,
                           WindowState, PaneQueries, PaneInput, PaneSplit, PaneCapture,
                           PaneSizes, PaneMethods, PaneState, BreakOut, PasteBuffer,
                           BufferMethods, ClientMethods, ServerLifetime, ServerListings,
                           WaitFor, ServerBuffers, ServerKeys, ServerLookups, NewSession,
                           ServerState}}

\* Arguments: a text or number the method checks, a name that may hold a
\* separator, a second handle, or the name of a window broken out.
Inputs(arg) ==
  CASE arg = "name" -> {"ok", "bad", "separator"}
    [] arg = "size" -> {"ok", "bad"}
    [] arg = "break" -> {"unnamed", "ok", "separator"}
    [] OTHER -> {"ok"}

-----------------------------------------------------------------------------
(* Targets. *)

Target(s, w, p) == [s |-> s, w |-> w, p |-> p]

session_target(h) == Target(h.s, None, None)

\* A window target with the id alone, which leaves tmux to pick the link.
BareWindowTarget(h) == Target(None, h.w, None)

window_command_target(h) == Target(h.s, h.w, None)

pane_target(h) == Target(None, None, h.p)

TargetOf(on, h) ==
  CASE on = "session" -> session_target(h)
    [] on = "window" -> window_command_target(h)
    [] on = "pane" -> pane_target(h)
    [] OTHER -> Target(None, None, None)

\* The objects a handle of one kind stands for.
Named(on, h) ==
  CASE on = "session" -> {Obj(h.srv, "session", h.s, None, None)}
    [] on = "window" -> {Obj(h.srv, "window", None, h.w, None), Obj(h.srv, "link", h.s, h.w, None)}
    [] on = "pane" -> {Obj(h.srv, "pane", None, None, h.p)}
    [] on = "buffer" -> {Obj(h.srv, "buffer", None, None, h.b)}
    [] OTHER -> {Obj(h.srv, on, None, None, None)}

OtherArgument == {"session", "window", "pane", "buffer"}

-----------------------------------------------------------------------------
(* A call. *)

NoCall == [at |-> "idle", m |-> None, h |-> None, o |-> None, input |-> "ok",
           acted |-> {}, moved |-> FALSE, astray |-> FALSE,
           ok |-> FALSE, delivery |-> None, row |-> None, name |-> None]

\* What psmux gets wrong is refused whatever release it claims.
EntitiesInit ==
  /\ tmux \in InitialWorlds
  /\ server \in [psmux: {FALSE}, release: {"3.3", "3.7", "3.8"}]
                 \cup [psmux: {TRUE}, release: {"3.3"}]
  /\ call = NoCall
  /\ events = 0 /\ faults = 0

Rows(t, srv) ==
  {[srv |-> srv, s |-> c.s, w |-> c.w, p |-> c.p, b |-> b] :
     c \in Contexts(t), b \in t.buffers}

\* A handle keeps the columns of its own row; a narrower one has the rest too,
\* but only its own columns are read.
HandleOn(on, h) ==
  CASE on = "session" -> [h EXCEPT !.w = None, !.p = None, !.b = None]
    [] on = "window" -> [h EXCEPT !.p = None, !.b = None]
    [] on = "pane" -> [h EXCEPT !.b = None]
    [] on = "buffer" -> [h EXCEPT !.s = None, !.w = None, !.p = None]
    [] OTHER -> [h EXCEPT !.s = None, !.w = None, !.p = None, !.b = None]

Acquire ==
  /\ call.at = "idle"
  /\ \E m \in Methods, r \in Rows(tmux, "own") : \E input \in Inputs(m.arg) :
       /\ m.guarded \/ ~server.psmux
       /\ \E o \in IF m.arg \in OtherArgument
                   THEN {HandleOn(m.arg, q) :
                           q \in Rows(tmux, "own") \cup Rows(tmux, "other")}
                   ELSE {None} :
            call' = [NoCall EXCEPT !.at = "ready", !.m = m, !.h = HandleOn(m.on, r),
                                   !.o = o, !.input = input]
  /\ UNCHANGED <<tmux, server, events, faults>>

Elsewhere ==
  /\ call.at \in {"ready", "then", "repair"}
  /\ events < MaxEvents /\ events' = events + 1
  /\ tmux' \in Others(tmux) \ {tmux}
  /\ UNCHANGED <<server, call, faults>>

Failed(c, delivery) == [c EXCEPT !.at = "done", !.delivery = delivery]
Answered(c, row, name) == [c EXCEPT !.at = "done", !.ok = TRUE, !.row = row, !.name = name]

from_different_servers(c) == c.o # None /\ c.h.srv # c.o.srv

refuse_name_on_exact_37 == server.release = "3.7"

\* Deleting a buffer by name needs 3.4.
refuse_before == server.release = "3.3"

\* Each method checks its argument, the second handle's server, what psmux is
\* known to get wrong and what the release refuses before it sends anything.
Refused(c) ==
  \/ c.input = "bad"
  \/ from_different_servers(c)
  \/ c.m.guarded /\ server.psmux
  \/ c.input = "separator" /\ refuse_name_on_exact_37
  \/ c.m.arg = "release" /\ refuse_before

Refuse ==
  /\ call.at = "ready" /\ Refused(call)
  /\ call' = Failed(call, "not_started")
  /\ UNCHANGED <<tmux, server, events, faults>>

\* Row::run with a transport that fails before or after tmux saw the command.
Fail(delivery) ==
  /\ faults < MaxFaults /\ faults' = faults + 1
  /\ call' = Failed(call, delivery)

\* A row answers for one entity when its identity column is the one expected.
one_entity(c, row) ==
  c.m.answer = "self" => Named(c.m.on, [row EXCEPT !.srv = c.h.srv]) \cap Named(c.m.on, c.h) # {}

RowIn(c) == [srv |-> "own", s |-> c.s, w |-> c.w, p |-> c.p, b |-> None]

Read ==
  /\ call.at = "ready" /\ ~Refused(call) /\ call.m.does = "read"
  /\ \/ \E c \in Describe(tmux, TargetOf(call.m.on, call.h)) :
          /\ call' = IF one_entity(call, RowIn(c)) THEN Answered(call, RowIn(c), None)
                     ELSE Failed(call, "replied")
          /\ UNCHANGED faults
     \/ /\ Describe(tmux, TargetOf(call.m.on, call.h)) = {}
        /\ call' = Failed(call, "replied") /\ UNCHANGED faults
     \/ Fail("not_started")
     \/ Fail("indeterminate")
  /\ UNCHANGED <<tmux, server, events>>

\* The second handle's target, resolved where the command runs.
OtherContexts(c) ==
  IF c.m.arg \in {"session", "window", "pane"}
  THEN Resolve(tmux, TargetOf(c.m.arg, c.o)) ELSE Contexts(tmux)

OtherActed(c, d) ==
  CASE c.m.arg = "session" -> {Obj("own", "session", d.s, None, None)}
    [] c.m.arg = "window" -> {Obj("own", "window", None, d.w, None)}
    [] c.m.arg = "pane" -> {Obj("own", "pane", None, None, d.p)}
    [] c.m.arg = "buffer" -> {Obj("own", "buffer", None, None, c.o.b)}
    [] OTHER -> {}

Sent(c, acted) ==
  [c EXCEPT !.acted = @ \cup acted, !.moved = TRUE]

\* What running the method's command comes to: the handle's target and the
\* second one resolve, tmux acts, and the caller is answered or asks again.
Send ==
  /\ call.at = "ready" /\ ~Refused(call) /\ call.m.does \notin {"read", "break", "wait", "delete-buffer"}
  /\ \/ \E c \in Resolve(tmux, TargetOf(call.m.on, call.h)), d \in OtherContexts(call) :
          \E u \in Changed(tmux, call.m.does, c) :
            LET sent == Sent(call, Acted(call.m.does, c) \cup OtherActed(call, d)) IN
            /\ call.m.arg = "buffer" => call.o.b \in tmux.buffers
            /\ tmux' = Settle(u)
            /\ \/ /\ call' = IF call.m.then = "none" THEN Answered(sent, None, None)
                             ELSE [sent EXCEPT !.at = "then"]
                  /\ UNCHANGED faults
               \/ /\ faults < MaxFaults /\ faults' = faults + 1
                  /\ call' = Failed(sent, "indeterminate")
     \/ /\ Resolve(tmux, TargetOf(call.m.on, call.h)) = {}
        /\ call' = Failed(call, "replied")
        /\ UNCHANGED <<tmux, faults>>
     \/ Fail("not_started") /\ UNCHANGED tmux
     \/ Fail("indeterminate") /\ UNCHANGED tmux
  /\ UNCHANGED <<server, events>>

\* Buffer::remove.  Before 3.4 a name that is gone means the top buffer.
RemoveBuffer ==
  /\ call.at = "ready" /\ ~Refused(call) /\ call.m.does = "delete-buffer"
  /\ \/ \E b \in IF call.h.b \in tmux.buffers THEN {call.h.b}
               ELSE {b \in tmux.buffers : server.release = "3.3"} :
          /\ tmux' = [tmux EXCEPT !.buffers = @ \ {b}]
          /\ call' = Answered(Sent(call, {Obj("own", "buffer", None, None, b)}), None, None)
          /\ UNCHANGED faults
     \/ /\ call.h.b \notin tmux.buffers
        /\ call' = Failed(call, "replied") /\ UNCHANGED <<tmux, faults>>
     \/ Fail("not_started") /\ UNCHANGED tmux
  /\ UNCHANGED <<server, events>>

\* Server::wait_for: tmux exits zero when the channel is signalled, and when
\* the server goes away under the waiter.
Wait ==
  /\ call.at = "ready" /\ ~Refused(call) /\ call.m.does = "wait"
  /\ \/ \E signalled \in BOOLEAN :
          /\ signalled \/ Contexts(tmux) = {}
          /\ call' = [call EXCEPT !.at = "then", !.moved = TRUE, !.astray = ~signalled]
          /\ UNCHANGED faults
     \/ Fail("not_started")
     \/ Fail("indeterminate")
  /\ UNCHANGED <<tmux, server, events>>

\* The answer of the second question: wait_for asks whether the server lives.
StillThere(c) == c.m.then = "alive" => Contexts(tmux) # {}

\* moved() and select_last_pane() report where the selection ended up.
Then ==
  /\ call.at = "then" /\ call.m.then # "alive"
  /\ \/ \E c \in Describe(tmux, TargetOf(call.m.on, call.h)) :
          call' = Answered(call, RowIn(c), None) /\ UNCHANGED faults
     \/ /\ Describe(tmux, TargetOf(call.m.on, call.h)) = {}
        /\ call' = Failed(call, "replied") /\ UNCHANGED faults
     \/ Fail("not_started")
     \/ Fail("indeterminate")
  /\ UNCHANGED <<tmux, server, events>>

StillAlive ==
  /\ call.at = "then" /\ call.m.then = "alive"
  /\ call' \in {IF StillThere(call) THEN Answered(call, None, None) ELSE Failed(call, "replied"),
               Failed(call, "replied")}
  /\ UNCHANGED <<tmux, server, events, faults>>

-----------------------------------------------------------------------------
(* Pane::break_out. *)

\* The window row the guarded command reports, with its name.
BrokenRow(s, w) == [srv |-> "own", s |-> s, w |-> w, p |-> None, b |-> None]

\* tmux 3.7 gets the name of a window break-pane makes wrong.
Misnamed(asked) == IF server.release = "3.7" THEN {asked, "wrong"} ELSE {asked}

\* A named window is repaired on the release that misnames it, unless it is
\* the one the pane was in and it keeps its name by itself.
NeedsRepair(c, retained, automatic) ==
  c.input # "unnamed" /\ server.release = "3.7" /\ ~(retained /\ ~automatic)

\* What the first report comes to: the window, or the repair of its name.
Reported(c, w, name, retained) ==
  \E automatic \in IF server.release = "3.7" THEN BOOLEAN ELSE {FALSE} :
    call' = IF NeedsRepair(c, retained, automatic)
            THEN [c EXCEPT !.at = "repair", !.row = BrokenRow(c.h.s, w)]
            ELSE Answered(c, BrokenRow(c.h.s, w), name)

WindowObj(w) == Obj("own", "window", None, w, None)

\* A pane alone in its window stays: the window the handle was captured in is
\* renamed, or just reported.
RetainedWindow(c) ==
  /\ tmux.home[c.h.p] # None /\ Alone(tmux, c.h.p)
  /\ Resolve(tmux, window_command_target(c.h)) # {}
  /\ LET there == [c EXCEPT !.astray = tmux.home[c.h.p] # c.h.w] IN
       \/ /\ c.input = "unnamed" /\ tmux' = tmux
          /\ Reported(there, c.h.w, tmux.name[c.h.w], TRUE)
       \/ /\ c.input # "unnamed" /\ tmux' = [tmux EXCEPT !.name[c.h.w] = "asked"]
          /\ Reported(Sent(there, {WindowObj(c.h.w)}), c.h.w, "asked", TRUE)

\* Any other pane moves into a new window of the session it was captured in.
NewBrokenWindow(c) ==
  /\ tmux.home[c.h.p] # None /\ ~Alone(tmux, c.h.p)
  /\ Resolve(tmux, session_target(c.h)) # {}
  /\ \E w \in FreshWindows(tmux), name \in Misnamed("asked") :
       /\ tmux' = Broken(tmux, c.h.s, c.h.p, w, name)
       /\ Reported(Sent(c, {Obj("own", "pane", None, None, c.h.p),
                           Obj("own", "session", c.h.s, None, None)}), w, name, FALSE)

BreakMisses(c) ==
  \/ Resolve(tmux, pane_target(c.h)) = {}
  \/ Alone(tmux, c.h.p) /\ Resolve(tmux, window_command_target(c.h)) = {}
  \/ ~Alone(tmux, c.h.p) /\ Resolve(tmux, session_target(c.h)) = {}

Break ==
  /\ call.at = "ready" /\ ~Refused(call) /\ call.m.does = "break"
  /\ \/ RetainedWindow(call) /\ UNCHANGED faults
     \/ NewBrokenWindow(call) /\ UNCHANGED faults
     \/ BreakMisses(call) /\ call' = Failed(call, "replied") /\ UNCHANGED <<tmux, faults>>
     \/ Fail("not_started") /\ UNCHANGED tmux
     \/ Fail("indeterminate") /\ UNCHANGED tmux
  /\ UNCHANGED <<server, events>>

RepairDelivery(delivery) == IF delivery = "not_started" THEN "replied" ELSE delivery

\* The name is set again and reported once more, for the window just made; a
\* window that is gone, a hook, another release or a name that does not last
\* is a failure tmux replied to.
Repair ==
  /\ call.at = "repair"
  /\ \/ /\ Resolve(tmux, window_command_target(call.row)) # {}
        /\ tmux' = [tmux EXCEPT !.name[call.row.w] = "asked"]
        /\ call' = Answered(Sent(call, {WindowObj(call.row.w)}), call.row, "asked")
        /\ UNCHANGED faults
     \/ call' = Failed(call, "replied") /\ UNCHANGED <<tmux, faults>>
     \/ Fail(RepairDelivery("not_started")) /\ UNCHANGED tmux
     \/ Fail("indeterminate") /\ UNCHANGED tmux
  /\ UNCHANGED <<server, events>>

EntitiesNext ==
  Acquire \/ Elsewhere \/ Refuse \/ Read \/ Send \/ RemoveBuffer \/ Wait
  \/ Then \/ StillAlive \/ Break \/ Repair

EntitiesSpec == EntitiesInit /\ [][EntitiesNext]_entityVars

-----------------------------------------------------------------------------
\* Every command a method sends acts on the object its handle was listed as,
\* and on the second handle's object, on those handles' own server: a window
\* linked into several sessions is acted on through the link it was listed
\* from (Window::checked_target), and ids from another server are refused
\* (from_different_servers), whatever other clients did since the listing.
\* break_out acts on the session and the window its pane was listed in besides,
\* and on the window it made; the pane may have left the window it renames.
ActsOnOwn ==
  call.acted \subseteq
    (IF call.h = None THEN {} ELSE Named(call.m.on, call.h))
    \cup (IF call.o = None THEN {} ELSE Named(call.m.arg, call.o))
    \cup (IF call.h # None /\ call.m.answer = "broken"
          THEN Named("session", call.h)
               \cup {WindowObj(w) : w \in {call.h.w, IF call.row = None THEN None ELSE call.row.w}}
          ELSE {})

\* A method that answers for its own object (refresh, expand) answers for that
\* object or reports it missing: tmux answers for the container when the
\* window is gone, and the identity column says so (one_entity).  Likewise a
\* wait that succeeds was signalled, not cut short by the server's end.
AnswersForOwn ==
  /\ call.ok /\ call.m.answer = "self" =>
       Named(call.m.on, [call.row EXCEPT !.srv = call.h.srv]) \cap Named(call.m.on, call.h) # {}
  /\ call.ok /\ call.m.does = "wait" => ~call.astray

\* A failure reported as not_started, the one delivery that is safe to retry
\* blindly, comes from a call that changed nothing: break_out says "replied"
\* when only the repair after the move did not start.  The methods that select
\* and then report (select_next_window, select_last_pane) are left out: they
\* hand on what became of the report, after the selection took effect.
RetryIsSafe ==
  call.delivery = "not_started" /\ call.m.then \in {"none", "alive"} => ~call.moved

\* A window break_out returns under a name carries that name when it is
\* reported, on the release that gets it wrong too.
NamedAsAsked ==
  call.ok /\ call.m.answer = "broken" /\ call.input # "unnamed" => call.name = "asked"

\* A method acts on its handle's object, answers for it, and, unless it selects
\* and then reports, is truthful about what may be asked again.
HandlesHonest == ActsOnOwn /\ AnswersForOwn /\ RetryIsSafe /\ NamedAsAsked

\* break_out returns the pane's own window, and renames no other: "If it is
\* already the window's only pane, return that window without moving it."
BreaksOwnPane ==
  call.ok /\ call.m.answer = "broken" => ~call.astray

\* The same for every method, those that select and then report included.
SelectRetryIsSafe ==
  call.delivery = "not_started" => ~call.moved
=============================================================================
