----------------------------- MODULE LogFollow -----------------------------
(***************************************************************************)
(* Following a log on a terminal (src/src/tail): one pane of the           *)
(* side-by-side view of `sim log --follow`, and the two threads behind it. *)
(*                                                                         *)
(* The reader polls the file, appends what is new to the lines the pane    *)
(* keeps, and drops the oldest past MaxLines.  The main thread handles     *)
(* keys and mouse and draws.  The scroll offset, the selection and the     *)
(* search hit are indices into the lines; the reader never moves them: it  *)
(* counts what it dropped, and the main thread slides them.                *)
(*                                                                         *)
(* The log is a sequence of units <<g, n>>: the n-th of what the file held *)
(* before it was cut for the g-th time.  Two units in three end a line.    *)
(* Indices count from 0, as in the code: line i is lines[i + 1].           *)
(***************************************************************************)
EXTENDS Integers, SequencesExt, FiniteSetsExt

CONSTANTS
  MaxLines,  \* MAX_LINES, the lines a pane keeps
  Height,    \* the lines a pane shows
  Seed,      \* SEED_BYTES, in units
  Steps,     \* the lines one key, one page or one wheel notch moves by
  Hits,      \* the units the pattern that is typed matches
  MaxCuts,   \* bound: times the file is cut
  MaxSteps,  \* bound: units written, cuts, keys and mouse events together,
             \* but for the events that end a mode
  None

LogAssumption ==
  /\ MaxLines \in Nat \ {0} /\ Height \in Nat \ {0} /\ Seed \in Nat \ {0}
  /\ Steps \subseteq Nat \ {0} /\ {MaxCuts, MaxSteps} \subseteq Nat
  /\ None \notin Nat \cup [anchor : Nat, cursor : Nat]
                  \cup [dir : {"forward", "backward"}, hit : Nat \cup {None}]

VARIABLES
  log,        \* the file: [there, gen (times cut), len]
  tail,       \* LogTail and the thread around it: [at, offset, start]
  buf,        \* PaneContent: [lines, open, evicted], and how many lines were
              \* dropped in all
  view,       \* ScrollState, selection and search: [offset, follow, sel, search]
  mode,       \* Mode: "normal", "select", or the prompt with what it saved
  drag,       \* the line the button went down on, or None
  ui,         \* where the main thread is
  found,      \* the hit it is about to focus
  dirty,      \* content_dirty: bytes have landed
  viewDirty,  \* view_dirty: an event was handled since the last frame
  frame,      \* the last frame: whether it has all the lines, and what it
              \* shows (None once an event has changed that)
  left        \* of MaxSteps

vars == <<log, tail, buf, view, mode, drag, ui, found, dirty, viewDirty, frame, left>>

Normal == [at |-> "normal"]
Selecting == [at |-> "select"]

Init ==
  /\ log = [there |-> FALSE, gen |-> 0, len |-> 0]
  /\ tail = [at |-> "none", offset |-> 0, start |-> 0]
  /\ buf = [lines |-> <<>>, open |-> FALSE, evicted |-> 0, dropped |-> 0]
  /\ view = [offset |-> 0, follow |-> TRUE, sel |-> None, search |-> None]
  /\ mode = Normal /\ drag = None
  /\ ui = "seed" /\ found = None
  /\ dirty = FALSE /\ viewDirty = FALSE
  /\ frame = [all |-> FALSE, shown |-> None] /\ left = MaxSteps

-----------------------------------------------------------------------------
(* The simulation writes, or starts its log anew.                          *)
Write ==
  /\ left > 0
  /\ log' = [log EXCEPT !.there = TRUE, !.len = @ + 1]
  /\ left' = left - 1
  /\ UNCHANGED <<tail, buf, view, mode, drag, ui, found, dirty, viewDirty, frame>>

Cut ==
  /\ log.there /\ log.gen < MaxCuts /\ left > 0
  /\ log' = [log EXCEPT !.gen = @ + 1, !.len = 0]
  /\ left' = left - 1
  /\ UNCHANGED <<tail, buf, view, mode, drag, ui, found, dirty, viewDirty, frame>>

Less(n, by) == Max({0, n - by})  \* saturating_sub

EndsLine(u) == u[2] % 3 # 2
ReadFrom(o) == [i \in 1..Less(log.len, o) |-> <<log.gen, o + i>>]

(* PaneContent::ingest: the first piece goes on with an open line, the     *)
(* oldest lines past MaxLines go, and are counted.                         *)
Put(b, u) ==
  [b EXCEPT !.lines = IF b.open THEN [b.lines EXCEPT ![Len(b.lines)] = Append(@, u)]
                                ELSE Append(b.lines, <<u>>),
            !.open = ~EndsLine(u)]
Puts(units) ==
  LET put[n \in 0..Len(units)] == IF n = 0 THEN buf ELSE Put(put[n - 1], units[n])
  IN put[Len(units)]
Ingest(units) ==
  LET b == Puts(units)
      over == Less(Len(b.lines), MaxLines)
  IN [b EXCEPT !.lines = SubSeq(@, over + 1, Len(@)),
               !.evicted = @ + over, !.dropped = @ + over]

(* Pane::seeded: the window at the end of the file, less the line it       *)
(* starts in the middle of.  The file grows between the two looks at it.   *)
WithoutFragment(units) ==
  SubSeq(units, SelectInSeq(units, EndsLine) + 1,
         IF \E i \in DOMAIN units : EndsLine(units[i]) THEN Len(units) ELSE 0)

SeedLooks ==
  /\ ui = "seed" /\ tail.at = "none"
  /\ IF log.there
       THEN /\ tail' = [tail EXCEPT !.at = "seeds", !.start = Less(log.len, Seed)]
            /\ UNCHANGED ui
       ELSE /\ tail' = [tail EXCEPT !.at = "idle"]
            /\ ui' = "draw"
  /\ UNCHANGED <<log, buf, view, mode, drag, found, dirty, viewDirty, frame, left>>

(* Mutant: the tail goes on from the number of units that were read.       *)
SeedReads_ForgetsStart ==
  /\ ui = "seed" /\ tail.at = "seeds"
  /\ LET units == ReadFrom(tail.start) IN
     /\ buf' = Ingest(IF tail.start > 0 THEN WithoutFragment(units) ELSE units)
     /\ tail' = [tail EXCEPT !.at = "idle", !.offset = Len(units), !.start = 0]
  /\ ui' = "draw"
  /\ UNCHANGED <<log, view, mode, drag, found, dirty, viewDirty, frame, left>>

SeedReads ==
  /\ ui = "seed" /\ tail.at = "seeds"
  /\ LET units == ReadFrom(tail.start) IN
     /\ buf' = Ingest(IF tail.start > 0 THEN WithoutFragment(units) ELSE units)
     /\ tail' = [tail EXCEPT !.at = "idle", !.offset = tail.start + Len(units), !.start = 0]
  /\ ui' = "draw"
  /\ UNCHANGED <<log, view, mode, drag, found, dirty, viewDirty, frame, left>>

(* LogTail::poll: the length, then whatever there is past the offset by    *)
(* the time of the read; from the top if the file has shrunk.              *)
Poll ==
  /\ tail.at = "idle" /\ ui # "seed" /\ log.there
  /\ LET o == IF log.len < tail.offset THEN 0 ELSE tail.offset IN
     tail' = [tail EXCEPT !.offset = o, !.at = IF log.len = o THEN "idle" ELSE "reads"]
  /\ UNCHANGED <<log, buf, view, mode, drag, ui, found, dirty, viewDirty, frame, left>>

Read ==
  /\ tail.at = "reads"
  /\ LET units == ReadFrom(tail.offset) IN
     /\ buf' = Ingest(units)
     /\ tail' = [tail EXCEPT !.offset = @ + Len(units),
                             !.at = IF units = <<>> THEN "idle" ELSE "raises"]
     /\ frame' = [frame EXCEPT !.all = @ /\ units = <<>>]
  /\ UNCHANGED <<log, view, mode, drag, ui, found, dirty, viewDirty, left>>

Raise ==
  /\ tail.at = "raises"
  /\ dirty' = TRUE
  /\ tail' = [tail EXCEPT !.at = "idle"]
  /\ UNCHANGED <<log, buf, view, mode, drag, ui, found, viewDirty, frame, left>>

-----------------------------------------------------------------------------
(* shift_view: indices that fall off the front stay on the oldest line.    *)
Slid(line, by) == IF line = None THEN None ELSE Less(line, by)
Shifted(v, by) ==
  [v EXCEPT !.offset = Less(@, by),
            !.sel = IF @ = None THEN None
                    ELSE [anchor |-> Less(@.anchor, by), cursor |-> Less(@.cursor, by)],
            !.search = IF @ = None THEN None
                       ELSE [dir |-> @.dir, hit |-> Slid(@.hit, by)]]

(* Pane::apply_evictions.                                                  *)
ApplyEvictions ==
  /\ view' = Shifted(view, buf.evicted)
  /\ buf' = [buf EXCEPT !.evicted = 0]

(* The top of run_app's loop.                                              *)
Top ==
  /\ ui = "top" /\ ui' = "wait"
  /\ ApplyEvictions
  /\ UNCHANGED <<log, tail, mode, drag, found, dirty, viewDirty, frame, left>>

Size == Len(buf.lines)
MaxScroll == Less(Size, Height)

(* ScrollState.                                                            *)
Up(v, n) == [v EXCEPT !.offset = Less(@, n), !.follow = FALSE]
Down(v, n) ==
  LET o == Min({v.offset + n, MaxScroll}) IN
  [v EXCEPT !.offset = o, !.follow = @ \/ o >= MaxScroll]
Home(v) == [v EXCEPT !.offset = 0, !.follow = FALSE]
End(v) == [v EXCEPT !.offset = MaxScroll, !.follow = TRUE]
Resolved(v) == [v EXCEPT !.offset = IF v.follow THEN MaxScroll ELSE Min({@, MaxScroll})]

Centered(line) == Min({Less(line, Height \div 2), MaxScroll})
ToShow(line, offset) ==
  Min({MaxScroll, IF line < offset THEN line
                  ELSE IF line + 1 > offset + Height THEN line + 1 - Height ELSE offset})

(* Query::locate: the next line that matches, or the first from the other  *)
(* end.                                                                    *)
Matching == {i \in 0..Size - 1 : \E u \in ToSet(buf.lines[i + 1]) : u[2] \in Hits}
Locate(dir, from, inclusive) ==
  LET at == Min({from, Size - 1})
      ahead == {i \in Matching : \/ inclusive /\ i = at
                                 \/ IF dir = "forward" THEN i > at ELSE i < at}
      some == IF ahead = {} THEN Matching ELSE ahead
  IN IF some = {} THEN None ELSE IF dir = "forward" THEN Min(some) ELSE Max(some)

(* Where a search without a hit starts: view_origin.                       *)
Origin(v, dir) ==
  IF dir = "forward" THEN v.offset ELSE Less(Min({v.offset + Height, Size}), 1)

-----------------------------------------------------------------------------
Touched ==
  /\ viewDirty' = TRUE /\ frame' = [frame EXCEPT !.shown = None]
  /\ left' = IF mode.at # "normal" /\ mode' = Normal THEN left ELSE left - 1

(* One event, whatever it does to the view, the mode and the drag.         *)
Handles(v, m, d) ==
  /\ ui = "wait" /\ left > 0
  /\ view' = v /\ mode' = m /\ drag' = d
  /\ ui' = "check" /\ Touched
  /\ UNCHANGED <<log, tail, buf, found, dirty>>

(* An event that looks for a match: what it found is focused with the lock *)
(* taken anew (focus_hit).                                                 *)
Seeks(v, m, hit) ==
  IF hit = None THEN Handles(v, m, drag)
  ELSE /\ ui = "wait" /\ left > 0
       /\ view' = v /\ mode' = m /\ found' = hit
       /\ ui' = "focus" /\ Touched
       /\ UNCHANGED <<log, tail, buf, drag, dirty>>

Focus ==
  /\ ui = "focus"
  /\ view' = [view EXCEPT !.follow = FALSE, !.offset = Centered(found),
                          !.search.hit = found]
  /\ found' = None /\ ui' = "check"
  /\ UNCHANGED <<log, tail, buf, mode, drag, dirty, viewDirty, frame, left>>

(* normal_key, and the wheel, which works while selecting too.             *)
Scroll ==
  /\ mode.at # "search"
  /\ \E n \in Steps :
       \/ Handles(Up(view, n), mode, drag)
       \/ Handles(Down(view, n), mode, drag)
Jump ==
  /\ mode.at = "normal"
  /\ Handles(Home(view), mode, drag) \/ Handles(End(view), mode, drag)
Dismiss ==
  /\ mode.at = "normal" /\ view.search # None
  /\ Handles([view EXCEPT !.search = None], mode, drag)

(* n and N (step_search): on from the hit, or from what is on screen.      *)
Stepped(v, dir) ==
  IF v.search.hit # None THEN Locate(dir, v.search.hit, FALSE)
                         ELSE Locate(dir, Origin(v, dir), TRUE)
NextHit ==
  /\ mode.at = "normal" /\ view.search # None
  /\ \E dir \in {"forward", "backward"} :
       Seeks(view, mode, Stepped(view, dir))

(* / and ?: the prompt takes the search along and saves the view.          *)
OpenPrompt ==
  /\ mode.at = "normal"
  /\ \E dir \in {"forward", "backward"} :
       Handles([view EXCEPT !.search = None],
               [at |-> "search", dir |-> dir, input |-> "empty", offset |-> view.offset,
                follow |-> view.follow, search |-> view.search], drag)

Rewound(search) ==
  [view EXCEPT !.offset = mode.offset, !.follow = mode.follow, !.search = search]
Fresh == [dir |-> mode.dir, hit |-> None]

(* preview_search, per keystroke: the pattern is empty, does not compile,  *)
(* or is sought from where the prompt was opened.                          *)
Type ==
  /\ mode.at = "search"
  /\ \E input \in {"empty", "bad", "good"} :
       LET m == [mode EXCEPT !.input = input]
           v == Rewound(IF input = "good" THEN Fresh ELSE None)
       IN Seeks(v, m, IF input = "good" THEN Locate(mode.dir, Origin(v, mode.dir), TRUE)
                                        ELSE None)

(* Enter (commit_search), or Esc, or Enter with nothing that compiles      *)
(* (abandon_search).                                                       *)
Commit ==
  /\ mode.at = "search" /\ mode.input = "good"
  /\ Seeks(Rewound(Fresh), Normal, Stepped(Rewound(Fresh), mode.dir))
Abandon ==
  /\ mode.at = "search"
  /\ Handles(Rewound(mode.search), Normal, drag)

(* v (start_select): the newest line on screen.                            *)
StartSelect ==
  /\ mode.at = "normal" /\ Size > 0
  /\ LET line == Origin(view, "backward") IN
     Handles([view EXCEPT !.follow = FALSE, !.sel = [anchor |-> line, cursor |-> line]],
             Selecting, drag)

(* select_key: a motion extends the selection; y, v and Esc end it.        *)
Move ==
  /\ mode.at = "select"
  /\ LET last == Less(Size, 1)
         line == Min({view.sel.cursor, last})
     IN \E to \in {Less(line, n) : n \in Steps} \cup {Min({line + n, last}) : n \in Steps}
                    \cup {0, last} :
          Handles([view EXCEPT !.offset = ToShow(to, @),
                               !.sel = [anchor |-> Min({@.anchor, last}), cursor |-> to]],
                  mode, drag)
LeaveSelect ==
  /\ mode.at = "select"
  /\ Handles([view EXCEPT !.sel = None], Normal, drag)

-----------------------------------------------------------------------------
(* The mouse.  While the prompt is open it only ends a drag.               *)
LineAt(v, row) == Min({v.offset + row, Size - 1})
Extended(v, row) ==
  [v EXCEPT !.follow = FALSE, !.sel = [anchor |-> drag, cursor |-> LineAt(v, row)]]

Press ==
  /\ mode.at # "search"
  /\ \E row \in 0..Height - 1 :
       Handles([view EXCEPT !.sel = None], Normal,
               IF Size = 0 THEN None ELSE LineAt(view, row))
Release == drag # None /\ Handles(view, mode, None)
Drag ==
  /\ mode.at # "search" /\ drag # None
  /\ \E row \in 0..Height - 1 : Handles(Extended(view, row), Selecting, drag)

(* A drag parked off the edge scrolls on, or pans, and outranks follow; a  *)
(* step that moves the view extends the selection.                         *)
Steered ==
  {[to |-> Up(view, n), row |-> 0] : n \in Steps}
    \cup {[to |-> [Down(view, n) EXCEPT !.follow = FALSE], row |-> Height - 1] : n \in Steps}
    \cup {[to |-> view, row |-> row] : row \in 0..Height - 1}
Autoscroll ==
  /\ ui = "check" /\ drag # None /\ mode.at # "search"
  /\ \E s \in Steered, pans \in BOOLEAN :
       IF pans \/ s.to.offset # view.offset
         THEN /\ view' = Extended(s.to, s.row)
              /\ mode' = Selecting /\ viewDirty' = TRUE
              /\ frame' = [frame EXCEPT !.shown = None]
         ELSE view' = s.to /\ UNCHANGED <<mode, viewDirty, frame>>
  /\ ui' = "due"
  /\ UNCHANGED <<log, tail, buf, drag, found, dirty, left>>

-----------------------------------------------------------------------------
(* run_app: no event came.                                                 *)
Tick ==
  /\ ui = "wait" /\ ui' = "check"
  /\ UNCHANGED <<log, tail, buf, view, mode, drag, found, dirty, viewDirty, frame, left>>

(* Nothing is due: the pacer holds the frame back, or nothing is dirty.    *)
Skip ==
  /\ ui \in {"check", "due"} /\ ui' = "top"
  /\ UNCHANGED <<log, tail, buf, view, mode, drag, found, dirty, viewDirty, frame, left>>

(* A frame is due: the flags are cleared before it is drawn.               *)
Clear ==
  /\ ui \in {"check", "due"}
  /\ dirty \/ viewDirty
  /\ dirty' = FALSE /\ viewDirty' = FALSE
  /\ ApplyEvictions
  /\ ui' = "draw"
  /\ UNCHANGED <<log, tail, mode, drag, found, frame, left>>

(* What a frame shows, in lines of the whole log: the first one, the       *)
(* selection, the hit.                                                     *)
Shown(v, dropped) ==
  [top |-> dropped + v.offset,
   sel |-> IF v.sel = None THEN None
           ELSE [anchor |-> dropped + v.sel.anchor, cursor |-> dropped + v.sel.cursor],
   hit |-> IF v.search = None \/ v.search.hit = None THEN None
           ELSE dropped + v.search.hit]

(* Mutant: what was dropped while the frame was prepared is not folded in. *)
Render_Unfolded ==
  /\ ui = "draw"
  /\ view' = Resolved(view)
  /\ frame' = [all |-> TRUE, shown |-> Shown(view', buf.dropped)]
  /\ ui' = "writes"
  /\ UNCHANGED <<log, tail, buf, mode, drag, found, dirty, viewDirty, left>>

(* render_pane: what was dropped meanwhile is folded in and the lines are  *)
(* read under one lock.                                                    *)
Render ==
  /\ ui = "draw"
  /\ view' = Resolved(Shifted(view, buf.evicted))
  /\ buf' = [buf EXCEPT !.evicted = 0]
  /\ frame' = [all |-> TRUE, shown |-> Shown(view', buf.dropped)]
  /\ ui' = "writes"
  /\ UNCHANGED <<log, tail, mode, drag, found, dirty, viewDirty, left>>

(* Mutant: the reader's flag is cleared after drawing.                     *)
Written_Clears ==
  /\ ui = "writes" /\ ui' = "top"
  /\ dirty' = FALSE
  /\ UNCHANGED <<log, tail, buf, view, mode, drag, found, viewDirty, frame, left>>

(* The terminal took the frame, however long that was.                     *)
Written ==
  /\ ui = "writes" /\ ui' = "top"
  /\ UNCHANGED <<log, tail, buf, view, mode, drag, found, dirty, viewDirty, frame, left>>

Next ==
  \/ Write \/ Cut \/ SeedLooks \/ SeedReads \/ Poll \/ Read \/ Raise
  \/ Top \/ Render \/ Written
  \/ Scroll \/ Jump \/ Dismiss \/ NextHit \/ OpenPrompt \/ Type \/ Commit \/ Abandon
  \/ Focus \/ StartSelect \/ Move \/ LeaveSelect
  \/ Press \/ Release \/ Drag \/ Autoscroll
  \/ Tick \/ Skip \/ Clear

Spec == Init /\ [][Next]_vars

-----------------------------------------------------------------------------
(* The pane keeps the log as it was written: unit after unit, none twice,  *)
(* none left out unless the file was cut, and a new line exactly where one *)
(* ended.                                                                  *)
Follows(u, w) == w = <<u[1], u[2] + 1>> \/ u[1] < w[1]
Whole(line) ==
  /\ line # <<>>
  /\ \A k \in 1..Len(line) - 1 : Follows(line[k], line[k + 1]) /\ ~EndsLine(line[k])
LogWhole ==
  /\ \A i \in 1..Size : Whole(buf.lines[i])
  /\ \A i \in 1..Size - 1 :
       EndsLine(Last(buf.lines[i])) /\ Follows(Last(buf.lines[i]), buf.lines[i + 1][1])

(* Whatever landed is on the screen, or a frame is due, or the reader is   *)
(* about to say so: no wake-up is lost between the threads.                *)
FrameDue ==
  frame.all \/ dirty \/ viewDirty \/ tail.at = "raises" \/ ui \in {"seed", "draw"}

(* A paused view stays on the same text, and so do the selection and the   *)
(* hit: from one frame to the next, with no event between them, they name  *)
(* the same lines of the log, or the oldest that is left.                  *)
Kept(line) == Max({line, buf.dropped})
ViewStays ==
  [][frame.shown # None /\ ui = "draw" /\ ui' = "writes" =>
       LET was == frame.shown
           is == frame'.shown
       IN /\ view.follow \/ is.top = Kept(was.top)
          /\ was.sel # None =>
               is.sel = [anchor |-> Kept(was.sel.anchor), cursor |-> Kept(was.sel.cursor)]
          /\ was.hit # None => is.hit = Kept(was.hit)]_vars
=============================================================================
