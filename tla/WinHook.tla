------------------------------ MODULE WinHook ------------------------------
(***************************************************************************)
(* The Windows input path: the keyboard and mouse hooks (hook.rs,          *)
(* mouse.rs), what they know of the window in front (foreground.rs) and of *)
(* the focused element (omnibox.rs), the batches they send (inject.rs) and *)
(* the lines they log (hook_log.rs).                                       *)
(*                                                                         *)
(* Hooks, notifications and the timer run on one thread, the questions to  *)
(* the focused element on a second, the log's writer on a third.  A key is *)
(* handled on what the caches say; what is really in front, and where the  *)
(* caret is, is kept beside them.                                          *)
(*                                                                         *)
(* A window is remembered by the code as its program, its layout and       *)
(* whether input reaches it; of the session only the application and the   *)
(* word it believes to be before the caret are kept.                       *)
(***************************************************************************)
EXTENDS Integers, Sequences, Functions

CONSTANTS
  Windows,      (* the windows, see WinHookAssumption                         *)
  NoWindow, NoApp,
  Excluded,     (* applications on the exclusion list                         *)
  Chromium,     (* applications is_chromium_app recognises                    *)
  Stories,      (* what a session of use is about and where its caret may be  *)
  MaxInputs,    (* bound on keys and clicks                                   *)
  MaxRaises,    (* bound on windows that come to the front by themselves      *)
  QueueDepth    (* QUEUE_DEPTH, lines of the log in flight                    *)

Spots == {"bar", "top", "foot"}
Topics == {"carets", "focus", "log"}
ASSUME WinHookAssumption ==
  /\ \A w \in Windows : w.reach \in {"ok", "blocked"} /\ w.readable \in BOOLEAN
                        /\ w.app # NoApp
  /\ NoWindow \notin Windows
  /\ \A s \in Stories : s.about \subseteq Topics
                        /\ s.carets \subseteq [window : Windows, spot : Spots]
ASSUME DepthAssumption == QueueDepth \in Nat \ {0}

VARIABLES
  story,        (* one of Stories                                             *)
  front,        (* the window really in front                                 *)
  spot,         (* where the caret is in each window                          *)
  notice,       (* EVENT_SYSTEM_FOREGROUND is on its way                      *)
  timer,        (* the debounce timer runs                                    *)
  resolving,    (* the window update is asking about                          *)
  cache,        (* STATE of foreground.rs                                     *)
  session,      (* the session's application and its word                     *)
  lastApp,      (* last_app: what the hook told the session last              *)
  focusNotice,  (* EVENT_OBJECT_FOCUS is on its way                           *)
  flag,         (* FOCUS_IS_OMNIBOX                                           *)
  token,        (* a message in WAKE                                          *)
  worker,       (* the resolver thread and the answer it holds                *)
  sent,         (* the last batch of an edit, and the state it met            *)
  reported,     (* REFUSAL_REPORTED                                           *)
  log,          (* the log's queue, DROPPED and what was asked and written    *)
  echo,         (* events of our own are on their way through the hook        *)
  tally,        (* batches sent, runs of refusals begun and told              *)
  used          (* the bounded inputs spent so far                            *)

place == <<front, spot>>
settling == <<notice, timer, resolving, cache>>
bar == <<focusNotice, flag, token, worker>>
sending == <<sent, reported, echo, tally>>
vars == <<story, place, settling, session, lastApp, bar, sending, log, used>>

NoWord == [at |-> "nowhere"]
About(t) == t \in story.about
Caret == [window |-> front, spot |-> spot[front]]
InBar == spot[front] = "bar"

(* What update compares and keeps of a window.                              *)
Known(w) == [app |-> w.app, layout |-> w.layout, reach |-> w.reach]
Nothing == [app |-> NoApp, layout |-> "unknown", reach |-> "unknown"]
Resolved(w) == IF w.readable THEN Known(w) ELSE Nothing

(* Something has yet to tell the session what is in front.                  *)
Settling == notice \/ timer \/ resolving # NoWindow

(* Fails closed while no application is known.                              *)
Active(s) == s.app # NoApp /\ s.app \notin Excluded

-----------------------------------------------------------------------------
(* hook_log::log.                                                           *)

(* Slip: the lines counted before are forgotten when the queue is full.     *)
LoggedRecounting(l) ==
  IF Len(l.queue) < QueueDepth
  THEN [l EXCEPT !.asked = @ + 1, !.queue = Append(@, l.dropped), !.dropped = 0]
  ELSE [l EXCEPT !.asked = @ + 1, !.dropped = 1]

(* A line takes along the number of those dropped before it, or is dropped. *)
Logged(l) ==
  IF Len(l.queue) < QueueDepth
  THEN [l EXCEPT !.asked = @ + 1, !.queue = Append(@, l.dropped), !.dropped = 0]
  ELSE [l EXCEPT !.asked = @ + 1, !.dropped = 1 + @]

(* So many lines, in the story that counts them.                            *)
Lines(n) ==
  log' = IF ~About("log") THEN log
         ELSE LET after[i \in 0..n] == IF i = 0 THEN log ELSE Logged(after[i - 1])
              IN  after[n]

One(condition) == IF condition THEN 1 ELSE 0

(* The writer thread.                                                       *)
WriteLine ==
  /\ log.queue # <<>>
  /\ log' = [log EXCEPT !.queue = Tail(@), !.written = @ + 1 + Head(log.queue)]
  /\ UNCHANGED <<story, place, settling, session, lastApp, bar, sending, used>>

-----------------------------------------------------------------------------
(* The session.                                                             *)

Flushed(s) == [s EXCEPT !.word = NoWord]

(* set_frontmost_app forgets position and word.                             *)
InApp(s, a) == [app |-> a, word |-> NoWord]

(* handle_key, first thing: whoever missed the notification learns it here. *)
Backstop(s) ==
  IF cache.app # NoApp /\ cache.app # lastApp THEN InApp(s, cache.app) ELSE s
Front == IF cache.app # NoApp THEN cache.app ELSE lastApp

(* The word after a letter: strayed when it was typed before the session    *)
(* could know where, or somewhere else than the rest.                       *)
Continued(word) ==
  LET lost == Settling \/ ~front.readable
  IN  IF word = NoWord THEN [at |-> "home", home |-> Caret, strayed |-> lost]
      ELSE [word EXCEPT !.strayed = @ \/ lost \/ word.home # Caret]

Extended(s) == [s EXCEPT !.word = Continued(@)]

-----------------------------------------------------------------------------
(* inject.rs.                                                               *)

(* needs_omnibox_guard.                                                     *)
NeedsGuard(deletes, a) == flag /\ deletes /\ a \in Chromium

(* Slip: the forward-delete for every edit of a Chromium application.       *)
GuardedAlways(deletes, a) ==
  {"text"} \cup (IF deletes THEN {"back"} ELSE {})
           \cup (IF deletes /\ a \in Chromium THEN {"delete"} ELSE {})

(* edit_inputs: the kinds of keys one edit becomes.                         *)
EditInputs(deletes, a) ==
  {"text"} \cup (IF deletes THEN {"back"} ELSE {})
           \cup (IF NeedsGuard(deletes, a) THEN {"delete"} ELSE {})

(* SendInput: refused as a whole by a window out of reach.                  *)
Refused == front.reach # "ok"

(* Slip: the report is never taken back.                                    *)
ReportedForGood(refused) == reported \/ refused

(* send: told once, until a batch is accepted.                              *)
Reported(refused) == refused

(* An edit and so many further batches; what they say in the log is left to *)
(* the caller.                                                              *)
Send(batches, deletes) ==
  /\ reported' = Reported(Refused)
  /\ echo' = (echo \/ (About("log") /\ ~Refused))
  /\ sent' = IF ~About("focus") THEN sent
             ELSE [keys |-> EditInputs(deletes, Front), bar |-> InBar,
                   undelivered |-> focusNotice,
                   asking |-> token \/ worker # "waiting"]
  /\ tally' = IF ~About("log") THEN tally
              ELSE [tally EXCEPT !.batches = @ + batches,
                                 !.told = @ + One(Refused /\ ~reported),
                                 !.refusing = Refused,
                                 !.refusals = @ + One(Refused /\ ~tally.refusing)]

-----------------------------------------------------------------------------
(* The hooks.                                                               *)

(* Hook callbacks run while the thread waits for messages, and while update *)
(* asks a browser's window for its identity.                                *)
HookRuns == resolving # NoWindow => resolving.app \in Chromium

Input == used.inputs < MaxInputs /\ used' = [used EXCEPT !.inputs = @ + 1]

(* A letter or a boundary, from translation to injection: it passes where   *)
(* the session is not active, and becomes an edit where it is, with a       *)
(* replay when a word was restored before a boundary.                       *)
HandleKey(deletes, replay) ==
  LET s == Backstop(session)
  IN  /\ lastApp' = Front
      /\ deletes => s.word # NoWord
      /\ replay => deletes
      /\ IF Active(s)
         THEN /\ session' = Extended(s)
              /\ Send(1 + One(replay), deletes)
              /\ Lines(1 + One(Refused /\ ~reported))
         ELSE /\ session' = Flushed(s)
              /\ Lines(1)
              /\ UNCHANGED <<sent, reported, echo, tally>>

IsOwnEvent(own) == own

TypeKey(deletes, replay) ==
  /\ HookRuns /\ Input
  /\ ~IsOwnEvent(FALSE)
  /\ HandleKey(deletes, replay)
  /\ UNCHANGED <<story, place, settling, bar>>

(* What was sent comes through the hook and is let through.                 *)
OwnEvent ==
  /\ HookRuns /\ echo
  /\ IF IsOwnEvent(TRUE)
     THEN echo' = FALSE /\ UNCHANGED <<session, lastApp, sent, reported, tally, log>>
     ELSE HandleKey(FALSE, FALSE)
  /\ UNCHANGED <<story, place, settling, bar, used>>

(* The caret goes to a spot of a window; Windows notifies of both.          *)
MoveTo(c) ==
  /\ c \in story.carets
  /\ front' = c.window
  /\ spot' = [spot EXCEPT ![c.window] = c.spot]
  /\ notice' = (notice \/ c.window # front)
  /\ focusNotice' =
       (focusNotice \/ (About("focus") /\ (c.window # front \/ InBar # (c.spot = "bar"))))
  /\ UNCHANGED <<timer, resolving, cache, flag, token, worker>>

(* A shortcut or a caret key (Alt+Tab, Ctrl+L, an arrow) flushes and        *)
(* passes.                                                                  *)
ShortcutKey(c) ==
  /\ HookRuns /\ Input
  /\ session' = Flushed(Backstop(session))
  /\ lastApp' = Front
  /\ Lines(1 + One(Backstop(session).word # NoWord))
  /\ MoveTo(c)
  /\ UNCHANGED <<story, sending>>

(* Slip: the click is not told to the session.                              *)
Unnoticed(s) == s

(* flush_session_because.                                                   *)
ByMouse(s) == Flushed(s)

Click(c) ==
  /\ HookRuns /\ Input
  /\ session' = ByMouse(session)
  /\ Lines(One(session.word # NoWord))
  /\ MoveTo(c)
  /\ UNCHANGED <<story, lastApp, sending>>

(* A window comes to the front by itself: neither hook sees anything.       *)
Raise(w) ==
  /\ w # front /\ used.raises < MaxRaises
  /\ used' = [used EXCEPT !.raises = @ + 1]
  /\ MoveTo([window |-> w, spot |-> spot[w]])
  /\ UNCHANGED <<story, session, lastApp, sending, log>>

-----------------------------------------------------------------------------
(* foreground.rs, on the thread of the hooks, between their callbacks.      *)

(* win_event_callback and schedule_update.                                  *)
ForegroundEvent ==
  /\ notice /\ resolving = NoWindow
  /\ notice' = FALSE /\ timer' = TRUE
  /\ UNCHANGED <<story, place, resolving, cache, session, lastApp, bar, sending, log, used>>

(* Slip: the timer is left running.                                         *)
LeaveTimer == UNCHANGED timer

KillTimer == timer' = FALSE

(* debounce_timer_proc: what is in front now, if its program can be read.   *)
DebounceTimer ==
  /\ timer /\ resolving = NoWindow
  /\ KillTimer
  /\ resolving' = IF front.readable THEN front ELSE NoWindow
  /\ UNCHANGED <<story, place, notice, cache, session, lastApp, bar, sending, log, used>>

(* Slip: only the program is compared.                                      *)
SameProgram(w) == cache.app = w.app

Same(w) == cache = Known(w)

(* Slip: the session is told by the next key.                               *)
NobodyTold(a) == session

(* foreground_changed.                                                      *)
Told(a) == InApp(session, a)

(* The end of update: kept and told, unless it is what was known.           *)
Update ==
  /\ resolving # NoWindow /\ resolving' = NoWindow
  /\ IF Same(resolving)
     THEN UNCHANGED <<cache, session, log>>
     ELSE /\ cache' = Known(resolving)
          /\ session' = Told(resolving.app)
          /\ Lines(1 + One(session.word # NoWord) + One(resolving.reach # "ok"))
  /\ UNCHANGED <<story, place, notice, timer, lastApp, bar, sending, used>>

-----------------------------------------------------------------------------
(* omnibox.rs.                                                              *)

(* Slip: a channel without room loses what comes while the worker asks.     *)
PokeIfWaiting == token' = (token \/ worker = "waiting")

Poke == token' = TRUE

(* note_focus_changed.                                                      *)
FocusEvent ==
  /\ focusNotice /\ resolving = NoWindow
  /\ focusNotice' = FALSE /\ flag' = FALSE
  /\ Poke
  /\ UNCHANGED <<story, place, settling, session, lastApp, worker, sending, log, used>>

WorkerWakes ==
  /\ worker = "waiting" /\ token
  /\ token' = FALSE /\ worker' = "asking"
  /\ UNCHANGED <<story, place, settling, session, lastApp, focusNotice, flag, sending, log,
                 used>>

(* focused_class may find none; at the start that stores nothing.           *)
Answers == {IF InBar THEN "bar" ELSE "page", "none"}

WorkerAsks ==
  /\ worker \in {"starting", "asking"}
  /\ worker' \in IF worker = "starting" THEN (Answers \ {"none"}) \cup {"waiting"}
                 ELSE Answers
  /\ UNCHANGED <<story, place, settling, session, lastApp, focusNotice, flag, token, sending,
                 log, used>>

WorkerStores ==
  /\ worker \in {"bar", "page", "none"}
  /\ flag' = (worker = "bar")
  /\ worker' = "waiting"
  /\ UNCHANGED <<story, place, settling, session, lastApp, focusNotice, token, sending, log,
                 used>>

-----------------------------------------------------------------------------
(* run: install, with the one query of bootstrap, and the worker started.   *)
Init ==
  /\ story \in Stories
  /\ \E c \in story.carets :
       front = c.window /\ spot = [w \in Windows |-> IF w = c.window THEN c.spot ELSE "top"]
  /\ notice = FALSE /\ timer = FALSE /\ resolving = NoWindow
  /\ cache = Resolved(front)
  /\ session = [app |-> cache.app, word |-> NoWord] /\ lastApp = NoApp
  /\ focusNotice = FALSE /\ flag = FALSE /\ token = FALSE
  /\ worker = IF About("focus") THEN "starting" ELSE "waiting"
  /\ sent = [keys |-> {}, bar |-> FALSE, undelivered |-> FALSE, asking |-> FALSE]
  /\ reported = FALSE /\ echo = FALSE
  /\ tally = [batches |-> 0, refusals |-> 0, refusing |-> FALSE, told |-> 0]
  /\ log = [queue |-> <<>>, dropped |-> 0, asked |-> 0, written |-> 0]
  /\ used = [inputs |-> 0, raises |-> 0]

Next ==
  \/ \E d, r \in BOOLEAN : TypeKey(d, r)
  \/ OwnEvent
  \/ \E c \in story.carets : ShortcutKey(c) \/ Click(c)
  \/ \E w \in Windows : Raise(w)
  \/ ForegroundEvent \/ DebounceTimer \/ Update
  \/ FocusEvent \/ WorkerWakes \/ WorkerAsks \/ WorkerStores
  \/ WriteLine

Spec == Init /\ [][Next]_vars

(* The thread of the hooks takes its messages, and the worker goes on.      *)
FairSpec ==
  /\ Spec
  /\ WF_vars(ForegroundEvent) /\ WF_vars(DebounceTimer) /\ WF_vars(Update)
  /\ WF_vars(FocusEvent)
  /\ WF_vars(WorkerWakes) /\ WF_vars(WorkerAsks) /\ WF_vars(WorkerStores)

-----------------------------------------------------------------------------
Knowledge == {Known(w) : w \in Windows} \cup {Nothing}
Carets == [window : Windows, spot : Spots]
WordsAt == {NoWord} \cup [at : {"home"}, home : Carets, strayed : BOOLEAN]
Apps == {w.app : w \in Windows} \cup {NoApp}

(* The parts of the state are what the code's types allow, and the session  *)
(* holds no word while it does not know where it is.                        *)
TypeOK ==
  /\ front \in Windows /\ spot \in [Windows -> Spots]
  /\ notice \in BOOLEAN /\ timer \in BOOLEAN
  /\ resolving \in Windows \cup {NoWindow} /\ cache \in Knowledge
  /\ session \in [app : Apps, word : WordsAt] /\ lastApp \in Apps
  /\ focusNotice \in BOOLEAN /\ flag \in BOOLEAN /\ token \in BOOLEAN
  /\ worker \in {"starting", "waiting", "asking", "bar", "page", "none"}
  /\ ~Active(session) => session.word = NoWord

(* The session acts for the application in front, the one whose exclusion   *)
(* counts, and it is known whether input arrives there (an elevated window  *)
(* of the same program is another place), unless a notification, the timer  *)
(* or update is about to tell, or the program in front cannot be read.      *)
FrontIsKnown ==
  \/ Settling \/ ~front.readable
  \/ session.app = front.app /\ cache.reach = front.reach

(* A word is before the caret it was typed at: whichever way the caret went *)
(* elsewhere, the word was forgotten, or will be before keys are taken to   *)
(* be settled.  Exempt are a word whose letters were typed while the code   *)
(* could not know where, and a window that update takes for the one before. *)
WordIsAtHome ==
  \/ session.word = NoWord \/ session.word.strayed
  \/ Settling \/ ~front.readable
  \/ session.word.home = Caret
  \/ /\ session.word.home.window # front
     /\ Known(session.word.home.window) = Known(front)

(* A forward-delete is sent to an address bar, or while the question what   *)
(* has the focus is open: an event undelivered, the worker poked or asking. *)
GuardOnlyInTheBar ==
  "delete" \in sent.keys => sent.bar \/ sent.undelivered \/ sent.asking

(* Every line that was to be logged was written, is queued, or is in a      *)
(* count of dropped lines, whether that waits or is queued with a line.     *)
LogAccountsForEveryLine ==
  log.asked = log.written + Len(log.queue) + SumFunction(log.queue) + log.dropped

(* Each run of refused batches is told once: a later one again, and not     *)
(* each of its keys.                                                        *)
RefusalIsToldOnce == tally.told = tally.refusals

(* What GlowKey sends answers keys the user pressed: an edit and a replay   *)
(* at most for each, and none for what it sent itself.                      *)
BatchesAnswerKeys == tally.batches <= 2 * used.inputs

(* A change of the window in front is acted on: notified, waited for and    *)
(* resolved, however often windows follow each other meanwhile.             *)
ForegroundSettles == Settling ~> ~Settling

(* A guard that is armed outside the address bar is disarmed.               *)
StaleGuardIsWithdrawn == flag /\ ~InBar ~> ~flag \/ InBar

(* What omnibox.rs:41-46 and inject.rs:115-119 say: once the change of      *)
(* focus was delivered, a stale answer means that the guard did not fire.   *)
StaleMeansNoGuard ==
  "delete" \in sent.keys => sent.bar \/ sent.undelivered
=============================================================================
