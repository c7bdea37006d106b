--------------------------- MODULE WinHookProofs ---------------------------
(***************************************************************************)
(* For any windows, stories and bounds, WinHook keeps its types, the       *)
(* session to the window in front and its word to its caret, the           *)
(* address-bar guard to the bar or to a question that is open, and tells   *)
(* each run of refusals once, and the log accounts for every line.  A      *)
(* change of the window in front settles, and a stale guard wears out,     *)
(* within a count of steps that nothing else sets back.                    *)
(***************************************************************************)
EXTENDS WinHook, SequenceFacts

(* Once nothing is on its way, what is cached is what is in front.          *)
CacheInv ==
  /\ Settling \/ ~front.readable \/ cache = Known(front)
  /\ resolving # NoWindow /\ resolving # front => notice \/ timer
  /\ session.app = cache.app

(* A word that did not stray was typed in a window that is cached, and the  *)
(* caret has not moved in that window.                                      *)
WordInv ==
  session.word # NoWord /\ ~session.word.strayed =>
    /\ cache = Known(session.word.home.window)
    /\ spot[session.word.home.window] = session.word.home.spot

(* A flag, or an answer about to be stored, that is wrong about the bar is  *)
(* going to be asked about again.                                           *)
BarInv ==
  /\ worker = "starting" => ~flag
  /\ flag /\ ~InBar => focusNotice \/ token \/ worker # "waiting"
  /\ worker = "bar" /\ ~InBar => focusNotice \/ token
  /\ ~About("focus") => ~flag /\ worker = "waiting" /\ ~focusNotice /\ ~token

(* The report is out exactly while batches are refused.                     *)
TallyInv ==
  /\ reported \in BOOLEAN /\ tally.refusing \in BOOLEAN
  /\ tally \in [batches : Nat, refusals : Nat, refusing : BOOLEAN, told : Nat]
  /\ used.inputs \in Nat
  /\ About("log") => reported = tally.refusing

Inv ==
  /\ TypeOK /\ story \in Stories /\ CacheInv /\ WordInv
  /\ BarInv /\ GuardOnlyInTheBar
  /\ TallyInv /\ RefusalIsToldOnce /\ BatchesAnswerKeys

-----------------------------------------------------------------------------
(* What is done to a session keeps it one.                                  *)
Sessions == [app : Apps, word : WordsAt]

LEMMA WindowsAreKnown ==
  ASSUME NEW w \in Windows
  PROVE  /\ w.app \in Apps /\ w.app # NoApp
         /\ Known(w) \in Knowledge /\ Known(w).app = w.app /\ Known(w).reach = w.reach
  BY WinHookAssumption DEF Apps, Knowledge, Known

LEMMA FlushedIsASession ==
  ASSUME NEW s \in Sessions
  PROVE  /\ Flushed(s) \in Sessions /\ Flushed(s).word = NoWord
         /\ Flushed(s).app = s.app
  BY DEF Flushed, Sessions, WordsAt

LEMMA InAppIsASession ==
  ASSUME NEW s, NEW a \in Apps
  PROVE  InApp(s, a) \in Sessions /\ InApp(s, a).word = NoWord /\ InApp(s, a).app = a
  BY DEF InApp, Sessions, WordsAt

LEMMA CachedApps ==
  ASSUME TypeOK
  PROVE  cache.app \in Apps /\ Front \in Apps
  BY WindowsAreKnown DEF TypeOK, Knowledge, Nothing, Known, Apps, Front

LEMMA BackstopIsASession ==
  ASSUME TypeOK, CacheInv, WordInv
  PROVE  LET s == Backstop(session)
         IN  /\ s \in Sessions /\ s.app = cache.app
             /\ ~Active(s) => s.word = NoWord
             /\ s.word # NoWord /\ ~s.word.strayed =>
                  /\ cache = Known(s.word.home.window)
                  /\ spot[s.word.home.window] = s.word.home.spot
  BY CachedApps, InAppIsASession DEF TypeOK, CacheInv, WordInv, Backstop, Sessions

(* The word after a letter.                                                 *)
LEMMA ContinuedIsAWord ==
  ASSUME TypeOK, CacheInv, NEW word \in WordsAt,
         word # NoWord /\ ~word.strayed =>
           cache = Known(word.home.window) /\ spot[word.home.window] = word.home.spot
  PROVE  LET next == Continued(word)
         IN  /\ next \in WordsAt
             /\ ~next.strayed =>
                  cache = Known(next.home.window) /\ spot[next.home.window] = next.home.spot
<1> DEFINE lost == Settling \/ ~front.readable
<1>1. Caret \in Carets /\ lost \in BOOLEAN
  BY WinHookAssumption DEF TypeOK, Caret, Carets, Settling
<1>2. ~lost => cache = Known(Caret.window) /\ spot[Caret.window] = Caret.spot
  BY DEF CacheInv, Caret
<1>3. Continued(word) =
        IF word = NoWord THEN [at |-> "home", home |-> Caret, strayed |-> lost]
        ELSE [word EXCEPT !.strayed = word.strayed \/ lost \/ word.home # Caret]
  BY Zenon DEF Continued
<1> HIDE DEF lost
<1>4. CASE word = NoWord
  BY <1>1, <1>2, <1>3, <1>4 DEF WordsAt
<1>5. CASE word # NoWord
  <2>1. word \in [at : {"home"}, home : Carets, strayed : BOOLEAN]
    BY <1>5 DEF WordsAt
  <2>2. PICK b \in BOOLEAN : b = (word.strayed \/ lost \/ word.home # Caret)
    BY <1>1, <2>1
  <2>3. Continued(word) = [word EXCEPT !.strayed = b]
    BY <1>3, <1>5, <2>2, Zenon
  <2>4. Continued(word) \in [at : {"home"}, home : Carets, strayed : BOOLEAN]
    BY <2>1, <2>3
  <2>5. Continued(word).strayed = b /\ Continued(word).home = word.home
    BY <2>1, <2>3
  <2> QED
    BY <2>1, <2>2, <2>4, <2>5, <1>5 DEF WordsAt
<1> QED
  BY <1>4, <1>5

LEMMA ExtendedIsASession ==
  ASSUME TypeOK, CacheInv, NEW s \in Sessions,
         s.word # NoWord /\ ~s.word.strayed =>
           cache = Known(s.word.home.window) /\ spot[s.word.home.window] = s.word.home.spot
  PROVE  LET t == Extended(s)
         IN  /\ t \in Sessions /\ t.app = s.app
             /\ ~t.word.strayed =>
                  /\ cache = Known(t.word.home.window)
                  /\ spot[t.word.home.window] = t.word.home.spot
<1>1. Extended(s) = [s EXCEPT !.word = Continued(s.word)]
  BY DEF Extended
<1>2. s.word \in WordsAt
  BY DEF Sessions
<1> QED
  BY <1>1, <1>2, ContinuedIsAWord DEF Sessions

-----------------------------------------------------------------------------
(* The invariant holds at the start.                                        *)
LEMMA InitInv == Init => Inv
<1> SUFFICES ASSUME Init PROVE Inv
  OBVIOUS
<1>1. PICK c \in story.carets :
        front = c.window /\ spot = [w \in Windows |-> IF w = c.window THEN c.spot ELSE "top"]
  BY DEF Init
<1>2. front \in Windows /\ spot \in [Windows -> Spots]
  BY <1>1, WinHookAssumption DEF Init, Spots
<1>3. cache \in Knowledge /\ (front.readable => cache = Known(front))
  BY <1>2, WindowsAreKnown DEF Init, Resolved, Knowledge
<1>4. session \in [app : Apps, word : WordsAt] /\ lastApp \in Apps
  <2>1. cache.app \in Apps
    BY <1>3, WindowsAreKnown DEF Knowledge, Nothing, Apps
  <2> QED
    BY <2>1 DEF Init, Apps, WordsAt
<1>5. TypeOK
  BY <1>2, <1>3, <1>4 DEF Init, TypeOK
<1>6. CacheInv
  BY <1>3 DEF Init, CacheInv, Settling
<1>7. WordInv
  BY DEF Init, WordInv
<1>8. BarInv /\ GuardOnlyInTheBar
  BY DEF Init, BarInv, GuardOnlyInTheBar
<1>9. TallyInv /\ RefusalIsToldOnce /\ BatchesAnswerKeys
  <2>1. /\ tally = [batches |-> 0, refusals |-> 0, refusing |-> FALSE, told |-> 0]
        /\ used.inputs = 0 /\ reported = FALSE
    BY DEF Init
  <2>2. tally \in [batches : Nat, refusals : Nat, refusing : BOOLEAN, told : Nat]
    BY <2>1
  <2>3. reported = tally.refusing
    BY <2>1
  <2>4. RefusalIsToldOnce /\ BatchesAnswerKeys
    BY <2>1 DEF RefusalIsToldOnce, BatchesAnswerKeys
  <2> QED
    BY <2>1, <2>2, <2>3, <2>4 DEF TallyInv
<1>10. story \in Stories
  BY DEF Init
<1> QED
  BY <1>10, <1>5, <1>6, <1>7, <1>8, <1>9 DEF Inv

-----------------------------------------------------------------------------
(* Where the caret may go.                                                  *)
LEMMA MovesStayInWindows ==
  ASSUME TypeOK, story \in Stories, NEW c, MoveTo(c)
  PROVE  /\ front' \in Windows /\ spot' \in [Windows -> Spots]
         /\ notice' \in BOOLEAN /\ focusNotice' \in BOOLEAN
         /\ front' # front => notice'
  BY WinHookAssumption DEF TypeOK, MoveTo, Spots, About

(* A batch on its way.                                                      *)
LEMMA SendKeepsTheTally ==
  ASSUME Inv, NEW batches \in 1..2, NEW deletes, Send(batches, deletes),
         story' = story, used'.inputs = used.inputs + 1
  PROVE  TallyInv' /\ RefusalIsToldOnce' /\ BatchesAnswerKeys'
<1>1. Refused \in BOOLEAN
  BY DEF Refused
<1>2. reported' = Refused
  BY DEF Send, Reported
<1>3. CASE ~About("log")
  BY <1>1, <1>2, <1>3 DEF Inv, TallyInv, RefusalIsToldOnce, BatchesAnswerKeys, Send, About
<1>4. CASE About("log")
  <2>1. tally' = [tally EXCEPT !.batches = @ + batches,
                               !.told = @ + One(Refused /\ ~reported),
                               !.refusing = Refused,
                               !.refusals = @ + One(Refused /\ ~reported)]
    BY <1>4 DEF Inv, TallyInv, Send
  <2>2. PICK n \in Nat : n = One(Refused /\ ~reported)
    BY DEF One
  <2>3. tally \in [batches : Nat, refusals : Nat, refusing : BOOLEAN, told : Nat]
    BY DEF Inv, TallyInv
  <2>4. /\ tally' \in [batches : Nat, refusals : Nat, refusing : BOOLEAN, told : Nat]
        /\ tally'.batches = tally.batches + batches
        /\ tally'.told = tally.told + n /\ tally'.refusals = tally.refusals + n
        /\ tally'.refusing = Refused
    <3>1. PICK b \in BOOLEAN : b = Refused
      BY <1>1
    <3>2. tally' = [tally EXCEPT !.batches = tally.batches + batches,
                                 !.told = tally.told + n,
                                 !.refusing = b, !.refusals = tally.refusals + n]
      BY <2>1, <2>2, <3>1, Zenon
    <3>3. batches \in Nat /\ n \in Nat
      BY <2>2
    <3>4. /\ tally.batches + batches \in Nat /\ tally.told + n \in Nat
          /\ tally.refusals + n \in Nat
      BY <2>3, <3>3
    <3>5. tally' \in [batches : Nat, refusals : Nat, refusing : BOOLEAN, told : Nat]
      BY <2>3, <3>1, <3>2, <3>4
    <3>6. /\ tally'.batches = tally.batches + batches
          /\ tally'.told = tally.told + n /\ tally'.refusals = tally.refusals + n
          /\ tally'.refusing = b
      BY <2>3, <3>2
    <3> QED
      BY <3>1, <3>5, <3>6
  <2>5. RefusalIsToldOnce'
    BY <2>3, <2>4 DEF Inv, RefusalIsToldOnce
  <2>6. BatchesAnswerKeys' /\ used'.inputs \in Nat
    BY <2>3, <2>4 DEF Inv, TallyInv, BatchesAnswerKeys
  <2>7. TallyInv'
    BY <1>1, <1>2, <2>4, <2>6 DEF TallyInv
  <2> QED
    BY <2>5, <2>6, <2>7
<1> QED
  BY <1>3, <1>4

LEMMA SendKeepsTheGuard ==
  ASSUME Inv, NEW batches, NEW deletes, Send(batches, deletes)
  PROVE  GuardOnlyInTheBar'
  BY DEF Inv, BarInv, GuardOnlyInTheBar, Send, EditInputs, NeedsGuard

-----------------------------------------------------------------------------
(* What no step of another part touches.                                    *)
LEMMA BarIsKept ==
  ASSUME BarInv, GuardOnlyInTheBar,
         UNCHANGED <<story, spot, front, focusNotice, flag, token, worker>>
  PROVE  BarInv'
  BY DEF BarInv, InBar, About

LEMMA TallyIsKept ==
  ASSUME Inv, UNCHANGED <<story, sent, reported, tally>>,
         used' = used \/ used'.inputs = used.inputs + 1
         \/ used'.inputs = used.inputs
  PROVE  TallyInv' /\ RefusalIsToldOnce' /\ BatchesAnswerKeys' /\ GuardOnlyInTheBar'
<1>1. used'.inputs \in Nat /\ used'.inputs >= used.inputs
  BY DEF Inv, TallyInv
<1>2. TallyInv'
  BY <1>1 DEF Inv, TallyInv, About
<1>3. RefusalIsToldOnce' /\ GuardOnlyInTheBar'
  BY DEF Inv, RefusalIsToldOnce, GuardOnlyInTheBar
<1>4. BatchesAnswerKeys'
  BY <1>1 DEF Inv, TallyInv, BatchesAnswerKeys
<1> QED
  BY <1>2, <1>3, <1>4

(* A letter or a boundary.                                                  *)
LEMMA TypeKeyStep ==
  ASSUME Inv, NEW d \in BOOLEAN, NEW r \in BOOLEAN, TypeKey(d, r)
  PROVE  Inv'
<1> DEFINE s == Backstop(session)
<1>1. /\ UNCHANGED <<story, place, settling, bar>> /\ HandleKey(d, r)
      /\ used' = [used EXCEPT !.inputs = used.inputs + 1]
  BY DEF TypeKey, Input, IsOwnEvent
<1>2. UNCHANGED <<story, front, spot, notice, timer, resolving, cache, focusNotice, flag,
                  token, worker>>
  BY <1>1 DEF place, settling, bar
<1>3. lastApp' = Front /\ Front \in Apps
  BY <1>1, CachedApps DEF HandleKey, Inv
<1>4. /\ s \in Sessions /\ s.app = cache.app
      /\ ~Active(s) => s.word = NoWord
      /\ s.word # NoWord /\ ~s.word.strayed =>
           /\ cache = Known(s.word.home.window)
           /\ spot[s.word.home.window] = s.word.home.spot
  BY BackstopIsASession DEF Inv
<1>5. \/ Active(s) /\ session' = Extended(s) /\ Send(1 + One(r), d)
      \/ session' = Flushed(s) /\ UNCHANGED <<sent, reported, echo, tally>>
  BY <1>1 DEF HandleKey
<1> HIDE DEF s
<1>6. /\ session' \in Sessions /\ session'.app = cache.app
      /\ ~Active(session') => session'.word = NoWord
      /\ session'.word # NoWord /\ ~session'.word.strayed =>
           /\ cache = Known(session'.word.home.window)
           /\ spot[session'.word.home.window] = session'.word.home.spot
  <2>1. CASE Active(s) /\ session' = Extended(s)
    BY <1>4, <2>1, ExtendedIsASession DEF Inv, Active
  <2>2. CASE session' = Flushed(s)
    BY <1>4, <2>2, FlushedIsASession
  <2> QED
    BY <1>5, <2>1, <2>2
<1>7. TypeOK'
  BY <1>2, <1>3, <1>6 DEF Inv, TypeOK, Sessions, Active
<1>8. CacheInv' /\ WordInv'
  BY <1>2, <1>6 DEF Inv, CacheInv, WordInv, Settling
<1>9. BarInv'
  BY <1>2, BarIsKept DEF Inv
<1>10. used'.inputs = used.inputs + 1
  BY <1>1 DEF Inv, TallyInv
<1>11. GuardOnlyInTheBar' /\ TallyInv' /\ RefusalIsToldOnce' /\ BatchesAnswerKeys'
  <2>1. CASE Send(1 + One(r), d)
    <3>1. PICK n \in 1..2 : n = 1 + One(r)
      BY DEF One
    <3>2. Send(n, d)
      BY <2>1, <3>1
    <3> QED
      BY <1>2, <1>10, <3>2, SendKeepsTheTally, SendKeepsTheGuard
  <2>2. CASE UNCHANGED <<sent, reported, echo, tally>>
    BY <1>2, <1>10, <2>2, TallyIsKept
  <2> QED
    BY <1>5, <2>1, <2>2
<1> QED
  BY <1>2, <1>7, <1>8, <1>9, <1>11 DEF Inv

(* A step that leaves the batches and the count of keys alone, or adds to   *)
(* the latter.                                                              *)
LEMMA InputsOnly ==
  ASSUME Inv, Input
  PROVE  used'.inputs = used.inputs + 1
  BY DEF Input, Inv, TallyInv

(* The caret moves, and the bar is asked about again when that matters.     *)
LEMMA MoveKeepsTheBar ==
  ASSUME Inv, NEW c, MoveTo(c), story' = story
  PROVE  BarInv'
<1>1. /\ front' = c.window /\ front' \in Windows /\ spot \in [Windows -> Spots]
      /\ spot' = [spot EXCEPT ![c.window] = c.spot]
      /\ UNCHANGED <<flag, token, worker>>
      /\ focusNotice' =
           (focusNotice \/ (About("focus") /\ (c.window # front \/ InBar # (c.spot = "bar"))))
  BY MovesStayInWindows DEF Inv, TypeOK, MoveTo
<1>2. spot'[front'] = c.spot
  BY <1>1
<1>3. CASE About("focus")
  <2>1. focusNotice' \/ (InBar <=> InBar')
    BY <1>1, <1>2, <1>3 DEF InBar
  <2> QED
    BY <1>1, <1>3, <2>1 DEF Inv, BarInv, About
<1>4. CASE ~About("focus")
  BY <1>1, <1>4 DEF Inv, BarInv, About
<1> QED
  BY <1>3, <1>4

(* The caret moves while nothing else becomes known.                        *)
LEMMA MoveKeepsTheRest ==
  ASSUME Inv, NEW c, MoveTo(c), story' = story, lastApp' \in Apps,
         session' \in Sessions, session'.app = cache.app,
         ~Active(session') => session'.word = NoWord,
         session'.word = NoWord \/ (session' = session /\ c.spot = spot[c.window])
  PROVE  TypeOK' /\ CacheInv' /\ WordInv' /\ BarInv'
<1>1. /\ front' \in Windows /\ spot' \in [Windows -> Spots]
      /\ notice' \in BOOLEAN /\ focusNotice' \in BOOLEAN
      /\ front' # front => notice'
  BY MovesStayInWindows DEF Inv
<1>2. UNCHANGED <<timer, resolving, cache, flag, token, worker>>
  BY DEF MoveTo
<1>3. notice => notice'
  BY DEF MoveTo
<1>4. TypeOK'
  BY <1>1, <1>2 DEF Inv, TypeOK, Sessions, Active
<1>5. CacheInv'
  BY <1>1, <1>2, <1>3 DEF Inv, CacheInv, Settling
<1>6. WordInv'
  <2>1. CASE session'.word = NoWord
    BY <2>1 DEF WordInv
  <2>2. CASE session' = session /\ c.spot = spot[c.window]
    <3>1. spot' = spot
      BY <2>2 DEF MoveTo, Inv, TypeOK
    <3> QED
      BY <1>2, <2>2, <3>1 DEF Inv, WordInv
  <2> QED
    BY <2>1, <2>2
<1> QED
  BY <1>4, <1>5, <1>6, MoveKeepsTheBar

LEMMA ShortcutStep ==
  ASSUME Inv, NEW c, ShortcutKey(c)
  PROVE  Inv'
<1>1. /\ MoveTo(c) /\ story' = story /\ UNCHANGED <<sent, reported, echo, tally>>
      /\ Input /\ lastApp' = Front /\ session' = Flushed(Backstop(session))
  BY DEF ShortcutKey, sending
<1>2. Front \in Apps
  BY CachedApps DEF Inv
<1>3. Backstop(session) \in Sessions /\ Backstop(session).app = cache.app
  BY BackstopIsASession DEF Inv
<1>4. session' \in Sessions /\ session'.app = cache.app /\ session'.word = NoWord
  BY <1>1, <1>3, FlushedIsASession
<1>5. TypeOK' /\ CacheInv' /\ WordInv' /\ BarInv'
  BY <1>1, <1>2, <1>4, MoveKeepsTheRest
<1>6. TallyInv' /\ RefusalIsToldOnce' /\ BatchesAnswerKeys' /\ GuardOnlyInTheBar'
  BY <1>1, InputsOnly, TallyIsKept
<1> QED
  BY <1>1, <1>5, <1>6 DEF Inv

LEMMA ClickStep ==
  ASSUME Inv, NEW c, Click(c)
  PROVE  Inv'
<1>1. /\ MoveTo(c) /\ story' = story /\ UNCHANGED <<sent, reported, echo, tally>>
      /\ Input /\ lastApp' = lastApp /\ session' = Flushed(session)
  BY DEF Click, sending, ByMouse
<1>2. session \in Sessions /\ session.app = cache.app /\ lastApp \in Apps
  BY DEF Inv, TypeOK, CacheInv, Sessions
<1>3. session' \in Sessions /\ session'.app = cache.app /\ session'.word = NoWord
  BY <1>1, <1>2, FlushedIsASession
<1>4. TypeOK' /\ CacheInv' /\ WordInv' /\ BarInv'
  BY <1>1, <1>2, <1>3, MoveKeepsTheRest
<1>5. TallyInv' /\ RefusalIsToldOnce' /\ BatchesAnswerKeys' /\ GuardOnlyInTheBar'
  BY <1>1, InputsOnly, TallyIsKept
<1> QED
  BY <1>1, <1>4, <1>5 DEF Inv

LEMMA RaiseStep ==
  ASSUME Inv, NEW w \in Windows, Raise(w)
  PROVE  Inv'
<1> DEFINE c == [window |-> w, spot |-> spot[w]]
<1>1. /\ MoveTo(c) /\ story' = story /\ UNCHANGED <<sent, reported, echo, tally>>
      /\ lastApp' = lastApp /\ session' = session
      /\ used' = [used EXCEPT !.raises = @ + 1]
  BY DEF Raise, sending
<1>2. session \in Sessions /\ session.app = cache.app /\ lastApp \in Apps
      /\ (~Active(session) => session.word = NoWord)
  BY DEF Inv, TypeOK, CacheInv, Sessions
<1>3. c.spot = spot[c.window]
  OBVIOUS
<1>4. ~Active(session') => session'.word = NoWord
  BY <1>1, <1>2 DEF Active
<1>5. TypeOK' /\ CacheInv' /\ WordInv' /\ BarInv'
  BY <1>1, <1>2, <1>3, <1>4, MoveKeepsTheRest
<1>6. used'.inputs = used.inputs
  BY <1>1 DEF Inv, TallyInv
<1>7. TallyInv' /\ RefusalIsToldOnce' /\ BatchesAnswerKeys' /\ GuardOnlyInTheBar'
  BY <1>1, <1>6, TallyIsKept
<1> QED
  BY <1>1, <1>5, <1>7 DEF Inv

-----------------------------------------------------------------------------
(* The steps of foreground.rs.                                              *)
LEMMA SettlingStep ==
  ASSUME Inv, ForegroundEvent \/ DebounceTimer
  PROVE  Inv'
<1>1. /\ UNCHANGED <<story, front, spot, cache, session, lastApp>>
      /\ UNCHANGED <<focusNotice, flag, token, worker>>
      /\ UNCHANGED <<sent, reported, tally>> /\ used' = used
  BY DEF ForegroundEvent, DebounceTimer, place, bar, sending
<1>2. TypeOK'
  BY <1>1 DEF Inv, TypeOK, ForegroundEvent, DebounceTimer, KillTimer, Active
<1>3. CacheInv'
  <2>1. CASE ForegroundEvent
    BY <1>1, <2>1 DEF Inv, CacheInv, Settling, ForegroundEvent
  <2>2. CASE DebounceTimer
    <3>1. /\ notice' = notice /\ resolving = NoWindow /\ front # NoWindow
          /\ resolving' = IF front.readable THEN front ELSE NoWindow
      BY <2>2, WinHookAssumption DEF Inv, TypeOK, DebounceTimer
    <3> QED
      BY <1>1, <3>1 DEF Inv, CacheInv, Settling
  <2> QED
    BY <2>1, <2>2
<1>4. WordInv' /\ BarInv'
  BY <1>1, BarIsKept DEF Inv, WordInv
<1>5. TallyInv' /\ RefusalIsToldOnce' /\ BatchesAnswerKeys' /\ GuardOnlyInTheBar'
  BY <1>1, TallyIsKept
<1> QED
  BY <1>1, <1>2, <1>3, <1>4, <1>5 DEF Inv

LEMMA UpdateStep ==
  ASSUME Inv, Update
  PROVE  Inv'
<1>1. /\ UNCHANGED <<story, front, spot, notice, timer, lastApp>>
      /\ UNCHANGED <<focusNotice, flag, token, worker>>
      /\ UNCHANGED <<sent, reported, tally>> /\ used' = used
      /\ resolving \in Windows /\ resolving # NoWindow /\ resolving' = NoWindow
  BY DEF Update, place, bar, sending, Inv, TypeOK
<1>2. \/ Same(resolving) /\ cache' = cache /\ session' = session
      \/ cache' = Known(resolving) /\ session' = Told(resolving.app)
  BY DEF Update
<1>3. cache' = Known(resolving)
  BY <1>2 DEF Same
<1>4. \/ cache' = cache /\ session' = session
      \/ session' \in Sessions /\ session'.word = NoWord /\ session'.app = cache'.app
  BY <1>1, <1>2, WindowsAreKnown, InAppIsASession DEF Told
<1>5. TypeOK'
  BY <1>1, <1>3, <1>4, WindowsAreKnown DEF Inv, TypeOK, Sessions, Active
<1>6. CacheInv'
  BY <1>1, <1>3, <1>4 DEF Inv, CacheInv, Settling
<1>7. WordInv' /\ BarInv'
  BY <1>1, <1>4, BarIsKept DEF Inv, WordInv
<1>8. TallyInv' /\ RefusalIsToldOnce' /\ BatchesAnswerKeys' /\ GuardOnlyInTheBar'
  BY <1>1, TallyIsKept
<1> QED
  BY <1>1, <1>5, <1>6, <1>7, <1>8 DEF Inv

(* The steps of omnibox.rs.                                                 *)
LEMMA FocusStep ==
  ASSUME Inv, FocusEvent \/ WorkerWakes \/ WorkerAsks \/ WorkerStores
  PROVE  Inv'
<1>1. /\ UNCHANGED <<story, front, spot, notice, timer, resolving, cache, session, lastApp>>
      /\ UNCHANGED <<sent, reported, tally>> /\ used' = used
  BY DEF FocusEvent, WorkerWakes, WorkerAsks, WorkerStores, place, settling, sending
<1>2. InBar \in BOOLEAN /\ InBar' = InBar /\ About("focus")' = About("focus")
  BY <1>1 DEF InBar, About
<1>3. TypeOK'
  <2>1. CASE FocusEvent
    BY <1>1, <2>1 DEF Inv, TypeOK, FocusEvent, Poke, Active
  <2>2. CASE WorkerWakes
    BY <1>1, <2>2 DEF Inv, TypeOK, WorkerWakes, Active
  <2>3. CASE WorkerAsks
    <3>1. worker' \in {"bar", "page", "none", "waiting"} /\ UNCHANGED <<focusNotice, flag, token>>
      BY <2>3 DEF WorkerAsks, Answers
    <3> QED
      BY <1>1, <3>1 DEF Inv, TypeOK, Active
  <2>4. CASE WorkerStores
    BY <1>1, <2>4 DEF Inv, TypeOK, WorkerStores, Active
  <2> QED
    BY <2>1, <2>2, <2>3, <2>4
<1>4. CacheInv' /\ WordInv'
  BY <1>1 DEF Inv, CacheInv, WordInv, Settling
<1>5. BarInv'
  <2>1. CASE FocusEvent
    BY <1>2, <2>1 DEF Inv, BarInv, FocusEvent, Poke
  <2>2. CASE WorkerWakes
    BY <1>2, <2>2 DEF Inv, BarInv, WorkerWakes
  <2>3. CASE WorkerAsks
    <3>1. /\ UNCHANGED <<focusNotice, flag, token>>
          /\ worker' = "bar" => InBar
          /\ worker' # "starting"
          /\ worker' = "waiting" => worker = "starting"
      BY <2>3 DEF WorkerAsks, Answers
    <3>2. About("focus")
      BY <2>3 DEF Inv, BarInv, WorkerAsks
    <3> QED
      BY <1>2, <3>1, <3>2 DEF Inv, BarInv
  <2>4. CASE WorkerStores
    <3>1. /\ UNCHANGED <<focusNotice, token>> /\ worker \in {"bar", "page", "none"}
          /\ flag' <=> worker = "bar"
          /\ worker' = "waiting"
      BY <2>4 DEF WorkerStores
    <3>2. About("focus")
      BY <3>1 DEF Inv, BarInv
    <3> QED
      BY <1>2, <3>1, <3>2 DEF Inv, BarInv
  <2> QED
    BY <2>1, <2>2, <2>3, <2>4
<1>6. TallyInv' /\ RefusalIsToldOnce' /\ BatchesAnswerKeys' /\ GuardOnlyInTheBar'
  BY <1>1, TallyIsKept
<1> QED
  BY <1>1, <1>3, <1>4, <1>5, <1>6 DEF Inv

(* An event of our own, a line written, or nothing.                         *)
LEMMA QuietStep ==
  ASSUME Inv, OwnEvent \/ WriteLine \/ UNCHANGED vars
  PROVE  Inv'
<1>1. /\ UNCHANGED <<story, front, spot, notice, timer, resolving, cache, session, lastApp>>
      /\ UNCHANGED <<focusNotice, flag, token, worker>>
      /\ UNCHANGED <<sent, reported, tally>> /\ used' = used
  BY DEF OwnEvent, IsOwnEvent, WriteLine, vars, place, settling, bar, sending
<1>2. TypeOK' /\ CacheInv' /\ WordInv' /\ BarInv'
  BY <1>1, BarIsKept DEF Inv, TypeOK, CacheInv, WordInv, Settling, Active
<1>3. TallyInv' /\ RefusalIsToldOnce' /\ BatchesAnswerKeys' /\ GuardOnlyInTheBar'
  BY <1>1, TallyIsKept
<1> QED
  BY <1>1, <1>2, <1>3 DEF Inv

-----------------------------------------------------------------------------
(* The invariant holds throughout.                                          *)
THEOREM Invariant == Spec => []Inv
<1>1. Inv /\ [Next]_vars => Inv'
  <2> SUFFICES ASSUME Inv, [Next]_vars PROVE Inv'
    OBVIOUS
  <2>1. CASE \E d, r \in BOOLEAN : TypeKey(d, r)
    BY <2>1, TypeKeyStep
  <2>2. CASE \E c \in story.carets : ShortcutKey(c) \/ Click(c)
    BY <2>2, ShortcutStep, ClickStep
  <2>3. CASE \E w \in Windows : Raise(w)
    BY <2>3, RaiseStep
  <2>4. CASE ForegroundEvent \/ DebounceTimer \/ Update
    BY <2>4, SettlingStep, UpdateStep
  <2>5. CASE FocusEvent \/ WorkerWakes \/ WorkerAsks \/ WorkerStores
    BY <2>5, FocusStep
  <2>6. CASE OwnEvent \/ WriteLine \/ UNCHANGED vars
    BY <2>6, QuietStep
  <2> QED
    BY <2>1, <2>2, <2>3, <2>4, <2>5, <2>6 DEF Next
<1> QED
  BY InitInv, <1>1, PTL DEF Spec

(* The state stays what the code's types allow, and no word is kept for an  *)
(* application the session does not act in.                                 *)
THEOREM TypeCorrect == Spec => []TypeOK
<1>1. Inv => TypeOK
  BY DEF Inv
<1> QED
  BY Invariant, <1>1, PTL

(* Keys that are taken to be settled are handled for the application in     *)
(* front, and a window out of reach is known for one: foreground.rs, update,*)
(* and the backstop of handle_key.                                          *)
THEOREM FrontIsFollowed == Spec => []FrontIsKnown
<1>1. Inv => FrontIsKnown
  <2> SUFFICES ASSUME Inv, ~Settling, front.readable
               PROVE  session.app = front.app /\ cache.reach = front.reach
    BY DEF FrontIsKnown
  <2>1. cache = Known(front) /\ session.app = cache.app /\ front \in Windows
    BY DEF Inv, TypeOK, CacheInv
  <2> QED
    BY <2>1, WindowsAreKnown
<1> QED
  BY Invariant, <1>1, PTL

(* The word the session edits is the one before the caret.                  *)
THEOREM WordStaysHome == Spec => []WordIsAtHome
<1>1. Inv => WordIsAtHome
  <2> SUFFICES ASSUME Inv, session.word # NoWord, ~session.word.strayed,
                      ~Settling, front.readable,
                      session.word.home.window = front
                        \/ Known(session.word.home.window) # Known(front)
               PROVE  session.word.home = Caret
    BY DEF WordIsAtHome
  <2>1. cache = Known(front) /\ session.word \in WordsAt
    BY DEF Inv, TypeOK, CacheInv
  <2>2. /\ Known(session.word.home.window) = Known(front)
        /\ spot[session.word.home.window] = session.word.home.spot
    BY <2>1 DEF Inv, WordInv
  <2>3. session.word.home.window = front /\ session.word.home.spot = spot[front]
    BY <2>2
  <2>4. session.word.home \in Carets
    BY <2>1 DEF WordsAt
  <2> QED
    BY <2>3, <2>4 DEF Caret, Carets
<1> QED
  BY Invariant, <1>1, PTL

(* A forward-delete meets the address bar, or a question that is open.      *)
THEOREM GuardStaysInTheBar == Spec => []GuardOnlyInTheBar
<1>1. Inv => GuardOnlyInTheBar
  BY DEF Inv
<1> QED
  BY Invariant, <1>1, PTL

(* A run of refused batches is told once: inject.rs, send.                  *)
THEOREM RefusalsAreTold == Spec => []RefusalIsToldOnce
<1>1. Inv => RefusalIsToldOnce
  BY DEF Inv
<1> QED
  BY Invariant, <1>1, PTL

(* What is sent answers keys of the user: hook.rs lets its own events pass. *)
THEOREM SendingAnswersKeys == Spec => []BatchesAnswerKeys
<1>1. Inv => BatchesAnswerKeys
  BY DEF Inv
<1> QED
  BY Invariant, <1>1, PTL

-----------------------------------------------------------------------------
(* The log, which nothing else depends on.                                  *)
Logs == [queue : Seq(Nat), dropped : Nat, asked : Nat, written : Nat]

Accounts(l) ==
  /\ l \in Logs /\ Len(l.queue) <= QueueDepth
  /\ l.asked = l.written + Len(l.queue) + SumFunction(l.queue) + l.dropped

LEMMA CountsAreSummed ==
  ASSUME NEW q \in Seq(Nat)
  PROVE  IsSum(q, SumFunction(q)) /\ SumFunction(q) \in Nat
<1> DEFINE Sums(h) == h = [s \in SUBSET DOMAIN q |->
                             IF s = {} THEN 0
                             ELSE LET x == CHOOSE x \in s : TRUE IN q[x] + h[s \ {x}]]
           iter == CHOOSE h : Sums(h)
<1>1. SumFunction(q) = iter[DOMAIN q]
  BY DEF SumFunction, SumFunctionOnSet, FoldFunctionOnSet, MapThenFoldSet
<1>2. \E h : Sums(h)
  <2>1. PICK h \in [SUBSET DOMAIN q -> Nat] : SumsOver(h, q)
    BY SumExists
  <2> QED BY <2>1 DEF SumsOver
<1>3. Sums(iter)
  <2> HIDE DEF Sums
  <2> QED BY <1>2
<1> HIDE DEF iter
<1>4. SumsOver(iter, q)
  BY <1>3 DEF SumsOver
<1> QED BY <1>1, <1>4, SumInAnyOrder, SumIsANatural

(* A line is queued with the count that waited, or added to it.             *)
LEMMA LoggedAccounts ==
  ASSUME NEW l, Accounts(l)
  PROVE  Accounts(Logged(l))
<1> DEFINE q == l.queue
           new == Append(q, l.dropped)
<1>1. l \in Logs /\ q \in Seq(Nat) /\ Len(q) \in Nat /\ SumFunction(q) \in Nat
  BY CountsAreSummed DEF Accounts, Logs
<1>2. CASE Len(q) < QueueDepth
  <2>1. new \in Seq(Nat) /\ Len(new) = Len(q) + 1
    BY <1>1 DEF Logs
  <2>2. SumFunction(new) = SumFunction(q) + l.dropped
    <3>1. l.dropped \in Nat /\ IsSum(q, SumFunction(q)) /\ IsSum(new, SumFunction(new))
      BY <1>1, <2>1, CountsAreSummed DEF Logs
    <3>2. IsSum(new, SumFunction(q) + l.dropped)
      <4> HIDE DEF q
      <4> QED BY <1>1, <3>1, SumOfMore
    <3> HIDE DEF new, q
    <3> QED BY <2>1, <3>1, <3>2, SumIsUnique
  <2>3. /\ Logged(l) \in Logs
        /\ Logged(l).queue = new /\ Logged(l).dropped = 0
        /\ Logged(l).asked = l.asked + 1 /\ Logged(l).written = l.written
    <3>1. Logged(l) = [queue |-> new, dropped |-> 0, asked |-> l.asked + 1,
                       written |-> l.written]
      BY <1>1, <1>2 DEF Logged, Logs
    <3>2. l.asked + 1 \in Nat /\ l.written \in Nat
      BY <1>1 DEF Logs
    <3> HIDE DEF new
    <3> QED BY <2>1, <3>1, <3>2 DEF Logs
  <2>4. /\ l.asked \in Nat /\ l.written \in Nat /\ l.dropped \in Nat
        /\ l.asked = l.written + Len(q) + SumFunction(q) + l.dropped
    BY <1>1 DEF Accounts, Logs
  <2> DEFINE total == SumFunction(q)
  <2>5. Len(new) <= QueueDepth
    BY <1>1, <1>2, <2>1, DepthAssumption
  <2> HIDE DEF q, new, total
  <2>6. l.asked + 1 = l.written + (Len(q) + 1) + (total + l.dropped) + 0
    <3> DEFINE k == Len(q)
    <3>1. k \in Nat /\ total \in Nat
      BY <1>1 DEF total
    <3>2. l.asked = l.written + k + total + l.dropped
      BY <2>4 DEF total
    <3> HIDE DEF k
    <3>3. l.asked + 1 = l.written + (k + 1) + (total + l.dropped)
      <4>1. l.asked \in Nat /\ l.written \in Nat /\ l.dropped \in Nat
        BY <2>4
      <4>2. l.asked + 1 = (l.written + k + total + l.dropped) + 1
        BY <3>2
      <4>3. (l.written + k + total + l.dropped) + 1 = l.written + (k + 1) + (total + l.dropped)
        BY <3>1, <4>1
      <4> QED BY <4>2, <4>3
    <3>4. l.written + (k + 1) + (total + l.dropped) \in Nat
      BY <2>4, <3>1
    <3> QED BY <3>3, <3>4 DEF k
  <2> QED BY <2>1, <2>2, <2>3, <2>5, <2>6 DEF Accounts, total
<1>3. CASE ~(Len(q) < QueueDepth)
  <2>1. /\ Logged(l) \in Logs
        /\ Logged(l).queue = q /\ Logged(l).dropped = 1 + l.dropped
        /\ Logged(l).asked = l.asked + 1 /\ Logged(l).written = l.written
    <3>1. Logged(l) = [queue |-> q, dropped |-> 1 + l.dropped, asked |-> l.asked + 1,
                       written |-> l.written]
      BY <1>1, <1>3 DEF Logged, Logs
    <3>2. l.asked + 1 \in Nat /\ l.written \in Nat /\ 1 + l.dropped \in Nat
      BY <1>1 DEF Logs
    <3> HIDE DEF q
    <3> QED BY <1>1, <3>1, <3>2 DEF Logs
  <2>2. /\ l.asked \in Nat /\ l.written \in Nat /\ l.dropped \in Nat /\ Len(q) <= QueueDepth
        /\ l.asked = l.written + Len(q) + SumFunction(q) + l.dropped
    BY <1>1 DEF Accounts, Logs
  <2> DEFINE total == SumFunction(q)
  <2> HIDE DEF q, total
  <2>3. l.asked + 1 = l.written + Len(q) + total + (1 + l.dropped)
    BY <1>1, <2>2, SMTT(20) DEF total
  <2> QED BY <2>1, <2>2, <2>3 DEF Accounts, total
<1> QED BY <1>2, <1>3

LEMMA LinesAccount ==
  ASSUME NEW n \in Nat, Accounts(log), Lines(n)
  PROVE  Accounts(log')
<1>1. CASE ~About("log")
  BY <1>1 DEF Lines
<1>2. CASE About("log")
  <2> DEFINE A == {l \in Logs : Accounts(l)}
             step == [l \in A |-> Logged(l)]
             Runs(f) == f = [i \in 0..n |-> IF i = 0 THEN log ELSE Logged(f[i - 1])]
             after == CHOOSE f : Runs(f)
  <2>1. log' = after[n]
    BY <1>2 DEF Lines
  <2>2. log \in A /\ step \in [A -> A]
    BY LoggedAccounts DEF Accounts
  <2>3. PICK f \in [0..n -> A] : Steps(f, n, log, step)
    <3> HIDE DEF A, step
    <3> QED BY <2>2, StepsExist, Zenon
  <2>4. Runs(f)
    <3>1. \A i \in 1..n : f[i] = step[f[i - 1]] /\ f[i - 1] \in A
      BY <2>3 DEF Steps
    <3>2. f[0] = log /\ \A i \in 1..n : f[i] = Logged(f[i - 1])
      BY <2>3, <3>1 DEF Steps
    <3>3. f = [i \in 0..n |-> f[i]] /\ \A i \in 0..n : i = 0 \/ i \in 1..n
      OBVIOUS
    <3> HIDE DEF A, step
    <3> QED BY <3>2, <3>3
  <2>5. Runs(after)
    <3> HIDE DEF Runs
    <3> QED BY <2>4
  <2> HIDE DEF after
  <2> DEFINE T == {i \in 0..n : Accounts(after[i])}
  <2>6. 0 \in T /\ \A k \in 1..n : k - 1 \in T => k \in T
    BY <2>5, LoggedAccounts
  <2>7. \A k \in 0..n : k \in T
    <3> HIDE DEF T
    <3> QED BY <2>6, AllUpTo
  <2> QED BY <2>1, <2>7
<1> QED BY <1>1, <1>2

LEMMA WriteLineAccounts ==
  ASSUME Accounts(log), WriteLine
  PROVE  Accounts(log')
<1> DEFINE q == log.queue
           rest == Tail(q)
<1>1. /\ log \in Logs /\ q \in Seq(Nat) /\ q # <<>>
      /\ log' = [log EXCEPT !.queue = Tail(@), !.written = @ + 1 + Head(log.queue)]
  BY DEF Accounts, Logs, WriteLine
<1>2. /\ rest \in Seq(Nat) /\ Len(rest) = Len(q) - 1 /\ Len(q) \in Nat \ {0}
      /\ Head(q) = q[1] /\ q[1] \in Nat
  BY <1>1, EmptySeq
<1>3. SumFunction(rest) = SumFunction(q) - q[1] /\ SumFunction(q) \in Nat
  <2>1. /\ IsSum(q, SumFunction(q)) /\ SumFunction(q) \in Nat
        /\ IsSum(rest, SumFunction(rest))
    BY <1>1, <1>2, CountsAreSummed
  <2>2. IsSum(rest, SumFunction(q) - q[1])
    <3> HIDE DEF q
    <3> QED BY <1>1, <2>1, SumOfRest
  <2> HIDE DEF q, rest
  <2> QED BY <1>2, <2>1, <2>2, SumIsUnique
<1>4. /\ log' \in Logs /\ log'.queue = rest /\ log'.dropped = log.dropped
      /\ log'.asked = log.asked /\ log'.written = log.written + 1 + q[1]
  <2>1. log' = [queue |-> rest, dropped |-> log.dropped, asked |-> log.asked,
                written |-> log.written + 1 + q[1]]
    BY <1>1, <1>2 DEF Logs
  <2>2. log.written + 1 + q[1] \in Nat /\ log.dropped \in Nat /\ log.asked \in Nat
    BY <1>1, <1>2 DEF Logs
  <2> HIDE DEF q, rest
  <2> QED BY <1>2, <2>1, <2>2 DEF Logs
<1>5. /\ log.asked \in Nat /\ log.written \in Nat /\ log.dropped \in Nat
      /\ Len(q) <= QueueDepth
      /\ log.asked = log.written + Len(q) + SumFunction(q) + log.dropped
  BY <1>1 DEF Accounts, Logs
<1>6. Len(rest) <= QueueDepth
  BY <1>2, <1>5, DepthAssumption
<1> DEFINE total == SumFunction(q)
<1> HIDE DEF q, rest, total
<1>7. log.asked = (log.written + 1 + q[1]) + (Len(q) - 1) + (total - q[1]) + log.dropped
  BY <1>2, <1>3, <1>5, SMTT(20) DEF total
<1> QED BY <1>2, <1>3, <1>4, <1>6, <1>7 DEF Accounts, total

(* Who writes how much is of no account here.                               *)
LEMMA LogStep ==
  ASSUME Accounts(log), [Next]_vars
  PROVE  Accounts(log')
<1>1. ASSUME NEW n \in Nat, Lines(n) PROVE Accounts(log')
  BY <1>1, LinesAccount
<1>2. ASSUME log' = log PROVE Accounts(log')
  BY <1>2
<1>3. \A c, d : {1, One(c), 1 + One(c), 1 + One(c) + One(d)} \subseteq Nat
  BY DEF One
<1>4. ASSUME NEW d \in BOOLEAN, NEW r \in BOOLEAN, TypeKey(d, r) PROVE Accounts(log')
  BY <1>1, <1>3, <1>4 DEF TypeKey, HandleKey
<1>5. ASSUME OwnEvent PROVE Accounts(log')
  BY <1>2, <1>5 DEF OwnEvent, IsOwnEvent
<1>6. ASSUME NEW c, ShortcutKey(c) PROVE Accounts(log')
  BY <1>1, <1>3, <1>6 DEF ShortcutKey
<1>7. ASSUME NEW c, Click(c) PROVE Accounts(log')
  BY <1>1, <1>3, <1>7 DEF Click
<1>8. ASSUME NEW w, Raise(w) PROVE Accounts(log')
  BY <1>2, <1>8 DEF Raise
<1>9. ASSUME Update PROVE Accounts(log')
  BY <1>1, <1>2, <1>3, <1>9 DEF Update
<1>10. ASSUME WriteLine PROVE Accounts(log')
  BY <1>10, WriteLineAccounts
<1>11. ASSUME \/ ForegroundEvent \/ DebounceTimer \/ FocusEvent
              \/ WorkerWakes \/ WorkerAsks \/ WorkerStores \/ UNCHANGED vars
       PROVE  Accounts(log')
  BY <1>2, <1>11 DEF ForegroundEvent, DebounceTimer, FocusEvent, WorkerWakes, WorkerAsks,
                     WorkerStores, vars
<1> QED BY <1>4, <1>5, <1>6, <1>7, <1>8, <1>9, <1>10, <1>11 DEF Next

LEMMA LogAlways == Spec => []Accounts(log)
<1>1. Init => Accounts(log)
  <2>1. <<>> \in Seq(Nat) /\ Len(<<>>) = 0
    OBVIOUS
  <2>2. SumFunction(<<>>) = 0
    BY <2>1, CountsAreSummed, SumOfNone, SumIsUnique
  <2>3. QueueDepth \in Nat \ {0}
    BY DepthAssumption
  <2>4. ASSUME log = [queue |-> <<>>, dropped |-> 0, asked |-> 0, written |-> 0]
        PROVE  Accounts(log)
    <3>1. log \in Logs /\ log.queue = <<>> /\ log.asked = 0 /\ log.written = 0
          /\ log.dropped = 0
      BY <2>1, <2>4 DEF Logs
    <3> QED BY <2>1, <2>2, <2>3, <3>1 DEF Accounts
  <2> QED BY <2>4 DEF Init
<1>2. Accounts(log) /\ [Next]_vars => Accounts(log)'
  BY LogStep DEF Accounts, Logs
<1> QED
  BY <1>1, <1>2, PTL DEF Spec

(* No line is lost without a count of it: hook_log.rs, log and the writer.  *)
THEOREM LinesAreAccountedFor == Spec => []LogAccountsForEveryLine
<1>1. Accounts(log) => LogAccountsForEveryLine
  BY DEF Accounts, LogAccountsForEveryLine
<1> QED
  BY LogAlways, <1>1, PTL
-----------------------------------------------------------------------------
(* What makes a change of the window in front settle (foreground.rs), and a *)
(* wrong guard go (omnibox.rs): nothing sets either back but the user.      *)
WaitsLeft == 3 * One(notice) + 2 * One(timer) + One(resolving # NoWindow)

(* The thread of the hooks uses up what it waits for, and only another      *)
(* window in front adds to it (foreground.rs, schedule_update and update):  *)
(* a key, a click or an answer about the focus never keeps a change waiting.*)
OnlyANewFrontDelays ==
  [][/\ WaitsLeft' > WaitsLeft => front' # front
     /\ ForegroundEvent \/ DebounceTimer \/ Update => WaitsLeft' < WaitsLeft]_vars

StaleGuard == flag /\ ~InBar

(* The steps the resolver thread takes until it waits again.                *)
StepsLeft ==
  3 * One(token) + (IF worker \in {"starting", "asking"} THEN 2 ELSE One(worker # "waiting"))

(* A stale guard has a question to come: a notification of the focus, a     *)
(* message in WAKE or an answer that is being found (omnibox.rs).           *)
SomeoneWillAsk == StaleGuard => focusNotice \/ StepsLeft > 0

(* It survives no notification of the focus and five steps of the resolver  *)
(* at most, whatever is typed or clicked and wherever the caret goes        *)
(* meanwhile (omnibox.rs, note_focus_changed and the resolver).             *)
StaleGuardsWearOut ==
  [][StaleGuard /\ StaleGuard'
       => /\ ~FocusEvent
          /\ StepsLeft' <= StepsLeft
          /\ WorkerWakes \/ WorkerAsks \/ WorkerStores => StepsLeft' < StepsLeft]_vars

(* Whatever moves the caret or handles a key.                               *)
LEMMA OthersSetNothingBack ==
  ASSUME TypeOK, [Next]_vars, ~(ForegroundEvent \/ DebounceTimer \/ Update),
         ~(FocusEvent \/ WorkerWakes \/ WorkerAsks \/ WorkerStores)
  PROVE  /\ UNCHANGED <<timer, resolving, flag, token, worker>>
         /\ notice' = notice \/ front' # front
<1>1. CASE \E d, r \in BOOLEAN : TypeKey(d, r)
  BY <1>1 DEF TypeKey, settling, bar
<1>2. CASE \E c \in story.carets : ShortcutKey(c) \/ Click(c)
  <2>1. PICK c \in story.carets : MoveTo(c)
    BY <1>2 DEF ShortcutKey, Click
  <2> QED BY <2>1 DEF TypeOK, MoveTo
<1>3. CASE \E w \in Windows : Raise(w)
  BY <1>3 DEF TypeOK, Raise, MoveTo
<1>4. CASE OwnEvent \/ WriteLine \/ UNCHANGED vars
  BY <1>4 DEF OwnEvent, WriteLine, settling, bar, vars
<1> QED BY <1>1, <1>2, <1>3, <1>4 DEF Next

LEMMA TheWaitsAreUsedUp ==
  ASSUME TypeOK, [Next]_vars
  PROVE  /\ WaitsLeft' > WaitsLeft => front' # front
         /\ ForegroundEvent \/ DebounceTimer \/ Update => WaitsLeft' < WaitsLeft
<1>1. notice \in BOOLEAN /\ timer \in BOOLEAN /\ NoWindow \notin Windows
  BY WinHookAssumption DEF TypeOK
<1>2. CASE ForegroundEvent
  BY <1>1, <1>2 DEF ForegroundEvent, WaitsLeft, One
<1>3. CASE DebounceTimer
  BY <1>1, <1>3 DEF DebounceTimer, KillTimer, WaitsLeft, One
<1>4. CASE Update
  BY <1>1, <1>4 DEF Update, WaitsLeft, One
<1>5. CASE FocusEvent \/ WorkerWakes \/ WorkerAsks \/ WorkerStores
  <2>1. UNCHANGED <<notice, timer, resolving>>
    BY <1>5 DEF FocusEvent, WorkerWakes, WorkerAsks, WorkerStores, settling
  <2>2. ~(ForegroundEvent \/ DebounceTimer \/ Update)
    BY <2>1, <1>1 DEF ForegroundEvent, DebounceTimer, KillTimer, Update
  <2> QED BY <2>1, <2>2, <1>1 DEF WaitsLeft, One
<1>6. CASE ~(\/ ForegroundEvent \/ DebounceTimer \/ Update
             \/ FocusEvent \/ WorkerWakes \/ WorkerAsks \/ WorkerStores)
  BY <1>1, <1>6, OthersSetNothingBack DEF WaitsLeft, One
<1> QED BY <1>2, <1>3, <1>4, <1>5, <1>6

LEMMA TheGuardWearsOut ==
  ASSUME TypeOK, [Next]_vars, StaleGuard, StaleGuard'
  PROVE  /\ ~FocusEvent
         /\ StepsLeft' <= StepsLeft
         /\ WorkerWakes \/ WorkerAsks \/ WorkerStores => StepsLeft' < StepsLeft
<1>1. token \in BOOLEAN /\ worker \in {"starting", "waiting", "asking", "bar", "page", "none"}
  BY DEF TypeOK
<1>2. ~FocusEvent
  BY DEF FocusEvent, StaleGuard
<1>3. CASE WorkerWakes
  BY <1>1, <1>2, <1>3 DEF WorkerWakes, StepsLeft, One
<1>4. CASE WorkerAsks
  <2>1. worker \in {"starting", "asking"} /\ token' = token
        /\ worker' \in {"bar", "page", "none", "waiting"}
    BY <1>4 DEF WorkerAsks, Answers
  <2> QED BY <1>1, <1>2, <2>1 DEF StepsLeft, One
<1>5. CASE WorkerStores
  BY <1>1, <1>2, <1>5 DEF WorkerStores, StepsLeft, One
<1>6. CASE ForegroundEvent \/ DebounceTimer \/ Update
  <2>1. UNCHANGED <<token, worker>>
    BY <1>6 DEF ForegroundEvent, DebounceTimer, Update, bar
  <2> QED BY <1>1, <1>2, <2>1, <1>3, <1>4, <1>5 DEF StepsLeft, One
<1>7. CASE ~(\/ ForegroundEvent \/ DebounceTimer \/ Update
             \/ FocusEvent \/ WorkerWakes \/ WorkerAsks \/ WorkerStores)
  BY <1>1, <1>2, <1>7, OthersSetNothingBack DEF StepsLeft, One
<1> QED BY <1>2, <1>3, <1>4, <1>5, <1>6, <1>7

(* A change of the window in front waits for the thread of the hooks only,  *)
(* and a further change is all that may make it wait longer (foreground.rs).*)
THEOREM ChangesAreNotHeldUp == Spec => [](Settling <=> WaitsLeft > 0) /\ OnlyANewFrontDelays
<1>1. TypeOK => (Settling <=> WaitsLeft > 0)
  BY DEF TypeOK, Settling, WaitsLeft, One
<1>2. TypeOK /\ [Next]_vars
        => [/\ WaitsLeft' > WaitsLeft => front' # front
            /\ ForegroundEvent \/ DebounceTimer \/ Update => WaitsLeft' < WaitsLeft]_vars
  BY TheWaitsAreUsedUp
<1> QED BY <1>1, <1>2, TypeCorrect, PTL DEF Spec, OnlyANewFrontDelays

(* A guard armed outside the address bar is always about to be asked about, *)
(* and does not outlive a notification or five steps of the resolver        *)
(* (omnibox.rs).                                                            *)
THEOREM StaleGuardsRunOut == Spec => []SomeoneWillAsk /\ StaleGuardsWearOut
<1>1. Inv => SomeoneWillAsk
  BY DEF Inv, TypeOK, BarInv, SomeoneWillAsk, StaleGuard, StepsLeft, One
<1>2. TypeOK /\ [Next]_vars
        => [StaleGuard /\ StaleGuard'
              => /\ ~FocusEvent
                 /\ StepsLeft' <= StepsLeft
                 /\ WorkerWakes \/ WorkerAsks \/ WorkerStores => StepsLeft' < StepsLeft]_vars
  BY TheGuardWearsOut
<1> QED BY <1>1, <1>2, Invariant, TypeCorrect, PTL DEF Spec, StaleGuardsWearOut
=============================================================================
