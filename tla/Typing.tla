------------------------------- MODULE Typing -------------------------------
(***************************************************************************)
(* The session and the decision ladder (glowkey-session/src/session.rs,    *)
(* glowkey-input/src/ladder.rs and platform.rs), in front of a host        *)
(* document they cannot see: every action is one key or one call of the    *)
(* shell, with everything it changes in the session and in the text before *)
(* the caret.  Keys are handled one at a time, and the edits a key asks    *)
(* for are in the document before the next one.                            *)
(***************************************************************************)
EXTENDS Engine, ExclusionList, FiniteSets

CONSTANTS
  WordKeys(_),      (* the keys that extend a word under a style: VNI reads  *)
                    (* digits, the bracket option reads brackets             *)
  Boundaries,       (* characters that end a word under every style          *)
  ControlKeys,      (* word-ending keys that arrive as control characters    *)
  Tab,              (* the control key a macro swallows                      *)
  SentenceEnders,   (* . ! ?                                                 *)
  Upper(_), Lower(_),   (* the case of a character                           *)
  IsInvalidVietnamese(_),   (* the question auto-fix asks of a finished word *)
  EnglishWords,     (* key logs the English restore gives back               *)
  Macros,           (* shortcut -> expansion                                 *)
  NoWord,           (* nothing to correct                                    *)
  CommittedHistory, (* COMMITTED_HISTORY                                     *)
  DefaultTable,     (* the applications that ship excluded                   *)
  InitialSettings,  (* the settings a session may start with                 *)
  EditableSettings, (* the settings that change while it runs                *)
  MaxText,          (* bound: the longest text before the caret              *)
  MaxDecisions,     (* bound: how many words are ever decided about          *)
  OtherTexts,       (* texts a caret move may find before the caret          *)
  UnseenMoves       (* the keys let through with no flush on which some      *)
                    (* application moves the caret                           *)

VARIABLES
  text,             (* host: the characters before the caret                 *)
  engine, spellCheck,       (* the engine, and its copy of the spell check   *)
  settings, mode, app, exclusions,
  committed,        (* the words behind the caret, most recent last          *)
  correctable,      (* the word the correction hotkey would swap             *)
  prefersRaw, prefersVietnamese,    (* word_overrides, by decision           *)
  pendingCapital,
  decision          (* what the last step told the shell to do               *)

memory == <<committed, correctable>>
policy == <<settings, spellCheck, mode, app, exclusions>>
learned == <<prefersRaw, prefersVietnamese>>
vars == <<text, engine, memory, policy, learned, pendingCapital, decision>>

Characters == Chars \cup Boundaries \cup ControlKeys
Texts == Seq(Characters)
Edits == [bs : Nat, ins : Texts]
Decisions == [kind : {"Passthrough", "Consume", "ToggleApp", "NotAKey",
                      "Emit", "EmitThenReplayKey"}, edit : Edits]
Correctables == [raw : KeyLogs, rendered : Seq(Chars), onScreen : Seq(Chars),
                 boundary : Boundaries \cup Keys]
Settings == [style : Styles, autoFix : BOOLEAN, strict : BOOLEAN,
             alwaysMacro : BOOLEAN, restoreEnglish : BOOLEAN,
             autoCapitalize : BOOLEAN]

ASSUME TypingAssumption ==
  /\ CommittedHistory \in Nat \ {0} /\ {MaxText, MaxDecisions} \subseteq Nat
  /\ DefaultTable \subseteq Apps
  /\ OtherTexts \subseteq Texts
  /\ InitialSettings \subseteq Settings
  /\ Tab \in ControlKeys
  /\ ControlKeys \cap (Chars \cup Boundaries) = {} /\ Boundaries \cap Keys = {}
  /\ \A s \in Styles : WordKeys(s) \subseteq Keys
  /\ \A k \in Keys : Upper(k) \in Keys /\ Lower(k) \in Keys
  /\ NoWord \notin Correctables
  /\ DOMAIN Macros \subseteq KeyLogs
  /\ \A shortcut \in DOMAIN Macros : Macros[shortcut] \in Seq(Chars)

ASSUME UnseenAssumption ==
  UnseenMoves \subseteq {"correction hotkey", "key without a character"}

-----------------------------------------------------------------------------
(* The host.                                                                *)

Apply(t, edit) == SubSeq(t, 1, Len(t) - edit.bs) \o edit.ins

(* Where the caret may be after something that can move it: further back in *)
(* the same text, or in front of other text.                                *)
Landings(t) == {SubSeq(t, 1, n) : n \in 0..Len(t)} \cup OtherTexts

(* A boundary key typed into `t`: an ordinary character is inserted, a      *)
(* control key may insert itself, do nothing or move the caret.             *)
Typed(t, ch) ==
  IF ch \in ControlKeys THEN {t, Append(t, ch)} \cup Landings(t)
                        ELSE {Append(t, ch)}

Deleted(t) == IF t = <<>> THEN t ELSE SubSeq(t, 1, Len(t) - 1)

(* The decision, with the edit it carries.                                  *)
Passthrough == [kind |-> "Passthrough", edit |-> NoEdit]
Consume == [kind |-> "Consume", edit |-> NoEdit]
ToggleApp == [kind |-> "ToggleApp", edit |-> NoEdit]
NotAKey == [kind |-> "NotAKey", edit |-> NoEdit]
Emit(edit) == [kind |-> "Emit", edit |-> edit]
EmitThenReplayKey(edit) == [kind |-> "EmitThenReplayKey", edit |-> edit]

-----------------------------------------------------------------------------
(* Session state.                                                           *)

(* What stays behind the caret: a word with its boundary character, or, as  *)
(* a word of no letters, a boundary character on its own.                   *)
Behinds == [raw : KeyLogs, rendered : Seq(Chars)]
BareBoundary == [raw |-> <<>>, rendered |-> <<>>]

InFront == app # NoApp /\ ~IsExcluded(exclusions, app)

(* Fails closed: no application known means no transformation.              *)
IsActive == mode = "Vietnamese" /\ InFront

MacrosActive ==
  settings.alwaysMacro /\ DOMAIN Macros # {} /\ mode = "English" /\ InFront

Listening == IsActive \/ MacrosActive

RemembersPosition ==
  IsComposing(engine) \/ committed # <<>> \/ correctable # NoWord

(* Slip: only the correctable word is forgotten, not the history.           *)
ForgetCorrectableOnly == correctable' = NoWord /\ UNCHANGED committed

ForgetPosition == committed' = <<>> /\ correctable' = NoWord

ResetEngine == engine' = FreshEngine

(* Slip: a flush that leaves the word in the engine.                        *)
FlushMemoryOnly ==
  ForgetPosition /\ pendingCapital' = FALSE /\ UNCHANGED engine

(* Session::flush.                                                          *)
Flush == ResetEngine /\ ForgetPosition /\ pendingCapital' = FALSE

(* Slip: the history is never trimmed.                                      *)
PushBehindUncapped(stack, entry) == Append(stack, entry)

(* The oldest entries go first, so what remains still ends at the caret.    *)
PushBehind(stack, entry) ==
  LET longer == Append(stack, entry)
      first == IF Len(longer) > CommittedHistory
               THEN Len(longer) - CommittedHistory + 1 ELSE 1
  IN  SubSeq(longer, first, Len(longer))

LowerWord(word) == [i \in DOMAIN word |-> Lower(word[i])]

(* Slip: a new decision does not withdraw the one before it.                *)
LearnWithoutUnlearning(word, prefersIt) ==
  /\ prefersRaw' = IF prefersIt THEN prefersRaw ELSE prefersRaw \cup {word}
  /\ prefersVietnamese' =
       IF prefersIt THEN prefersVietnamese \cup {word} ELSE prefersVietnamese

(* set_word_override: the last decision about a word replaces the one before.*)
Learn(word, prefersIt) ==
  /\ prefersRaw' = IF prefersIt THEN prefersRaw \ {word} ELSE prefersRaw \cup {word}
  /\ prefersVietnamese' =
       IF prefersIt THEN prefersVietnamese \cup {word} ELSE prefersVietnamese \ {word}

-----------------------------------------------------------------------------
Init ==
  /\ text = <<>> /\ engine = FreshEngine
  /\ settings \in InitialSettings
  /\ spellCheck = (settings.autoFix /\ settings.strict)
  /\ mode = "Vietnamese" /\ app = NoApp
  /\ exclusions = FromSaved(DefaultTable, {}, ShippedTable(DefaultTable))
  /\ committed = <<>> /\ correctable = NoWord
  /\ prefersRaw = {} /\ prefersVietnamese = {}
  /\ pendingCapital = TRUE
  /\ decision = NotAKey

(* A key that extends the word, while the session listens: always an edit,  *)
(* even for a plain append, so that no native character races one.  The     *)
(* first key that has a case, bracket keys included, consumes the capital.  *)
Cased(key) == Upper(key) # Lower(key)

Capitalised(key) ==
  IF settings.autoCapitalize /\ pendingCapital /\ ~IsComposing(engine)
  THEN Upper(key) ELSE key

Extended(key) ==
  IF IsActive
  THEN ProcessKey(engine, settings.style, spellCheck, Capitalised(key))
  ELSE ProcessKeyVerbatim(engine, settings.style, spellCheck, key)

TypeWordKey(key) ==
  /\ Listening /\ key \in WordKeys(settings.style)
  /\ Len(engine.raw) < MaxKeys /\ Len(text) < MaxText
  /\ engine' = Extended(key)
  /\ decision' = Emit(Diff(engine.rendered, engine'.rendered))
  /\ text' = Apply(text, decision'.edit)
  /\ correctable' = NoWord
  /\ pendingCapital' =
       (pendingCapital /\ (MacrosActive \/ IsComposing(engine) \/ ~Cased(key)))
  /\ UNCHANGED <<committed, policy, learned>>

-----------------------------------------------------------------------------
(* The end of a word.                                                       *)

EndsAWord(ch) ==
  ch \in Boundaries \cup ControlKeys \cup (Keys \ WordKeys(settings.style))

PendingMacros ==
  {shortcut \in DOMAIN Macros :
     IsComposing(engine) /\ LowerWord(shortcut) = LowerWord(engine.raw)}

(* The reading a committed word is left with: the user's decision about it, *)
(* then the rules.                                                          *)
WantedReading(typed, rendered) ==
  LET key == LowerWord(typed)
      invalid == settings.autoFix /\ IsInvalidVietnamese(rendered)
      english == settings.restoreEnglish /\ typed \in EnglishWords
  IN  IF key \in prefersRaw THEN typed
      ELSE IF key \notin prefersVietnamese /\ (invalid \/ english) THEN typed
      ELSE rendered

(* Slip: a restored word is remembered as it was rendered.                  *)
CommittedAfterAlways(wanted) ==
  PushBehind(committed, [raw |-> engine.raw, rendered |-> engine.rendered])

(* A word that stands as it was rendered is remembered; one that was        *)
(* restored ends the account of what is behind the caret.                   *)
CommittedAfter(wanted) ==
  IF ~IsComposing(engine) THEN PushBehind(committed, BareBoundary)
  ELSE IF wanted = engine.rendered
       THEN PushBehind(committed, [raw |-> engine.raw, rendered |-> engine.rendered])
       ELSE <<>>

(* Slip: the restore is not taken into account.                             *)
CorrectableAfterAsRendered(wanted, ch) ==
  IF ~IsComposing(engine) \/ TypedWord(engine, settings.style) = engine.rendered THEN NoWord
  ELSE [raw |-> TypedWord(engine, settings.style), rendered |-> engine.rendered,
        onScreen |-> engine.rendered, boundary |-> ch]

CorrectableAfter(wanted, ch) ==
  IF ~IsComposing(engine) \/ TypedWord(engine, settings.style) = engine.rendered THEN NoWord
  ELSE [raw |-> TypedWord(engine, settings.style), rendered |-> engine.rendered,
        onScreen |-> wanted, boundary |-> ch]

(* note_boundary, after a commit that would leave these two memories.       *)
NoteBoundary(ch, stack, word) ==
  /\ pendingCapital' = (pendingCapital \/ ch \in SentenceEnders)
  /\ IF ch \in ControlKeys
     THEN ForgetPosition
     ELSE committed' = stack /\ correctable' = word

(* A boundary behind a macro's shortcut: the expansion replaces the word    *)
(* and has no second reading.  The key is typed after it, except a Tab.     *)
ExpandMacro(ch) ==
  /\ Listening /\ EndsAWord(ch)
  /\ \E shortcut \in PendingMacros :
       LET edit == Rewrite(engine.rendered, Macros[shortcut])
       IN  /\ Len(text) - edit.bs + Len(edit.ins) < MaxText
           /\ IF ch = Tab
              THEN decision' = Emit(edit) /\ text' = Apply(text, edit)
              ELSE /\ decision' = EmitThenReplayKey(edit)
                   /\ text' \in Typed(Apply(text, edit), ch)
  /\ ResetEngine
  /\ NoteBoundary(ch, <<>>, NoWord)
  /\ UNCHANGED <<policy, learned>>

(* Any other boundary commits the word: left as rendered the key passes     *)
(* through, restored it is typed again behind the edit.                     *)
CommitWord(ch) ==
  /\ Listening /\ EndsAWord(ch)
  /\ PendingMacros = {}
  /\ Len(text) < MaxText
  /\ LET wanted == WantedReading(TypedWord(engine, settings.style), engine.rendered)
         edit == Rewrite(engine.rendered, wanted)
     IN  /\ IF IsComposing(engine) /\ wanted # engine.rendered
            THEN /\ decision' = EmitThenReplayKey(edit)
                 /\ text' \in Typed(Apply(text, edit), ch)
            ELSE /\ decision' = Passthrough
                 /\ text' \in Typed(text, ch)
         /\ NoteBoundary(ch, CommittedAfter(wanted), CorrectableAfter(wanted, ch))
  /\ ResetEngine
  /\ UNCHANGED <<policy, learned>>

-----------------------------------------------------------------------------
(* Backspace, in the ladder's order.                                        *)

(* The boundary behind a committed word goes: the word is open again.       *)
ReopenWord ==
  LET entry == committed[Len(committed)]
  IN  /\ Listening /\ ~IsComposing(engine) /\ committed # <<>>
      /\ committed' = SubSeq(committed, 1, Len(committed) - 1)
      /\ engine' = IF entry = BareBoundary THEN engine
                   ELSE Restore(engine, settings.style, entry.raw, entry.rendered)
      /\ decision' = Passthrough
      /\ text' = Deleted(text)
      /\ UNCHANGED <<correctable, pendingCapital, policy, learned>>

(* Inside a word the engine follows the deletion ...                        *)
ShrinkWord ==
  LET outcome == BackspaceVisibleChar(engine, settings.style)
  IN  /\ IsActive /\ IsComposing(engine) /\ outcome.kind # "Flush"
      /\ engine' = outcome.engine
      /\ IF outcome.kind = "Repair"
         THEN decision' = Emit(outcome.edit) /\ text' = Apply(text, outcome.edit)
         ELSE decision' = Passthrough /\ text' = Deleted(text)
      /\ correctable' = NoWord
      /\ UNCHANGED <<committed, pendingCapital, policy, learned>>

(* ... or gives up on it, as it does when it remembers nothing.             *)
LoseWord ==
  /\ Listening
  /\ \/ /\ IsComposing(engine)
        /\ ~IsActive \/ BackspaceVisibleChar(engine, settings.style).kind = "Flush"
     \/ ~IsComposing(engine) /\ committed = <<>>
  /\ Flush
  /\ decision' = Passthrough
  /\ text' = Deleted(text)
  /\ UNCHANGED <<policy, learned>>

-----------------------------------------------------------------------------
(* Everything else the ladder or the shell sees.                            *)

(* Arrows, Home, End and the page keys.                                     *)
MoveCaret ==
  /\ Listening
  /\ Flush
  /\ decision' = Passthrough
  /\ text' \in Landings(text)
  /\ UNCHANGED <<policy, learned>>

(* A shortcut flushes whether or not the session listens.                   *)
Shortcut ==
  /\ Flush
  /\ decision' = Passthrough
  /\ text' \in Landings(text)
  /\ UNCHANGED <<policy, learned>>

(* Any key while the session does not listen.                               *)
KeyWhileDeaf ==
  /\ ~Listening
  /\ decision' = Passthrough
  /\ text' \in Landings(text)
       \cup {Append(text, c) : c \in IF Len(text) < MaxText THEN Keys ELSE {}}
  /\ UNCHANGED <<engine, memory, pendingCapital, policy, learned>>

ToggleMode ==
  /\ mode' = IF mode = "Vietnamese" THEN "English" ELSE "Vietnamese"
  /\ ForgetPosition /\ ResetEngine
  /\ decision' = Consume
  /\ UNCHANGED <<text, settings, spellCheck, app, exclusions, learned, pendingCapital>>

(* The per-application hotkey acts on the application really in front, which*)
(* the session may not have been told of yet ...                            *)
ToggleAppHotkey(a) ==
  /\ app' = a
  /\ exclusions' = Toggled(exclusions, a)
  /\ ForgetPosition /\ ResetEngine
  /\ decision' = ToggleApp
  /\ text' \in IF app = a THEN {text} ELSE Landings(text)
  /\ UNCHANGED <<settings, spellCheck, mode, learned, pendingCapital>>

(* ... and does nothing when the platform cannot name one.                  *)
ToggleNoApp ==
  /\ decision' = ToggleApp
  /\ UNCHANGED <<text, engine, memory, policy, learned, pendingCapital>>

(* The swap the correction hotkey makes: the word goes to its other reading,*)
(* and its boundary character is typed again behind it.                     *)
OtherReading(word) ==
  IF word.onScreen = word.raw THEN word.rendered ELSE word.raw

Swap(word) ==
  [bs |-> Len(word.onScreen) + 1, ins |-> Append(OtherReading(word), word.boundary)]

CorrectLastWord ==
  /\ IsActive /\ correctable # NoWord /\ ~IsComposing(engine)
  /\ decision' = Emit(Swap(correctable))
  /\ text' = Apply(text, Swap(correctable))
  /\ Learn(LowerWord(correctable.raw), correctable.onScreen = correctable.raw)
  /\ Cardinality(prefersRaw' \cup prefersVietnamese') <= MaxDecisions
  /\ ForgetPosition
  /\ UNCHANGED <<engine, policy, pendingCapital>>

(* Nothing to correct: the key is swallowed.  A word re-opened since it was *)
(* committed is not corrected either, and the position is forgotten.        *)
CorrectNothing ==
  /\ IsActive /\ (correctable = NoWord \/ IsComposing(engine))
  /\ IF correctable = NoWord THEN UNCHANGED memory ELSE ForgetPosition
  /\ decision' = Consume
  /\ UNCHANGED <<text, engine, policy, learned, pendingCapital>>

(* A key the application gets and the session takes no notice of.           *)
LetThrough(key) ==
  /\ decision' = Passthrough
  /\ text' \in IF key \in UnseenMoves THEN Landings(text) ELSE {text}
  /\ UNCHANGED <<engine, memory, policy, learned, pendingCapital>>

(* While Vietnamese is off the key goes to the application as it is.        *)
PassCorrectionKey == ~IsActive /\ LetThrough("correction hotkey")

(* A key that produces no character (on Windows a function key, Delete or   *)
(* Insert, a dead key; on macOS these are control characters).              *)
KeyWithoutACharacter == Listening /\ LetThrough("key without a character")

(* A mouse click, a tap that was off for a while: whatever the shell flushes*)
(* for without a key.                                                       *)
Click ==
  /\ Flush
  /\ decision' = NotAKey
  /\ text' \in Landings(text)
  /\ UNCHANGED <<policy, learned>>

(* The shell reports the application in front.                              *)
SetFrontmostApp(a) ==
  /\ app' = a
  /\ ForgetPosition /\ ResetEngine
  /\ decision' = NotAKey
  /\ text' \in Landings(text)
  /\ UNCHANGED <<settings, spellCheck, mode, exclusions, learned, pendingCapital>>

-----------------------------------------------------------------------------
(* Settings that change under a running session.                            *)

(* Slip: the words typed under the old style stay.                          *)
SetStyleInMidWord(style) ==
  /\ "style" \in EditableSettings
  /\ settings' = [settings EXCEPT !.style = style]
  /\ decision' = NotAKey
  /\ UNCHANGED <<text, engine, memory, spellCheck, mode, app, exclusions,
                 learned, pendingCapital>>

(* The style, the method, Quick Telex and the bracket keys: the word behind *)
(* the caret would render differently now.                                  *)
SetStyle(style) ==
  /\ "style" \in EditableSettings
  /\ settings' = [settings EXCEPT !.style = style]
  /\ ForgetPosition /\ ResetEngine
  /\ decision' = NotAKey
  /\ UNCHANGED <<text, spellCheck, mode, app, exclusions, learned, pendingCapital>>

(* Slip: the engine is told, but goes on with the word it has.              *)
SetChecksInMidWord(autoFix, strict) ==
  /\ "checks" \in EditableSettings
  /\ settings' = [settings EXCEPT !.autoFix = autoFix, !.strict = strict]
  /\ spellCheck' = (autoFix /\ strict)
  /\ decision' = NotAKey
  /\ UNCHANGED <<text, engine, memory, mode, app, exclusions, learned, pendingCapital>>

(* Auto-fix and the mid-word spell check, which is auto-fix made earlier:   *)
(* the engine is told only when what the two add up to changes.             *)
SetChecks(autoFix, strict) ==
  /\ "checks" \in EditableSettings
  /\ settings' = [settings EXCEPT !.autoFix = autoFix, !.strict = strict]
  /\ spellCheck' = (autoFix /\ strict)
  /\ IF spellCheck' = spellCheck
     THEN UNCHANGED <<engine, memory>>
     ELSE ResetEngine /\ ForgetPosition
  /\ decision' = NotAKey
  /\ UNCHANGED <<text, mode, app, exclusions, learned, pendingCapital>>

(* The macro switch forgets nothing by itself; its control is reached with  *)
(* a click, which does.                                                     *)
SetAlwaysMacro(on) ==
  /\ "alwaysMacro" \in EditableSettings
  /\ ~RemembersPosition
  /\ settings' = [settings EXCEPT !.alwaysMacro = on]
  /\ decision' = NotAKey
  /\ UNCHANGED <<text, engine, memory, spellCheck, mode, app, exclusions,
                 learned, pendingCapital>>

-----------------------------------------------------------------------------
Boundary(ch) == ExpandMacro(ch) \/ CommitWord(ch)
Backspace == ReopenWord \/ ShrinkWord \/ LoseWord
CorrectionHotkey == CorrectLastWord \/ CorrectNothing \/ PassCorrectionKey

Next ==
  \/ \E key \in Keys : TypeWordKey(key)
  \/ \E ch \in Boundaries \cup ControlKeys \cup Keys : Boundary(ch)
  \/ Backspace
  \/ MoveCaret \/ Shortcut \/ KeyWhileDeaf \/ KeyWithoutACharacter
  \/ ToggleMode \/ ToggleNoApp
  \/ \E a \in Apps : ToggleAppHotkey(a) \/ SetFrontmostApp(a)
  \/ CorrectionHotkey
  \/ Click
  \/ \E style \in Styles : SetStyle(style)
  \/ \E autoFix, strict \in BOOLEAN : SetChecks(autoFix, strict)
  \/ \E on \in BOOLEAN : SetAlwaysMacro(on)

Spec == Init /\ [][Next]_vars

-----------------------------------------------------------------------------
(* The types; the history never outgrows its cap, and the engine's copy of  *)
(* the spell check is what the two settings add up to.                      *)
TypeOK ==
  /\ text \in Texts
  /\ engine \in Engines
  /\ settings \in Settings
  /\ spellCheck = (settings.autoFix /\ settings.strict)
  /\ mode \in {"Vietnamese", "English"}
  /\ app \in Apps \cup {NoApp}
  /\ exclusions \in Lists
  /\ committed \in Seq(Behinds) /\ Len(committed) <= CommittedHistory
  /\ correctable \in Correctables \cup {NoWord}
  /\ prefersRaw \subseteq KeyLogs /\ prefersVietnamese \subseteq KeyLogs
  /\ pendingCapital \in BOOLEAN
  /\ decision \in Decisions

(* The text at positions from+1 .. from+Len(word) is `word`.                *)
ReadsAt(t, from, word) ==
  /\ from + Len(word) <= Len(t)
  /\ \A i \in DOMAIN word : t[from + i] = word[i]

(* The baseline of every edit: what the engine believes it has rendered is  *)
(* what stands just before the caret.  (session.rs, flush: the engine's     *)
(* edits "assume the current word's rendering is still the tail of the      *)
(* document", and the shell must flush whenever that stops being true.)     *)
ComposedWordIsTheTail ==
  /\ Len(engine.rendered) <= Len(text)
  /\ ReadsAt(text, Len(text) - Len(engine.rendered), engine.rendered)

(* The history is an unbroken account of the document behind the caret:     *)
(* entry by entry, its word and one boundary character, up to position n,   *)
(* where the word being composed begins.  `ends[i]` is where the boundary   *)
(* of entry i stands.  (session.rs, Behind and commit: an entry left out,   *)
(* or one too many, re-opens a word that is not at the caret.)              *)
AccountedFor(t, n, stack) ==
  \E ends \in [DOMAIN stack -> 1..n] :
    /\ stack # <<>> => ends[Len(stack)] = n
    /\ \A i \in DOMAIN stack :
         LET start == ends[i] - 1 - Len(stack[i].rendered)
         IN  /\ start >= 0 /\ ReadsAt(t, start, stack[i].rendered)
             /\ t[ends[i]] \in Boundaries \cup Keys
             /\ i > 1 => ends[i - 1] = start

HistoryIsAsRecorded ==
  AccountedFor(text, Len(text) - Len(engine.rendered), committed)

(* Whenever the correction hotkey would act, the word it would delete, as   *)
(* it says it stands on screen, and its boundary are what is before the     *)
(* caret: the edit that reaches furthest back never touches other text.     *)
CorrectionTargetIsAtTheCaret ==
  correctable # NoWord /\ ~IsComposing(engine) =>
    LET word == Append(correctable.onScreen, correctable.boundary)
    IN  /\ Len(word) <= Len(text)
        /\ ReadsAt(text, Len(text) - Len(word), word)

(* The engine and every word behind it are words these settings produce:    *)
(* keys and rendering belong together, verbatim exactly when escaped, so    *)
(* re-deriving from the keys after any later key or Backspace continues the *)
(* word on screen.  (engine.rs, restore: the escape is derived from this.)  *)
Produced(raw, rendered) ==
  rendered = raw \/ rendered = Render(settings.style, raw)

KeysAndRenderingAgree ==
  /\ engine.raw = <<>> => engine = FreshEngine
  /\ engine.rendered = RenderKeys(engine, settings.style, engine.raw)
  /\ \A i \in DOMAIN committed : Produced(committed[i].raw, committed[i].rendered)

(* In Vietnamese mode only the spell check escapes a word: the escape the   *)
(* macro matcher sets in English mode never gets into a Vietnamese word,    *)
(* nor back out of the history.  (engine.rs, backspace_visible_char: "every *)
(* route back to an active session resets the engine on the way".)          *)
EscapesAreTheSpellChecks ==
  mode = "Vietnamese" /\ ~spellCheck =>
    /\ ~engine.escaped
    /\ \A i \in DOMAIN committed :
         committed[i].rendered = Render(settings.style, committed[i].raw)

(* A correction is a decision: typed again, the same word comes out the way *)
(* the correction left it, also after an earlier decision to the contrary   *)
(* and whatever the rules say.                                              *)
CorrectionIsRemembered ==
  [][CorrectLastWord =>
       \A word \in {correctable} :
         WantedReading(word.raw, word.rendered)' = OtherReading(word)]_vars

(* The promise of an input method that cannot see the document, kept: the   *)
(* characters it owns are the composed word and the account behind it, or   *)
(* the word it could correct.                                               *)
Accounted(stack) ==
  SequenceOps!FoldSeq(LAMBDA entry, n : Len(entry.rendered) + 1 + n, 0, stack)

Owned ==
  IF correctable # NoWord /\ ~IsComposing(engine) /\ committed = <<>>
  THEN Len(correctable.onScreen) + 1
  ELSE Len(engine.rendered) + Accounted(committed)

(* The case of a word is the one it was typed in: no key in capitals gives  *)
(* no capital, and nothing but capitals, two at least, gives nothing else,  *)
(* whatever keys were made of the ones typed (engine.rs, expand_quick_telex *)
(* and apply_case; session.rs, maybe_capitalize).                           *)
CaseIsAsTyped ==
  LET letters == {i \in DOMAIN engine.raw : Cased(engine.raw[i])}
      Shows(case(_)) == \E i \in DOMAIN engine.rendered :
                          engine.rendered[i] # case(engine.rendered[i])
  IN  /\ Shows(Lower) => \E i \in letters : engine.raw[i] # Lower(engine.raw[i])
      /\ Cardinality(letters) >= 2 /\ Shows(Upper)
           => \E i \in letters : engine.raw[i] # Upper(engine.raw[i])

(* A capital is pending only at the start of a sentence: in the text the    *)
(* session accounts for, every letter has a sentence end between it and a   *)
(* caret where the next letter would be capitalised.  (session.rs, the      *)
(* field pending_capital.)                                                  *)
CapitalFollowsASentenceEnd ==
  pendingCapital /\ ~IsComposing(engine) /\ committed # <<>> =>
    \A i \in (Len(text) - Owned + 1)..Len(text) :
      text[i] \in Keys => \E j \in i..Len(text) : text[j] \in SentenceEnders

Ownership == INSTANCE TextOwnership WITH owned <- Owned, edit <- decision.edit

OnlyOwnedTextIsEdited == Ownership!Spec
=============================================================================
