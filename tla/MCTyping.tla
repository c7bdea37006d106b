------------------------------ MODULE MCTyping ------------------------------
(* Small instances of Typing, rendered and judged by the rules of the       *)
(* engine around a small model of the `vi` crate.  The letters are a and e: *)
(* doubled they take a circumflex, a third press takes it back; f is the    *)
(* grave tone, a second f takes it back; in VNI the circumflex is the digit *)
(* 6.  This is the smallest alphabet in which words shrink while keys are   *)
(* added, one Backspace has no key to remove, a word is refused at a key or *)
(* only at its end, and one reading is another word's prefix.  The letter c *)
(* is there for quick Telex in both cases.                                  *)
EXTENDS Typing, TLC

MCParent == [a \in Apps |-> NoApp]
AppSymmetry == Permutations(Apps)    (* with no defaults and no terminals   *)

(* Characters are named by the Telex keys that spell them.                  *)
Circumflexed == [a |-> "aa", af |-> "aaf", e |-> "ee", ef |-> "eef"]
Graved == [a |-> "af", aa |-> "aaf", e |-> "ef", ee |-> "eef"]
FamilyOf == [a |-> "a", aa |-> "a", af |-> "a", aaf |-> "a",
             e |-> "e", ee |-> "e", ef |-> "e", eef |-> "e"]
UpperOf == [a |-> "A", aa |-> "AA", af |-> "AF", aaf |-> "AAF",
            e |-> "E", ee |-> "EE", ef |-> "EF", eef |-> "EEF",
            c |-> "C", h |-> "H", f |-> "F", x |-> "X"]
LowerOf == [A |-> "a", AA |-> "aa", AF |-> "af", AAF |-> "aaf",
            E |-> "e", EE |-> "ee", EF |-> "ef", EEF |-> "eef",
            C |-> "c", H |-> "h", F |-> "f", X |-> "x"]

MCUpper(c) == IF c \in DOMAIN UpperOf THEN UpperOf[c] ELSE c
MCLower(c) == IF c \in DOMAIN LowerOf THEN LowerOf[c] ELSE c
SameCase(c) == c     (* for the runs whose keys have one case               *)

MCChars == DOMAIN UpperOf \cup DOMAIN LowerOf \cup {"6"}
AsciiChars == {"a", "A", "e", "E", "c", "C", "h", "H", "f", "F", "x", "X", "6"}

-----------------------------------------------------------------------------
(* External: `vi` marks a syllable, takes a repeated mark back, and leaves  *)
(* as a letter any key whose mark would not give a syllable.  Of the words  *)
(* over this alphabet only single vowels can be marked.                     *)
Marking(word, mark, key) ==
  LET undone == {c \in DOMAIN mark : mark[c] = word[1]}
  IN  IF word[1] \in DOMAIN mark THEN <<mark[word[1]]>>
      ELSE Append(<<CHOOSE c \in undone : TRUE>>, key)

Press(method, word, key) ==
  LET vowel == Len(word) = 1 /\ word[1] \in DOMAIN FamilyOf
  IN  IF vowel /\ method # "vni" /\ key = "f" THEN Marking(word, Graved, key)
      ELSE IF vowel /\ \/ method = "vni" /\ key = "6"
                       \/ method # "vni" /\ key = FamilyOf[word[1]]
           THEN Marking(word, Circumflexed, key)
      ELSE Append(word, key)

MCView(method, keys) ==
  SequenceOps!FoldLeft(LAMBDA word, key : Press(method, word, key), <<>>, keys)

(* Its syllables are lenient about the rime, but know the letters.          *)
MCSyllable(word) == \A i \in DOMAIN word : MCLower(word[i]) \notin {"f", "6", "x"}

R == INSTANCE Rendering WITH
       Upper <- MCUpper, Lower <- MCLower, Ascii <- AsciiChars,
       View <- MCView, IsValidSyllable <- MCSyllable,
       Untoned <- [af |-> "a", aaf |-> "aa", ef |-> "e", eef |-> "ee"],
       Unmodified <- [aa |-> "a", ee |-> "e"],
       UncheckedTones <- {"af", "aaf", "ef", "eef"},
       (* Those with no other letters than these.                            *)
       Onsets <- << <<"c", "h">>, <<"c">>, <<"h">>, <<"x">> >>,
       Rimes <- {<<"a">>, <<"a", "c">>, <<"a", "c", "h">>, <<"e">>, <<"e", "c">>,
                 <<"aa", "c">>, <<"ee">>, <<"ee", "c">>, <<"ee", "c", "h">>}

(* What CaseIsKept asks of the rules and of `vi`.                           *)
ASSUME CaseFacts == R!CasesArePaired(MCChars) /\ R!ViShowsNoCapitals(MaxKeys, MCChars)

(* As tables, which TLC computes once.                                      *)
Rendered == [s \in Styles |-> [raw \in KeyLogs |-> R!RenderWord(s, raw)]]
Renderings == UNION {{Rendered[s][raw] : raw \in KeyLogs} : s \in Styles}
Impossible == {word \in Renderings : R!CannotBecome(word)}
Misspelled == {word \in Renderings : R!IsInvalid(word)}
TypedWords == [s \in Styles |-> [raw \in KeyLogs |-> R!TypedKeys(s, raw)]]
ExtendingKeys == [s \in Styles |-> {k \in Keys : R!ExtendsAWord(s, k)}]

MCRender(style, raw) == Rendered[style][raw]
MCCannotBecome(word) == word \in Impossible
MCInvalid(word) == word \in Misspelled
MCTyped(style, raw) == TypedWords[style][raw]
MCWordKeys(style) == ExtendingKeys[style]

(* The bracket keys, which none of the runs types (tests/telex_brackets.rs).*)
ASSUME BracketExamples ==
  /\ R!ExpandTelexBrackets(<<"C", "H", "[">>) = <<"C", "H", "O", "W">>
  /\ R!ExpandTelexBrackets(<<"C", "[">>) = <<"C", "o", "w">>
  /\ R!ExpandTelexBrackets(<<"{", "c">>) = <<"O", "W", "c">>

-----------------------------------------------------------------------------
Telex == [method |-> "telex", quickTelex |-> FALSE, telexBrackets |-> FALSE]
Vni == [Telex EXCEPT !.method = "vni"]
QuickTelex == [Telex EXCEPT !.quickTelex = TRUE]
OnlyTelex == {Telex}
TelexAndVni == {Telex, Vni}
OnlyQuickTelex == {QuickTelex}

English == {<<"e", "e">>}
VowelMacro == <<"a", "a">> :> <<"x", "x">>
NoMacros == <<>>
OneMacro == <<"a", "f">> :> <<"x", "x">>    (* shown as one letter or as two  *)
DigitMacro == <<"a", "6">> :> <<"x">>
Doubled == {<<"c", "c">>}
OtherText == {<<"x">>}

Plain == [style |-> Telex, autoFix |-> FALSE, strict |-> FALSE,
          alwaysMacro |-> FALSE, restoreEnglish |-> FALSE, autoCapitalize |-> FALSE]
CheckedAtTheKey == [Plain EXCEPT !.autoFix = TRUE, !.strict = TRUE]
CheckedAtTheEnd == [Plain EXCEPT !.autoFix = TRUE, !.restoreEnglish = TRUE]
WithMacros == [Plain EXCEPT !.alwaysMacro = TRUE]

WordSettings == {CheckedAtTheKey, CheckedAtTheEnd}
WordAndMacroSettings == WordSettings \cup {WithMacros}
PlainSettings == {Plain}
CapitalSettings ==
  {[Plain EXCEPT !.style = QuickTelex, !.restoreEnglish = TRUE, !.autoCapitalize = TRUE]}
MacroSettings == {WithMacros, CheckedAtTheEnd}
=============================================================================
