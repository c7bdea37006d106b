----------------------------- MODULE Rendering -----------------------------
(***************************************************************************)
(* How a key log becomes what is shown, and how a shown word is judged     *)
(* (glowkey-engine/src/engine.rs): the work done around the `vi` crate,    *)
(* which composes lower-case keys and knows a lenient syllable.  A word is *)
(* a sequence of characters, of which a Vietnamese one is named by the     *)
(* Telex keys that spell it: "aw" is a with the breve, "dd" the barred d.  *)
(***************************************************************************)
EXTENDS Naturals, FiniteSets, Sequences
Seqs == INSTANCE SequencesExt

CONSTANTS
  Upper(_), Lower(_),   (* the case of a character                           *)
  Ascii,                (* the characters of ASCII                           *)
  View(_, _),           (* external: what `vi` shows under a method          *)
  IsValidSyllable(_),   (* external: what `vi` takes for a syllable          *)
  Untoned,              (* toned lower-case vowels -> the vowel of that tone *)
  Unmodified,           (* modified vowels -> the plain one                  *)
  UncheckedTones,       (* vowels with one of the three tones that a stop    *)
                        (* coda forbids                                      *)
  Onsets,               (* ONSETS, in the order in which they are tried      *)
  Rimes                 (* RIMES                                             *)

Methods == {"telex", "simpleTelex", "vni"}
(* How old and new orthography place a tone is left to View.                *)
RenderStyles == [method : Methods, quickTelex : BOOLEAN, telexBrackets : BOOLEAN]

IsTelexFamily(method) == method # "vni"

IsUpper(c) == Lower(c) # c
IsLetter(c) == Lower(c) # c \/ Upper(c) # c
Uppercase(word) == [i \in DOMAIN word |-> Upper(word[i])]
Lowercase(word) == [i \in DOMAIN word |-> Lower(word[i])]
Capitalised(word) == IF word = <<>> THEN word ELSE [word EXCEPT ![1] = Upper(@)]
IsAscii(word) == \A i \in DOMAIN word : word[i] \in Ascii

-----------------------------------------------------------------------------
(* The keys, before `vi` sees them.                                         *)

QuickDigraphs ==
  [c |-> <<"c", "h">>, g |-> <<"g", "i">>, k |-> <<"k", "h">>, n |-> <<"n", "g">>,
   p |-> <<"p", "h">>, q |-> <<"q", "u">>, t |-> <<"t", "h">>, u |-> <<"u", "w">>]

(* Slip: only the head of the digraph takes the case.                       *)
HeadTakesTheCase(keys, first, second) ==
  IF IsUpper(first) THEN Capitalised(keys) ELSE keys

DigraphTakesTheCase(keys, first, second) ==
  IF ~IsUpper(first) THEN keys
  ELSE IF IsUpper(second) THEN Uppercase(keys) ELSE Capitalised(keys)

(* A doubled consonant at the start of the word stands for its digraph.     *)
ExpandQuickTelex(raw) ==
  IF Len(raw) >= 2 /\ Lower(raw[1]) = Lower(raw[2]) /\ Lower(raw[1]) \in DOMAIN QuickDigraphs
  THEN DigraphTakesTheCase(QuickDigraphs[Lower(raw[1])], raw[1], raw[2])
         \o SubSeq(raw, 3, Len(raw))
  ELSE raw

(* A bracket stands for the keys of a horned vowel, in capitals when it is  *)
(* shifted or when the word around it is all capitals, two at least.        *)
ExpandTelexBrackets(raw) ==
  LET letters == {i \in DOMAIN raw : IsLetter(raw[i])}
      capitals == Cardinality(letters) >= 2 /\ \A i \in letters : IsUpper(raw[i])
      Spelled(key) ==
        CASE key = "{" \/ (key = "[" /\ capitals) -> <<"O", "W">>
          [] key = "}" \/ (key = "]" /\ capitals) -> <<"U", "W">>
          [] key = "[" /\ ~capitals -> <<"o", "w">>
          [] key = "]" /\ ~capitals -> <<"u", "w">>
          [] OTHER -> <<key>>
  IN  Seqs!FlattenSeq([i \in DOMAIN raw |-> Spelled(raw[i])])

ExpandedKeys(style, raw) ==
  LET quick == IF style.quickTelex /\ IsTelexFamily(style.method)
               THEN ExpandQuickTelex(raw) ELSE raw
  IN  IF style.telexBrackets /\ style.method = "telex"
      THEN ExpandTelexBrackets(quick) ELSE quick

-----------------------------------------------------------------------------
(* Rendering.                                                               *)

IsCancelledRepeat(key, method) == IsTelexFamily(method) /\ key \in {"a", "e", "o", "d"}

(* The key at i is the n-th of a run of one letter, or a later one.         *)
RunReaches(keys, i, n) == i >= n /\ \A j \in (i - n + 1)..i : Lower(keys[j]) = Lower(keys[i])

(* From the fourth press of a doubling key on, `vi` is not told.            *)
IsWithheld(method, keys, i) ==
  IsCancelledRepeat(Lower(keys[i]), method) /\ RunReaches(keys, i, 4)

(* The case pattern of the keys that spelled a letter.                      *)
ApplyCase(lower, keys) ==
  IF \A i \in DOMAIN keys : IsUpper(keys[i]) THEN Uppercase(lower)
  ELSE IF IsUpper(keys[1]) THEN Capitalised(lower)
  ELSE lower

Selected(keys, indices) ==
  Seqs!FoldLeftDomain(
    LAMBDA picked, i : IF i \in indices THEN Append(picked, keys[i]) ELSE picked,
    <<>>, keys)

(* A withheld key goes back in behind what was shown when it was typed, and *)
(* shifts the later ones.                                                   *)
PutBack(word, place, key) ==
  IF place < Len(word) THEN Seqs!InsertAt(word, place + 1, key) ELSE Append(word, key)

AllPutBack(word, keys, withheld, place) ==
  Seqs!FoldLeftDomain(
    LAMBDA now, i : IF i \in withheld THEN PutBack(now, place[i], keys[i]) ELSE now,
    word, keys)

(* shown[n] is what `vi` shows after n keys, fed is what it was given.  A   *)
(* key that lengthened it spelled a letter; the others were marks.          *)
Assembled(keys, withheld, fed, shown) ==
  LET out == shown[Len(keys)]
      letters == {i \in DOMAIN keys : i \in withheld \/ Len(shown[i]) > Len(shown[i - 1])}
      place == [i \in DOMAIN keys |-> Len(shown[i]) + Cardinality({j \in withheld : j < i})]
  IN  IF out = fed THEN keys
      ELSE AllPutBack(
             ApplyCase(out, Selected(keys, IF letters = {} THEN DOMAIN keys ELSE letters)),
             keys, withheld, place)

RenderKeys(method, keys, withheld) ==
  LET Fed(n) == Lowercase(Selected(keys, (1..n) \ withheld))
  IN  Assembled(keys, withheld, Fed(Len(keys)),
                [n \in 0..Len(keys) |-> View(method, Fed(n))])

Rendered(method, keys) ==
  RenderKeys(method, keys, {i \in DOMAIN keys : IsWithheld(method, keys, i)})

RenderWord(style, raw) == Rendered(style.method, ExpandedKeys(style, raw))

(* typed_word: the third press of a doubling key took the mark back, and is *)
(* no letter.                                                               *)
TypedKeys(style, raw) ==
  LET Rejection(i) ==
        /\ IsCancelledRepeat(Lower(raw[i]), style.method)
        /\ RunReaches(raw, i, 3) /\ ~RunReaches(raw, i, 4)
  IN  Selected(raw, {i \in DOMAIN raw : ~Rejection(i)})

(* is_syllable_char.                                                        *)
Letters == {c \in Ascii : IsLetter(c)}

ExtendsAWord(style, key) ==
  \/ key \in Letters
  \/ style.method = "vni" /\ key \in {"0", "1", "2", "3", "4", "5", "6", "7", "8", "9"}
  \/ style.telexBrackets /\ style.method = "telex" /\ key \in {"[", "]", "{", "}"}

-----------------------------------------------------------------------------
(* What the case of a word rests on.                                        *)

SmallLetters == {c \in Letters : ~IsUpper(c)}
SmallWords(n) == UNION {[1..m -> SmallLetters] : m \in 0..n}

(* The two cases of a character are each other's, and ASCII has both; so a  *)
(* digraph that small letters stand for is spelled in small letters.        *)
CasesArePaired(chars) ==
  /\ \A c \in chars \cup Ascii :
       /\ c \in {Upper(c), Lower(c)}
       /\ Upper(Upper(c)) = Upper(c) /\ Upper(Lower(c)) = Upper(c)
       /\ Lower(Lower(c)) = Lower(c) /\ Lower(Upper(c)) = Lower(c)
  /\ \A c \in Ascii : {Upper(c), Lower(c)} \subseteq Ascii
  /\ \A k \in DOMAIN QuickDigraphs \cap SmallLetters : QuickDigraphs[k] \in Seq(SmallLetters)

(* `vi` shows no capitals for up to n small letters.                        *)
ViShowsNoCapitals(n, chars) ==
  \A method \in {m \in Methods : IsTelexFamily(m)}, word \in SmallWords(n) :
    View(method, word) \in Seq({c \in chars : ~IsUpper(c)})

-----------------------------------------------------------------------------
(* The spell check.                                                         *)

Lookup(table, c) == IF c \in DOMAIN table THEN table[c] ELSE c
StripToneMarks(word) == [i \in DOMAIN word |-> Lookup(Untoned, Lower(word[i]))]
BaseVowels(word) == [i \in DOMAIN word |-> Lookup(Unmodified, word[i])]
Behind(prefix, word) == SubSeq(word, Len(prefix) + 1, Len(word))

StopCodas == {<<"c", "h">>, <<"c">>, <<"p">>, <<"t">>}

ViolatesStopCodaTone(word) ==
  /\ \E coda \in StopCodas : Seqs!IsSuffix(coda, Lowercase(word))
  /\ \E i \in DOMAIN word : Lower(word[i]) \in UncheckedTones

Nuclei == {"a", "aw", "aa", "e", "ee", "i", "o", "oo", "ow", "u", "uw", "y"}

(* The first onset in the table that can be one here: `gi` and `qu` only    *)
(* before a vowel, and none with nothing behind it.                         *)
SplitRime(syllable) ==
  LET fits ==
        {i \in DOMAIN Onsets :
           LET rest == Behind(Onsets[i], syllable)
           IN  /\ Seqs!IsPrefix(Onsets[i], syllable) /\ rest # <<>>
               /\ Onsets[i] \in {<<"g", "i">>, <<"q", "u">>} => rest[1] \in Nuclei}
  IN  IF fits = {} THEN syllable
      ELSE Behind(Onsets[CHOOSE i \in fits : \A j \in fits : i <= j], syllable)

GlidelessOnsets == {<<"p", "h">>, <<"b">>, <<"m">>, <<"v">>, <<"c">>, <<"k">>}
Glides == {<<"o", "a">>, <<"o", "aw">>, <<"o", "e">>}

ViolatesGlideOnset(word) ==
  \E onset \in GlidelessOnsets, glide \in Glides :
    Seqs!IsPrefix(onset \o glide, StripToneMarks(word))

(* A finished word has its rime in the table; one that is being typed may   *)
(* still grow into an entry, whatever its vowels lack.                      *)
RimeIsPossible(rime, finished) ==
  IF finished THEN rime \in Rimes
  ELSE \E entry \in Rimes : Seqs!IsPrefix(BaseVowels(rime), BaseVowels(entry))

ViolatesRimeInventory(word, finished) ==
  LET rime == SplitRime(StripToneMarks(word))
  IN  rime # <<>> /\ ~RimeIsPossible(rime, finished)

(* What was typed verbatim is left alone, and so is an abbreviation behind  *)
(* a leading barred d.                                                      *)
Judge(word, finished) ==
  /\ ~IsAscii(word)
  /\ ~(Lower(word[1]) = "dd" /\ IsAscii(Tail(word)))
  /\ \/ ~IsValidSyllable(word) \/ ViolatesStopCodaTone(word)
     \/ ViolatesGlideOnset(word) \/ ViolatesRimeInventory(word, finished)

IsInvalid(word) == Judge(word, TRUE)
CannotBecome(word) == Judge(word, FALSE)
=============================================================================
