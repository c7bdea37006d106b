----------------------------- MODULE MCMacPrefs -----------------------------
(***************************************************************************)
(* An instance of MacPrefs: four shortcuts, of which a and A are one to    *)
(* every comparison and d and D only to the one that folds every letter,   *)
(* and a list of up to two or three macros; one word, one application      *)
(* besides GlowKey, two languages.                                         *)
(***************************************************************************)
EXTENDS MacPrefs

CONSTANTS a, A, d, D, blank, e1, p, r, w1, editor, own

Ascii == a :> a @@ A :> a @@ d :> d @@ D :> D @@ blank :> blank
Lower == a :> a @@ A :> a @@ d :> d @@ D :> d @@ blank :> blank

Row(s) == [shortcut |-> s, expansion |-> e1]
Files == {<<Row(s), Row(t)>> : s \in {a, A, blank}, t \in {A, d, D}}

OneThingAtATime ==
  {{"macros"}, {"words", "auto-fix"}, {"apps"}, {"hotkey"}, {"rest"}}
=============================================================================
