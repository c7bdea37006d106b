----------------------------- MODULE MCWinShell -----------------------------
(***************************************************************************)
(* An instance of WinShell: a terminal and an editor, of which the build   *)
(* ships the terminal as excluded; shortcuts a, A (one to ASCII folding)   *)
(* and b; one word; two languages.                                        *)
(***************************************************************************)
EXTENDS WinShell, TLC

CONSTANTS term, editor, none, a, A, b, e1, w1

Fold == a :> a @@ A :> a @@ b :> b
Alone == [x \in {term, editor} |-> none]
Sorted == <<w1>>

Row(s) == [shortcut |-> s, expansion |-> e1]
Pasted == {<<Row(A), Row(b)>>}

Elevated == [app |-> editor, reach |-> "blocked"]
Fronts == {[app |-> term, reach |-> "ok"], Elevated}

Fresh ==
  [exclusions |-> {}, removed |-> {}, autoFix |-> TRUE, strict |-> FALSE,
   macros |-> <<Row(a), Row(b)>>, words |-> <<>>, language |-> "vi"]

Some == {Fresh}
EachTopic == {{"apps"}, {"words"}, {"macros"}, {"fields"}, {"mode"}}
TheMode == {{"mode", "fields"}}
=============================================================================
