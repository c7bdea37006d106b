----------------------------- MODULE MCWinHook -----------------------------
(***************************************************************************)
(* An instance of WinHook: two windows of a browser, a terminal on the     *)
(* exclusion list, an editor and the same editor run elevated, a program   *)
(* that cannot be read, and three stories.                                 *)
(***************************************************************************)
EXTENDS WinHook

CONSTANTS edge, term, editor, game, none, nowhere

Window(id, app, reach) ==
  [id |-> id, app |-> app, layout |-> "us", reach |-> reach, readable |-> app # game]

Edge == Window(1, edge, "ok")
OtherEdge == Window(2, edge, "ok")
Terminal == Window(3, term, "ok")
Editor == Window(4, editor, "ok")
Elevated == Window(5, editor, "blocked")
Game == Window(6, game, "ok")
All == {Edge, OtherEdge, Terminal, Editor, Elevated, Game}

At(w, spots) == [window : {w}, spot : spots]

(* Carets in windows that are alike, excluded, elevated and unreadable; the *)
(* address bar; refusals, with a log that overflows.                        *)
InFront ==
  [about |-> {"carets"},
   carets |-> At(Edge, {"top", "foot"}) \cup At(OtherEdge, {"top"})
              \cup At(Terminal, {"top"}) \cup At(Game, {"top"})]
InTheBar ==
  [about |-> {"focus"}, carets |-> At(Edge, {"top", "bar"}) \cup At(Editor, {"top"})]
InTheLog ==
  [about |-> {"log"}, carets |-> At(Editor, {"top"}) \cup At(Elevated, {"top"})]

AllStories == {InFront, InTheBar, InTheLog}
OneWindow == {[about |-> {"focus"}, carets |-> At(Edge, {"top", "bar"})]}
=============================================================================
