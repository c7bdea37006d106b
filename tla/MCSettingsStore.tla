---------------------------- MODULE MCSettingsStore ----------------------------
(***************************************************************************)
(* A small settings file: the defaults and one value a user may choose, a  *)
(* text that is not JSON and a file that is not text.                      *)
(***************************************************************************)
EXTENDS SettingsStore

CONSTANT Chosen

TwoVersions == {Default, Chosen}
HalfADocument == {"half a document"}
Utf16 == {"UTF-16"}
=============================================================================
