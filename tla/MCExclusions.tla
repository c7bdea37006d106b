---------------------------- MODULE MCExclusions ----------------------------
(* A terminal, an editor that ships excluded, a browser that starts to ship *)
(* excluded in a later release, and a web app installed from that browser.  *)
EXTENDS Exclusions, TLC

CONSTANTS term, code, browser, webapp

MCApps == {term, code, browser, webapp}
MCParent == (webapp :> browser) @@ [a \in MCApps |-> NoApp]
MCReleases == {{code}, {code, browser}}
=============================================================================
