-------------------------- MODULE MCBrowserSession --------------------------
(* Two tabs of one browser, and two calls at a time of two members.  Tabs,   *)
(* callers and members are interchangeable: none is named by a definition.   *)
EXTENDS BrowserSession, TLC

Symmetry == Permutations(Tabs) \cup Permutations(Callers) \cup Permutations(Members)

=============================================================================
