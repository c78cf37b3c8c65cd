----------------------------- MODULE MCRuntimes -----------------------------
(***************************************************************************)
(* Hosts whose tasks ask for the versions of runtimes.                     *)
(***************************************************************************)
EXTENDS MCFamily, Versions

CONSTANTS Failed, Other

-----------------------------------------------------------------------------
\* Hosts with one agent each: versions of the runtime inside and outside the
\* tables, agents at and around the bounds of their intervals, and commands that
\* fail.

RuntimePlain ==
  [suite |-> "Python", detected |-> FALSE, node |-> Failed, nodeAgent |-> None, python |-> Failed, python3 |-> Failed,
   pip |-> Failed, pip3 |-> Failed, ruby |-> Failed, gems |-> None, envVars |-> FALSE,
   info |-> Failed, dotnet |-> Failed, sdk |-> <<>>]

RuntimeNodeHosts ==
  {[RuntimePlain EXCEPT !.suite = "Node", !.detected = TRUE, !.node = n, !.nodeAgent = a] :
     n \in {Failed, Other, <<10, 1, 1>>, <<16, 0, 2>>, <<20, 1, 0>>, <<21, 0, 0>>, <<26, 1, 0>>, <<1, Bad>>},
     a \in {None, <<4, 6, 0>>, <<7, 9, 1>>, <<8, 0, 0>>, <<11, 0, 0>>, <<12, 0, 0>>,
             <<12, 0, 0, 1>>, <<12, 9, Bad>>}}

RuntimeOld == <<"newrelic", <<3, 4, 0, 95>>>>
RuntimeRecent == <<"newrelic", <<10, 1, 0>>>>
RuntimeMiddle == <<"newrelic", <<7, 2, 0, 166>>>>
RuntimeSuffixed == <<"django-newrelic", <<9, 0>>>>

RuntimePythonHosts ==
  {[RuntimePlain EXCEPT !.suite = "Python", !.detected = TRUE, !.python = p, !.python3 = p3, !.pip = l, !.pip3 = l3] :
     p \in {Failed, Other, <<2, 6, 9>>, <<2, 7>>, <<1, 5, 2>>},
     p3 \in {Failed, <<3, 10, 1>>, <<3, 6, 1>>, <<3, 13, Bad>>, <<3, 14, 0>>},
     l \in {Failed, <<>>, <<RuntimeOld>>, <<<<"flask", <<2, 0>>>>, RuntimeMiddle>>},
     l3 \in {Failed, <<RuntimeRecent>>, <<<<"tornado", <<5, 1>>>>, RuntimeOld>>, <<RuntimeSuffixed>>}}

RuntimeRubyHosts ==
  {[RuntimePlain EXCEPT !.suite = "Ruby", !.detected = TRUE, !.ruby = r, !.gems = g] :
     r \in {Failed, Other, <<1, 9, 3>>, <<2, 4, 0>>, <<3, 4, 1>>, <<0, 9>>, <<9, 2, 1>>},
     g \in {None, <<<<3, 18, 0, 329>>>>, <<<<9, 17, 0>>, <<3, 18, 0, 330>>>>,
             <<<<3, 9, 6, 256>>, <<3, 9, 6, 257>>>>, <<<<9, 16, 9>>>>}}

RuntimeSdks == {[state |-> "missing", names |-> <<>>], [state |-> "unreadable", names |-> <<>>],
         [state |-> "listed", names |-> <<<<6, 0, 100>>, <<Bad>>>>],
         [state |-> "listed", names |-> <<<<1, 1, 0>>>>]}
RuntimeCoreHosts ==
  {[RuntimePlain EXCEPT !.suite = "DotNetCore", !.detected = a, !.envVars = e, !.info = i, !.dotnet = d, !.sdk = s] :
     a \in BOOLEAN, e \in BOOLEAN,
     i \in {Failed, <<>>, <<<<>>>>, <<<<>>, <<8, 0, 1>>, <<8, 0, 1>>>>, <<<<3, 1, 4>>, <<4, 0, 0>>>>},
     d \in {Failed, Other, <<5, 0, 2>>, <<6, 0, 1, Bad>>},
     s \in {<<>>} \cup {<<x, y>> : x, y \in RuntimeSdks}}

RuntimeHost == {RuntimePlain} \cup RuntimeNodeHosts \cup RuntimePythonHosts \cup RuntimeRubyHosts \cup RuntimeCoreHosts

RuntimeTasks == INSTANCE RuntimeVersions WITH
  Host <- RuntimeHost

=============================================================================
