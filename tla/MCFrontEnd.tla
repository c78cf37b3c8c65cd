----------------------------- MODULE MCFrontEnd -----------------------------
(***************************************************************************)
(* Command lines by what they exercise: the proxy and the region, the      *)
(* overrides, the selection of tasks, scripts, uploads.                    *)
(***************************************************************************)
EXTENDS FrontEnd

MCSuite == {"java", "infra", "browser"}
MCKey == "ValidateLicenseKey"
MCTask == {"HostInfo", MCKey}
MCTasksOf ==
  "java" :> {"JavaVersion", MCKey} @@ "infra" :> {"InfraVersion", MCKey}
  @@ "browser" :> {BrowserTask, "BrowserSource"}

Plain ==
  [proxy |-> None, http_proxy |-> None, https_proxy |-> None, override |-> <<>>, browserURL |-> None, tasks |-> <<>>,
   suites |-> <<>>, args |-> <<>>, at |-> 0, region |-> None, env |-> None, endpoint |-> None,
   mode |-> "diagnose", script |-> FALSE, run |-> FALSE, yes |-> TRUE, upload |-> "no",
   usageOptOut |-> FALSE, skipVersionCheck |-> FALSE, before |-> {}]

Item(t) == [id |-> t, spaced |-> FALSE]
Arg(s) == [suite |-> s, holds |-> {s}]
Other(holds) == [suite |-> None, holds |-> holds]
Set(form) == [form |-> form, value |-> "set"]

Connected ==
  {[Plain EXCEPT !.proxy = p, !.http_proxy = h, !.https_proxy = t, !.region = r, !.env = e,
                 !.endpoint = n, !.upload = "attach"] :
     p \in Proxies, h \in Proxies, t \in {None, "good"}, r \in {None, "jp"}, e \in {None, "eu"},
     n \in {None, "http", "https"}}

Modes ==
  {[Plain EXCEPT !.mode = m, !.skipVersionCheck = s, !.usageOptOut = s, !.suites = u] :
     m \in {"help", "version", "versionQuiet", "listScripts", "diagnose"}, s \in BOOLEAN,
     u \in {<<>>, <<"unknown">>}}

\* A value of -suites with what follows it: a blank in it, another -suites before
\* or behind it, the name of a suite as a part of another argument.
Selections ==
  {[Plain EXCEPT !.tasks = t, !.suites = l.suites, !.args = l.args, !.at = l.at, !.yes = y, !.upload = x] :
     t \in {<<>>, <<Item("HostInfo"), Item("")>>, <<Item(MCKey)>>},
     l \in {[suites |-> <<"java">>, args |-> <<Other({}), Arg("java")>>, at |-> 2],
            [suites |-> <<"java">>, args |-> <<Other({}), Arg("java"), Arg("infra")>>, at |-> 2],
            [suites |-> <<"infra">>, args |-> <<Other({}), Arg("java"), Other({}), Arg("infra")>>, at |-> 4],
            [suites |-> <<"java">>, args |-> <<Other({"java"}), Other({}), Arg("infra")>>, at |-> 1],
            [suites |-> <<"java", "", "infra">>,
             args |-> <<Other({}), Arg("java"), Other({}), Arg("infra"), Other({"infra"})>>, at |-> 4],
            [suites |-> <<"infra", "unknown">>, args |-> <<Other({}), Arg("infra"), Other({})>>, at |-> 3]},
     y \in BOOLEAN, x \in {"attach", "api-key"}}

WithOverrides ==
  {[Plain EXCEPT !.override = o, !.browserURL = b, !.upload = x] :
     o \in {<<>>, <<Set("pair")>>, <<Set("other"), Set("pair")>>}, b \in {None, "plain"},
     x \in {"no", "attach"}}

Scripts ==
  {[Plain EXCEPT !.script = TRUE, !.run = r, !.before = b, !.mode = m,
                 !.suites = u, !.args = [n \in DOMAIN u |-> Arg(u[n])], !.at = Len(u)] :
     r \in BOOLEAN, b \in SUBSET {"out", "file"}, u \in {<<>>, <<"java">>},
     m \in {"diagnose", "help"}}

\* Empty parts, a path before the suites, a task that is no identifier.
Malformed ==
  {[Plain EXCEPT !.override = o] : o \in {<<Set(""), Set("pair")>>, <<Set("other")>>, <<Set("other"), Set("")>>}}
  \cup {[Plain EXCEPT !.suites = <<"", "">>, !.tasks = t, !.script = c, !.run = c] :
          t \in {<<>>, <<Item("")>>}, c \in BOOLEAN}
  \cup {[Plain EXCEPT !.suites = <<"java">>,
                      !.args = <<Other({}), Other({"java"}), Other({}), Arg("java")>>, !.at = 4],
        [Plain EXCEPT !.tasks = <<Item(MCKey), [id |-> "HostInfo", spaced |-> TRUE]>>],
        [Plain EXCEPT !.browserURL = "equals", !.suites = <<"browser">>, !.args = <<Arg("browser")>>, !.at = 1],
        [Plain EXCEPT !.tasks = <<Item("HostInfo")>>, !.upload = "attach"]}

MCInvocation == Connected \cup Modes \cup Selections \cup WithOverrides \cup Scripts \cup Malformed

=============================================================================
