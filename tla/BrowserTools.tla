---------------------------- MODULE BrowserTools ----------------------------
(***************************************************************************)
(* The service tools of the host that drive a browser (x_integration.py,   *)
(* slack_token_extractor.py, google_setup.py over browser.py), on a host   *)
(* without a screen of its own.  The IPC watcher awaits one tool at a      *)
(* time, so calls do not overlap: what one leaves behind, the next finds.  *)
(*                                                                         *)
(* X keeps an Xvfb on :99 for as long as the host runs.  The setups of     *)
(* Slack and Google start Xvfb, x11vnc and websockify for the call and     *)
(* stop what they started; a setup of X starts x11vnc and websockify.  A   *)
(* person can log in only through x11vnc.                                  *)
(***************************************************************************)
EXTENDS Naturals

CONSTANTS
  BrowserCalls,   \* the tools that are called
  MaxCalls,       \* bound of the model: calls
  MaxBrowserMishaps \* bound of the model: failures, kills, expiries

XWrites == {"x_post", "x_reply", "x_quote"}
XToggles == {"x_like", "x_retweet"}
XActs == XWrites \cup XToggles
Setups == {"setup_x_session", "setup_slack_session", "setup_google"}

ASSUME BrowserAssumption ==
  /\ BrowserCalls \subseteq XActs \cup Setups \cup {"refresh_slack_tokens"}
  /\ {MaxCalls, MaxBrowserMishaps} \subseteq Nat

VARIABLES
  display,  \* os.environ["DISPLAY"] is :99
  xvfb,     \* whose the Xvfb on :99 is
  vnc,      \* whose x11vnc and websockify are
  call,     \* the tool that runs
  logins,   \* services whose browser profile is logged in
  acts,     \* what X shows of the tools' doing
  dotenv,   \* tokens in .env that belong to the Slack login
  google,   \* project, API, credentials and callback port
  browser_past \* bounds

browser_vars == <<display, xvfb, vnc, call, logins, acts, dotenv, google, browser_past>>

Idle == [tool |-> "none", pc |-> "idle", original |-> FALSE]

BrowserTypeOK ==
  /\ display \in BOOLEAN
  /\ xvfb \in {"none", "plugin", "setup", "stray"} /\ vnc \in {"none", "setup", "stray"}
  /\ call.tool \in BrowserCalls \cup {"none"} /\ call.original \in BOOLEAN
  /\ call.pc \in {"idle", "called", "open", "second", "login", "project", "api", "keys", "oauth", "consent"}
  /\ logins \subseteq {"x", "slack", "google"} /\ acts \in [XActs -> Nat]
  /\ dotenv \subseteq {"xoxc", "xoxd"}
  /\ google \in [project: BOOLEAN, api: BOOLEAN, keys: BOOLEAN, tokens: {"none", "valid", "revoked"}, port: BOOLEAN]
  /\ browser_past.calls \in 0..MaxCalls /\ browser_past.mishaps \in 0..MaxBrowserMishaps

BrowserInit ==
  /\ display = FALSE /\ xvfb = "none" /\ vnc = "none" /\ call = Idle
  /\ logins = {} /\ acts = [a \in XActs |-> 0] /\ dotenv = {}
  /\ google = [project |-> FALSE, api |-> FALSE, keys |-> FALSE, tokens |-> "none", port |-> FALSE]
  /\ browser_past = [calls |-> 0, mishaps |-> 0]

HasDisplay == display /\ xvfb # "none"

Service(tool) ==
  IF tool \in XActs \cup {"setup_x_session"} THEN "x" ELSE IF tool = "setup_google" THEN "google" ELSE "slack"

BrowserMishap ==
  browser_past.mishaps < MaxBrowserMishaps /\ browser_past' = [browser_past EXCEPT !.mishaps = @ + 1]

\* A slip checked against BrowserSound: what was started is not stopped.
LeavesRunning == UNCHANGED <<display, xvfb, vnc>>

\* The end of a call, in a finally: stop_procs, and for Slack and Google the old
\* DISPLAY, which is taken away only when the call started something.
CleansUp ==
  /\ xvfb' = (IF xvfb = "setup" THEN "none" ELSE xvfb) /\ vnc' = (IF vnc = "setup" THEN "none" ELSE vnc)
  /\ display' = IF Service(call.tool) = "x" \/ call.original THEN display
                ELSE display /\ "setup" \notin {xvfb, vnc}

Returns == call' = Idle /\ CleansUp

At(step) == call.pc = step
To(step) == call' = [call EXCEPT !.pc = step]

-----------------------------------------------------------------------------
\* A call, and the screen it gets.

Call(tool) ==
  /\ call = Idle /\ browser_past.calls < MaxCalls
  /\ call' = [tool |-> tool, pc |-> "called", original |-> display]
  /\ browser_past' = [browser_past EXCEPT !.calls = @ + 1]
  /\ UNCHANGED <<display, xvfb, vnc, logins, acts, dotenv, google>>

\* _ensure_xvfb: with another's Xvfb on :99 its own exits at once, and the call
\* fails.
EnsureXvfb ==
  IF HasDisplay THEN To("open") /\ UNCHANGED <<display, xvfb>>
  ELSE IF xvfb = "stray" THEN call' = Idle /\ UNCHANGED <<display, xvfb>>
  ELSE To("open") /\ display' = TRUE /\ xvfb' = "plugin"

XActOpens ==
  /\ At("called") /\ call.tool \in XActs /\ EnsureXvfb
  /\ UNCHANGED <<vnc, logins, acts, dotenv, google, browser_past>>

\* The view is started when there was no display before the call.
SetupXOpens ==
  /\ At("called") /\ call.tool = "setup_x_session" /\ EnsureXvfb
  /\ vnc' = IF ~HasDisplay /\ xvfb # "stray" /\ vnc = "none" THEN "setup" ELSE vnc
  /\ UNCHANGED <<logins, acts, dotenv, google, browser_past>>

\* start_virtual_display: an Xvfb that answers on :99 is used, with a new x11vnc
\* and websockify if they are gone.
StartVirtualDisplay ==
  /\ display' = TRUE /\ xvfb' = (IF xvfb = "none" THEN "setup" ELSE xvfb)
  /\ vnc' = IF vnc = "none" THEN "setup" ELSE vnc

\* What Google's setup can do without a browser: the tokens are refreshed and the
\* APIs enabled, or not.
Configured == google.keys /\ google.tokens = "valid"

SetupOpens ==
  /\ At("called") /\ call.tool \in {"setup_slack_session", "setup_google"}
  /\ call.tool = "setup_google" => ~Configured
  /\ To("open")
  /\ IF HasDisplay THEN UNCHANGED <<display, xvfb, vnc>> ELSE StartVirtualDisplay
  /\ UNCHANGED <<logins, acts, dotenv, google, browser_past>>

EnableApiViaRest ==
  /\ At("called") /\ call.tool = "setup_google" /\ Configured
  /\ call' = Idle /\ \E enabled \in {TRUE, google.api} : google' = [google EXCEPT !.api = enabled]
  /\ UNCHANGED <<display, xvfb, vnc, logins, acts, dotenv, browser_past>>

\* A step raises: the browser does not start, a page or an element is not there.
CallFails ==
  /\ call # Idle /\ ~At("consent") /\ BrowserMishap /\ Returns
  /\ UNCHANGED <<logins, acts, dotenv, google>>

-----------------------------------------------------------------------------
\* X.

\* The tools that write do so once per call, if the login holds.
XWrite(tool) ==
  /\ At("open") /\ call.tool = tool /\ Returns
  /\ acts' = IF "x" \in logins THEN [acts EXCEPT ![tool] = @ + 1] ELSE acts
  /\ UNCHANGED <<logins, dotenv, google, browser_past>>

XPost == XWrite("x_post")
XReply == XWrite("x_reply")
XQuote == XWrite("x_quote")

\* A like or a retweet that is there is left as it is.
XToggle(tool) ==
  /\ At("open") /\ call.tool = tool /\ Returns
  /\ acts' = IF "x" \in logins /\ acts[tool] = 0 THEN [acts EXCEPT ![tool] = 1] ELSE acts
  /\ UNCHANGED <<logins, dotenv, google, browser_past>>

XLike == XToggle("x_like")
XRetweet == XToggle("x_retweet")

-----------------------------------------------------------------------------
\* Logins by a person.

\* The first page: logged in, or the form.  Google goes on to its console.
FirstPage ==
  /\ At("open") /\ call.tool \in Setups
  /\ IF Service(call.tool) \notin logins THEN To("login") /\ UNCHANGED <<display, xvfb, vnc>>
     ELSE IF call.tool = "setup_google" THEN To("project") /\ UNCHANGED <<display, xvfb, vnc>>
     ELSE Returns
  /\ UNCHANGED <<logins, acts, dotenv, google, browser_past>>

SetupXSession == call.tool = "setup_x_session" /\ Returns
SetupSlackSession == call.tool = "setup_slack_session" /\ Returns

\* The person sees the page and logs in.
PersonLogsIn ==
  /\ At("login") /\ vnc # "none" /\ logins' = logins \cup {Service(call.tool)}
  /\ \/ SetupXSession \/ SetupSlackSession
     \/ call.tool = "setup_google" /\ To("project") /\ UNCHANGED <<display, xvfb, vnc>>
  /\ UNCHANGED <<acts, dotenv, google, browser_past>>

LoginTimesOut ==
  /\ At("login") /\ Returns
  /\ UNCHANGED <<logins, acts, dotenv, google, browser_past>>

\* refresh_slack_tokens: without a screen; two lines of .env, one after the other.
ExtractTokens ==
  /\ At("called") /\ call.tool = "refresh_slack_tokens"
  /\ IF "slack" \in logins THEN To("second") /\ dotenv' = dotenv \cup {"xoxc"}
     ELSE call' = Idle /\ UNCHANGED dotenv
  /\ UNCHANGED <<display, xvfb, vnc, logins, acts, google, browser_past>>

WritesSecondToken ==
  /\ At("second") /\ call' = Idle /\ dotenv' = dotenv \cup {"xoxd"}
  /\ UNCHANGED <<display, xvfb, vnc, logins, acts, google, browser_past>>

-----------------------------------------------------------------------------
\* Google's console, step by step.

\* _try_step: automated, or by the person within a time; or neither, and the
\* setup goes on.
TryStep(part) == \E done \in {TRUE, google[part]} : google' = [google EXCEPT ![part] = done]

EnsureProject ==
  /\ At("project") /\ To("api") /\ TryStep("project")
  /\ UNCHANGED <<display, xvfb, vnc, logins, acts, dotenv, browser_past>>

EnsureApi ==
  /\ At("api") /\ To("keys")
  /\ IF google.project THEN TryStep("api") ELSE UNCHANGED google
  /\ UNCHANGED <<display, xvfb, vnc, logins, acts, dotenv, browser_past>>

\* The consent screen and the client's keys, unless there are keys.  No project, no
\* download: the setup ends.
EnsureKeys ==
  /\ At("keys")
  /\ IF google.keys THEN To("oauth") /\ UNCHANGED <<display, xvfb, vnc, google>>
     ELSE IF google.project THEN To("oauth") /\ google' = [google EXCEPT !.keys = TRUE] /\ UNCHANGED <<display, xvfb, vnc>>
     ELSE Returns /\ UNCHANGED google
  /\ UNCHANGED <<logins, acts, dotenv, browser_past>>

\* The callback server takes its port, or cannot.
StartCallbackServer ==
  /\ At("oauth")
  /\ IF google.port THEN Returns /\ UNCHANGED google
     ELSE To("consent") /\ google' = [google EXCEPT !.port = TRUE] /\ UNCHANGED <<display, xvfb, vnc>>
  /\ UNCHANGED <<logins, acts, dotenv, browser_past>>

\* The person allows it; the code is exchanged and the tokens are saved.
SaveCredentials ==
  /\ At("consent") /\ vnc # "none" /\ Returns /\ google' = [google EXCEPT !.port = FALSE, !.tokens = "valid"]
  /\ UNCHANGED <<logins, acts, dotenv, browser_past>>

\* Nobody does within five minutes, or the exchange fails.
ConsentTimesOut ==
  /\ At("consent") /\ Returns /\ google' = [google EXCEPT !.port = FALSE]
  /\ UNCHANGED <<logins, acts, dotenv, browser_past>>

\* The consent page does not load: nothing shuts the callback server down.
ConsentPageFails ==
  /\ At("consent") /\ BrowserMishap /\ Returns
  /\ UNCHANGED <<logins, acts, dotenv, google>>

-----------------------------------------------------------------------------
\* The host and the outside.

\* A restart in order: the call is cancelled, Xvfb ends with the host.
HostRestarts ==
  /\ BrowserMishap /\ call' = Idle /\ display' = FALSE /\ google' = [google EXCEPT !.port = FALSE]
  /\ xvfb' = (IF xvfb = "stray" THEN "stray" ELSE "none") /\ vnc' = (IF vnc = "setup" THEN "none" ELSE vnc)
  /\ UNCHANGED <<logins, acts, dotenv>>

\* The host is killed, run from a terminal: its processes stay.  (Under a service
\* manager that ends them too, this is HostRestarts.)
HostKilled ==
  /\ BrowserMishap /\ call' = Idle /\ display' = FALSE /\ google' = [google EXCEPT !.port = FALSE]
  /\ xvfb' = (IF xvfb = "none" THEN "none" ELSE "stray") /\ vnc' = (IF vnc = "none" THEN "none" ELSE "stray")
  /\ UNCHANGED <<logins, acts, dotenv>>

\* A session or the tokens end, a stray x11vnc dies.
Expires ==
  /\ call = Idle /\ BrowserMishap
  /\ \/ \E s \in logins : logins' = logins \ {s} /\ dotenv' = (IF s = "slack" THEN {} ELSE dotenv)
        /\ UNCHANGED <<vnc, google>>
     \/ google.tokens = "valid" /\ google' = [google EXCEPT !.tokens = "revoked"] /\ UNCHANGED <<vnc, logins, dotenv>>
     \/ vnc = "stray" /\ vnc' = "none" /\ UNCHANGED <<logins, dotenv, google>>
  /\ UNCHANGED <<display, xvfb, call, acts>>

-----------------------------------------------------------------------------
Runs ==
  \/ XActOpens \/ SetupXOpens \/ SetupOpens \/ EnableApiViaRest
  \/ XPost \/ XReply \/ XQuote \/ XLike \/ XRetweet
  \/ FirstPage \/ LoginTimesOut \/ ExtractTokens \/ WritesSecondToken
  \/ EnsureProject \/ EnsureApi \/ EnsureKeys \/ StartCallbackServer \/ ConsentTimesOut

BrowserNext ==
  \/ \E tool \in BrowserCalls : Call(tool)
  \/ CallFails \/ PersonLogsIn \/ SaveCredentials \/ ConsentPageFails
  \/ HostRestarts \/ HostKilled \/ Expires \/ Runs

\* Every wait of a tool has a timeout.
BrowserFairness == WF_browser_vars(Runs)

BrowserSpec == BrowserInit /\ [][BrowserNext]_browser_vars /\ BrowserFairness

-----------------------------------------------------------------------------
\* What a setup starts ends with it, an open browser has a screen to show on,
\* however calls, kills and restarts follow each other; a tweet is liked once; and
\* tokens are those of the client whose keys are kept.
BrowserSound ==
  /\ call = Idle => "setup" \notin {xvfb, vnc}
  /\ call.tool # "refresh_slack_tokens" /\ call.pc \notin {"idle", "called"} => HasDisplay
  /\ \A tool \in XToggles : acts[tool] <= 1
  /\ google.tokens # "none" => google.keys

\* Every call ends, and with it the wait of the IPC watcher, which serves no group
\* meanwhile: whether a person comes or not.
CallsEnd == (call # Idle) ~> (call = Idle)
=============================================================================
