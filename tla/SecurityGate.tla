---------------------------- MODULE SecurityGate ----------------------------
(***************************************************************************)
(* The policy that decides what becomes of a tool call                     *)
(* (container_manager/security/middleware.py and gate.py), and of a shell  *)
(* command (ipc/handlers_security.py and the classification in the         *)
(* container, agent_runner/security/).  Everything here is a function of   *)
(* the taints a gate has collected and of the trust declared for a         *)
(* service; module IpcRequests holds the gates themselves.                 *)
(***************************************************************************)
EXTENDS Naturals, FiniteSets

Declared == {"no", "yes", "forbidden"}
Trust == [public_source : Declared, secret_data : BOOLEAN,
          public_sink : Declared, dangerous_writes : Declared]
Taint == [corruption : BOOLEAN, secret : BOOLEAN]

Clean == [corruption |-> FALSE, secret |-> FALSE]

\* An undeclared service is everything that calls for caution.
UnknownService ==
  [public_source |-> "yes", secret_data |-> TRUE, public_sink |-> "yes", dangerous_writes |-> "yes"]

TrustOf(services, s) == IF s \in DOMAIN services THEN services[s] ELSE UnknownService

Denied == [allowed |-> FALSE, cop |-> FALSE, human |-> FALSE]

\* What a read leaves behind in the gate, and what it asks for.
ReadAllowed(trust) == trust.public_source # "forbidden"

EvaluateRead(trust, taint) ==
  IF ~ReadAllowed(trust) THEN taint
  ELSE [corruption |-> taint.corruption \/ trust.public_source = "yes",
        secret |-> taint.secret \/ trust.secret_data]

\* A slip checked against PolicySound: one taint is enough to forget the other.
EitherTaint(trust, taint, leaks) ==
  IF trust.public_sink = "forbidden" \/ trust.dangerous_writes = "forbidden" THEN Denied
  ELSE [allowed |-> TRUE, cop |-> taint.corruption,
        human |-> trust.dangerous_writes = "yes" \/ leaks
                  \/ (taint.corruption /\ ~taint.secret /\ trust.public_sink = "yes")]

\* leaks: the scanner found a secret in the payload.
EvaluateWrite(trust, taint, leaks) ==
  IF trust.public_sink = "forbidden" \/ trust.dangerous_writes = "forbidden" THEN Denied
  ELSE [allowed |-> TRUE, cop |-> taint.corruption,
        human |-> \/ trust.dangerous_writes = "yes"
                  \/ taint.corruption /\ taint.secret /\ trust.public_sink = "yes"
                  \/ leaks]

CommandClasses == {"safe", "network", "unknown"}

\* A command of several parts is as risky as its riskiest part.
ClassifyCommand(parts) ==
  IF "network" \in parts THEN "network" ELSE IF parts = {"safe"} THEN "safe" ELSE "unknown"

\* The container asks the host only about what is not safe.
BashEscalates(parts) == ClassifyCommand(parts) # "safe"

\* flagged: the verdict of the inspector, asked only when there is a taint.
EvaluateBashCommand(taint, class, flagged) ==
  LET both == taint.corruption /\ taint.secret
  IN  CASE taint = Clean -> "allow"
        [] taint # Clean /\ class = "network" /\ both -> "needs_human"
        [] taint # Clean /\ ~(class = "network" /\ both) /\ ~flagged -> "allow"
        [] taint # Clean /\ class # "network" /\ both /\ flagged -> "needs_human"
        [] taint # Clean /\ ~both /\ flagged -> "deny"

-----------------------------------------------------------------------------
AtMost(t, u) == (t.corruption => u.corruption) /\ (t.secret => u.secret)

Strictness(d) == IF ~d.allowed THEN 3 ELSE IF d.human THEN 2 ELSE IF d.cop THEN 1 ELSE 0

\* What an agent has read only ever makes its gate stricter: with the taints u
\* no decision is laxer than with fewer, and no order of reads loses a taint.
StricterThanBefore(u) ==
  \A trust \in Trust, t \in Taint : AtMost(t, u) =>
    /\ AtMost(t, EvaluateRead(trust, t)) /\ AtMost(EvaluateRead(trust, t), EvaluateRead(trust, u))
    /\ \A leaks \in BOOLEAN :
         Strictness(EvaluateWrite(trust, t, leaks)) <= Strictness(EvaluateWrite(trust, u, leaks))
    /\ \A c \in {"network", "unknown"}, f \in BOOLEAN :
         EvaluateBashCommand(u, c, f) = "allow" => EvaluateBashCommand(t, c, f) = "allow"

\* With both taints nothing is sent to a public sink, and no network command
\* run, without a human being asked.
TrifectaAsksHuman(u) ==
  u.corruption /\ u.secret =>
    \A trust \in Trust, leaks \in BOOLEAN :
      /\ trust.public_sink # "no" /\ EvaluateWrite(trust, u, leaks).allowed
           => EvaluateWrite(trust, u, leaks).human
      /\ EvaluateBashCommand(u, "network", leaks) = "needs_human"
=============================================================================
