----------------------------- MODULE SlackCards -----------------------------
(***************************************************************************)
(* The messages of the Slack channel that a user can press: an approval    *)
(* (Approve, Deny), a question with its Submit, the Stop button of a       *)
(* running agent (slack/_channel.py).  A press starts a task of the host   *)
(* that takes the decision, and then updates the message to show it.  The  *)
(* message is open to all who can see it until an update has come through. *)
(***************************************************************************)
EXTENDS FiniteSets, Naturals

CONSTANTS
  Cards,       \* subset of {"approval", "question", "stop"}
  MaxCardMishaps   \* bound of the model: calls that fail, deadlines, crashes

ASSUME CardsAssumption == Cards \subseteq {"approval", "question", "stop"} /\ MaxCardMishaps \in Nat

VARIABLES
  undecided,    \* files of pending approvals and questions, runs that can be stopped
  pressed,   \* what was decided by a press, "none" before
  shown,      \* what the message shows; "absent" before it is sent
  tasks,      \* presses whose task has not started
  redraws,    \* presses whose update is on its way
  card_mishaps

card_vars == <<undecided, pressed, shown, tasks, redraws, card_mishaps>>

Presses == [approval |-> {"approve", "deny"}, question |-> {"one", "two"}, stop |-> {"stop"}]

CardsTypeOK ==
  /\ undecided \in [Cards -> BOOLEAN] /\ card_mishaps \in 0..MaxCardMishaps
  /\ \A c \in Cards :
       /\ pressed[c] \in Presses[c] \cup {"none"} /\ shown[c] \in Presses[c] \cup {"absent", "open"}
       /\ tasks[c] \cup redraws[c] \subseteq Presses[c]

CardsInit ==
  /\ undecided \in [Cards -> BOOLEAN] /\ Cardinality({c \in Cards : undecided[c]}) < 2 /\ pressed = [c \in Cards |-> "none"]
  /\ shown = [c \in Cards |-> "absent"] /\ card_mishaps = 0
  /\ tasks = [c \in Cards |-> {}] /\ redraws = [c \in Cards |-> {}]

CardMishap == card_mishaps < MaxCardMishaps /\ card_mishaps' = card_mishaps + 1

\* send_event, post_event, send_ask_user.
Show(c) ==
  /\ shown[c] = "absent" /\ undecided[c] /\ shown' = [shown EXCEPT ![c] = "open"]
  /\ UNCHANGED <<undecided, pressed, tasks, redraws, card_mishaps>>

\* _on_approval_interaction, _on_ask_user_interaction, _on_agent_stop_interaction:
\* the callback makes a task, then chat_update is called.
Press(c) ==
  /\ shown[c] = "open"
  /\ \E p \in Presses[c] \ (tasks[c] \cup redraws[c]) :
       tasks' = [tasks EXCEPT ![c] = @ \cup {p}] /\ redraws' = [redraws EXCEPT ![c] = @ \cup {p}]
  /\ UNCHANGED <<undecided, pressed, shown, card_mishaps>>

\* The task: the file of an approval takes the last decision until the watcher
\* executes it; a question and a run are settled at once.
Decide(c) ==
  /\ \E p \in tasks[c] :
       /\ tasks' = [tasks EXCEPT ![c] = @ \ {p}]
       /\ pressed' = IF undecided[c] THEN [pressed EXCEPT ![c] = p] ELSE pressed
  /\ undecided' = [undecided EXCEPT ![c] = @ /\ c = "approval"]
  /\ UNCHANGED <<shown, redraws, card_mishaps>>

Execute ==
  /\ \E c \in Cards \cap {"approval"} : undecided[c] /\ pressed[c] # "none" /\ undecided' = [undecided EXCEPT ![c] = FALSE]
  /\ UNCHANGED <<pressed, shown, tasks, redraws, card_mishaps>>

\* A slip checked against ShownIsTaken: the message is updated before the task runs.
RedrawsFirst(c) ==
  /\ \E p \in redraws[c] : shown' = [shown EXCEPT ![c] = p] /\ redraws' = [redraws EXCEPT ![c] = @ \ {p}]
  /\ UNCHANGED <<undecided, pressed, tasks, card_mishaps>>

\* The update comes through after the task had its turn, or fails.
Redraw(c) ==
  /\ \E p \in redraws[c] \ tasks[c] :
       /\ redraws' = [redraws EXCEPT ![c] = @ \ {p}]
       /\ \/ shown' = [shown EXCEPT ![c] = p] /\ UNCHANGED card_mishaps
          \/ CardMishap /\ UNCHANGED shown
  /\ UNCHANGED <<undecided, pressed, tasks>>

\* An approval or a question runs out, a run ends.
Lapse(c) ==
  /\ undecided[c] /\ CardMishap /\ undecided' = [undecided EXCEPT ![c] = FALSE]
  /\ UNCHANGED <<pressed, shown, tasks, redraws>>

\* The process dies: its tasks are gone and so is the run that could be stopped.
CardsCrash ==
  /\ CardMishap
  /\ tasks' = [c \in Cards |-> {}] /\ redraws' = [c \in Cards |-> {}]
  /\ undecided' = [c \in Cards |-> undecided[c] /\ c # "stop"]
  /\ UNCHANGED <<pressed, shown>>

CardsNext ==
  \/ \E c \in Cards : Show(c) \/ Press(c) \/ Decide(c) \/ Redraw(c) \/ Lapse(c)
  \/ Execute \/ CardsCrash

CardsSpec == CardsInit /\ [][CardsNext]_card_vars

-----------------------------------------------------------------------------
\* A message that shows a decision has had one, or its time was over: the update
\* that ends the message never hides a press that a crash has undone.
ShownIsTaken == \A c \in Cards : shown[c] \in Presses[c] => pressed[c] # "none" \/ ~undecided[c]
=============================================================================
