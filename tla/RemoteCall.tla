----------------------------- MODULE RemoteCall -----------------------------
(***************************************************************************)
(* What Confd::Service and ResourceManager::Service promise their callers: *)
(* a call asks one thing, the host answers it at most once, and the call   *)
(* returns the status of that answer - or an error, but only if the host   *)
(* never answered.  How requests are tagged, stored, sent and woken is     *)
(* left to ConfdRpc and ResMgrRpc.                                         *)
(***************************************************************************)
CONSTANTS Clients, MsgTypes, Bodies, StatusOf(_, _)

VARIABLES
  busy,     \* the tasks inside a call
  asked,    \* the message type of each task's call
  answer,   \* the host's answer to the call in progress, or "none"
  returned  \* what each task's last call returned

callVars == <<busy, asked, answer, returned>>

CallInit ==
  /\ busy = {}
  /\ asked \in [Clients -> MsgTypes]
  /\ answer = [c \in Clients |-> "none"]
  /\ returned = [c \in Clients |-> "none"]

Ask(c, t) ==
  /\ c \notin busy
  /\ busy' = busy \cup {c}
  /\ asked' = [asked EXCEPT ![c] = t]
  /\ returned' = [returned EXCEPT ![c] = "none"]
  /\ UNCHANGED answer

Answer(c, body) ==
  /\ c \in busy
  /\ answer[c] = "none"
  /\ answer' = [answer EXCEPT ![c] = body]
  /\ UNCHANGED <<busy, asked, returned>>

Return(c) ==
  /\ c \in busy
  /\ answer[c] # "none"
  /\ busy' = busy \ {c}
  /\ returned' = [returned EXCEPT ![c] = StatusOf(asked[c], answer[c])]
  /\ answer' = [answer EXCEPT ![c] = "none"]
  /\ UNCHANGED asked

Fail(c) ==
  /\ c \in busy
  /\ answer[c] = "none"
  /\ busy' = busy \ {c}
  /\ returned' = [returned EXCEPT ![c] = "Error"]
  /\ UNCHANGED <<asked, answer>>

CallNext ==
  \E c \in Clients :
    \/ \E t \in MsgTypes : Ask(c, t)
    \/ \E body \in Bodies : Answer(c, body)
    \/ Return(c)
    \/ Fail(c)

\* That calls do return is a property of the implementations (CallsReturn).
CallSpec == CallInit /\ [][CallNext]_callVars

=============================================================================
