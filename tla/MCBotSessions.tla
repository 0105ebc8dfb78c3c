--------------------------- MODULE MCBotSessions ---------------------------
(* Instances of BotSessions for TLC.                                       *)
EXTENDS BotSessions, TLC

CONSTANTS s1, s2, s3, u1, u2, a, b, t1, t2, r1, r2

OneSession == {s1}
TwoSessions == {s1, s2}
ThreeSessions == {s1, s2, s3}
OneUser == {u1}
TwoUsers == {u1, u2}
SameOwner == [s \in Sessions |-> u1]
EachTheirOwn == [s \in Sessions |-> IF s = s1 THEN u1 ELSE u2]
OneSymbol == {a}
TwoSymbols == {a, b}
TwoTasks == {t1, t2}
OneRequest == {r1}
TwoRequests == {r1, r2}

ValidTokens == {"valid"}
AnyToken == {"valid", "opaque"}

ActivationsOnly == Activations
(* Of the endpoints whose handlers leave a row live only with its task, one*)
(* of each plan that Racing leaves out, and the mutants' two               *)
Paired == {"activate_all", "deactivate", "stop_session", "restart_session",
           "start_all_sessions", "stop_all_sessions", "stop_all_running_bots"}
(* One that starts, one that stops and one that does both                  *)
Racing == {"activate", "stop_session", "admin_restart"}
StopAndResume == {"activate", "admin_stop", "admin_resume"}
StartAndRestart == {"activate", "restart_session"}

TaskSymmetry == Permutations(Tasks)
TaskAndRequestSymmetry == Permutations(Tasks) \cup Permutations(Requests)
=============================================================================
