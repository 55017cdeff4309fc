--------------------------------- MODULE V86Rpc ---------------------------------
(***************************************************************************)
(* What v86_call promises its caller: a request is served once, with its   *)
(* own registers, and the call returns with the answer.                    *)
(***************************************************************************)
CONSTANTS Requests, Answer(_), NULL

VARIABLES phase, request, result

vars == <<phase, request, result>>

Init == phase = "idle" /\ request = NULL /\ result = NULL

Ask(r) == phase = "idle" /\ phase' = "asked" /\ request' = r /\ result' = NULL

Serve ==
    /\ phase = "asked" /\ phase' = "answered"
    /\ result' = Answer(request) /\ UNCHANGED request

Return ==
    /\ phase = "answered" /\ phase' = "idle"
    /\ request' = NULL /\ result' = NULL

Next == (\E r \in Requests : Ask(r)) \/ Serve \/ Return

Spec == Init /\ [][Next]_vars /\ WF_vars(Serve) /\ WF_vars(Return)
=============================================================================
