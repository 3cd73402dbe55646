------------------------------ MODULE MCService ------------------------------
(* Small instances of SchedulerService and its gateway for TLC. *)
EXTENDS SchedulerGatewayProperties, TLC

CONSTANTS u1, u2, p1, p2, s1, s2

Recurring == [ZeroCron EXCEPT !.type = "TYPE_CRON", !.prompt = p1,
                              !.initial_prompt = p2, !.schedule = s1]
OneShot   == [ZeroCron EXCEPT !.type = "TYPE_AT", !.prompt = p1,
                              !.schedule = s1]

\* Rejected by the validator: a one-shot cron with an initial prompt.
Rejected  == [OneShot EXCEPT !.initial_prompt = p2]

AllCreates       == {Recurring, OneShot, Rejected}
OnlyRecurring    == {Recurring}

Patch(path, value) ==
    [cron |-> [ZeroCron EXCEPT ![path] = value], mask |-> {path}]

\* Updates that leave the schedule alone.
TextUpdates     == {Patch("prompt", p2), Patch("state", "STATE_ARCHIVED")}
\* Updates of what the backing services know, and one that clears it.
TimingUpdates   == {Patch("schedule", s2), Patch("schedule", None),
                    Patch("type", "TYPE_AT")}
NoUpdates       == {}
NoContexts      == {}

Call(method) == [http |-> "POST", json |-> TRUE, id |-> "given", v2 |-> TRUE,
                 method |-> method, params |-> TRUE]

\* A request for every method, and one for every check.
AllRequests ==
    {Call(method) : method \in Methods \cup {"empty", "other"}}
    \cup {[Call("RunCron") EXCEPT !.http = "GET"],
          [Call("RunCron") EXCEPT !.http = "OPTIONS"],
          [Call("RunCron") EXCEPT !.json = FALSE],
          [Call("RunCron") EXCEPT !.id = "empty"],
          [Call("RunCron") EXCEPT !.v2 = FALSE],
          [Call("RunCron") EXCEPT !.params = FALSE]}

Unnamed == {Call("CreateCron"), [Call("CreateCron") EXCEPT !.id = "null"]}
CreateUpdate == {Call("CreateCron"), Call("UpdateCron")}
CreateDelete == {Call("CreateCron"), Call("DeleteCron")}

Symmetry == Permutations(Clients) \cup Permutations(Ids)
=============================================================================
