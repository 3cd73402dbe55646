------------------------------- MODULE MCSystem -------------------------------
(* Small instances of the whole system for TLC. *)
EXTENDS SchedulerSystemProperties, TLC

CONSTANTS p1, p2, s1

Recurring == [ZeroCron EXCEPT !.type = "TYPE_CRON", !.prompt = p1,
                              !.initial_prompt = p2, !.schedule = s1]
Unseeded  == [Recurring EXCEPT !.initial_prompt = None]
OneShot   == [ZeroCron EXCEPT !.type = "TYPE_AT", !.prompt = p1,
                              !.schedule = s1]

AllCreates       == {Recurring, Unseeded, OneShot}
OnlyRecurring    == {Recurring}
SomeCreates      == {Unseeded, OneShot}
TwoKinds         == {Recurring, OneShot}
OnlyOneShot      == {OneShot}

Patch(path, value) ==
    [cron |-> [ZeroCron EXCEPT ![path] = value], mask |-> {path}]

NoUpdates    == {}
OwnerUpdate  == {Patch("owner", None)}

\* The contexts the executions of this instance can open.
RunContexts == Attempts \X Messages

Symmetry ==
    Permutations(Clients) \cup Permutations(Attempts) \cup Permutations(Ids)
=============================================================================
