----------------------------- MODULE CronContract -----------------------------
(***************************************************************************)
(* The life of a cron as a user sees it. It becomes live once, may be      *)
(* archived once, and once gone stays gone. Its prompt is not delivered    *)
(* before its creation is over, but possibly late: an execution under way  *)
(* outlives archiving and deletion. A one-shot cron is archived only after *)
(* its prompt was delivered.                                               *)
(***************************************************************************)
CONSTANT Crons

VARIABLES
    status,      \* "unborn", "live", "archived" or "gone"
    delivered    \* whether the prompt has reached the agent

contractVars == <<status, delivered>>

ContractTypeOK ==
    /\ status \in [Crons -> {"unborn", "live", "archived", "gone"}]
    /\ delivered \in [Crons -> BOOLEAN]

ContractInit ==
    /\ status = [c \in Crons |-> "unborn"]
    /\ delivered = [c \in Crons |-> FALSE]

Move(c, from, to) ==
    /\ status[c] \in from
    /\ status' = [status EXCEPT ![c] = to]
    /\ UNCHANGED delivered

Register(c) == Move(c, {"unborn"}, "live")

Deliver(c) ==
    /\ status[c] # "unborn"
    /\ delivered' = [delivered EXCEPT ![c] = TRUE]
    /\ UNCHANGED status

Archive(c) == delivered[c] /\ Move(c, {"live"}, "archived")

Remove(c) == Move(c, {"live", "archived"}, "gone")

\* CreateCron scheduled the crons of S and failed to store them; a crash of
\* the process does this to every creation in flight at once.
Abandon(S) ==
    /\ \A c \in S : status[c] = "unborn"
    /\ status' = [c \in Crons |-> IF c \in S THEN "gone" ELSE status[c]]
    /\ UNCHANGED delivered

ContractNext ==
    \/ \E c \in Crons :
          Register(c) \/ Deliver(c) \/ Archive(c) \/ Remove(c)
    \/ \E S \in SUBSET Crons : Abandon(S)

ContractSpec == ContractInit /\ [][ContractNext]_contractVars
=============================================================================
