------------------------------- MODULE JobSlots -------------------------------
(***************************************************************************)
(* What the review queue of src/src/queue.rs promises, without channel,    *)
(* dispatcher, locks or table: a job is stored before it waits, waits      *)
(* before it runs, runs at most once as long as the process lives, and     *)
(* never more than Limit jobs of a repository run at the same time.        *)
(* A stop of the process puts every job back to "stored".                  *)
(***************************************************************************)
EXTENDS Naturals, FiniteSets

CONSTANTS Works, Repos, RepoOf, Limit

VARIABLE phase

Phases == {"new", "stored", "waiting", "running", "done"}

Running(r) == {w \in Works : phase[w] = "running" /\ RepoOf[w] = r}

SlotsInit == phase = [w \in Works |-> "new"]

Store(w) ==
    /\ phase[w] = "new"
    /\ phase' = [phase EXCEPT ![w] = "stored"]

\* A submitted job, or all the jobs a restart finds, enter the queue.
Enter(S) ==
    /\ \A w \in S : phase[w] = "stored"
    /\ phase' = [w \in Works |-> IF w \in S THEN "waiting" ELSE phase[w]]

StartJob(w) ==
    /\ phase[w] = "waiting"
    /\ Cardinality(Running(RepoOf[w])) < Limit
    /\ phase' = [phase EXCEPT ![w] = "running"]

FinishJob(w) ==
    /\ phase[w] = "running"
    /\ phase' = [phase EXCEPT ![w] = "done"]

\* The queue closes with jobs still waiting, but with none running unless
\* nobody waits.
Close ==
    /\ \E w \in Works : phase[w] = "waiting"
    /\ \A w \in Works : phase[w] # "running"
    /\ phase' = [w \in Works |->
                    IF phase[w] = "waiting" THEN "stored" ELSE phase[w]]

Halt == phase' = [w \in Works |-> IF phase[w] = "new" THEN "new" ELSE "stored"]

SlotsNext ==
    \/ \E w \in Works : Store(w) \/ StartJob(w) \/ FinishJob(w)
    \/ \E S \in SUBSET Works : Enter(S)
    \/ Close \/ Halt

SlotsSpec == SlotsInit /\ [][SlotsNext]_phase
===============================================================================
