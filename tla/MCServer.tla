------------------------------ MODULE MCServer ------------------------------
(***************************************************************************)
(* Two clients, who watch a job, all jobs or a machine.                    *)
(***************************************************************************)
EXTENDS Server, TLC

CONSTANTS c1, c2, j1, m1

MCKindOf == j1 :> "jobs" @@ m1 :> "machines"
MCJobs == j1 :> "jobs"

Cmd(op, kind, item) == [op |-> op, kind |-> kind, item |-> item]

Use == Cmd("use", "jobs", All)
Bad == Cmd("bad", "jobs", All)
WatchJob == Cmd("watch", "jobs", j1)
WatchJobs == Cmd("watch", "jobs", All)
UnwatchJob == Cmd("unwatch", "jobs", j1)
WatchMachine == Cmd("watch", "machines", m1)

MCSessions == {WatchJob, WatchJobs, UnwatchJob}
MCWatches == {WatchJobs, WatchMachine, Use, Bad}

\* The names of connections mean nothing.
AnyClient == Permutations(Client)
=============================================================================
