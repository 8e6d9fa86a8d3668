----------------------------- MODULE FileFetch ------------------------------
(***************************************************************************)
(* What materialise (internal/reconcile/transfer.go) promises, whatever    *)
(* the network does: a fetch either puts exactly the wanted content at its *)
(* path, in one step, or leaves the path alone. (That it ends is           *)
(* FetchesEnd of Transfer.)                                                *)
(***************************************************************************)
CONSTANTS Path, Content, Puller, Absent

VARIABLES
    dst,   \* the receiving side's files
    job    \* per puller: nothing yet, or the last fetch and how it stands

vars == <<dst, job>>

Job == [path : Path, want : Content, state : {"busy", "ok", "failed"}]

Init ==
    /\ dst \in [Path -> Content \cup {Absent}]
    /\ job = [s \in Puller |-> Absent]

Busy(s) == job[s] # Absent /\ job[s].state = "busy"

Begin(s) ==
    /\ ~Busy(s)
    /\ \E p \in Path, c \in Content :
          job' = [job EXCEPT ![s] = [path |-> p, want |-> c, state |-> "busy"]]
    /\ UNCHANGED dst

Succeed(s) ==
    /\ Busy(s)
    /\ dst' = [dst EXCEPT ![job[s].path] = job[s].want]
    /\ job' = [job EXCEPT ![s].state = "ok"]

Fail(s) ==
    /\ Busy(s)
    /\ job' = [job EXCEPT ![s].state = "failed"]
    /\ UNCHANGED dst

\* The user of the receiving side writes or removes a file.
UserEdit ==
    /\ \E p \in Path, c \in Content \cup {Absent} : dst' = [dst EXCEPT ![p] = c]
    /\ UNCHANGED job

Next ==
    \/ UserEdit
    \/ \E s \in Puller : Begin(s) \/ Succeed(s) \/ Fail(s)

Spec == Init /\ [][Next]_vars
=============================================================================
