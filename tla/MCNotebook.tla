------------------------------ MODULE MCNotebook ------------------------------
(* Two owners and two incarnations of the server, one run and its page,    *)
(* and two workers beside the maintenance thread, for model checking.      *)
EXTENDS Notebook

CONSTANTS
    MaxBoot,    \* bound: incarnations of the server
    MaxOwner,   \* bound: owner numbers issued by an incarnation
    MaxRun,     \* bound: runs started in an incarnation
    MaxCommand, \* bound: numbers of commands
    w1, w2, k1, k2

OfOwners == {Request(route, 1, o, 0, 0) : route \in {"attach", "retire"}, o \in 1 .. MaxOwner}

(* The second run is only stepped.                                         *)
Commands == {Request(route, 1, o, command, run) :
                route \in {"step", "resume"}, o \in 1 .. MaxOwner,
                command \in 1 .. MaxCommand, run \in 1 .. MaxRun}
            \ {Request("resume", 1, o, command, run) :
                 o \in 1 .. MaxOwner, command \in 1 .. MaxCommand, run \in 2 .. MaxRun}

Starts == {Request("start", 1, o, command, 0) : o \in 1 .. MaxOwner, command \in 1 .. MaxCommand}

Stops == {Request(route, 1, o, 0, run) :
             route \in {"cancel", "close"}, o \in 1 .. MaxOwner, run \in 1 .. MaxRun}

AskedByAnyone == {Request("reserve", 1, 0, 0, 0)} \cup OfOwners \cup Commands \cup Starts \cup Stops

MCNext == NotebookNext /\ boot' <= MaxBoot /\ issued' <= MaxOwner /\ Len(runs') <= MaxRun

MCSpec == NotebookInit /\ [][MCNext]_notebookVars /\ NotebookFairness
=============================================================================
