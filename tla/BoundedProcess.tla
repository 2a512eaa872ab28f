--------------------------- MODULE BoundedProcess ---------------------------
(***************************************************************************
 run_bounded(): a child process in a session of its own, its output read until
 all writers have closed the pipe, under a wall-clock limit, after which the
 process group is killed and the pipe is read twice more for two seconds.
 ***************************************************************************)
EXTENDS Naturals

VARIABLES
    waiter,    \* the caller: which communicate() it is in
    child,     \* its process
    helper,    \* a process that the child started and that holds the pipe
    timedOut,
    answer     \* what run_bounded returns or raises

boundedVars == <<waiter, child, helper, timedOut, answer>>

Waits == {"first", "second", "third"}
Ran == {"zero", "nonzero"}

BoundedInit ==
    /\ waiter = "idle" /\ child = "none" /\ helper = "none"
    /\ timedOut = FALSE /\ answer = "none"

Answered(a) == waiter' = "done" /\ answer' = a

\* The arguments and the directory were checked by the caller.
Spawn ==
    /\ waiter = "idle"
    /\ \/ Answered("replay_dependency_missing") /\ UNCHANGED child
       \/ waiter' = "first" /\ child' = "running" /\ UNCHANGED answer
    /\ UNCHANGED <<helper, timedOut>>

\* The child starts a process, in its group or in a session of its own.
Fork == /\ child = "running" /\ helper = "none" /\ waiter = "first"
        /\ helper' \in {"group", "outside"}
        /\ UNCHANGED <<waiter, child, timedOut, answer>>

ChildExits == /\ child \in {"running", "killed"}
              /\ child' = "exited"
              /\ UNCHANGED <<waiter, helper, timedOut, answer>>
HelperExits == /\ helper # "none"
               /\ helper' = "none"
               /\ UNCHANGED <<waiter, child, timedOut, answer>>

\* communicate() returns: all writers have closed the pipe, the child is reaped;
\* codes are the exit codes that it may have.  The output may exceed its limit.
Communicated(codes) ==
    /\ waiter \in Waits /\ child = "exited" /\ helper = "none"
    /\ \E a \in IF timedOut THEN {"resource_limit_exceeded"}
                ELSE codes \cup {"resource_limit_exceeded"} : Answered(a)
    /\ UNCHANGED <<child, helper, timedOut>>

\* _kill_process_group(), which does nothing if the child has exited.
KillGroup ==
    IF child = "running"
      THEN /\ child' = "killed"
           /\ helper' = IF helper = "group" THEN "killed" ELSE helper
      ELSE UNCHANGED <<child, helper>>

Busy == child # "exited" \/ helper # "none"

FirstTimeout ==
    /\ waiter = "first" /\ Busy
    /\ waiter' = "second" /\ timedOut' = TRUE
    /\ KillGroup
    /\ UNCHANGED answer
\* Mutant of SecondTimeout: the read after the kill has no limit.
SecondReadUnlimited ==
    /\ waiter = "second" /\ Busy
    /\ UNCHANGED boundedVars
SecondTimeout ==
    /\ waiter = "second" /\ Busy
    /\ waiter' = "third"
    /\ UNCHANGED <<child, helper, timedOut, answer>>
\* The third TimeoutExpired is not caught.
ThirdTimeout ==
    /\ waiter = "third" /\ Busy
    /\ Answered("exception")
    /\ KillGroup
    /\ UNCHANGED timedOut

Wait(codes) == \/ Spawn \/ Communicated(codes)
               \/ FirstTimeout \/ SecondTimeout \/ ThirdTimeout
Processes == Fork \/ ChildExits \/ HelperExits
BoundedSpec == BoundedInit /\ [][Wait(Ran) \/ Processes]_boundedVars

----------------------------------------------------------------------------
\* After a time-out none of the processes of the group is left, unless killed and
\* about to go.
TimeoutLeavesNothing ==
    waiter = "done" /\ timedOut => child # "running" /\ helper # "group"
=============================================================================
