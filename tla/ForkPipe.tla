------------------------------ MODULE ForkPipe ------------------------------
(***************************************************************************)
(* 5_processAPI/fork_test.c: a parent forks a child that writes a message  *)
(* into a pipe and a child that reads it, and waits for both.  A step is   *)
(* one system call.  No process closes the ends of the pipe it does not    *)
(* use: whoever is alive keeps both open.                                  *)
(***************************************************************************)
VARIABLES pc,        \* where each process is, see TypeOK
          pipe, got  \* what is in the pipe, and what child2 read

vars == <<pc, pipe, got>>

Processes == {"parent", "child1", "child2"}
Contents == {"nothing", "msg1"}

TypeOK == /\ pc \in [Processes -> {"unborn", "fork1", "fork2", "wait1", "wait2",
                                   "dup2", "io", "failed", "end"}]
          /\ pipe \in Contents /\ got \in Contents

\* pipe may fail.
Init == /\ \E l \in {"fork1", "failed"} :
             pc = [p \in Processes |-> IF p = "parent" THEN l ELSE "unborn"]
        /\ pipe = "nothing" /\ got = "nothing"

\* The parent forks c, or fails to and exits.
Fork(c, at, next) ==
  /\ pc["parent"] = at /\ UNCHANGED <<pipe, got>>
  /\ \/ pc' = [pc EXCEPT !["parent"] = next, ![c] = "dup2"]
     \/ pc' = [pc EXCEPT !["parent"] = "failed"]

Dup2(c) == /\ pc[c] = "dup2" /\ UNCHANGED <<pipe, got>>
           /\ \E l \in {"io", "failed"} : pc' = [pc EXCEPT ![c] = l]

Gone(p) == pc[p] \in {"unborn", "failed", "end"}
Write == /\ pc["child1"] = "io" /\ pc' = [pc EXCEPT !["child1"] = "end"]
         /\ pipe' = "msg1" /\ UNCHANGED got
\* read blocks while the pipe is empty and somebody has its write end open.
Read == /\ pc["child2"] = "io" /\ pc' = [pc EXCEPT !["child2"] = "end"]
        /\ pipe # "nothing" \/ \A p \in Processes : Gone(p)
        /\ got' = pipe /\ pipe' = "nothing"

Wait(c, at, next) == /\ pc["parent"] = at /\ Gone(c)
                     /\ pc' = [pc EXCEPT !["parent"] = next] /\ UNCHANGED <<pipe, got>>

Process(p) == \/ /\ p = "parent"
                 /\ \/ Fork("child1", "fork1", "fork2") \/ Fork("child2", "fork2", "wait1")
                    \/ Wait("child1", "wait1", "wait2") \/ Wait("child2", "wait2", "end")
              \/ p = "child1" /\ (Dup2(p) \/ Write)
              \/ p = "child2" /\ (Dup2(p) \/ Read)
Next == \E p \in Processes : Process(p)
Spec == Init /\ [][Next]_vars
-----------------------------------------------------------------------------
\* "child1 stdout -> child2 stdin": child2 ends with the message, whichever
\* child runs first.
MessageArrives == pc["child2"] = "end" => got = "msg1"

\* The parent's waits have returned, or it could not fork.
Joined == Gone("parent")
=============================================================================
