---------------------------- MODULE SystemCalls ----------------------------
(***************************************************************************)
(* examples/systemcalls/systemcalls.c: do_system, do_exec and              *)
(* do_exec_redirect.  The parent and the forked child take turns; the      *)
(* child shares nothing with the parent but its exit status.               *)
(*                                                                         *)
(* The calls of one program overlap even when it makes them one after the  *)
(* other: an interrupted waitpid leaves a child behind, which goes on and  *)
(* ends while a later call waits for its own.                              *)
(***************************************************************************)
EXTENDS Naturals

CONSTANT Call   \* calls of one program

VARIABLES
  function,  \* per call: "none", "do_system", "do_exec", "do_exec_redirect"
  parent,    \* per call: "ready", "waiting", "returned"
  child,     \* per call: "none", "forked", "redirected", "command", "zombie", "reaped"
  status,    \* per call: how the child ended
  ran,       \* per call: the command was executed
  stdout,    \* per call: where the child's descriptor 1 goes
  returns,   \* per call: how many processes have returned from the function
  result     \* per call: what the parent's caller was told

vars == <<function, parent, child, status, ran, stdout, returns, result>>

\* Standard output may be closed in the program, as in a daemon.
Init ==
  /\ function = [c \in Call |-> "none"]
  /\ parent = [c \in Call |-> "ready"]
  /\ child = [c \in Call |-> "none"]
  /\ status = [c \in Call |-> "none"]
  /\ ran = [c \in Call |-> FALSE]
  /\ \E fd1 \in {"inherited", "closed"} : stdout = [c \in Call |-> fd1]
  /\ returns = [c \in Call |-> 0]
  /\ result = [c \in Call |-> FALSE]

\* The parent returns.
Return(c, value) ==
  /\ parent' = [parent EXCEPT ![c] = "returned"]
  /\ returns' = [returns EXCEPT ![c] = @ + 1]
  /\ result' = [result EXCEPT ![c] = value]

\* The child ends, by _exit or by the command.
Ends(c, how) ==
  /\ child' = [child EXCEPT ![c] = "zombie"]
  /\ status' = [status EXCEPT ![c] = how]

\* system(cmd): -1, or the wait status of a shell that it has reaped.
do_system(c) ==
  /\ parent[c] = "ready"
  /\ function' = [function EXCEPT ![c] = "do_system"]
  /\ \/ /\ Return(c, FALSE)
        /\ UNCHANGED <<child, status, ran>>
     \/ /\ Return(c, TRUE)
        /\ child' = [child EXCEPT ![c] = "reaped"]
        /\ \E how \in {"exit 0", "exit 1", "signal"} : status' = [status EXCEPT ![c] = how]
        /\ ran' = [ran EXCEPT ![c] = TRUE]
  /\ UNCHANGED stdout

-----------------------------------------------------------------------------
(* do_exec and do_exec_redirect.                                           *)

Fork(c, name) ==
  /\ parent[c] = "ready"
  /\ function' = [function EXCEPT ![c] = name]
  /\ parent' = [parent EXCEPT ![c] = "waiting"]
  /\ child' = [child EXCEPT ![c] = "forked"]
  /\ UNCHANGED <<status, ran, stdout, returns, result>>

ForkFails(c, name) ==
  /\ parent[c] = "ready"
  /\ function' = [function EXCEPT ![c] = name]
  /\ Return(c, FALSE)
  /\ UNCHANGED <<child, status, ran, stdout>>

\* open gives the lowest free descriptor: 1 itself when standard output is
\* closed, and then close(fd) closes it again.
Redirect(c) ==
  /\ child[c] = "forked"
  /\ function[c] = "do_exec_redirect"
  /\ child' = [child EXCEPT ![c] = "redirected"]
  /\ stdout' = [stdout EXCEPT ![c] = IF @ = "closed" THEN "closed" ELSE "outputfile"]
  /\ UNCHANGED <<function, parent, status, ran, returns, result>>

\* A mistake: a failed open is not noticed.
RedirectAnyway(c) ==
  /\ child[c] = "forked"
  /\ function[c] = "do_exec_redirect"
  /\ child' = [child EXCEPT ![c] = "redirected"]
  /\ UNCHANGED <<function, parent, status, ran, stdout, returns, result>>

\* open fails, and dup2(-1, 1) with it.
RedirectFails(c) ==
  /\ child[c] = "forked"
  /\ function[c] = "do_exec_redirect"
  /\ Ends(c, "exit 1")
  /\ UNCHANGED <<function, parent, ran, stdout, returns, result>>

ReadyToExec(c) ==
  child[c] = IF function[c] = "do_exec_redirect" THEN "redirected" ELSE "forked"

Execv(c) ==
  /\ ReadyToExec(c)
  /\ child' = [child EXCEPT ![c] = "command"]
  /\ ran' = [ran EXCEPT ![c] = TRUE]
  /\ UNCHANGED <<function, parent, status, stdout, returns, result>>

\* A mistake: without _exit the child, too, returns to the caller, and runs on
\* in its code.
ExecvFailsReturns(c) ==
  /\ ReadyToExec(c)
  /\ child' = [child EXCEPT ![c] = "caller"]
  /\ returns' = [returns EXCEPT ![c] = @ + 1]
  /\ UNCHANGED <<function, parent, status, ran, stdout, result>>

ExecvFails(c) ==
  /\ ReadyToExec(c)
  /\ Ends(c, "exit 1")
  /\ UNCHANGED <<function, parent, ran, stdout, returns, result>>

CommandEnds(c) ==
  /\ child[c] = "command"
  /\ \E how \in {"exit 0", "exit 1", "signal"} : Ends(c, how)
  /\ UNCHANGED <<function, parent, ran, stdout, returns, result>>

\* A mistake: wait for any child of the program.
WaitAny(c) ==
  /\ parent[c] = "waiting"
  /\ \E d \in Call :
       /\ child[d] = "zombie"
       /\ child' = [child EXCEPT ![d] = "reaped"]
       /\ Return(c, status[d] = "exit 0")
  /\ UNCHANGED <<function, status, ran, stdout>>

\* waitpid for this call's child; WIFEXITED and WEXITSTATUS.
Waitpid(c) ==
  /\ parent[c] = "waiting"
  /\ child[c] = "zombie"
  /\ child' = [child EXCEPT ![c] = "reaped"]
  /\ Return(c, status[c] = "exit 0")
  /\ UNCHANGED <<function, status, ran, stdout>>

\* Interrupted by a signal: the child is left to itself.
WaitpidFails(c) ==
  /\ parent[c] = "waiting"
  /\ Return(c, FALSE)
  /\ UNCHANGED <<function, child, status, ran, stdout>>

-----------------------------------------------------------------------------

ChildStep(c) ==
  Redirect(c) \/ RedirectFails(c) \/ Execv(c) \/ ExecvFails(c) \/ CommandEnds(c)

ParentStep(c) ==
  \/ do_system(c)
  \/ \E name \in {"do_exec", "do_exec_redirect"} : Fork(c, name) \/ ForkFails(c, name)
  \/ Waitpid(c) \/ WaitpidFails(c)

Next == \E c \in Call : ParentStep(c) \/ ChildStep(c)

\* The child is scheduled and its command comes to an end; a parent whose child
\* has ended comes back from waitpid.  No call need be made, and no signal need
\* interrupt a wait: until the child ends the parent blocks.
Fairness == \A c \in Call : WF_vars(Waitpid(c)) /\ WF_vars(ChildStep(c))

Spec == Init /\ [][Next]_vars /\ Fairness

-----------------------------------------------------------------------------
(* Properties.                                                             *)

Execs(c) == function[c] \in {"do_exec", "do_exec_redirect"}

\* do_exec and do_exec_redirect report success only for a command of their own
\* that was executed and exited with zero, with its output in the file if it
\* was redirected and there was a standard output to redirect, whatever the
\* children of other calls do meanwhile.
TrueMeansSuccess ==
  \A c \in Call : Execs(c) /\ result[c] =>
    /\ ran[c] /\ status[c] = "exit 0"
    /\ function[c] = "do_exec_redirect" => stdout[c] \in {"outputfile", "closed"}

\* One process returns from a call: a child whose exec failed never runs on in
\* the caller's code.
ReturnsOnce == \A c \in Call : returns[c] <= 1 /\ (returns[c] = 1 => parent[c] = "returned")

\* A call that has forked returns and its child ends, on every path of the child
\* (a failed open, a failed execv, the command), and the child is reaped; only a
\* call that reports failure may leave a zombie (its wait was interrupted).
CallsReturn ==
  \A c \in Call :
    parent[c] = "waiting" ~>
      /\ parent[c] = "returned"
      /\ child[c] = "reaped" \/ (child[c] = "zombie" /\ ~ result[c])
=============================================================================
