------------------------- MODULE SystemCallsProofs -------------------------
(***************************************************************************)
(* do_exec and do_exec_redirect for any number of calls.                   *)
(*                                                                         *)
(* What a call reports rests on a chain over four steps of two processes:  *)
(* the redirection, the exec, the command's end and the wait.  Inv keeps   *)
(* the links of that chain for every call: a zero status comes only from a *)
(* command, and a command of do_exec_redirect only from a redirected       *)
(* child.                                                                  *)
(***************************************************************************)
EXTENDS SystemCalls, TLAPS

Types ==
  /\ function \in [Call -> {"none", "do_system", "do_exec", "do_exec_redirect"}]
  /\ parent \in [Call -> {"ready", "waiting", "returned"}]
  /\ child \in [Call -> {"none", "forked", "redirected", "command", "zombie", "reaped"}]
  /\ status \in [Call -> {"none", "exit 0", "exit 1", "signal"}]
  /\ ran \in [Call -> BOOLEAN]
  /\ stdout \in [Call -> {"inherited", "closed", "outputfile"}]
  /\ returns \in [Call -> Nat]
  /\ result \in [Call -> BOOLEAN]

\* What the parent has done.
ParentInv(c) ==
  /\ parent[c] = "ready" => child[c] = "none" /\ status[c] = "none" /\ ~ ran[c]
  /\ parent[c] = "waiting" => Execs(c)
  /\ parent[c] # "returned" => returns[c] = 0 /\ ~ result[c]
  /\ parent[c] = "returned" => returns[c] = 1

Redirected(c) == function[c] = "do_exec_redirect" => stdout[c] \in {"outputfile", "closed"}

\* What the child has done.
ChildInv(c) ==
  /\ child[c] = "none" => status[c] = "none" /\ ~ ran[c]
  /\ child[c] \in {"forked", "redirected"} => status[c] = "none" /\ ~ ran[c]
  /\ child[c] = "redirected" => Redirected(c)
  /\ child[c] = "command" => status[c] = "none" /\ ran[c]
  /\ Execs(c) /\ status[c] = "exit 0" => ran[c]
  /\ Execs(c) /\ ran[c] => Redirected(c)
  /\ Execs(c) /\ result[c] => status[c] = "exit 0" /\ child[c] = "reaped"

Inv == Types /\ \A c \in Call : ParentInv(c) /\ ChildInv(c)

-----------------------------------------------------------------------------

\* No call has begun.
LEMMA InvInit == Init => Inv
BY DEF Init, Inv, Types, ParentInv, ChildInv, Redirected, Execs

\* The step of one call, as every other call sees it.
Untouched(d) ==
  /\ function'[d] = function[d] /\ parent'[d] = parent[d] /\ child'[d] = child[d]
  /\ status'[d] = status[d] /\ stdout'[d] = stdout[d] /\ returns'[d] = returns[d]
  /\ ran'[d] <=> ran[d]
  /\ result'[d] <=> result[d]

\* A step of one call leaves the invariant of the others alone.
LEMMA OneCall ==
  ASSUME Inv, Types', NEW c \in Call, ParentInv(c)', ChildInv(c)',
         \A d \in Call \ {c} : Untouched(d)
  PROVE  Inv'
<1>1. ASSUME NEW d \in Call \ {c} PROVE ParentInv(d)' /\ ChildInv(d)'
  <2>1. ParentInv(d) /\ ChildInv(d) /\ Untouched(d)
    BY DEF Inv
  <2> QED BY <2>1 DEF ParentInv, ChildInv, Redirected, Execs, Untouched
<1> QED BY <1>1 DEF Inv

\* The parent's return.
Returned(c, value) ==
  /\ parent' \in [Call -> {"ready", "waiting", "returned"}]
  /\ returns' \in [Call -> Nat]
  /\ result' \in [Call -> BOOLEAN]
  /\ parent'[c] = "returned" /\ returns'[c] = 1 /\ (result'[c] <=> value)
  /\ \A d \in Call \ {c} : /\ parent'[d] = parent[d]
                           /\ returns'[d] = returns[d]
                           /\ result'[d] <=> result[d]

\* A return is the only one of its call.
LEMMA ReturnOfOne ==
  ASSUME Types, NEW c \in Call, ParentInv(c), parent[c] # "returned",
         NEW value \in BOOLEAN, Return(c, value)
  PROVE  Returned(c, value)
<1>1. parent' \in [Call -> {"ready", "waiting", "returned"}] /\ parent'[c] = "returned"
      /\ \A d \in Call \ {c} : parent'[d] = parent[d]
  BY DEF Types, Return
<1>2. returns[c] + 1 = 1
  BY DEF ParentInv
<1>3. returns \in [Call -> Nat] /\ returns' = [returns EXCEPT ![c] = 1]
  BY <1>2, Zenon DEF Types, Return
<1>4. returns' \in [Call -> Nat] /\ returns'[c] = 1
      /\ \A d \in Call \ {c} : returns'[d] = returns[d]
  BY <1>3
<1>5. result \in [Call -> BOOLEAN] /\ result' = [result EXCEPT ![c] = value]
  BY Zenon DEF Types, Return
<1>6. result' \in [Call -> BOOLEAN]
  BY <1>5
<1>7. result'[c] <=> value
  BY <1>5
<1>8. \A d \in Call \ {c} : result'[d] <=> result[d]
  BY <1>5
<1> QED BY <1>1, <1>4, <1>6, <1>7, <1>8 DEF Returned

\* Every system call of every parent and child keeps the invariant.
LEMMA InvNext == Inv /\ [Next]_vars => Inv'
<1> SUFFICES ASSUME Inv, [Next]_vars PROVE Inv'
  OBVIOUS
<1>0. Types /\ \A c \in Call : ParentInv(c) /\ ChildInv(c)
  BY DEF Inv
<1> USE DEF Execs
<1>1. ASSUME NEW c \in Call, do_system(c)
      PROVE  Inv'
  <2>1. PICK value \in BOOLEAN : Returned(c, value)
    <3>1. PICK value \in BOOLEAN : Return(c, value)
      BY <1>1, Zenon DEF do_system
    <3>2. parent[c] # "returned"
      BY <1>1 DEF do_system
    <3> QED BY <1>0, <3>1, <3>2, ReturnOfOne
  <2>2. /\ function' \in [Call -> {"none", "do_system", "do_exec", "do_exec_redirect"}]
        /\ child' \in [Call -> {"none", "forked", "redirected", "command", "zombie", "reaped"}]
        /\ status' \in [Call -> {"none", "exit 0", "exit 1", "signal"}]
        /\ ran' \in [Call -> BOOLEAN]
    <3>1. function' \in [Call -> {"none", "do_system", "do_exec", "do_exec_redirect"}]
      BY <1>0, <1>1 DEF Types, do_system
    <3>2. child' \in [Call -> {"none", "forked", "redirected", "command", "zombie", "reaped"}]
      BY <1>0, <1>1 DEF Types, do_system
    <3>3. status' \in [Call -> {"none", "exit 0", "exit 1", "signal"}]
      BY <1>0, <1>1 DEF Types, do_system
    <3>4. ran' \in [Call -> BOOLEAN]
      BY <1>0, <1>1 DEF Types, do_system
    <3> QED BY <3>1, <3>2, <3>3, <3>4
  <2>3. /\ function'[c] = "do_system"
        /\ child'[c] = "reaped" \/ (child'[c] = "none" /\ status'[c] = "none" /\ ~ ran'[c])
    BY <1>0, <1>1 DEF Types, ParentInv, do_system
  <2>4. Types'
    BY <1>0, <1>1, <2>1, <2>2 DEF Types, Returned, do_system
  <2>5. ASSUME NEW d \in Call \ {c} PROVE Untouched(d)
    <3>1. /\ function'[d] = function[d] /\ child'[d] = child[d] /\ status'[d] = status[d]
          /\ ran'[d] <=> ran[d]
      <4>1. function'[d] = function[d] /\ child'[d] = child[d]
        BY <1>0, <1>1 DEF Types, do_system
      <4>2. status'[d] = status[d]
        BY <1>0, <1>1 DEF Types, do_system
      <4>3. ran'[d] <=> ran[d]
        BY <1>0, <1>1, Zenon DEF Types, do_system
      <4> QED BY <4>1, <4>2, <4>3
    <3>2. /\ parent'[d] = parent[d] /\ returns'[d] = returns[d]
          /\ result'[d] <=> result[d]
      BY <2>1, Zenon DEF Returned
    <3> QED BY <1>1, <3>1, <3>2 DEF Untouched, do_system
  <2>6. ParentInv(c)'
    BY <2>1 DEF ParentInv, Returned
  <2>7. ChildInv(c)'
    BY <2>3 DEF ChildInv, Redirected
  <2> QED BY <2>4, <2>5, <2>6, <2>7, OneCall
<1>2. ASSUME NEW c \in Call, NEW name \in {"do_exec", "do_exec_redirect"}, Fork(c, name)
      PROVE  Inv'
  <2>2. Types'
    BY <1>0, <1>2 DEF Types, Fork
  <2>3. \A d \in Call \ {c} : Untouched(d)
    BY <1>0, <1>2 DEF Types, Untouched, Fork
  <2>4. ParentInv(c)'
    BY <1>0, <1>2 DEF Types, ParentInv, Fork
  <2>5. ChildInv(c)'
    BY <1>0, <1>2 DEF Types, ParentInv, ChildInv, Redirected, Fork
  <2> QED BY <2>2, <2>3, <2>4, <2>5, OneCall
<1>3. ASSUME NEW c \in Call, NEW name \in {"do_exec", "do_exec_redirect"}, ForkFails(c, name)
      PROVE  Inv'
  <2>1. Returned(c, FALSE)
    <3>1. Return(c, FALSE) /\ parent[c] # "returned"
      BY <1>3, Zenon DEF ForkFails
    <3>2. (FALSE) \in BOOLEAN
      OBVIOUS
    <3> QED BY <1>0, <3>1, <3>2, ReturnOfOne
  <2>2. Types'
    BY <1>0, <1>3, <2>1 DEF Types, ForkFails, Returned
  <2>3. ASSUME NEW d \in Call \ {c} PROVE Untouched(d)
    <3>1. /\ parent'[d] = parent[d] /\ returns'[d] = returns[d]
          /\ result'[d] <=> result[d]
      BY <2>1, Zenon DEF Returned
    <3> QED BY <1>0, <1>3, <3>1 DEF Types, Untouched, ForkFails
  <2>4. ParentInv(c)'
    BY <1>0, <1>3, <2>1 DEF Types, ParentInv, ForkFails, Returned
  <2>5. ChildInv(c)'
    BY <1>0, <1>3, <2>1 DEF Types, ParentInv, ChildInv, Redirected, ForkFails, Returned
  <2> QED BY <2>2, <2>3, <2>4, <2>5, OneCall
<1>4. ASSUME NEW c \in Call, Redirect(c)
      PROVE  Inv'
  <2>2. Types'
    BY <1>0, <1>4 DEF Types, Redirect
  <2>3. \A d \in Call \ {c} : Untouched(d)
    BY <1>0, <1>4 DEF Types, Untouched, Redirect
  <2>4. ParentInv(c)'
    BY <1>0, <1>4 DEF Types, ParentInv, Redirect
  <2>5. ChildInv(c)'
    BY <1>0, <1>4 DEF Types, ParentInv, ChildInv, Redirected, Redirect
  <2> QED BY <2>2, <2>3, <2>4, <2>5, OneCall
<1>5. ASSUME NEW c \in Call, RedirectFails(c)
      PROVE  Inv'
  <2>2. Types'
    BY <1>0, <1>5 DEF Types, RedirectFails, Ends
  <2>3. \A d \in Call \ {c} : Untouched(d)
    BY <1>0, <1>5 DEF Types, Untouched, RedirectFails, Ends
  <2>4. ParentInv(c)'
    BY <1>0, <1>5 DEF Types, ParentInv, RedirectFails, Ends
  <2>5. ChildInv(c)'
    BY <1>0, <1>5 DEF Types, ParentInv, ChildInv, Redirected, RedirectFails, Ends
  <2> QED BY <2>2, <2>3, <2>4, <2>5, OneCall
<1>6. ASSUME NEW c \in Call, Execv(c)
      PROVE  Inv'
  <2>2. Types'
    BY <1>0, <1>6 DEF Types, Execv, ReadyToExec
  <2>3. \A d \in Call \ {c} : Untouched(d)
    BY <1>0, <1>6 DEF Types, Untouched, Execv, ReadyToExec
  <2>4. ParentInv(c)'
    BY <1>0, <1>6 DEF Types, ParentInv, Execv, ReadyToExec
  <2>5. ChildInv(c)'
    BY <1>0, <1>6 DEF Types, ParentInv, ChildInv, Redirected, Execv, ReadyToExec
  <2> QED BY <2>2, <2>3, <2>4, <2>5, OneCall
<1>7. ASSUME NEW c \in Call, ExecvFails(c)
      PROVE  Inv'
  <2>2. Types'
    BY <1>0, <1>7 DEF Types, ExecvFails, ReadyToExec, Ends
  <2>3. \A d \in Call \ {c} : Untouched(d)
    BY <1>0, <1>7 DEF Types, Untouched, ExecvFails, ReadyToExec, Ends
  <2>4. ParentInv(c)'
    BY <1>0, <1>7 DEF Types, ParentInv, ExecvFails, ReadyToExec, Ends
  <2>5. ChildInv(c)'
    BY <1>0, <1>7 DEF Types, ParentInv, ChildInv, Redirected, ExecvFails, ReadyToExec, Ends
  <2> QED BY <2>2, <2>3, <2>4, <2>5, OneCall
<1>8. ASSUME NEW c \in Call, CommandEnds(c)
      PROVE  Inv'
  <2>2. Types'
    <3>1. PICK how \in {"exit 0", "exit 1", "signal"} : Ends(c, how)
      BY <1>8 DEF CommandEnds
    <3>2. child' \in [Call -> {"none", "forked", "redirected", "command", "zombie", "reaped"}]
      BY <1>0, <3>1 DEF Types, Ends
    <3>3. status' \in [Call -> {"none", "exit 0", "exit 1", "signal"}]
      BY <1>0, <3>1 DEF Types, Ends
    <3> QED BY <1>0, <1>8, <3>2, <3>3 DEF Types, CommandEnds
  <2>3. \A d \in Call \ {c} : Untouched(d)
    BY <1>0, <1>8 DEF Types, Untouched, CommandEnds, Ends
  <2>4. ParentInv(c)'
    BY <1>0, <1>8 DEF Types, ParentInv, CommandEnds, Ends
  <2>5. ChildInv(c)'
    <3>1. child'[c] = "zombie" /\ child[c] = "command"
      BY <1>0, <1>8 DEF Types, CommandEnds, Ends
    <3>2. function' = function /\ stdout' = stdout /\ ran' = ran /\ result' = result
      BY <1>8 DEF CommandEnds
    <3>3. ChildInv(c) /\ ran[c] /\ ~ (Execs(c) /\ result[c])
      BY <1>0, <3>1 DEF ChildInv
    <3>4. ran'[c] /\ ~ (Execs(c) /\ result[c])'
      BY <3>2, <3>3
    <3>5. Redirected(c)' <=> Redirected(c)
      BY <3>2 DEF Redirected
    <3> QED BY <3>1, <3>2, <3>3, <3>4, <3>5 DEF ChildInv
  <2> QED BY <2>2, <2>3, <2>4, <2>5, OneCall
<1>9. ASSUME NEW c \in Call, Waitpid(c)
      PROVE  Inv'
  <2>1. Returned(c, status[c] = "exit 0")
    <3>1. Return(c, status[c] = "exit 0") /\ parent[c] # "returned"
      BY <1>9, Zenon DEF Waitpid
    <3>2. (status[c] = "exit 0") \in BOOLEAN
      OBVIOUS
    <3> QED BY <1>0, <3>1, <3>2, ReturnOfOne
  <2>2. Types'
    BY <1>0, <1>9, <2>1 DEF Types, Waitpid, Returned
  <2>3. ASSUME NEW d \in Call \ {c} PROVE Untouched(d)
    <3>1. /\ parent'[d] = parent[d] /\ returns'[d] = returns[d]
          /\ result'[d] <=> result[d]
      BY <2>1, Zenon DEF Returned
    <3> QED BY <1>0, <1>9, <3>1 DEF Types, Untouched, Waitpid
  <2>4. ParentInv(c)'
    BY <1>0, <1>9, <2>1 DEF Types, ParentInv, Waitpid, Returned
  <2>5. ChildInv(c)'
    BY <1>0, <1>9, <2>1 DEF Types, ParentInv, ChildInv, Redirected, Waitpid, Returned
  <2> QED BY <2>2, <2>3, <2>4, <2>5, OneCall
<1>10. ASSUME NEW c \in Call, WaitpidFails(c)
      PROVE  Inv'
  <2>1. Returned(c, FALSE)
    <3>1. Return(c, FALSE) /\ parent[c] # "returned"
      BY <1>10, Zenon DEF WaitpidFails
    <3>2. (FALSE) \in BOOLEAN
      OBVIOUS
    <3> QED BY <1>0, <3>1, <3>2, ReturnOfOne
  <2>2. Types'
    BY <1>0, <1>10, <2>1 DEF Types, WaitpidFails, Returned
  <2>3. ASSUME NEW d \in Call \ {c} PROVE Untouched(d)
    <3>1. /\ parent'[d] = parent[d] /\ returns'[d] = returns[d]
          /\ result'[d] <=> result[d]
      BY <2>1, Zenon DEF Returned
    <3> QED BY <1>0, <1>10, <3>1 DEF Types, Untouched, WaitpidFails
  <2>4. ParentInv(c)'
    BY <1>0, <1>10, <2>1 DEF Types, ParentInv, WaitpidFails, Returned
  <2>5. ChildInv(c)'
    BY <1>0, <1>10, <2>1 DEF Types, ParentInv, ChildInv, Redirected, WaitpidFails, Returned
  <2> QED BY <2>2, <2>3, <2>4, <2>5, OneCall
<1>11. CASE UNCHANGED vars
  BY <1>11 DEF vars, Inv, Types, ParentInv, ChildInv, Redirected
<1> QED BY <1>1, <1>2, <1>3, <1>4, <1>5, <1>6, <1>7, <1>8, <1>9, <1>10, <1>11
        DEF Next, ParentStep, ChildStep

\* The invariant holds in every reachable state.
LEMMA Invariance == Spec => []Inv
BY InvInit, InvNext, PTL DEF Spec

\* do_exec and do_exec_redirect (systemcalls.c:85-103, :158-176) return true
\* only for their own command, executed, redirected and exited with zero,
\* whatever children other calls have left behind.
THEOREM SuccessIsReal == Spec => []TrueMeansSuccess
<1>1. Inv => TrueMeansSuccess
  BY DEF Inv, ChildInv, Redirected, TrueMeansSuccess
<1> QED BY <1>1, Invariance, PTL

\* No child ever returns into its caller's code (systemcalls.c:76 and :149).
THEOREM OneReturn == Spec => []ReturnsOnce
<1>1. ASSUME Inv, NEW c \in Call
      PROVE  (returns[c] = 0 \/ returns[c] = 1) /\ (returns[c] = 1 => parent[c] = "returned")
  BY <1>1 DEF Inv, ParentInv
<1>2. ASSUME Inv, NEW c \in Call PROVE returns[c] <= 1
  BY <1>1, <1>2
<1>3. Inv => ReturnsOnce
  BY <1>1, <1>2, Zenon DEF ReturnsOnce
<1> QED BY <1>3, Invariance, PTL
=============================================================================
