------------------------------- MODULE MCStores -------------------------------
(***************************************************************************)
(* The allow-once stores at their limits, with what a behaviour may use.   *)
(***************************************************************************)
EXTENDS MCAllowOnce

VARIABLE budget

\* Commands for the hook and the CLI process, and writes cut short.
Budgets == {[hooks |-> 2, clis |-> 2, crashes |-> 1],
            [hooks |-> 3, clis |-> 1, crashes |-> 1],
            [hooks |-> 4, clis |-> 0, crashes |-> 1],
            [hooks |-> 4, clis |-> 1, crashes |-> 0]}
WithinBudget == hookRuns <= budget.hooks /\ cliRuns <= budget.clis /\ crashes <= budget.crashes
\* Nothing is left to do within it.
AllDone ==
    /\ \A p \in Procs : op[p] = "idle"
    /\ hookRuns = budget.hooks /\ cliRuns = budget.clis /\ clock = MaxTime
    /\ UNCHANGED vars

StoresInit == Init /\ budget \in Budgets
StoresNext == UNCHANGED budget /\ ((Next /\ WithinBudget') \/ AllDone)
StoresSpec == StoresInit /\ [][StoresNext]_<<vars, budget>> /\ HookFairness /\ GrantHolderFairness
================================================================================
