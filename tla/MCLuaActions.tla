---------------------------- MODULE MCLuaActions ----------------------------
(***************************************************************************)
(* Instances of LuaActions: the parameters of the actions of the rules.    *)
(***************************************************************************)
EXTENDS LuaActions

Action(module, for, after) ==
  [module |-> module, to |-> 1, from |-> 0, for |-> for, after |-> after,
   in |-> FALSE]
Dim(from, to, for, after) ==
  [module |-> "dim", to |-> to, from |-> from, for |-> for, after |-> after,
   in |-> TRUE]

MCThreads == Workers \cup {Main, Ev}

(* A thread object, a repeated timer, timers that fire once.               *)
MCMixed ==
  {Action("toggle", FALSE, FALSE), Dim(1, 0, TRUE, FALSE),
   Action("switch", TRUE, TRUE)}
=============================================================================
