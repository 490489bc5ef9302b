----------------------------- MODULE MCTaskAgent -----------------------------
(***************************************************************************)
(* An instance of TaskAgent with one action for every way through the      *)
(* policy, the resources and the revisions.                                *)
(***************************************************************************)
EXTENDS TaskAgent

CONSTANTS e1, t1

Act(action, risk, domains, needs) ==
    [capability |-> "files", action |-> action, risk |-> risk, domains |-> domains,
     resource |-> needs]

MCActions ==
    {Act("render", "REVERSIBLE", {"workspace"}, TRUE),
     Act("plan", "READ", {"tasks"}, FALSE),
     Act("read", "READ", {}, FALSE),
     Act("delete", "DESTRUCTIVE", {}, FALSE),
     Act("format", "READ", {}, FALSE)}

MCPolicy ==
    [denied_actions |-> {"format"}, allowed_capabilities |-> {"files"},
     confirm_risks |-> {"MUTATING", "EXTERNAL", "DESTRUCTIVE"},
     allow_risks |-> {"READ", "REVERSIBLE"}]
=============================================================================
