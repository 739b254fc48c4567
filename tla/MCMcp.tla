------------------------------- MODULE MCMcp -------------------------------
EXTENDS McpService
CONSTANTS i1, i2
MCKind(a, r, d, s) ==
  [action |-> a, role |-> r, dry_run |-> d, signature |-> s, hashable |-> TRUE]
(* A command to run and one its role may not run; a dry run of a handler   *)
(* that knows none, and the same for real; a page to open; a note; an      *)
(* action nobody handles; a note nobody signed and one signed wrongly; one *)
(* whose signature and one whose role are of a type nobody expects.        *)
MCKinds == { MCKind("powershell.run", "ops", FALSE, "good"),
             MCKind("powershell.run", "admin", FALSE, "good"),
             MCKind("system.registry", "ops", TRUE, "good"),
             MCKind("system.registry", "ops", FALSE, "good"),
             MCKind("browser.open", "automation", FALSE, "good"),
             MCKind("log", "ops", FALSE, "good"),
             MCKind("nothing", "ops", FALSE, "good"),
             MCKind("log", "ops", FALSE, "none"),
             MCKind("log", "ops", FALSE, "bad"),
             MCKind("log", "ops", FALSE, "odd"),
             [MCKind("log", "ops", FALSE, "good") EXCEPT !.hashable = FALSE] }
MCShell == { MCKind("powershell.run", "ops", FALSE, "good") }
MCHandler(roles, dry, class) == [roles |-> roles, dry |-> dry, class |-> class]
MCHandlers ==
  [a \in {"powershell.run", "system.registry", "browser.open", "log", "nothing"} |->
     CASE a = "powershell.run"  -> MCHandler({"ops", "admin"}, TRUE, "PowerShell")
       [] a = "system.registry" -> MCHandler({"ops"}, FALSE, "Registry")
       [] a = "browser.open"    -> MCHandler({"automation"}, TRUE, "BrowserAutomation")
       [] a = "log"             -> MCHandler({"*"}, TRUE, "Logging")
       [] OTHER                 -> None]
MCPolicy ==
  [r \in {"ops", "automation", "admin"} |->
     CASE r = "ops" -> {"*"} [] r = "automation" -> {"browser.open"} [] OTHER -> {"log"}]
=============================================================================
