-------------------------------- MODULE Startup --------------------------------
(***************************************************************************)
(* What a tab of the console starts with: the runtime environment (main.ts,*)
(* kernel/runtime-environment.ts) and the stored preferences (kernel/      *)
(* preferences/user-preferences.store.ts), of which the density of the     *)
(* sidebar is the only one (shell.store.ts).                               *)
(***************************************************************************)
CONSTANTS
  Documents   \* outcomes of requesting the runtime environment, see Fetched

VARIABLES
  app,      \* what main.ts bootstrapped
  dense,    \* the preference as it is held in memory
  stored,   \* the preference in localStorage
  unsaved   \* whether the last write to localStorage failed

startupVars == <<app, dense, stored, unsaved>>

(* A document is fetched or inline; a fetch may be refused or answer with  *)
(* an error status, what it answers may not parse.                         *)
Fetched(document) == document.inline \/ (document.answered /\ document.ok /\ document.parses)

(* It must be an object, and apiBaseUrl a string that is not blank. *)
Validated(document) == document.isObject /\ document.apiBaseUrl \notin {"", " "}

loadRuntimeEnvironment(document) == Fetched(document) /\ Validated(document)

StartupInit ==
  /\ app = "starting"
  /\ stored \in {"absent", "unreadable", "dense", "wide"}
  /\ dense = (stored = "dense")
  /\ unsaved = FALSE

Bootstrap(document) ==
  /\ app = "starting"
  /\ app' = IF loadRuntimeEnvironment(document) THEN "console" ELSE "configuration-error"
  /\ UNCHANGED <<dense, stored, unsaved>>

(* The store is created anew and reads what is stored. *)
Restart ==
  /\ app' = "starting"
  /\ dense' = (stored = "dense")
  /\ unsaved' = FALSE
  /\ UNCHANGED stored

(* The preference holds for the session even if it cannot be stored. *)
toggleDensity ==
  /\ dense' = ~dense
  /\ \/ stored' = (IF dense' THEN "dense" ELSE "wide") /\ unsaved' = FALSE
     \/ stored' = stored /\ unsaved' = TRUE
  /\ UNCHANGED app

PreferenceIsKept == unsaved \/ dense = (stored = "dense")

=============================================================================
