------------------------------ MODULE PageFilters ------------------------------
(***************************************************************************)
(* The filters of the components table (components.page.ts) and of the     *)
(* findings (findings.page.ts).  A page keeps what its controls show, and  *)
(* writes it to the address; an effect copies the address back when its    *)
(* parameters have changed.                                                *)
(***************************************************************************)
EXTENDS Address

EVERY_ROLE == "all"

EVERY_SEVERITY == "all"

VARIABLES
  query,
  selectedRole,
  selectedSeverity,
  changed           \* whether the parameters changed since the effects last ran

filterVars == <<query, selectedRole, selectedSeverity, changed>>

Blank == {"", " "}

OrElse(value, default) == IF value = "" THEN default ELSE value

FreshFilters ==
  /\ query' = ""
  /\ selectedRole' = EVERY_ROLE
  /\ selectedSeverity' = EVERY_SEVERITY

(* Inputs that did not change do not wake the effects. *)
NoteChange == changed' = (changed \/ page' # page \/ address'.parameters # address.parameters)

(* The effects that read the address back. *)
AdoptParametersMutant == UNCHANGED <<query, selectedRole, selectedSeverity>>

AdoptParameters ==
  /\ query' = IF page = "components" /\ changed THEN address.parameters.q ELSE query
  /\ selectedRole' =
       IF page = "components" /\ changed THEN OrElse(address.parameters.role, EVERY_ROLE)
       ELSE selectedRole
  /\ selectedSeverity' =
       IF page = "findings" /\ changed THEN OrElse(address.parameters.severity, EVERY_SEVERITY)
       ELSE selectedSeverity

setQuery(value) ==
  /\ query' = value
  /\ WriteParameters([q |-> IF value \in Blank THEN "" ELSE value], TRUE)
  /\ UNCHANGED <<selectedRole, selectedSeverity>>

(* The control that was cleared gives null, here the empty value. *)
setRole(value) ==
  LET next == OrElse(value, EVERY_ROLE) IN
    /\ selectedRole' = next
    /\ WriteParameters([role |-> IF next = EVERY_ROLE THEN "" ELSE next], TRUE)
    /\ UNCHANGED <<query, selectedSeverity>>

clearFilters ==
  /\ query' = ""
  /\ selectedRole' = EVERY_ROLE
  /\ WriteParameters([q |-> "", role |-> ""], TRUE)
  /\ UNCHANGED selectedSeverity

setSeverity(value) ==
  LET next == OrElse(value, EVERY_SEVERITY) IN
    /\ selectedSeverity' = next
    /\ WriteParameters([severity |-> IF next = EVERY_SEVERITY THEN "" ELSE next], TRUE)
    /\ UNCHANGED <<query, selectedRole>>

-----------------------------------------------------------------------------
Trimmed(text) == IF text \in Blank THEN "" ELSE text

(* What the filters of the page select is what the address says. *)
FiltersAreAddressed ==
  /\ page = "components" =>
       /\ Trimmed(query) = Trimmed(address.parameters.q)
       /\ selectedRole = OrElse(address.parameters.role, EVERY_ROLE)
  /\ page = "findings" =>
       selectedSeverity = OrElse(address.parameters.severity, EVERY_SEVERITY)

=============================================================================
