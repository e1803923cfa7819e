--------------------------- MODULE ToolPermissions ---------------------------
(***************************************************************************)
(* The per-tool permission model (security/tool-permissions.ts): which     *)
(* calls have to be shown to a person before they run.                     *)
(*                                                                         *)
(* A tool is described only by its consent level.  Shell text is           *)
(* abstracted to the two answers the code derives from it: whether the    *)
(* allow and deny lists block it, and whether it matches one of the        *)
(* irreversible command patterns.                                          *)
(***************************************************************************)
EXTENDS Integers

ConsentLevels == {"none", "once", "always", "dangerous"}

TrustLevels == 0..3

\* requiresConsent(permission, trustLevel, sessionApprovals).  A tool that the
\* active profile does not list is resolved to level "dangerous" before this
\* point (getUnknownToolPermission), so every tool has a level here.
RequiresConsent(level, trustLevel, sessionApproved) ==
  \/ level = "once" /\ ~sessionApproved /\ trustLevel < 2
  \/ level = "always" /\ trustLevel < 3
  \/ level = "dangerous"

==============================================================================
