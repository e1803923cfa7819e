------------------------------ MODULE MCConsent ------------------------------
(* Small instances of the consent pipeline.                                 *)
EXTENDS Consent, TLC

CONSTANTS c1, c2, s1, s2, shell, unknown, surface

Plain(s, t) == [session |-> s, tool |-> t, irreversible |-> FALSE, blocked |-> FALSE,
                fullAccess |-> FALSE, requiresApproval |-> FALSE, scheduler |-> FALSE]

two_Calls == {c1, c2}
symmetry == Permutations({c1, c2})

\* races: an ordinary command in each of two chats; in the first an irreversible one,
\* a denied one in full-access mode, an irreversible one of a full-access agent that
\* requires approval, a tool outside the profile called by the agent and by the
\* scheduler, and an always-ask tool that one success makes trusted.
races_Levels == (shell :> "once") @@ (unknown :> "dangerous") @@ (surface :> "always")
races_Contexts == {
  Plain(s1, shell),
  Plain(s2, shell),
  [Plain(s1, shell) EXCEPT !.irreversible = TRUE],
  [Plain(s1, shell) EXCEPT !.blocked = TRUE, !.fullAccess = TRUE],
  [Plain(s1, shell) EXCEPT !.irreversible = TRUE, !.fullAccess = TRUE, !.requiresApproval = TRUE],
  Plain(s1, unknown),
  [Plain(s1, unknown) EXCEPT !.scheduler = TRUE],
  Plain(s1, surface) }

\* policy: one chat and one low-risk ask-once tool, and writes that may fail.
trust_Levels == (surface :> "once")
trust_Contexts == {Plain(s1, surface)}
==============================================================================
