----------------------------- MODULE WltSession -----------------------------
(***************************************************************************)
(* The payment session as WLT (the wallet and ledger service) records it:  *)
(* the statuses of wlt_payment_sessions.status and what WLT's closure      *)
(* handlers do to a session.  Shared by every module that meets a session. *)
(***************************************************************************)

\* Statuses of a session paid through the payment provider, and of one whose
\* money is collected in cash (payment methods cod and mixed).
OnlineStatus == {"reference_created", "pending_provider",
                 "authorization_pending", "authorized", "capture_pending",
                 "captured", "failed", "expired", "provider_result_unknown"}
CodStatus == {"cod_pending", "cod_finalized"}
SessionStatus == OnlineStatus \cup CodStatus

\* The statuses expireSessionTx accepts; any other is ErrNotExpirable.
Expirable == {"reference_created", "pending_provider", "authorized"}

\* The statuses from which CancelOrderFinanciallyWithContext asks for a refund.
Refundable == {"captured", "cod_finalized"}

\* The statuses wlt_guard_payment_session_terminal_status never lets go.
Terminal == {"captured", "cod_finalized", "failed", "expired"}

ReservationStatus == {"absent", "reserved", "released", "finalized"}

\* expireSessionTx: a guarded transition; elsewhere the handler answers 409.
Expired(status) == IF status \in Expirable THEN "expired" ELSE status

LegalAuthoritativeLate(current, next) ==   \* mutant: a late capture reopens a session
  current = next \/ next = "captured"

\* legalAuthoritativeTransition: may a provider event move current to next?
LegalAuthoritative(current, next) ==
  \/ current = next
  \/ /\ next \in {"authorized", "captured", "failed", "expired"}
     /\ current \in {"reference_created", "pending_provider",
                     "authorization_pending", "provider_result_unknown"}
  \/ next \in {"captured", "failed"} /\ current \in {"authorized", "capture_pending"}
  \/ next = "expired" /\ current = "authorized"

\* How a provider-paid session moves while calls, recoveries, provider events and
\* operators work on it: claimed, given up for unknown, moved by an authority.
ProviderStep(old, new) ==
  \/ old \in {"reference_created", "pending_provider"} /\ new = "authorization_pending"
  \/ old = "authorized" /\ new = "capture_pending"
  \/ old \in {"authorization_pending", "capture_pending"} /\ new = "provider_result_unknown"
  \/ old # new /\ LegalAuthoritative(old, new)
=============================================================================
