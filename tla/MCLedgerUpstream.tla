-------------------------- MODULE MCLedgerUpstream --------------------------
(* The instances of MCEventLedger for the specification of LedgerUpstream.  *)
EXTENDS LedgerUpstream, MCEventLedger

\* The account takes one of the first two only, whichever comes first; the
\* third overflows and cannot be sent.
InsistentPayload ==
    { Event(e1, a1, "CREDIT", 2, usd, d1),
      Event(e2, a1, "DEBIT",  2, eur, d1),
      Event(e3, a1, "CREDIT", 4, usd, d1) }
=============================================================================
