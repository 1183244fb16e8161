--------------------------- MODULE MCEventLedger ---------------------------
(***************************************************************************)
(* Small instances of EventLedger for TLC.                                 *)
(***************************************************************************)
EXTENDS EventLedger, TLC

CONSTANTS e1, e2, e3, e4, a1, aSlash, aPercent, aQuery, aControl, usd, eur,
          d1, d2, noRoute, redirect, noUrl

MCEventId   == {e1, e2, e3, e4}
MCAccountId == {a1, aSlash, aPercent, aQuery, aControl}
MCCurrency  == {usd, eur}
MCDetails   == {d1, d2}
MCInfinity  == 9
MCAmount    == 0 .. 4 \cup {MCInfinity}

\* Two decimals are exact floats (0, 2), one rounds to another amount, one
\* underflows and one overflows.
MCFloat == (0 :> 0) @@ (1 :> 0) @@ (2 :> 2) @@ (3 :> 2)
           @@ (4 :> MCInfinity) @@ (MCInfinity :> MCInfinity)

\* `a/b' makes a path no route matches, `a%31' is decoded to another id, the
\* path of `a/transactions/?' is redirected, and a line feed fits no URL.
MCRoute == (a1 :> a1) @@ (aSlash :> noRoute) @@ (aPercent :> a1)
           @@ (aQuery :> redirect) @@ (aControl :> noUrl)

Event(id, a, k, n, c, d) ==
    [eventId |-> id, accountId |-> a, type |-> k, amount |-> n,
     currency |-> c, details |-> d]

\* Exact amounts: a debit of the account, and two versions of a credit, one of
\* which comes in a currency that is incompatible with the debit.
RacePayload ==
    { Event(e1, a1, "CREDIT", 2, usd, d1),
      Event(e1, a1, "CREDIT", 2, eur, d2),
      Event(e2, a1, "DEBIT",  2, usd, d1) }

\* Two versions of one event that are equal once on the wire, an amount that
\* the hop turns invalid or that it cannot carry, and account ids that the URL
\* changes, loses or cannot hold.
EdgePayload ==
    { Event(e1, a1,       "CREDIT", 2, usd, d1),
      Event(e1, a1,       "CREDIT", 3, usd, d1),
      Event(e2, a1,       "CREDIT", 1, usd, d1),
      Event(e3, aSlash,   "CREDIT", 2, usd, d1),
      Event(e3, aControl, "CREDIT", 2, usd, d1),
      Event(e4, aPercent, "CREDIT", 2, usd, d1),
      Event(e4, aQuery,   "CREDIT", 2, usd, d1),
      Event(e4, a1,       "CREDIT", 4, usd, d1) }

\* Two versions of one event equal on the wire, and one the account refuses.
CountedPayload ==
    { Event(e1, a1, "CREDIT", 2, usd, d1),
      Event(e1, a1, "CREDIT", 3, usd, d1),
      Event(e2, a1, "DEBIT",  2, eur, d1) }

OnePayload == { Event(e1, a1, "CREDIT", 2, usd, d1) }

\* Only the account id that the URL carries.
OneAccount == {a1}
OneRoute   == a1 :> a1

Symmetry == Permutations(Submission)
=============================================================================
