---------------------------- MODULE DepositsInv ----------------------------
(***************************************************************************)
(* The inductive invariant behind the properties of Deposits, in named      *)
(* parts.  TLC checks it, and DepositsProofs proves it.                     *)
(***************************************************************************)
EXTENDS Deposits

\* A quote has an invoice only once its wallet was told it, is a self quote only
\* once paid, and an invoice is paid only by those who were told it.
Known ==
  /\ \A q \in Quotes :
       /\ HasInvoice(q) => q \in told /\ Found(q)
       /\ state[q] = "unpaid" /\ q \in told => HasInvoice(q)
       /\ request[q] = "self" => state[q] \in {"paid", "issued"}
       /\ state[q] = "none" => q \notin told
       /\ checked[q] # "no" => q \in told
  /\ paid \subseteq told

\* A create request is alone in asking about its quote, which has no invoice yet;
\* a check is about an invoice that was told.  What a node said was so.
Asked ==
  \A w \in Wires : pending[w] # NoRequest =>
    LET r == pending[w] IN
    IF r.kind = "create"
    THEN /\ state[r.quote] # "none"
         /\ r.quote \notin told /\ request[r.quote] = "empty"
         /\ r.reply \in {"none", "made", "unclear"} /\ ~r.last
         /\ \A v \in Wires \ {w} : pending[v] # NoRequest => pending[v].quote # r.quote
    ELSE /\ r.quote \in told
         /\ r.reply \in {"none", "paid", "unpaid", "unclear"}
         /\ r.reply = "paid" => r.quote \in paid

\* A quote mints when it is issued, and an issued quote never again.
Counted ==
  \A q \in Quotes :
    /\ state[q] = "issued" => minted[q] = 1
    /\ minted[q] > 0 => state[q] \in {"issued", "dropped"}
    /\ minted[q] <= 1

\* A last check is about a quote that expired, and so, where the invoice did not
\* outlive it, its answer is the last word on whether it was paid.
Due(q)   == state[q] = "unpaid" => expiry[q] <= now
Final(q) == state[q] = "unpaid" /\ until[q] <= expiry[q] => q \notin paid

LastWord ==
  /\ \A w \in Wires : pending[w] # NoRequest /\ pending[w].last =>
       /\ Due(pending[w].quote)
       /\ pending[w].reply = "unpaid" => Final(pending[w].quote)
  /\ \A q \in Quotes : checked[q] = "answered" => Due(q) /\ Final(q)

\* The cleanup is set for at most a day ahead.
Scheduled == now <= due + Late /\ due <= now + Day

\* A cleanup that is on time looks at every unpaid quote in its first day past
\* expiry, and drops those without an invoice.
Looked ==
  Late = 0 => \A q \in Quotes : state[q] = "unpaid" /\ expiry[q] + Day <= due =>
                HasInvoice(q) /\ checked[q] # "no"

(* The quotes, the outstanding requests and the clock agree with what the nodes,
   the wallets and the cleanup did. *)
QInv ==
  /\ TypeOK /\ MintsBacked
  /\ Known /\ Asked /\ Counted /\ LastWord /\ Scheduled /\ Looked

\* A quote that was written off is gone, and what is not adds up to the total.
Written ==
  /\ \A q \in revoked : state[q] = "dropped"
  /\ IsFiniteSet(Live) /\ LedgerExact

(* The inductive invariant: QInv, and the total of what was issued. *)
DInv == QInv /\ Written
=============================================================================
