------------------------- MODULE TesseraIssuerInv -------------------------
(***************************************************************************)
(* The inductive invariant behind the properties of TesseraIssuer, in named *)
(* parts.  TLC checks it, and TesseraIssuerProofs proves it.                *)
(***************************************************************************)
EXTENDS TesseraIssuer

\* Keysets are numbered as they are made, and sign only once they are.
Numbered ==
  /\ exists => kid <= made
  /\ \A t \in signed : t[1] <= made

\* Only tokens of the service's keyset are in spent; a service that issued
\* nothing has no tokens, and one that is gone left none and no forward.
SpentLive ==
  /\ spent \subseteq signed
  /\ exists => \A t \in spent : t[1] = kid
  /\ exists /\ issued = 0 => \A t \in signed : t[1] # kid
  /\ ~exists => spent = {}

\* A token that is closed to all requests from now on.
Dead(t) == ~exists \/ t[1] # kid \/ (closes # None /\ closes <= now)

\* A spent token was burned once; one that was burned and is not in spent is dead.
Claimed ==
  \A t \in Tokens :
    /\ t \in spent => claims[t] = 1
    /\ t \notin spent => claims[t] = 0 \/ (claims[t] = 1 /\ Dead(t))
    /\ claims[t] > 0 => t \in signed

\* A forward is out for a token that was signed; if the token was burned for it,
\* then for no other.
Forwarded ==
  \A f \in Slots : forwards[f] # None =>
    LET fwd == forwards[f] IN
    /\ exists /\ issued > 0
    /\ fwd.burned => claims[fwd.token] = 1
    /\ \A g \in Slots \ {f} : forwards[g] # None =>
         ~(fwd.burned /\ forwards[g].burned /\ fwd.token = forwards[g].token)

\* The tokens of the keyset that can be used, now or if a forward is refused.
Live == {t \in signed :
           /\ t[1] = kid
           /\ \/ t \notin spent
              \/ \E f \in Slots : forwards[f] # None /\ forwards[f] = [token |-> t, burned |-> TRUE]}

\* Until the keyset closes there are at most as many of these as were issued.
Supplied == exists /\ (closes = None \/ closes > now) => Cardinality(Live) <= issued

\* What an identity was issued in this quota period is in its count.
Quotas == exists /\ set.quota # None =>
  \A w \in Who : counted[w] <= UsedNow(w) /\ counted[w] <= set.quota.n

(* The keyset, the spent set, the forwards that are out and the counts agree
   with what was issued, burned and given back. *)
IssuerInv ==
  TypeOK /\ Numbered /\ SpentLive /\ Claimed /\ Forwarded /\ ForwardsCounted
  /\ Supplied /\ Quotas
=============================================================================
