---------------------------- MODULE TesseraShipsInv ----------------------------
(***************************************************************************)
(* Inductive invariant of TesseraShips, for careful asking ships: the        *)
(* protocol of requests, and where tokens are.                               *)
(***************************************************************************)
EXTENDS TesseraShips

-----------------------------------------------------------------------------
(* Requests. *)

\* what a request of each kind carries
Shapes ==
  \A i \in 1..sent :
    /\ msg[i].kind = "request" => msg[i].toks = {}
    /\ msg[i].kind \in {"present", "verify"} => \E t \in Tokens : msg[i].toks = {t}
    /\ msg[i].kind \notin {"request", "refresh"} => msg[i].blinds = {}
    /\ msg[i].kind = "transfer" <=> msg[i].to # Issuer
    /\ msg[i].kind = "verify" => msg[i].toks \subseteq out
    /\ msg[i].blinds \subseteq asked

\* an answer comes after its request was handled, and instead of a forward
Answers ==
  /\ \A i \in 1..sent : answer[i] # None =>
       /\ stage[i] \in {"handled", "acked"} /\ i \notin forwards
       /\ msg[i].kind # "transfer"
  /\ \A i \in forwards : msg[i].kind = "present" /\ stage[i] \in {"handled", "acked"}

\* something will still come back for a request
Waiting(i) ==
  \/ stage[i] \in {"out", "crashed"}
  \/ msg[i].kind = "transfer" /\ stage[i] = "handled"
  \/ answer[i] # None
  \/ i \in forwards

\* then it waits in pend under its own id
Open ==
  \A i \in 1..sent : Waiting(i) =>
    pend[msg[i].from][msg[i].rid] = i /\ told[i] = "nothing"

\* until its ack is heard, no later request is under its id
Serial ==
  \A i \in 1..sent : stage[i] \notin Heard => pend[msg[i].from][msg[i].rid] \in {NoMsg, i}

Protocol == TypeOK /\ Shapes /\ Answers /\ Open /\ Serial /\ PendOpen /\ GiveSettled

-----------------------------------------------------------------------------
(* Tokens. *)

\* keysets go forward, and what was made is of a keyset there was
Aged ==
  /\ kid <= window
  /\ \A t \in signed : t[1] <= kid
  /\ \A i \in 1..sent : \A t \in msg[i].toks : t[1] <= kid
  /\ \A p \in Places : \A t \in At(p) : t[1] <= kid

\* secrets of tokens were made, and those of a request on its way are of no
\* token yet and in no other request
Secret ==
  /\ \A t \in spent : t[2] \in asked
  /\ \A p \in Places : \A t \in At(p) : t[2] \in asked
  /\ \A i \in 1..sent : stage[i] = "out" =>
       /\ \A t \in spent : t[2] \notin msg[i].blinds
       /\ \A p \in Places : \A t \in At(p) : t[2] \notin msg[i].blinds
  /\ \A i, j \in 1..sent : i # j => msg[i].blinds \cap msg[j].blinds = {}

\* a token that was burned for an agent is burned while it waits
Burned ==
  \A i \in burnt : Token(i)[1] = kid => Token(i) \in spent

\* answers to a ship come with keysets in their order, and none older than a
\* token that the ship has or may get back
Ordered ==
  /\ \A i \in 1..sent : answer[i] # None => answer[i].no <= said /\ answer[i].kid <= kid
  /\ \A i, j \in 1..sent : answer[i] # None /\ answer[j] # None /\ answer[i].no <= answer[j].no =>
       answer[i].kid <= answer[j].kid
  /\ \A i \in 1..sent : answer[i] # None =>
       /\ \A t \in wallet[msg[i].from] : t[1] <= answer[i].kid
       /\ \A j \in 1..sent :
            msg[j].from = msg[i].from /\ msg[j].kind \in {"present", "transfer"} =>
              \A t \in msg[j].toks : t[1] <= answer[i].kid

Whereabouts == OneHolder /\ FreshHeld /\ NothingLost /\ Aged /\ Secret /\ Burned /\ Ordered

ShipsInv == Protocol /\ Whereabouts
=============================================================================
