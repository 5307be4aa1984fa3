---------------------------- MODULE TesseraShips ----------------------------
(***************************************************************************)
(* Holders of the tokens of one service, and its issuer, over Ames          *)
(* (src/desk-tessera/app/tessera.hoon).  A holder asks for tokens, uses,    *)
(* shows and gives them, and accepts or declines what others gave it; each  *)
(* request waits in pend until its answer, or for a give its ack, comes.    *)
(*                                                                         *)
(* Ames delivers every poke once, in order on one flow.  A request has a    *)
(* flow of its own (its wire is its id), and its ack comes back on it; all  *)
(* answers of the issuer to a ship share the wire /answer, so they come in  *)
(* order.  Between flows nothing is ordered: an answer may come before or   *)
(* after the ack of its own request.                                        *)
(*                                                                         *)
(* The issuer is reduced to what holders can tell: its keyset by window,    *)
(* the spent set, and refusals.  TesseraIssuer models it in full.           *)
(***************************************************************************)
EXTENDS Naturals, FiniteSets

CONSTANTS
  Holders,     \* ships that hold tokens
  Issuer,      \* the ship that issues them
  Secrets,     \* secrets of tokens
  Rids,        \* request ids
  None,        \* a request with no answer
  Careful,     \* an id is used again only after its last request was acked
  BatMaxMint,  \* most tokens in one request, and in one offer
  MaxOffers,   \* most offers a ship keeps
  MaxWindow,   \* bound: windows of the service that begin
  MaxMsgs      \* bound: requests sent in a behaviour

ASSUME ShipsAssumption ==
  /\ Issuer \notin Holders
  /\ IsFiniteSet(Secrets) /\ IsFiniteSet(Holders)
  /\ Careful \in BOOLEAN
  /\ BatMaxMint \in Nat \ {0} /\ MaxOffers \in Nat
  /\ MaxWindow \in Nat /\ MaxMsgs \in Nat

Windows == 0..MaxWindow
Tokens  == Windows \X Secrets   \* a token: the window of its keyset, and its secret
Msgs    == 1..MaxMsgs           \* requests, in the order they were sent
NoMsg   == 0

Kinds   == {"request", "present", "refresh", "verify", "transfer"}
Stages  == {"out", "handled", "crashed", "acked", "nacked"}
Heard   == {"acked", "nacked"}
Results == {"issued", "fresh", "replay", "refused", "bad"}

VARIABLES
  wallet,    \* wallet: per ship, the tokens it holds
  offers,    \* offers: per ship and giver, the tokens that wait for its owner
  pend,      \* pend: per ship and id, the request that waits
  msg,       \* the requests sent: what they ask
  stage,     \* and what became of them: on the way, handled and its ack on the
             \* way, or the ack handled
  answer,    \* the issuer's answers that are on the way
  sent,      \* requests sent so far
  said,      \* answers given so far, which orders them
  window,    \* the service's window now, from the clock
  kid,       \* its keyset, by the window it was made in
  active,    \* the service is on
  spent,     \* spent
  forwards,  \* presents that wait for the agent they are forwarded to
  burnt,     \* those whose token was burned for it (the wire's flag)
  out,       \* tokens taken out of wallets, to show someone
  signed,    \* history: tokens that were signed
  asked,     \* history: secrets that were made
  told,      \* history: what the asker of a request was told
  letgo      \* history: tokens that were declined, used without a burn, or lost
             \* with a refused accept or an answer that a ship crashed on

holder == <<wallet, offers, pend, out>>
net    == <<msg, stage, sent>>
issuer == <<window, kid, active, spent, forwards, burnt, signed>>
vars   == <<holder, net, answer, said, issuer, asked, told, letgo>>

-----------------------------------------------------------------------------
Msg == [from : Holders, to : Holders \cup {Issuer}, rid : Rids, kind : Kinds,
        toks : SUBSET Tokens, blinds : SUBSET Secrets, forward : BOOLEAN, burn : BOOLEAN]
Answer == [result : Results, kid : Windows, no : Nat \ {0}]

ASSUME NoAnswer == None \notin Answer

TypeOK ==
  /\ wallet \in [Holders -> SUBSET Tokens]
  /\ offers \in [Holders -> [Holders -> SUBSET Tokens]]
  /\ pend \in [Holders -> [Rids -> 0..sent]]
  /\ sent \in 0..MaxMsgs
  /\ msg \in [1..sent -> Msg]
  /\ stage \in [1..sent -> Stages]
  /\ answer \in [1..sent -> Answer \cup {None}]
  /\ said \in Nat
  /\ window \in Windows /\ kid \in Windows /\ active \in BOOLEAN
  /\ spent \subseteq Tokens /\ signed \subseteq Tokens
  /\ forwards \subseteq 1..sent /\ burnt \subseteq forwards
  /\ out \subseteq Tokens
  /\ asked \subseteq Secrets
  /\ told \in [1..sent -> {"nothing", "done", "valid", "refused", "nacked", "crash"}]
  /\ letgo \subseteq Tokens

Init ==
  /\ wallet = [h \in Holders |-> {}]
  /\ offers = [h \in Holders |-> [f \in Holders |-> {}]]
  /\ pend = [h \in Holders |-> [r \in Rids |-> NoMsg]]
  /\ sent = 0 /\ said = 0
  /\ msg = << >> /\ stage = << >> /\ answer = << >> /\ told = << >>
  /\ window = 0 /\ kid = 0 /\ active = TRUE
  /\ spent = {} /\ signed = {} /\ forwards = {} /\ burnt = {} /\ out = {}
  /\ asked = {} /\ letgo = {}

-----------------------------------------------------------------------------
(* The holder's own actions. *)

\* Mutant: an id that waits is taken.
FreeRidAny(h, r) == Careful \in BOOLEAN

\* asked: an id that waits is refused.  Apps choose their ids; the admin API
\* makes new ones.
FreeRid(h, r) ==
  /\ pend[h][r] = NoMsg
  /\ Careful => \A i \in 1..sent : msg[i].from = h /\ msg[i].rid = r => stage[i] \in Heard

\* f with one more element
Extend(f, x) == [i \in 1..(sent + 1) |-> IF i <= sent THEN f[i] ELSE x]

\* send: the request goes out on the wire of its id, and waits in pend
Send(m) ==
  /\ sent < MaxMsgs /\ FreeRid(m.from, m.rid)
  /\ sent' = sent + 1
  /\ msg' = Extend(msg, m)
  /\ stage' = Extend(stage, "out")
  /\ answer' = Extend(answer, None)
  /\ told' = Extend(told, "nothing")
  /\ pend' = [pend EXCEPT ![m.from][m.rid] = sent + 1]
  /\ UNCHANGED <<said, issuer>>

\* make-blinds: new secrets, at random
MakeBlinds(ss) == ss \cap asked = {} /\ asked' = asked \cup ss

DoGet(h, r, ss) ==
  /\ Cardinality(ss) \in 1..BatMaxMint
  /\ MakeBlinds(ss)
  /\ Send([from |-> h, to |-> Issuer, rid |-> r, kind |-> "request", toks |-> {},
           blinds |-> ss, forward |-> FALSE, burn |-> FALSE])
  /\ UNCHANGED <<wallet, offers, out, letgo>>

\* Mutant: the token stays in the wallet while it is presented.
DoUseKept(h, r, t, fwd) ==
  /\ t \in wallet[h]
  /\ Send([from |-> h, to |-> Issuer, rid |-> r, kind |-> "present", toks |-> {t},
           blinds |-> {}, forward |-> fwd, burn |-> TRUE])
  /\ UNCHANGED <<wallet, offers, out, asked, letgo>>

DoUse(h, r, t, fwd) ==
  /\ t \in wallet[h]
  /\ wallet' = [wallet EXCEPT ![h] = @ \ {t}]
  /\ Send([from |-> h, to |-> Issuer, rid |-> r, kind |-> "present", toks |-> {t},
           blinds |-> {}, forward |-> fwd, burn |-> TRUE])
  /\ UNCHANGED <<offers, out, asked, letgo>>

DoAsk(h, r, t, burn) ==
  /\ t \in out
  /\ Send([from |-> h, to |-> Issuer, rid |-> r, kind |-> "verify", toks |-> {t},
           blinds |-> {}, forward |-> FALSE, burn |-> burn])
  /\ UNCHANGED <<wallet, offers, out, asked, letgo>>

DoGive(h, r, to, ts) ==
  /\ Cardinality(ts) \in 1..BatMaxMint
  /\ ts \subseteq wallet[h]
  /\ wallet' = [wallet EXCEPT ![h] = @ \ ts]
  /\ Send([from |-> h, to |-> to, rid |-> r, kind |-> "transfer", toks |-> ts,
           blinds |-> {}, forward |-> FALSE, burn |-> FALSE])
  /\ UNCHANGED <<offers, out, asked, letgo>>

\* an accept drops the offer and waits as a %get
DoAccept(h, r, from, ss) ==
  /\ offers[h][from] # {}
  /\ Cardinality(ss) = Cardinality(offers[h][from])
  /\ MakeBlinds(ss)
  /\ offers' = [offers EXCEPT ![h][from] = {}]
  /\ Send([from |-> h, to |-> Issuer, rid |-> r, kind |-> "refresh", toks |-> offers[h][from],
           blinds |-> ss, forward |-> FALSE, burn |-> FALSE])
  /\ UNCHANGED <<wallet, out, letgo>>

DoDecline(h, from) ==
  /\ offers[h][from] # {}
  /\ offers' = [offers EXCEPT ![h][from] = {}]
  /\ letgo' = letgo \cup offers[h][from]
  /\ UNCHANGED <<wallet, pend, out, net, answer, said, issuer, asked, told>>

\* wallet-do, take: one token out as a string, to show anyone
TakeOut(h, t) ==
  /\ t \in wallet[h]
  /\ wallet' = [wallet EXCEPT ![h] = @ \ {t}]
  /\ out' = out \cup {t}
  /\ UNCHANGED <<offers, pend, net, answer, said, issuer, asked, told, letgo>>

-----------------------------------------------------------------------------
(* The issuer. *)

\* a flow delivers in order
SameFlow(i, j) == /\ msg[i].from = msg[j].from /\ msg[i].to = msg[j].to
                  /\ msg[i].rid = msg[j].rid
Arrives(i, kind) ==
  /\ stage[i] = "out" /\ msg[i].kind = kind
  /\ \A j \in 1..(i - 1) : SameFlow(i, j) => stage[j] # "out"

Acked(i) == stage' = [stage EXCEPT ![i] = "handled"]

\* reply: an answer to the asking ship, on the wire /answer
Reply(i, result) ==
  /\ said' = said + 1
  /\ answer' = [answer EXCEPT ![i] = [result |-> result, kid |-> kid', no |-> said + 1]]

\* Mutant: the next window's.
RotatedAhead == kid' = window + 1

\* usable: the service is on, and rotated gives it the keyset for now; with
\* the keyset it replaces, that one's spent set goes
Rotated == kid' = window
SpentNow == IF window = kid THEN spent ELSE {}

\* Mutant: the asker is not answered.
OffSilent(i) ==
  /\ ~active
  /\ UNCHANGED <<kid, spent, signed, forwards, burnt, letgo, said, answer>>

Off(i) ==
  /\ ~active
  /\ UNCHANGED <<kid, spent, signed, forwards, burnt, letgo>>
  /\ Reply(i, "refused")

\* judge's check-token
Good(t) == t[1] = window /\ t \in signed

\* the tokens the keyset for now makes of blinds
Made(ss) == {window} \X ss

\* the issuer's part of a request, and nothing of the holders
AtIssuer(i, kind) ==
  /\ Arrives(i, kind)
  /\ Acked(i)
  /\ UNCHANGED <<holder, msg, sent, window, active, asked, told>>

\* on-request.  Policy, quota and cap may refuse any request.
OnRequest(i) ==
  /\ AtIssuer(i, "request")
  /\ \/ Off(i)
     \/ /\ active /\ Rotated /\ spent' = SpentNow
        /\ \/ Reply(i, "refused") /\ UNCHANGED signed
           \/ Reply(i, "issued") /\ signed' = signed \cup Made(msg[i].blinds)
        /\ UNCHANGED <<forwards, burnt, letgo>>

Token(i) == CHOOSE t \in Tokens : msg[i].toks = {t}

\* judge burns a fresh token if the service is in burn mode; its owner sets the
\* mode at any time.  In check mode the token is good as before.
Burn(t, burns) == spent' = IF burns THEN SpentNow \cup {t} ELSE SpentNow

\* A fresh token, with no agent to ask: the ship it came from has it no more,
\* burned or not.
Grant(i, burns) ==
  /\ ~msg[i].forward /\ Reply(i, "fresh")
  /\ letgo' = IF burns THEN letgo ELSE letgo \cup msg[i].toks
  /\ UNCHANGED <<forwards, burnt>>

\* Or the agent is asked, and the answer waits for it.
AskAgent(i, burns) ==
  /\ msg[i].forward
  /\ forwards' = forwards \cup {i}
  /\ burnt' = IF burns THEN burnt \cup {i} ELSE burnt
  /\ UNCHANGED <<said, answer, letgo>>

\* on-present.  A forward to an agent that is not the service's, or not running,
\* is refused.
OnPresent(i) ==
  /\ AtIssuer(i, "present")
  /\ UNCHANGED signed
  /\ LET t == Token(i) IN
     \/ Off(i)
     \/ /\ active /\ Rotated /\ spent' = SpentNow
        /\ UNCHANGED <<forwards, burnt, letgo>>
        /\ \/ msg[i].forward /\ Reply(i, "refused")
           \/ ~Good(t) /\ Reply(i, "bad")
           \/ Good(t) /\ t \in SpentNow /\ Reply(i, "replay")
     \/ /\ active /\ Rotated /\ Good(t) /\ t \notin SpentNow
        /\ \E burns \in BOOLEAN :
             Burn(t, burns) /\ (Grant(i, burns) \/ AskAgent(i, burns))

\* on-refresh: all of the tokens good and unspent, or none is taken
OnRefresh(i) ==
  /\ AtIssuer(i, "refresh")
  /\ UNCHANGED <<forwards, burnt, letgo>>
  /\ \/ Off(i)
     \/ /\ active /\ Rotated
        /\ LET ok == \A t \in msg[i].toks : Good(t) /\ t \notin SpentNow IN
           \/ ~ok /\ Reply(i, "refused") /\ spent' = SpentNow /\ UNCHANGED signed
           \/ /\ ok /\ Reply(i, "issued")
              /\ spent' = SpentNow \cup msg[i].toks
              /\ signed' = signed \cup Made(msg[i].blinds)

\* on-verify: checks, or burns, for a verifier ship
OnVerify(i) ==
  /\ AtIssuer(i, "verify")
  /\ UNCHANGED <<signed, forwards, burnt, letgo>>
  /\ LET t == Token(i) IN
     \/ Off(i)
     \/ /\ active /\ Rotated
        /\ \/ Reply(i, "refused") /\ spent' = SpentNow
           \/ ~Good(t) /\ Reply(i, "bad") /\ spent' = SpentNow
           \/ Good(t) /\ t \in SpentNow /\ Reply(i, "replay") /\ spent' = SpentNow
           \/ /\ Good(t) /\ t \notin SpentNow /\ Reply(i, "fresh")
              /\ \E burns \in BOOLEAN : Burn(t, burns /\ msg[i].burn)

\* Mutant: the token stays burned when the agent refuses it.
TakeForwardBurned(i, taken) ==
  /\ i \in forwards
  /\ forwards' = forwards \ {i} /\ burnt' = burnt \ {i}
  /\ letgo' = IF taken /\ i \notin burnt THEN letgo \cup msg[i].toks ELSE letgo
  /\ UNCHANGED <<kid, spent>>
  /\ Reply(i, IF taken THEN "fresh" ELSE "refused")
  /\ UNCHANGED <<holder, net, window, active, signed, asked, told>>

\* take, the ack of an agent's poke: a nack gives a token that was burned for
\* it back
TakeForward(i, taken) ==
  /\ i \in forwards
  /\ forwards' = forwards \ {i} /\ burnt' = burnt \ {i}
  /\ spent' = IF ~taken /\ i \in burnt THEN spent \ {Token(i)} ELSE spent
  /\ letgo' = IF taken /\ i \notin burnt THEN letgo \cup msg[i].toks ELSE letgo
  /\ UNCHANGED kid
  /\ Reply(i, IF taken THEN "fresh" ELSE "refused")
  /\ UNCHANGED <<holder, net, window, active, signed, asked, told>>

\* the clock, and the owner's activate and deactivate
Turn ==
  /\ window < MaxWindow
  /\ window' = window + 1
  /\ UNCHANGED <<holder, net, answer, said, kid, active, spent, forwards, burnt,
                 signed, asked, told, letgo>>

Switch ==
  /\ active' = ~active
  /\ UNCHANGED <<holder, net, answer, said, window, kid, spent, forwards, burnt,
                 signed, asked, told, letgo>>

-----------------------------------------------------------------------------
(* What ships hear from each other. *)

\* offer-refusal: an offer, with what already waits, is at most one batch, and
\* a ship keeps at most MaxOffers of them
OfferRefused(h, from, toks) ==
  \/ Cardinality(toks) + Cardinality(offers[h][from]) > BatMaxMint
  \/ /\ offers[h][from] = {}
     /\ Cardinality({f \in Holders : offers[h][f] # {}}) >= MaxOffers

\* on-transfer: tokens wait as an offer
OnTransfer(i) ==
  LET h == msg[i].to
      f == msg[i].from
  IN /\ Arrives(i, "transfer")
     /\ ~OfferRefused(h, f, msg[i].toks)
     /\ offers' = [offers EXCEPT ![h][f] = @ \cup msg[i].toks]
     /\ Acked(i)
     /\ UNCHANGED <<wallet, pend, out, msg, sent, answer, said, issuer, asked, told, letgo>>

\* A ship crashes on a request, and nothing else happens there: a transfer that
\* is refused does, and anything may.
Nack(i) ==
  /\ Arrives(i, msg[i].kind)
  /\ stage' = [stage EXCEPT ![i] = "crashed"]
  /\ UNCHANGED <<holder, msg, sent, answer, said, issuer, asked, told, letgo>>

\* the answers to one ship come in the order they were given
NextAnswer(i) ==
  /\ answer[i] # None
  /\ \A j \in 1..sent : answer[j] # None /\ msg[j].from = msg[i].from =>
       answer[i].no <= answer[j].no

Tell(i, what) == told' = [told EXCEPT ![i] = what]

\* Mutant: every refusal does.
LostAny(result) == result \in Results \ {"issued"}

\* lost: a refusal that means the token is gone for good
Lost(result) == result = "bad"

\* on-answer, for the request p that waits under the id; a give is not answered
OnAnswer(i) ==
  LET h == msg[i].from
      p == pend[h][msg[i].rid]
      a == answer[i]
      new == {a.kid} \X msg[p].blinds
  IN /\ NextAnswer(i)
     /\ answer' = [answer EXCEPT ![i] = None]
     /\ IF p = NoMsg \/ (p # NoMsg /\ msg[p].kind = "transfer")
        THEN UNCHANGED <<wallet, pend, told, letgo>>
        ELSE /\ pend' = [pend EXCEPT ![h][msg[i].rid] = NoMsg]
             /\ Tell(p, CASE a.result = "issued" /\ p = i -> "done"
                          [] a.result \in {"fresh", "replay"} -> "valid"
                          [] OTHER -> "refused")
             /\ \/ /\ msg[p].kind \in {"request", "refresh"} /\ a.result = "issued"
                   \* tokens of another keyset than the answer's are dead
                   /\ wallet' = [wallet EXCEPT ![h] = new \cup {t \in @ : t[1] = a.kid}]
                   /\ UNCHANGED letgo
                \/ /\ msg[p].kind \in {"request", "refresh"} /\ ~(a.result = "issued" /\ p = i)
                   /\ letgo' = letgo \cup msg[p].toks
                   /\ UNCHANGED wallet
                \/ /\ msg[p].kind = "present"
                   /\ wallet' = IF a.result \in {"refused", "bad"} /\ ~Lost(a.result)
                                THEN [wallet EXCEPT ![h] = @ \cup msg[p].toks] ELSE wallet
                   /\ UNCHANGED letgo
                \/ /\ msg[p].kind = "verify"
                   /\ UNCHANGED <<wallet, letgo>>
     /\ UNCHANGED <<offers, out, net, said, issuer, asked>>

\* a ship crashes on an answer: the request waits for good
LoseAnswer(i) ==
  /\ NextAnswer(i)
  /\ answer' = [answer EXCEPT ![i] = None]
  /\ letgo' = letgo \cup msg[i].toks \cup ({answer[i].kid} \X msg[i].blinds)
  /\ Tell(i, "crash")
  /\ UNCHANGED <<holder, net, said, issuer, asked>>

\* take, the ack of a request: a give is done, a nack returns the tokens of a
\* use or a give.  It finds the request that now waits under the id.
TakeAck(i) ==
  LET h == msg[i].from
      p == pend[h][msg[i].rid]
      give == msg[p].kind = "transfer"
      back == IF msg[p].kind \in {"present", "transfer"} THEN msg[p].toks ELSE {}
  IN /\ stage[i] \in {"handled", "crashed"}
     /\ \A j \in 1..(i - 1) : SameFlow(i, j) => stage[j] \in Heard
     /\ stage' = [stage EXCEPT ![i] = IF @ = "handled" THEN "acked" ELSE "nacked"]
     /\ \/ /\ p # NoMsg => stage[i] = "handled" /\ ~give
           /\ UNCHANGED <<wallet, pend, told, letgo>>
        \/ /\ p # NoMsg /\ stage[i] = "handled" /\ give
           /\ pend' = [pend EXCEPT ![h][msg[i].rid] = NoMsg]
           /\ Tell(p, "done")
           /\ UNCHANGED <<wallet, letgo>>
        \/ /\ p # NoMsg /\ stage[i] = "crashed"
           /\ pend' = [pend EXCEPT ![h][msg[i].rid] = NoMsg]
           /\ wallet' = [wallet EXCEPT ![h] = @ \cup back]
           /\ letgo' = IF msg[p].kind = "refresh" THEN letgo \cup msg[p].toks ELSE letgo
           /\ Tell(p, "nacked")
     /\ UNCHANGED <<offers, out, msg, sent, answer, said, issuer, asked>>

-----------------------------------------------------------------------------
Holding(h) ==
  \/ \E f \in Holders : DoDecline(h, f)
  \/ \E t \in wallet[h] : TakeOut(h, t)
  \/ \E r \in Rids :
       /\ sent < MaxMsgs
       /\ \/ \E ss \in SUBSET Secrets :
               DoGet(h, r, ss) \/ \E f \in Holders : DoAccept(h, r, f, ss)
          \/ \E t \in wallet[h], fwd \in BOOLEAN : DoUse(h, r, t, fwd)
          \/ \E t \in out, burn \in BOOLEAN : DoAsk(h, r, t, burn)
          \/ \E to \in Holders, ts \in SUBSET wallet[h] : DoGive(h, r, to, ts)

Handling(i) ==
  \/ OnRequest(i) \/ OnPresent(i) \/ OnRefresh(i) \/ OnVerify(i)
  \/ OnTransfer(i) \/ Nack(i)

Hearing(i) == OnAnswer(i) \/ LoseAnswer(i)

Next ==
  \/ \E h \in Holders : Holding(h)
  \/ \E i \in 1..sent :
       \/ Handling(i) \/ Hearing(i) \/ TakeAck(i)
       \/ \E taken \in BOOLEAN : TakeForward(i, taken)
  \/ Turn \/ Switch

Spec == Init /\ [][Next]_vars

-----------------------------------------------------------------------------
(* Properties. *)

\* the tokens that a request carries, that may still come back with its ack or
\* answer, or that its answer brings
Carried(i) ==
  LET answered(r) == answer[i] # None /\ answer[i].result = r IN
  IF i > sent THEN {}
  ELSE IF \/ msg[i].kind \in {"present", "refresh", "transfer"} /\ stage[i] \in {"out", "crashed"}
          \/ msg[i].kind \in {"present", "refresh"} /\ answered("refused")
          \/ i \in forwards
  THEN msg[i].toks
  ELSE IF answered("issued") THEN {answer[i].kid} \X msg[i].blinds ELSE {}

\* where a token can be: a wallet, an offer, shown to others, a request
Places == ({"wallet"} \X Holders) \cup ({"offer"} \X Holders \X Holders)
          \cup {<<"out">>} \cup ({"way"} \X Msgs)
At(p) == CASE p[1] = "wallet" -> wallet[p[2]]
           [] p[1] = "offer" -> offers[p[2]][p[3]]
           [] p[1] = "out" -> out
           [] p[1] = "way" -> Carried(p[2])

(* A token is in one place: one ship's wallet, one offer, one request or answer
   on its way, or shown to others; so no two holders count on it.  do-use,
   do-give, do-accept and take take it away before it goes, and only a refusal
   or a nack brings it back. *)
OneHolder ==
  \A p \in Places : \A t \in At(p) : \A q \in Places : t \in At(q) => q = p

(* A token a ship holds, was offered, or gets back is not used up: whatever the
   issuer burned under its keyset is in no wallet, offer or answer. *)
FreshHeld ==
  \A p \in Places : \A t \in At(p) :
    t \in spent /\ t[1] = kid => p[1] = "out" \/ (p[1] = "way" /\ p[2] \in burnt)

(* No token that is still good is lost on the way between ships: it is in some
   place, unless its owner declined it, a use was granted without burning it,
   an accept of it failed, or a ship crashed on an answer.  (on-answer drops tokens of other keysets as dead,
   which they are only because answers come in order.) *)
NothingLost ==
  \A t \in signed \ spent : t[1] = kid =>
    t \in letgo \/ \E p \in Places : t \in At(p)

(* "a give is settled by the receiver's ack alone" (docs/tessera.md, "Actions"):
   the giver hears done only of tokens that the receiver took, and every
   hand-over that is refused gives the tokens back. *)
GiveSettled ==
  \A i \in 1..sent : msg[i].kind = "transfer" =>
    /\ told[i] = "done" => stage[i] = "acked"
    /\ stage[i] = "nacked" => told[i] = "nacked"

(* What waits is not over: a request in pend was told nothing, and an ack or an
   answer that will end it is still to come, unless its ship crashed on the
   answer; and what is over is not told twice. *)
PendOpen ==
  \A h \in Holders, r \in Rids : pend[h][r] # NoMsg =>
    LET i == pend[h][r] IN
    /\ msg[i].from = h /\ msg[i].rid = r /\ told[i] \in {"nothing", "crash"}
    /\ told[i] = "nothing" =>
         \/ stage[i] \in {"out", "crashed"}
         \/ IF msg[i].kind = "transfer" THEN stage[i] = "handled"
            ELSE answer[i] # None \/ i \in forwards
=============================================================================
