--------------------------- MODULE TesseraIssuer ---------------------------
(***************************************************************************)
(* One service of a %tessera issuer (src/desk-tessera/app/tessera.hoon):    *)
(* it signs blinded tokens for whom its policy lets in, under a cap and     *)
(* quotas, and judges tokens that are shown to it.  A windowed service gets *)
(* a new keyset when it is first used after its window turned, and with the *)
(* old keyset go its spent set and its tokens.  A token that was presented  *)
(* for an agent of this ship is burned before the agent is asked, and given *)
(* back if the agent refuses.                                               *)
(*                                                                         *)
(* Every handler is one atomic event.  Requests come over HTTP or Ames; the *)
(* same rules judge both, and an identity stands for a ship, a Clear-auth   *)
(* key or all open clients together.  A token is its keyset's number with   *)
(* its secret; what the service signs is blind, so any secrets.             *)
(***************************************************************************)
EXTENDS Naturals, FiniteSets

CONSTANTS
  Secrets,     \* secrets of tokens
  Who,         \* identities that are counted against a quota
  Owner,       \* this ship, which the policy and the quota do not bind
  Settings,    \* the fields an owner may give the service
  Slots,       \* a bound on the forwards out at one time
  None,        \* a field that is cleared, a slot that is free
  BatMaxMint,  \* most tokens one request may mint or refresh
  MaxBatch,    \* most tokens the owner may make at once
  MaxKeysets,  \* bound: keysets made in a behaviour
  MaxCount,    \* bound: issued and redeemed of a service
  MaxNow       \* bound: ticks in a behaviour

Kids   == 1..MaxKeysets
Tokens == Kids \X Secrets

Quota   == [n : Nat \ {0}, per : Nat \ {0}]
Setting == [allowed : SUBSET Who, quota : Quota \cup {None},
            window : (Nat \ {0}) \cup {None}, mode : {"burn", "check"},
            forwards : BOOLEAN, cap : Nat \cup {None}, expires : Nat \cup {None}]
Usage   == [win : Nat, n : Nat]
Forward == [token : Tokens, burned : BOOLEAN]

ASSUME IssuerAssumption ==
  /\ Owner \notin Who
  /\ IsFiniteSet(Secrets) /\ IsFiniteSet(Slots)
  /\ None \notin Nat /\ None \notin Quota /\ None \notin Forward
  /\ Settings \subseteq Setting
  /\ BatMaxMint \in Nat /\ MaxBatch \in Nat
  /\ MaxKeysets \in Nat \ {0} /\ MaxCount \in Nat /\ MaxNow \in Nat

VARIABLES
  now,       \* now.bowl
  made,      \* keysets made so far, which numbers them
  exists,    \* services has the service
  active,    \* its active
  set,       \* its fields that the owner sets
  kid,       \* its keyset's id
  closes,    \* its keyset's closes
  issued,    \* its issued
  redeemed,  \* its redeemed
  spent,     \* spent: tokens in the spent set of their keyset
  used,      \* used: per identity, the quota window and the count in it
  forwards,  \* %tessera-granted pokes that the agent has not acked yet
  signed,    \* history: tokens that the service signed
  claims,    \* history: how often a token was burned and not given back
  counted    \* history: tokens an identity was issued in this quota period

service == <<exists, active, set, kid, closes, issued, redeemed>>
history == <<signed, claims, counted>>
vars == <<now, made, service, spent, used, forwards, history>>

-----------------------------------------------------------------------------
TypeOK ==
  /\ now \in 0..MaxNow /\ made \in 0..MaxKeysets
  /\ exists \in BOOLEAN /\ active \in BOOLEAN
  /\ exists => set \in Settings /\ kid \in Kids
  /\ closes \in Nat \cup {None}
  /\ issued \in Nat /\ redeemed \in Nat
  /\ spent \subseteq Tokens /\ signed \subseteq Tokens
  /\ used \in [Who -> Usage]
  /\ forwards \in [Slots -> Forward \cup {None}]
  /\ claims \in [Tokens -> 0..2]
  /\ counted \in [Who -> Nat]

NoUse == [win |-> 0, n |-> 0]

Init ==
  /\ now = 0 /\ made = 0
  /\ exists = FALSE /\ active = FALSE
  /\ set = None /\ kid = 0 /\ closes = None
  /\ issued = 0 /\ redeemed = 0
  /\ spent = {} /\ signed = {}
  /\ used = [w \in Who |-> NoUse]
  /\ forwards = [f \in Slots |-> None]
  /\ claims = [t \in Tokens |-> 0]
  /\ counted = [w \in Who |-> 0]

-----------------------------------------------------------------------------
(* The rules. *)

\* resolve-service: can the service be used now?
Usable == /\ exists /\ active
          /\ set.expires # None => now <= set.expires

\* closing: when the window holding now closes
Closing(window) == IF window = None THEN None ELSE window * (now \div window) + window

\* rotate: the keyset for now, and spent without the set of the keyset it
\* replaces
Kid(window)   == IF Closing(window) = closes THEN kid ELSE made + 1
Spent(window) == IF Closing(window) = closes THEN spent
                 ELSE {t \in spent : t[1] # kid}

Rotate(window) ==
  /\ kid' = Kid(window) /\ closes' = Closing(window)
  /\ made' = IF Closing(window) = closes THEN made ELSE made + 1
  /\ made' <= MaxKeysets

Token(s) == <<Kid(set.window), s>>

\* cap-ok
CapOk(n) == set.cap # None => issued + n <= set.cap

\* used-now: the count of an older window has lapsed
UsedNow(who) == IF used[who].win = now \div set.quota.per THEN used[who].n ELSE 0

\* quota-left
QuotaOk(who, n) ==
  who # Owner /\ set.quota # None => UsedNow(who) + n <= set.quota.n

\* add-use
AddUse(who, n) ==
  used' = IF who = Owner \/ set.quota = None THEN used
          ELSE [used EXCEPT ![who] =
                 [win |-> now \div set.quota.per, n |-> UsedNow(who) + n]]

\* mint-identity and ship-ok: whom the policy lets in, and this ship
Allowed == set.allowed \cup {Owner}

\* check-token and spent: is s with the keyset for now a token that was not spent?
Fresh(s) == Token(s) \in signed /\ Token(s) \notin Spent(set.window)

\* history: these tokens are burned
Claim(toks) ==
  claims' = [t \in Tokens |-> IF t \in toks /\ claims[t] < 2 THEN claims[t] + 1 ELSE claims[t]]

-----------------------------------------------------------------------------
(* Requests over HTTP and Ames.  Each rotates the keyset first, refused or
   not. *)

\* a request that is refused, a replay, a check, or a look at the keys
Touch ==
  /\ Usable
  /\ Rotate(set.window)
  /\ spent' = Spent(set.window)
  /\ UNCHANGED <<now, exists, active, set, issued, redeemed, used, forwards, history>>

\* issue: n more tokens for who, within the cap and its quota
Issue(who, n) ==
  /\ CapOk(n) /\ QuotaOk(who, n)
  /\ issued + n <= MaxCount
  /\ AddUse(who, n)
  /\ issued' = issued + n

\* on-request and mint
Request(who, outs) ==
  /\ Usable
  /\ who \in Allowed
  /\ outs # {} /\ Cardinality(outs) <= BatMaxMint
  /\ Rotate(set.window)
  /\ spent' = Spent(set.window)
  /\ Issue(who, Cardinality(outs))
  /\ signed' = signed \cup {Token(s) : s \in outs}
  /\ counted' = IF who = Owner THEN counted
                ELSE [counted EXCEPT ![who] = @ + Cardinality(outs)]
  /\ UNCHANGED <<now, exists, active, set, redeemed, forwards, claims>>

\* judge: a fresh token is redeemed, and burned if the mode burns
Judge(s) ==
  /\ Fresh(s)
  /\ redeemed < MaxCount
  /\ redeemed' = redeemed + 1
  /\ IF set.mode = "burn"
     THEN spent' = Spent(set.window) \cup {Token(s)} /\ Claim({Token(s)})
     ELSE spent' = Spent(set.window) /\ UNCHANGED claims

\* on-present without a forward, on-verify with burn, and redeem
Use(s) ==
  /\ Usable
  /\ Rotate(set.window)
  /\ Judge(s)
  /\ UNCHANGED <<now, exists, active, set, issued, used, forwards, signed, counted>>

\* on-present with a forward: the answer waits for the agent's ack
Present(s, f) ==
  /\ Usable
  /\ set.forwards /\ forwards[f] = None
  /\ Rotate(set.window)
  /\ Judge(s)
  /\ forwards' = [forwards EXCEPT ![f] =
       [token |-> Token(s), burned |-> set.mode = "burn"]]
  /\ UNCHANGED <<now, exists, active, set, issued, used, signed, counted>>

\* check-refresh: each of toks is good and unspent
Renewable(toks) ==
  /\ toks # {} /\ Cardinality(toks) <= BatMaxMint
  /\ \A s \in toks : Fresh(s)

\* Mutant: a refresh in check mode leaves the old tokens good.
RenewUnburned(toks, outs) ==
  /\ Renewable(toks) /\ Cardinality(toks) = Cardinality(outs)
  /\ LET old == IF set.mode = "burn" THEN {Token(s) : s \in toks} ELSE {} IN
       spent' = Spent(set.window) \cup old /\ Claim(old)
  /\ signed' = signed \cup {Token(s) : s \in outs}

\* renew: old tokens burned, as many new ones signed
Renew(toks, outs) ==
  /\ Renewable(toks) /\ Cardinality(toks) = Cardinality(outs)
  /\ LET old == {Token(s) : s \in toks} IN
       spent' = Spent(set.window) \cup old /\ Claim(old)
  /\ signed' = signed \cup {Token(s) : s \in outs}

\* on-refresh and refresh
Refresh(toks, outs) ==
  /\ Usable
  /\ Rotate(set.window)
  /\ Renew(toks, outs)
  /\ UNCHANGED <<now, exists, active, set, issued, redeemed, used, forwards, counted>>

-----------------------------------------------------------------------------
(* The agent's acks, and the timer. *)

\* take, %forward, acked: the presenter hears that the token was good
ForwardAcked(f) ==
  /\ forwards[f] # None
  /\ forwards' = [forwards EXCEPT ![f] = None]
  /\ UNCHANGED <<now, made, service, spent, used, history>>

\* Mutant: the token comes back whatever the mode was when it was presented.
ReturnedAlways(f) == {forwards[f].token}

\* the token that a refused forward un-spends: one that was burned for it
Returned(f) == IF forwards[f].burned THEN {forwards[f].token} ELSE {}

\* take, %forward, nacked: the token was not used after all.  The decrement of
\* redeemed would crash at 0.
ForwardRefused(f) ==
  /\ forwards[f] # None
  /\ exists => redeemed > 0
  /\ forwards' = [forwards EXCEPT ![f] = None]
  /\ spent' = spent \ Returned(f)
  /\ claims' = [t \in Tokens |-> IF t = forwards[f].token /\ forwards[f].burned
                                 THEN claims[t] - 1 ELSE claims[t]]
  /\ redeemed' = IF exists THEN redeemed - 1 ELSE redeemed
  /\ UNCHANGED <<now, made, exists, active, set, kid, closes, issued, used, signed, counted>>

\* Mutant: a count goes in the last tick of its window.
CountsSoon(who) == exists /\ set.quota # None /\ used[who].win = (now + 1) \div set.quota.per

\* prune-used: the counts of the quota window holding now
Counts(who) == exists /\ set.quota # None /\ used[who].win = now \div set.quota.per

\* Mutant: a keyset is closed one tick early.
OpenEarly(k) == exists /\ k = kid /\ (closes = None \/ closes > now + 1)

\* prune-spent: the keyset whose tokens may still be used
Open(k) == exists /\ k = kid /\ (closes = None \/ closes > now)

Prune ==
  /\ used' = [w \in Who |-> IF Counts(w) THEN used[w] ELSE NoUse]
  /\ spent' = {t \in spent : Open(t[1])}
  /\ UNCHANGED <<now, made, service, forwards, history>>

Tick ==
  /\ now < MaxNow
  /\ now' = now + 1
  /\ counted' = IF exists /\ set.quota # None /\ now' % set.quota.per = 0
                THEN [w \in Who |-> 0] ELSE counted
  /\ UNCHANGED <<made, service, spent, used, forwards, signed, claims>>

-----------------------------------------------------------------------------
(* The owner. *)

\* create: a new service, with its keyset rotated for the window it was given
AdminCreate(s) ==
  /\ ~exists
  /\ LET keysets == IF s.window = None THEN 1 ELSE 2 IN
       /\ made + keysets <= MaxKeysets
       /\ made' = made + keysets
  /\ exists' = TRUE /\ active' = TRUE
  /\ set' = s /\ kid' = made' /\ closes' = Closing(s.window)
  /\ issued' = 0 /\ redeemed' = 0
  /\ counted' = [w \in Who |-> 0]
  /\ UNCHANGED <<now, spent, used, forwards, signed, claims>>

\* Mutant: a mode the service does not know is taken.
AdminUpdateAny(s) ==
  /\ exists
  /\ set' = [s EXCEPT !.mode = "once"]
  /\ Rotate(s.window)
  /\ spent' = Spent(s.window)
  /\ counted' = IF s.quota = set.quota THEN counted ELSE [w \in Who |-> 0]
  /\ UNCHANGED <<now, exists, active, issued, redeemed, used, forwards, signed, claims>>

\* update: any fields changed, and the keyset rotated for the window
AdminUpdate(s) ==
  /\ exists
  /\ set' = s
  /\ Rotate(s.window)
  /\ spent' = Spent(s.window)
  /\ counted' = IF s.quota = set.quota THEN counted ELSE [w \in Who |-> 0]
  /\ UNCHANGED <<now, exists, active, issued, redeemed, used, forwards, signed, claims>>

\* activate and deactivate
AdminActivate(on) ==
  /\ exists /\ active # on
  /\ active' = on
  /\ UNCHANGED <<now, made, exists, set, kid, closes, issued, redeemed,
                 spent, used, forwards, history>>

\* Mutant: a service that issued may go.
DeletableIssued == exists /\ ~active

\* delete: only an inactive service that never issued
Deletable == exists /\ ~active /\ issued = 0

AdminDelete ==
  /\ Deletable
  /\ exists' = FALSE
  /\ UNCHANGED <<now, made, active, set, kid, closes, issued, redeemed,
                 spent, used, forwards, history>>

\* batch: tokens made here, of fresh secrets; they count toward the cap
AdminBatch(outs) ==
  /\ exists
  /\ outs # {} /\ Cardinality(outs) <= MaxBatch
  /\ CapOk(Cardinality(outs))
  /\ issued + Cardinality(outs) <= MaxCount
  /\ \A t \in signed : t[2] \notin outs
  /\ Rotate(set.window)
  /\ spent' = Spent(set.window)
  /\ issued' = issued + Cardinality(outs)
  /\ signed' = signed \cup {Token(s) : s \in outs}
  /\ UNCHANGED <<now, exists, active, set, redeemed, used, forwards, claims, counted>>

-----------------------------------------------------------------------------
Requests ==
  \/ Touch
  \/ \E s \in Secrets : Use(s) \/ \E f \in Slots : Present(s, f)
  \/ \E outs \in SUBSET Secrets :
       \/ \E who \in Who \cup {Owner} : Request(who, outs)
       \/ \E toks \in SUBSET Secrets : Refresh(toks, outs)

Admin ==
  \/ \E s \in Settings : AdminCreate(s) \/ AdminUpdate(s)
  \/ \E on \in BOOLEAN : AdminActivate(on)
  \/ AdminDelete
  \/ \E outs \in SUBSET Secrets : AdminBatch(outs)

Next ==
  \/ Requests \/ Admin
  \/ \E f \in Slots : ForwardAcked(f) \/ ForwardRefused(f)
  \/ Prune \/ Tick

Spec == Init /\ [][Next]_vars

-----------------------------------------------------------------------------
(* Properties. *)

(* A token is burned once: across presents, verifies and refreshes, changes of
   mode and window, refused forwards and prunes, no token is granted or
   refreshed a second time unless the agent it was burned for refused it. *)
UsedOnce == \A t \in Tokens : claims[t] <= 1

(* A spent set is forgotten only with its keyset: a token that was burned for
   good is in spent, or no request can take it any more. *)
SpentKept ==
  \A t \in Tokens :
    claims[t] > 0 /\ t \notin spent =>
      ~exists \/ t[1] # Kid(set.window)

(* The service's tokens do not multiply: those still good are at most as many
   as it issued (refresh makes as many as it burns). *)
Supply == exists =>
  Cardinality({t \in signed \ spent : t[1] = Kid(set.window)}) <= issued

(* Every forward that is out is of the service that took its token, and is in
   redeemed: its nack takes back what was counted and never crashes. *)
ForwardsCounted ==
  LET out == {f \in Slots : forwards[f] # None} IN
  out # {} => exists /\ Cardinality(out) <= redeemed

(* In one quota period an identity is issued no more than the quota ("at most
   n tokens per identity per `per`", sur/tessera.hoon), however prunes and
   requests alternate. *)
QuotaKept ==
  exists /\ set.quota # None => \A w \in Who : counted[w] <= set.quota.n

(* "Changing a service's window starts a new keyset at once: the tokens already
   out stop working" (docs/tessera.md). *)
WindowChangeRekeys ==
  [][exists /\ exists' /\ set'.window # set.window =>
       \A t \in signed : t[1] # kid']_vars
=============================================================================
