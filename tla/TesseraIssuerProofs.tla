------------------------ MODULE TesseraIssuerProofs ------------------------
(***************************************************************************)
(* IssuerInv is inductive, and with it the safety properties of             *)
(* TesseraIssuer hold for every set of settings and every bound.            *)
(***************************************************************************)
EXTENDS TesseraIssuerInv, FiniteSetTheorems, TLAPS

(* A window closes after every time that is in it. *)
LEMMA WindowCloses ==
  ASSUME NEW w \in Nat \ {0}, NEW n \in Nat
  PROVE  w * (n \div w) + w \in Nat /\ w * (n \div w) + w > n
<1> DEFINE q == n \div w
<1>1. q \in Nat
  OBVIOUS
<1>2. w * q \in Nat
  BY <1>1
<1>3. n = w * q + (n % w) /\ n % w < w /\ n % w \in Nat
  OBVIOUS
<1> QED
  BY <1>1, <1>2, <1>3

(* A tick that does not start a period stays in it. *)
LEMMA SamePeriod ==
  ASSUME NEW p \in Nat \ {0}, NEW n \in Nat, (n + 1) % p # 0
  PROVE  (n + 1) \div p = n \div p
<1> DEFINE q == n \div p
           k == (n + 1) \div p
           d == k - q
<1>1. q \in Nat /\ k \in Nat /\ d \in Int
  OBVIOUS
<1>2. n = p * q + (n % p) /\ n % p < p /\ n % p \in Nat
  OBVIOUS
<1>3. n + 1 = p * k + ((n + 1) % p) /\ (n + 1) % p < p /\ (n + 1) % p \in Nat \ {0}
  OBVIOUS
<1>4. p * q \in Nat /\ p * k \in Nat
  BY <1>1
<1>5. p * k = p * q + p * d
  BY <1>1
<1>6. p * d < p /\ p * d > 0 - p
  BY <1>1, <1>2, <1>3, <1>4, <1>5
<1>7. d < 1
  BY <1>1, <1>6
<1>8. d > 0 - 1
  BY <1>1, <1>6
<1>9. d = 0
  BY <1>1, <1>7, <1>8
<1> QED
  BY <1>1, <1>9

-----------------------------------------------------------------------------
(* Tokens and their numbers. *)

(* As many tokens of one keyset as secrets. *)
LEMMA TokensOfSecrets ==
  ASSUME NEW k, NEW outs, IsFiniteSet(outs)
  PROVE  LET toks == {<<k, s>> : s \in outs} IN
         IsFiniteSet(toks) /\ Cardinality(toks) = Cardinality(outs)
<1>1. {<<k, s>> : s \in outs} = {k} \X outs
  OBVIOUS
<1>2. IsFiniteSet({k}) /\ Cardinality({k}) = 1
  BY FS_Singleton
<1>3. Cardinality(outs) \in Nat
  BY FS_CardinalityType
<1>4. IsFiniteSet({k} \X outs) /\ Cardinality({k} \X outs) = 1 * Cardinality(outs)
  BY <1>2, FS_Product
<1> QED
  BY <1>1, <1>3, <1>4

(* A set of secrets has a number, and a set of tokens too. *)
LEMMA Finite ==
  /\ \A outs \in SUBSET Secrets : IsFiniteSet(outs) /\ Cardinality(outs) \in Nat
  /\ \A toks \in SUBSET Tokens : IsFiniteSet(toks) /\ Cardinality(toks) \in Nat
<1>1. \A outs \in SUBSET Secrets : IsFiniteSet(outs)
  BY FS_Subset, IssuerAssumption
<1>2. IsFiniteSet(Kids)
  BY FS_Interval, IssuerAssumption DEF Kids
<1>3. IsFiniteSet(Tokens)
  BY <1>2, FS_Product, IssuerAssumption DEF Tokens
<1>4. \A toks \in SUBSET Tokens : IsFiniteSet(toks)
  BY <1>3, FS_Subset
<1> QED
  BY <1>1, <1>4, FS_CardinalityType

-----------------------------------------------------------------------------
(* Keysets. *)

Windows == (Nat \ {0}) \cup {None}

(* A keyset made now closes later. *)
LEMMA ClosesLater ==
  ASSUME now \in Nat, NEW w \in Windows
  PROVE  /\ Closing(w) \in Nat \cup {None}
         /\ Closing(w) = None \/ Closing(w) > now
<1>1. CASE w = None
  BY <1>1 DEF Closing
<1>2. CASE w # None
  <2>1. w \in Nat \ {0}
    BY <1>2 DEF Windows
  <2> QED
    BY <1>2, <2>1, WindowCloses DEF Closing
<1> QED
  BY <1>1, <1>2

(* Rotate keeps the keyset and its spent set, or makes a keyset of which no
   token was signed and forgets the spent set. *)
LEMMA Rotation ==
  ASSUME TypeOK, Numbered, SpentLive, exists, NEW w \in Windows, Rotate(w)
  PROVE  /\ made' \in made..MaxKeysets /\ kid' \in Kids /\ kid' <= made'
         /\ closes' \in Nat \cup {None}
         /\ closes' = None \/ closes' > now
         /\ Kid(w) = kid'
         /\ \/ kid' = kid /\ closes' = closes /\ made' = made /\ Spent(w) = spent
            \/ kid' = made + 1 /\ made' = made + 1 /\ Spent(w) = {}
<1>1. Closing(w) \in Nat \cup {None} /\ (Closing(w) = None \/ Closing(w) > now)
  BY ClosesLater DEF TypeOK
<1>2. made \in Nat /\ made <= MaxKeysets /\ MaxKeysets \in Nat /\ kid \in Kids /\ kid <= made
  BY IssuerAssumption DEF TypeOK, Numbered
<1>3. CASE Closing(w) = closes
  BY <1>1, <1>2, <1>3 DEF Rotate, Kid, Spent, Kids
<1>4. CASE Closing(w) # closes
  <2>1. Spent(w) = {}
    BY <1>4 DEF Spent, SpentLive
  <2>2. kid' = made + 1 /\ made' = made + 1 /\ made' <= MaxKeysets
    BY <1>4 DEF Rotate, Kid
  <2>3. kid' \in Kids
    BY <1>2, <2>2 DEF Kids
  <2> QED
    BY <1>1, <1>2, <1>4, <2>1, <2>2, <2>3 DEF Rotate, Kid
<1> QED
  BY <1>3, <1>4

(* A token that is taken is of the keyset that is kept, and was not burned. *)
LEMMA FreshToken ==
  ASSUME TypeOK, Numbered, SpentLive, Claimed, exists, NEW s \in Secrets, Fresh(s)
  PROVE  /\ Token(s) = <<kid, s>> /\ Token(s) \in Tokens
         /\ Closing(set.window) = closes /\ (closes = None \/ closes > now)
         /\ Token(s) \in signed /\ Token(s) \notin spent /\ claims[Token(s)] = 0
         /\ issued > 0
<1> DEFINE w == set.window
<1>1. w \in Windows
  BY IssuerAssumption DEF TypeOK, Setting, Windows
<1>2. Closing(w) = closes
  <2> SUFFICES ASSUME Closing(w) # closes PROVE FALSE
    OBVIOUS
  <2>1. <<made + 1, s>> \in signed
    BY DEF Fresh, Token, Kid
  <2>2. <<made + 1, s>>[1] <= made
    BY <2>1 DEF Numbered
  <2> QED
    BY <2>2 DEF TypeOK
<1>3. closes = None \/ closes > now
  BY <1>1, <1>2, ClosesLater DEF TypeOK
<1>4. Token(s) = <<kid, s>> /\ Token(s) \in signed /\ Token(s) \notin spent
  BY <1>2 DEF Fresh, Token, Kid, Spent
<1>5. Token(s) \in Tokens
  BY <1>4 DEF TypeOK
<1>6. Token(s)[1] = kid
  BY <1>4
<1>7. claims[Token(s)] = 0
  <2>1. ~Dead(Token(s))
    <3>1. ASSUME closes # None, closes <= now PROVE FALSE
      BY <1>3, <3>1 DEF TypeOK
    <3> QED
      BY <1>6, <3>1 DEF Dead
  <2> QED
    BY <1>4, <1>5, <2>1 DEF Claimed
<1>8. issued > 0
  BY <1>4, <1>6 DEF SpentLive, TypeOK
<1> QED
  BY <1>2, <1>3, <1>4, <1>5, <1>7, <1>8

-----------------------------------------------------------------------------
(* What a step that rotates and signs, or burns, preserves. *)

(* The keyset is rotated, and new tokens are signed and counted. *)
LEMMA Minted ==
  ASSUME IssuerInv, exists, exists', NEW w \in Windows, NEW outs \in SUBSET Secrets,
         Rotate(w), spent' = Spent(w), now' = now, claims' = claims,
         forwards' = forwards, redeemed' = redeemed,
         issued' = issued + Cardinality(outs),
         signed' = signed \cup {<<Kid(w), s>> : s \in outs}
  PROVE  /\ signed' \subseteq Tokens /\ spent' \subseteq Tokens /\ issued' \in Nat
         /\ Numbered' /\ SpentLive' /\ Claimed' /\ Forwarded' /\ ForwardsCounted' /\ Supplied'
<1> DEFINE new == {<<kid', s>> : s \in outs}
<1>1. TypeOK /\ Numbered /\ SpentLive /\ Claimed /\ Forwarded /\ ForwardsCounted /\ Supplied
  BY DEF IssuerInv
<1>2. /\ made' \in made..MaxKeysets /\ kid' \in Kids /\ kid' <= made'
      /\ closes' \in Nat \cup {None} /\ (closes' = None \/ closes' > now)
      /\ Kid(w) = kid'
      /\ \/ kid' = kid /\ closes' = closes /\ made' = made /\ Spent(w) = spent
         \/ kid' = made + 1 /\ made' = made + 1 /\ Spent(w) = {}
  BY <1>1, Rotation
<1>3. made \in Nat /\ issued \in Nat /\ now \in Nat /\ kid \in Nat /\ kid <= made
  BY <1>1 DEF TypeOK, Numbered, Kids
<1>4. new \subseteq Tokens /\ signed' = signed \cup new
  BY <1>2 DEF Tokens
<1>5. IsFiniteSet(new) /\ Cardinality(new) = Cardinality(outs) /\ Cardinality(outs) \in Nat
  BY Finite, TokensOfSecrets
<1>6. signed' \subseteq Tokens /\ spent' \subseteq spent /\ spent' \subseteq Tokens /\ issued' \in Nat
  BY <1>1, <1>2, <1>3, <1>4, <1>5 DEF TypeOK
<1>7. \A t \in Tokens : t[1] \in Nat
  BY DEF Tokens, Kids
<1>8. Numbered'
  <2>1. \A t \in signed : t[1] <= made'
    BY <1>1, <1>2, <1>3, <1>7 DEF Numbered, TypeOK
  <2>2. \A t \in new : t[1] <= made'
    BY <1>2
  <2> QED
    BY <1>2, <1>4, <2>1, <2>2 DEF Numbered
<1>9. SpentLive'
  <2>1. spent' \subseteq signed'
    BY <1>1, <1>4, <1>6 DEF SpentLive
  <2>2. \A t \in spent' : t[1] = kid'
    BY <1>1, <1>2 DEF SpentLive
  <2>3. ASSUME issued' = 0, NEW t \in signed' PROVE t[1] # kid'
    <3>1. issued = 0 /\ Cardinality(outs) = 0
      BY <1>3, <1>5, <2>3
    <3>2. t \in signed
      BY <1>4, <1>5, <3>1, FS_EmptySet
    <3> QED
      BY <1>1, <1>2, <1>3, <3>1, <3>2 DEF SpentLive, Numbered
  <2> QED
    BY <2>1, <2>2, <2>3 DEF SpentLive
<1>10. Claimed'
  <2> SUFFICES ASSUME NEW t \in Tokens
               PROVE  /\ t \in spent' => claims[t] = 1
                      /\ t \notin spent' => claims[t] = 0 \/ (claims[t] = 1 /\ Dead(t)')
                      /\ claims[t] > 0 => t \in signed'
    BY DEF Claimed
  <2>1. claims[t] = 1 => t \in signed /\ t[1] <= made
    BY <1>1 DEF Claimed, Numbered
  <2>2. CASE kid' = kid /\ closes' = closes /\ spent' = spent
    <3>1. Dead(t) => Dead(t)'
      BY <2>2 DEF Dead
    <3> QED
      BY <1>1, <1>4, <2>2, <3>1 DEF Claimed
  <2>3. CASE kid' = made + 1 /\ spent' = {}
    <3>1. claims[t] = 1 => t[1] # kid'
      BY <1>3, <1>7, <2>1, <2>3
    <3>2. claims[t] = 1 => Dead(t)'
      BY <3>1 DEF Dead
    <3> QED
      BY <1>1, <1>4, <2>3, <3>2 DEF Claimed
  <2> QED
    BY <1>2, <2>2, <2>3
<1>11. Forwarded'
  BY <1>1, <1>3, <1>5 DEF Forwarded
<1>12. ForwardsCounted'
  BY <1>1 DEF ForwardsCounted
<1>13. Supplied'
  <2>1. CASE kid' = kid /\ closes' = closes /\ spent' = spent
    <3>1. Live' \subseteq Live \cup new
      BY <1>4, <2>1 DEF Live
    <3>2. Live \subseteq Tokens
      BY <1>1 DEF Live, TypeOK
    <3>3. IsFiniteSet(Live) /\ Cardinality(Live) \in Nat /\ Cardinality(Live \cap new) \in Nat
      BY <3>2, Finite
    <3>4. IsFiniteSet(Live \cup new) /\ Cardinality(Live \cup new)
            = Cardinality(Live) + Cardinality(new) - Cardinality(Live \cap new)
      BY <1>5, <3>3, FS_Union
    <3>5. IsFiniteSet(Live') /\ Cardinality(Live') <= Cardinality(Live \cup new)
      BY <3>1, <3>4, FS_Subset
    <3>6. Cardinality(Live') \in Nat
      BY <3>5, FS_CardinalityType
    <3>7. Cardinality(Live) <= issued
      BY <1>1, <1>2, <2>1 DEF Supplied
    <3> QED
      BY <1>3, <1>5, <3>3, <3>4, <3>5, <3>6, <3>7 DEF Supplied
  <2>2. CASE kid' = made + 1
    <3>1. \A t \in signed : t[1] # kid'
      BY <1>1, <1>3, <1>7, <2>2 DEF Numbered, TypeOK
    <3>2. Live' \subseteq new
      BY <1>4, <3>1 DEF Live
    <3>3. IsFiniteSet(Live') /\ Cardinality(Live') <= Cardinality(new)
      BY <1>5, <3>2, FS_Subset
    <3>4. Cardinality(Live') \in Nat
      BY <3>3, FS_CardinalityType
    <3> QED
      BY <1>3, <1>5, <3>3, <3>4 DEF Supplied
  <2> QED
    BY <1>2, <2>1, <2>2
<1> QED
  BY <1>6, <1>8, <1>9, <1>10, <1>11, <1>12, <1>13

(* The keyset is kept; fresh tokens are burned, and no more new ones signed. *)
LEMMA Burned ==
  ASSUME IssuerInv, exists, exists',
         NEW toks \in SUBSET Secrets, NEW outs \in SUBSET Secrets,
         Cardinality(outs) <= Cardinality(toks), outs # {} => toks # {},
         \A s \in toks : Fresh(s),
         kid' = kid, closes' = closes, made' = made, now' = now, issued' = issued,
         forwards' = forwards,
         spent' = spent \cup {<<kid, s>> : s \in toks}, Claim({<<kid, s>> : s \in toks}),
         signed' = signed \cup {<<kid, s>> : s \in outs}
  PROVE  /\ signed' \subseteq Tokens /\ spent' \subseteq Tokens /\ claims' \in [Tokens -> 0..2]
         /\ Numbered' /\ SpentLive' /\ Claimed' /\ Forwarded' /\ Supplied'
<1> DEFINE old == {<<kid, s>> : s \in toks}
           new == {<<kid, s>> : s \in outs}
<1>1. TypeOK /\ Numbered /\ SpentLive /\ Claimed /\ Forwarded /\ Supplied
  BY DEF IssuerInv
<1>2. \A t \in old : /\ t \in Tokens /\ t \in signed /\ t \notin spent
                     /\ claims[t] = 0 /\ t[1] = kid
  BY <1>1, FreshToken
<1>3. kid \in Kids /\ issued \in Nat /\ kid <= made
  BY <1>1 DEF TypeOK, Numbered
<1>4. new \subseteq Tokens /\ old \subseteq Tokens
  BY <1>3 DEF Tokens
<1>5. signed' \subseteq Tokens /\ spent' \subseteq Tokens
  BY <1>1, <1>4 DEF TypeOK
<1>6. claims \in [Tokens -> 0..2]
  BY <1>1 DEF TypeOK
<1>7. \A t \in Tokens : claims'[t] = IF t \in old THEN 1 ELSE claims[t]
  BY <1>2, <1>6 DEF Claim
<1>8. claims' \in [Tokens -> 0..2]
  BY <1>6, <1>7 DEF Claim
<1>9. Numbered'
  BY <1>1, <1>3 DEF Numbered
<1>10. toks # {} => issued > 0
  BY <1>1, FreshToken
<1>11. SpentLive'
  <2>1. spent' \subseteq signed'
    BY <1>1, <1>2 DEF SpentLive
  <2>2. \A t \in spent' : t[1] = kid'
    BY <1>1, <1>2 DEF SpentLive
  <2>3. ASSUME issued' = 0, NEW t \in signed' PROVE t[1] # kid'
    <3>1. toks = {} /\ outs = {}
      BY <1>10, <2>3
    <3> QED
      BY <1>1, <2>3, <3>1 DEF SpentLive
  <2> QED
    BY <2>1, <2>2, <2>3 DEF SpentLive
<1>12. Claimed'
  <2> SUFFICES ASSUME NEW t \in Tokens
               PROVE  /\ t \in spent' => claims'[t] = 1
                      /\ t \notin spent' => claims'[t] = 0 \/ (claims'[t] = 1 /\ Dead(t)')
                      /\ claims'[t] > 0 => t \in signed'
    BY DEF Claimed
  <2>1. CASE t \in old
    BY <1>2, <1>7, <2>1
  <2>2. CASE t \notin old
    <3>1. claims'[t] = claims[t] /\ (t \in spent' <=> t \in spent)
      BY <1>7, <2>2
    <3>2. Dead(t) => Dead(t)'
      BY DEF Dead
    <3> QED
      BY <1>1, <3>1, <3>2 DEF Claimed
  <2> QED
    BY <2>1, <2>2
<1>13. Forwarded'
  <2> SUFFICES ASSUME NEW f \in Slots, forwards[f] # None
               PROVE  /\ exists' /\ issued > 0
                      /\ forwards[f].burned => claims'[forwards[f].token] = 1
                      /\ \A g \in Slots \ {f} : forwards[g] # None =>
                           ~(forwards[f].burned /\ forwards[g].burned
                             /\ forwards[f].token = forwards[g].token)
    BY DEF Forwarded
  <2>1. forwards[f].token \in Tokens
    BY <1>1 DEF TypeOK, Forward
  <2>2. forwards[f].burned => claims'[forwards[f].token] = 1
    BY <1>1, <1>7, <2>1 DEF Forwarded
  <2> QED
    BY <1>1, <2>2 DEF Forwarded
<1>14. Supplied'
  <2> SUFFICES ASSUME closes = None \/ closes > now
               PROVE  Cardinality(Live') <= issued
    BY DEF Supplied
  <2>1. old \subseteq Live
    BY <1>2 DEF Live
  <2>2. \A t \in old : \A f \in Slots : forwards[f] = [token |-> t, burned |-> TRUE] => forwards[f] = None
    BY <1>1, <1>2 DEF Forwarded
  <2>3. Live' \subseteq (Live \ old) \cup new
    BY <2>2 DEF Live
  <2>4. Live \in SUBSET Tokens /\ Live \ old \in SUBSET Tokens /\ Live' \in SUBSET Tokens
    BY <1>1, <1>5 DEF Live, TypeOK
  <2>5. /\ IsFiniteSet(Live) /\ IsFiniteSet(Live \ old) /\ IsFiniteSet(new)
        /\ Cardinality(Live) \in Nat /\ Cardinality(Live \ old) \in Nat
        /\ Cardinality(Live') \in Nat /\ Cardinality((Live \ old) \cap new) \in Nat
    BY <1>4, <2>4, Finite
  <2>6. /\ Cardinality(old) = Cardinality(toks) /\ Cardinality(toks) \in Nat
        /\ Cardinality(new) = Cardinality(outs) /\ Cardinality(outs) \in Nat
    BY Finite, TokensOfSecrets
  <2>7. Live \cap old = old
    BY <2>1
  <2>8. Cardinality(Live \ old) = Cardinality(Live) - Cardinality(old)
    BY <2>5, <2>7, FS_Difference
  <2>9. /\ IsFiniteSet((Live \ old) \cup new)
        /\ Cardinality((Live \ old) \cup new)
             = Cardinality(Live \ old) + Cardinality(new) - Cardinality((Live \ old) \cap new)
    BY <2>5, FS_Union
  <2>10. Cardinality(Live') <= Cardinality((Live \ old) \cup new)
    BY <2>3, <2>9, FS_Subset
  <2>11. Cardinality(Live) <= issued
    BY <1>1 DEF Supplied
  <2> QED
    BY <1>3, <2>5, <2>6, <2>8, <2>9, <2>10, <2>11
<1> QED
  BY <1>5, <1>8, <1>9, <1>11, <1>12, <1>13, <1>14

(* The counts stay right where nobody is issued anything and time stands still. *)
LEMMA QuotasStay ==
  ASSUME Quotas, exists' => exists /\ set' = set,
         now' = now, used' = used, counted' = counted
  PROVE  Quotas'
BY DEF Quotas, UsedNow

(* The window of the service is one that Rotation speaks of. *)
LEMMA ItsWindow ==
  ASSUME TypeOK, exists
  PROVE  set \in Setting /\ set.window \in Windows
BY IssuerAssumption DEF TypeOK, Setting, Windows

-----------------------------------------------------------------------------
(* Each action preserves IssuerInv. *)

LEMMA TouchStep ==
  ASSUME IssuerInv, Touch
  PROVE  IssuerInv'
<1>1. TypeOK /\ Numbered /\ SpentLive /\ Quotas
  BY DEF IssuerInv
<1>2. exists /\ exists' /\ set.window \in Windows
  BY <1>1, ItsWindow DEF Touch, Usable
<1>3. Cardinality({}) = 0 /\ {} \in SUBSET Secrets
  BY FS_EmptySet
<1>4. issued' = issued + Cardinality({})
      /\ signed' = signed \cup {<<Kid(set.window), s>> : s \in {}}
  BY <1>1, <1>3 DEF Touch, history, TypeOK
<1>5. Rotate(set.window) /\ spent' = Spent(set.window)
      /\ UNCHANGED <<now, active, set, redeemed, used, forwards, claims, counted>>
  BY DEF Touch, history
<1>6. /\ signed' \subseteq Tokens /\ spent' \subseteq Tokens /\ issued' \in Nat
      /\ Numbered' /\ SpentLive' /\ Claimed' /\ Forwarded' /\ ForwardsCounted' /\ Supplied'
  BY <1>2, <1>3, <1>4, <1>5, Minted
<1>7. made' \in made..MaxKeysets /\ kid' \in Kids /\ closes' \in Nat \cup {None}
  BY <1>1, <1>2, <1>5, Rotation
<1>8. TypeOK'
  BY <1>1, <1>2, <1>5, <1>6, <1>7 DEF TypeOK
<1>9. Quotas'
  BY <1>1, <1>2, <1>5, QuotasStay
<1> QED
  BY <1>6, <1>8, <1>9 DEF IssuerInv

LEMMA RequestStep ==
  ASSUME IssuerInv, NEW who \in Who \cup {Owner}, NEW outs \in SUBSET Secrets,
         Request(who, outs)
  PROVE  IssuerInv'
<1> DEFINE n == Cardinality(outs)
<1>1. TypeOK /\ Numbered /\ SpentLive /\ Quotas
  BY DEF IssuerInv
<1>2. exists /\ exists' /\ set \in Setting /\ set.window \in Windows
  BY <1>1, ItsWindow DEF Request, Usable
<1>3. Rotate(set.window) /\ spent' = Spent(set.window)
      /\ UNCHANGED <<now, active, set, redeemed, forwards, claims>>
  BY DEF Request
<1>4. issued' = issued + n /\ signed' = signed \cup {<<Kid(set.window), s>> : s \in outs}
  BY DEF Request, Issue, Token
<1>5. /\ signed' \subseteq Tokens /\ spent' \subseteq Tokens /\ issued' \in Nat
      /\ Numbered' /\ SpentLive' /\ Claimed' /\ Forwarded' /\ ForwardsCounted' /\ Supplied'
  BY <1>2, <1>3, <1>4, Minted
<1>6. made' \in made..MaxKeysets /\ kid' \in Kids /\ closes' \in Nat \cup {None}
  BY <1>1, <1>2, <1>3, Rotation
<1>7. n \in Nat
  BY Finite
<1>8. used \in [Who -> Usage] /\ counted \in [Who -> Nat] /\ now \in Nat
  BY <1>1 DEF TypeOK
<1>9. set.quota # None => /\ set.quota.n \in Nat /\ set.quota.per \in Nat \ {0}
                          /\ now \div set.quota.per \in Nat
                          /\ \A w \in Who : UsedNow(w) \in Nat
  <2> SUFFICES ASSUME set.quota # None
               PROVE  /\ set.quota.n \in Nat /\ set.quota.per \in Nat \ {0}
                      /\ now \div set.quota.per \in Nat
                      /\ \A w \in Who : UsedNow(w) \in Nat
    OBVIOUS
  <2>1. set.quota.n \in Nat /\ set.quota.per \in Nat \ {0}
    BY <1>2 DEF Setting, Quota
  <2>2. now \div set.quota.per \in Nat
    BY <1>8, <2>1
  <2> QED
    BY <1>8, <2>1, <2>2 DEF UsedNow, Usage
<1>10. used' \in [Who -> Usage]
  BY <1>7, <1>8, <1>9 DEF Request, Issue, AddUse, Usage
<1>11. counted' \in [Who -> Nat]
  BY <1>7, <1>8 DEF Request
<1>12. TypeOK'
  BY <1>1, <1>2, <1>3, <1>5, <1>6, <1>10, <1>11 DEF TypeOK
<1>13. Quotas'
  <2> SUFFICES ASSUME set.quota # None, NEW w \in Who
               PROVE  counted'[w] <= UsedNow(w)' /\ counted'[w] <= set.quota.n
    BY <1>3 DEF Quotas
  <2>1. counted[w] <= UsedNow(w) /\ counted[w] <= set.quota.n
    BY <1>1, <1>2 DEF Quotas
  <2>2. CASE who = w
    <3>1. who # Owner
      BY <2>2, IssuerAssumption
    <3>2. used'[w] = [win |-> now \div set.quota.per, n |-> UsedNow(w) + n]
      BY <1>8, <2>2, <3>1 DEF Request, Issue, AddUse
    <3>3. UsedNow(w)' = UsedNow(w) + n
      BY <1>3, <3>2 DEF UsedNow
    <3>4. counted'[w] = counted[w] + n
      BY <1>8, <2>2, <3>1 DEF Request
    <3>5. UsedNow(w) + n <= set.quota.n
      BY <2>2, <3>1 DEF Request, Issue, QuotaOk
    <3> QED
      BY <1>7, <1>8, <1>9, <2>1, <3>3, <3>4, <3>5
  <2>3. CASE who # w
    <3>1. used'[w] = used[w] /\ counted'[w] = counted[w]
      BY <1>8, <2>3 DEF Request, Issue, AddUse
    <3>2. UsedNow(w)' = UsedNow(w)
      BY <1>3, <3>1 DEF UsedNow
    <3> QED
      BY <2>1, <3>1, <3>2
  <2> QED
    BY <2>2, <2>3
<1> QED
  BY <1>5, <1>12, <1>13 DEF IssuerInv

(* judge burns a fresh token in burn mode, and nothing in check mode. *)
LEMMA Judged ==
  ASSUME IssuerInv, exists, exists', NEW s \in Secrets,
         Rotate(set.window), Judge(s), now' = now, issued' = issued, signed' = signed
  PROVE  /\ kid' = kid /\ closes' = closes /\ made' = made
         /\ redeemed \in Nat /\ redeemed' = redeemed + 1
         /\ Token(s) = <<kid, s>> /\ Token(s) \in Tokens
         /\ Token(s) \in signed /\ Token(s) \notin spent /\ claims[Token(s)] = 0
         /\ issued > 0 /\ (closes = None \/ closes > now)
         /\ IF set.mode = "burn"
            THEN spent' = spent \cup {Token(s)} /\ Claim({Token(s)})
            ELSE spent' = spent /\ claims' = claims
<1>1. TypeOK /\ Numbered /\ SpentLive /\ Claimed
  BY DEF IssuerInv
<1>2. /\ Token(s) = <<kid, s>> /\ Token(s) \in Tokens
      /\ Closing(set.window) = closes /\ (closes = None \/ closes > now)
      /\ Token(s) \in signed /\ Token(s) \notin spent /\ claims[Token(s)] = 0
      /\ issued > 0
  BY <1>1, FreshToken DEF Judge
<1>3. kid' = kid /\ closes' = closes /\ made' = made /\ Spent(set.window) = spent
  BY <1>2 DEF Rotate, Kid, Spent
<1> QED
  BY <1>1, <1>2, <1>3 DEF Judge, TypeOK

LEMMA UseStep ==
  ASSUME IssuerInv, NEW s \in Secrets, Use(s)
  PROVE  IssuerInv'
<1>1. TypeOK /\ Numbered /\ SpentLive /\ Claimed /\ Forwarded /\ ForwardsCounted
      /\ Supplied /\ Quotas
  BY DEF IssuerInv
<1>2. exists /\ exists' /\ Rotate(set.window) /\ Judge(s)
      /\ UNCHANGED <<now, active, set, issued, used, forwards, signed, counted>>
  BY DEF Use, Usable
<1>3. /\ kid' = kid /\ closes' = closes /\ made' = made
      /\ redeemed \in Nat /\ redeemed' = redeemed + 1
      /\ Token(s) = <<kid, s>>
      /\ IF set.mode = "burn"
         THEN spent' = spent \cup {Token(s)} /\ Claim({Token(s)})
         ELSE spent' = spent /\ claims' = claims
  BY <1>2, Judged
<1>4. /\ signed' \subseteq Tokens /\ spent' \subseteq Tokens /\ claims' \in [Tokens -> 0..2]
      /\ Numbered' /\ SpentLive' /\ Claimed' /\ Forwarded' /\ Supplied'
  <2>1. CASE set.mode = "burn"
    <3>1. {<<kid, x>> : x \in {s}} = {Token(s)} /\ signed' = signed \cup {<<kid, x>> : x \in {}}
      BY <1>2, <1>3
    <3>2. {s} \in SUBSET Secrets /\ {} \in SUBSET Secrets /\ \A x \in {s} : Fresh(x)
      BY <1>2 DEF Judge
    <3>3. Cardinality({}) <= Cardinality({s})
      BY FS_EmptySet, FS_Singleton
    <3> QED
      BY <1>2, <1>3, <2>1, <3>1, <3>2, <3>3, Burned
  <2>2. CASE set.mode # "burn"
    <3>1. UNCHANGED <<kid, closes, made, spent, claims>>
      BY <1>3, <2>2
    <3>2. Live' = Live
      BY <1>2, <3>1 DEF Live
    <3> QED
      BY <1>1, <1>2, <3>1, <3>2
         DEF TypeOK, Numbered, SpentLive, Claimed, Dead, Forwarded, Supplied
  <2> QED
    BY <2>1, <2>2
<1>5. TypeOK'
  BY <1>1, <1>2, <1>3, <1>4 DEF TypeOK
<1>6. ForwardsCounted'
  <2>1. {f \in Slots : forwards[f] # None} \in SUBSET Slots
    OBVIOUS
  <2>2. Cardinality({f \in Slots : forwards[f] # None}) \in Nat
    BY <2>1, FS_Subset, FS_CardinalityType, IssuerAssumption
  <2> QED
    BY <1>1, <1>2, <1>3, <2>2 DEF ForwardsCounted
<1>7. Quotas'
  BY <1>1, <1>2, QuotasStay
<1> QED
  BY <1>4, <1>5, <1>6, <1>7 DEF IssuerInv

LEMMA PresentStep ==
  ASSUME IssuerInv, NEW s \in Secrets, NEW f \in Slots, Present(s, f)
  PROVE  IssuerInv'
<1> DEFINE t == Token(s)
           burn == set.mode = "burn"
           fwd == [token |-> t, burned |-> burn]
<1>1. TypeOK /\ Numbered /\ SpentLive /\ Claimed /\ Forwarded /\ ForwardsCounted
      /\ Supplied /\ Quotas
  BY DEF IssuerInv
<1>2. exists /\ exists' /\ Rotate(set.window) /\ Judge(s) /\ forwards[f] = None
      /\ UNCHANGED <<now, active, set, issued, used, signed, counted>>
  BY DEF Present, Usable
<1>3. /\ kid' = kid /\ closes' = closes /\ made' = made
      /\ redeemed \in Nat /\ redeemed' = redeemed + 1
      /\ t = <<kid, s>> /\ t \in Tokens /\ t[1] = kid
      /\ t \in signed /\ t \notin spent /\ claims[t] = 0
      /\ issued > 0 /\ (closes = None \/ closes > now)
      /\ IF burn THEN spent' = spent \cup {t} /\ Claim({t})
                 ELSE spent' = spent /\ claims' = claims
  BY <1>2, Judged
<1>4. fwd \in Forward /\ fwd # None /\ fwd.token = t /\ (fwd.burned <=> burn)
  <2>1. burn => fwd = [token |-> t, burned |-> TRUE]
    OBVIOUS
  <2>2. ~burn => fwd = [token |-> t, burned |-> FALSE]
    OBVIOUS
  <2>3. t \in Tokens
    BY <1>3
  <2> HIDE DEF fwd, t, burn
  <2>4. fwd \in Forward
    <3>1. [token |-> t, burned |-> TRUE] \in Forward /\ [token |-> t, burned |-> FALSE] \in Forward
      BY <2>3 DEF Forward
    <3> QED
      BY <2>1, <2>2, <3>1
  <2>5. fwd.token = t
    BY <2>1, <2>2
  <2>6. burn => fwd.burned
    BY <2>1
  <2>7. ~burn => ~fwd.burned
    BY <2>2
  <2> QED
    BY <2>4, <2>5, <2>6, <2>7, IssuerAssumption
<1>5. forwards' = [forwards EXCEPT ![f] = fwd]
  BY DEF Present
<1>6. forwards'[f] = fwd /\ \A g \in Slots \ {f} : forwards'[g] = forwards[g]
  BY <1>1, <1>5 DEF TypeOK
<1>7. /\ claims' \in [Tokens -> 0..2]
      /\ \A u \in Tokens : claims'[u] = IF u = t /\ burn THEN 1 ELSE claims[u]
  BY <1>1, <1>3 DEF TypeOK, Claim
<1>8. spent' = spent \cup (IF burn THEN {t} ELSE {})
  BY <1>3
<1>9. TypeOK'
  <2>1. forwards' \in [Slots -> Forward \cup {None}]
    BY <1>1, <1>4, <1>5 DEF TypeOK
  <2>2. spent' \subseteq Tokens
    BY <1>1, <1>3, <1>8 DEF TypeOK
  <2> QED
    BY <1>1, <1>2, <1>3, <1>7, <2>1, <2>2 DEF TypeOK
<1>10. Numbered'
  BY <1>1, <1>2, <1>3 DEF Numbered
<1>11. SpentLive'
  BY <1>1, <1>2, <1>3, <1>8 DEF SpentLive
<1>12. Claimed'
  <2> SUFFICES ASSUME NEW u \in Tokens
               PROVE  /\ u \in spent' => claims'[u] = 1
                      /\ u \notin spent' => claims'[u] = 0 \/ (claims'[u] = 1 /\ Dead(u)')
                      /\ claims'[u] > 0 => u \in signed'
    BY DEF Claimed
  <2>1. CASE u = t /\ burn
    BY <1>2, <1>3, <1>7, <1>8, <2>1
  <2>2. CASE ~(u = t /\ burn)
    <3>1. claims'[u] = claims[u] /\ (u \in spent' <=> u \in spent)
      BY <1>7, <1>8, <2>2
    <3>2. Dead(u) => Dead(u)'
      BY <1>2, <1>3 DEF Dead
    <3> QED
      BY <1>1, <1>2, <3>1, <3>2 DEF Claimed
  <2> QED
    BY <2>1, <2>2
<1>13. \A g \in Slots \ {f} : forwards[g] # None /\ forwards[g].burned =>
         forwards[g].token \in Tokens /\ forwards[g].token # t
  BY <1>1, <1>3 DEF Forwarded, TypeOK, Forward
<1>14. Forwarded'
  <2> SUFFICES ASSUME NEW g \in Slots, forwards'[g] # None
               PROVE  /\ issued > 0
                      /\ forwards'[g].burned => claims'[forwards'[g].token] = 1
                      /\ \A h \in Slots \ {g} : forwards'[h] # None =>
                           ~(forwards'[g].burned /\ forwards'[h].burned
                             /\ forwards'[g].token = forwards'[h].token)
    BY <1>2 DEF Forwarded
  <2>1. CASE g = f
    <3>1. forwards'[g].token = t /\ (forwards'[g].burned <=> burn)
      BY <1>4, <1>6, <2>1
    <3>2. \A h \in Slots \ {f} : forwards'[h] = forwards[h]
      BY <1>6
    <3> QED
      BY <1>3, <1>7, <1>13, <2>1, <3>1, <3>2
  <2>2. CASE g # f
    <3>1. forwards'[g] = forwards[g] /\ forwards[g] # None
      BY <1>6, <2>2
    <3>2. forwards[g].burned => claims'[forwards[g].token] = 1
      BY <1>1, <1>7, <1>13, <2>2, <3>1 DEF Forwarded
    <3>3. ASSUME NEW h \in Slots \ {g}, forwards'[h] # None
          PROVE  ~(forwards[g].burned /\ forwards'[h].burned
                   /\ forwards[g].token = forwards'[h].token)
      <4>1. CASE h = f
        BY <1>4, <1>6, <1>13, <2>2, <3>1, <4>1
      <4>2. CASE h # f
        BY <1>1, <1>6, <3>1, <3>3, <4>2 DEF Forwarded
      <4> QED
        BY <4>1, <4>2
    <3> QED
      BY <1>3, <3>1, <3>2, <3>3
  <2> QED
    BY <2>1, <2>2
<1>15. ForwardsCounted'
  <2> DEFINE out == {g \in Slots : forwards[g] # None}
             new == {g \in Slots : forwards'[g] # None}
  <2>1. new = out \cup {f} /\ f \notin out
    BY <1>2, <1>4, <1>6
  <2>2. IsFiniteSet(out) /\ Cardinality(out) \in Nat
    BY FS_Subset, FS_CardinalityType, IssuerAssumption
  <2>3. Cardinality(new) = Cardinality(out) + 1
    BY <2>1, <2>2, FS_AddElement
  <2>4. Cardinality(out) <= redeemed
    <3>1. out # {} => Cardinality(out) <= redeemed
      BY <1>1 DEF ForwardsCounted
    <3>2. Cardinality({}) = 0
      BY FS_EmptySet
    <3>3. redeemed \in Nat
      BY <1>3
    <3> HIDE DEF out
    <3> QED
      BY <3>1, <3>2, <3>3
  <2>5. Cardinality(new) <= redeemed'
    BY <1>3, <2>2, <2>3, <2>4
  <2> QED
    BY <1>2, <2>5 DEF ForwardsCounted
<1>16. Supplied'
  <2>1. Live' \subseteq Live
    <3> SUFFICES ASSUME NEW u \in Live' PROVE u \in Live
      OBVIOUS
    <3>1. u \in signed /\ u[1] = kid
      BY <1>2, <1>3 DEF Live
    <3>2. CASE u = t
      BY <1>3, <3>1, <3>2 DEF Live
    <3>3. CASE u # t
      <4>1. u \notin spent' => u \notin spent
        BY <1>8
      <4>2. ASSUME NEW g \in Slots, forwards'[g] # None, forwards'[g] = [token |-> u, burned |-> TRUE]
            PROVE  forwards[g] # None /\ forwards[g] = [token |-> u, burned |-> TRUE]
        BY <1>6, <3>3, <4>2
      <4> QED
        BY <3>1, <4>1, <4>2 DEF Live
    <3> QED
      BY <3>2, <3>3
  <2>2. Live \in SUBSET Tokens
    BY <1>1 DEF Live, TypeOK
  <2>3. IsFiniteSet(Live) /\ Cardinality(Live) \in Nat
    BY <2>2, Finite
  <2>4. IsFiniteSet(Live') /\ Cardinality(Live') <= Cardinality(Live)
    BY <2>1, <2>3, FS_Subset
  <2>5. Cardinality(Live') \in Nat
    BY <2>4, FS_CardinalityType
  <2>6. issued \in Nat /\ Cardinality(Live) <= issued
    BY <1>1, <1>2, <1>3 DEF Supplied, TypeOK
  <2> QED
    BY <1>2, <2>3, <2>4, <2>5, <2>6 DEF Supplied
<1>17. Quotas'
  BY <1>1, <1>2, QuotasStay
<1> QED
  BY <1>9, <1>10, <1>11, <1>12, <1>14, <1>15, <1>16, <1>17 DEF IssuerInv

LEMMA RefreshStep ==
  ASSUME IssuerInv, NEW toks \in SUBSET Secrets, NEW outs \in SUBSET Secrets,
         Refresh(toks, outs)
  PROVE  IssuerInv'
<1>1. TypeOK /\ Numbered /\ SpentLive /\ Claimed /\ ForwardsCounted /\ Quotas
  BY DEF IssuerInv
<1>2. exists /\ exists' /\ Rotate(set.window)
      /\ UNCHANGED <<now, active, set, issued, redeemed, used, forwards, counted>>
  BY DEF Refresh, Usable
<1>3. toks # {} /\ (\A s \in toks : Fresh(s)) /\ Cardinality(toks) = Cardinality(outs)
  BY DEF Refresh, Renew, Renewable
<1>4. Closing(set.window) = closes
  BY <1>1, <1>2, <1>3, FreshToken
<1>5. /\ kid' = kid /\ closes' = closes /\ made' = made
      /\ Kid(set.window) = kid /\ Spent(set.window) = spent
  BY <1>2, <1>4 DEF Rotate, Kid, Spent
<1>6. /\ spent' = spent \cup {<<kid, s>> : s \in toks} /\ Claim({<<kid, s>> : s \in toks})
      /\ signed' = signed \cup {<<kid, s>> : s \in outs}
  BY <1>5 DEF Refresh, Renew, Token
<1>7. Cardinality(outs) <= Cardinality(toks)
  BY <1>3, Finite
<1>8. /\ signed' \subseteq Tokens /\ spent' \subseteq Tokens /\ claims' \in [Tokens -> 0..2]
      /\ Numbered' /\ SpentLive' /\ Claimed' /\ Forwarded' /\ Supplied'
  BY <1>2, <1>3, <1>5, <1>6, <1>7, Burned
<1>9. TypeOK'
  BY <1>1, <1>2, <1>5, <1>8 DEF TypeOK
<1>10. ForwardsCounted'
  BY <1>1, <1>2 DEF ForwardsCounted
<1>11. Quotas'
  BY <1>1, <1>2, QuotasStay
<1> QED
  BY <1>8, <1>9, <1>10, <1>11 DEF IssuerInv

LEMMA ForwardAckedStep ==
  ASSUME IssuerInv, NEW f \in Slots, ForwardAcked(f)
  PROVE  IssuerInv'
<1>1. TypeOK /\ Numbered /\ SpentLive /\ Claimed /\ Forwarded /\ ForwardsCounted
      /\ Supplied /\ Quotas
  BY DEF IssuerInv
<1>2. /\ UNCHANGED <<now, made, exists, active, set, kid, closes, issued, redeemed>>
      /\ UNCHANGED <<spent, used, signed, claims, counted>>
  BY DEF ForwardAcked, service, history
<1>3. forwards' = [forwards EXCEPT ![f] = None]
  BY DEF ForwardAcked
<1>4. forwards'[f] = None /\ \A g \in Slots \ {f} : forwards'[g] = forwards[g]
  BY <1>1, <1>3 DEF TypeOK
<1>5. TypeOK'
  BY <1>1, <1>2, <1>3 DEF TypeOK
<1>6. Numbered' /\ SpentLive' /\ Claimed'
  BY <1>1, <1>2 DEF Numbered, SpentLive, Claimed, Dead
<1>7. Forwarded'
  BY <1>1, <1>2, <1>4 DEF Forwarded
<1>8. ForwardsCounted'
  <2> DEFINE out == {g \in Slots : forwards[g] # None}
             new == {g \in Slots : forwards'[g] # None}
  <2>1. new \subseteq out
    BY <1>4
  <2>2. IsFiniteSet(out) /\ Cardinality(out) \in Nat /\ Cardinality(new) \in Nat
    BY FS_Subset, FS_CardinalityType, IssuerAssumption
  <2>3. Cardinality(new) <= Cardinality(out)
    BY <2>1, <2>2, FS_Subset
  <2>4. out # {} => exists /\ Cardinality(out) <= redeemed
    BY <1>1 DEF ForwardsCounted
  <2>5. redeemed \in Nat
    BY <1>1 DEF TypeOK
  <2>6. new # {} => exists' /\ Cardinality(new) <= redeemed'
    BY <1>2, <2>1, <2>2, <2>3, <2>4, <2>5
  <2> QED
    BY <2>6 DEF ForwardsCounted
<1>9. Supplied'
  <2>1. Live' \subseteq Live
    BY <1>2, <1>4 DEF Live
  <2>2. Live \in SUBSET Tokens
    BY <1>1 DEF Live, TypeOK
  <2>3. IsFiniteSet(Live) /\ Cardinality(Live) \in Nat
    BY <2>2, Finite
  <2>4. IsFiniteSet(Live') /\ Cardinality(Live') <= Cardinality(Live)
    BY <2>1, <2>3, FS_Subset
  <2>5. Cardinality(Live') \in Nat /\ issued \in Nat
    BY <1>1, <2>4, FS_CardinalityType DEF TypeOK
  <2> QED
    BY <1>1, <1>2, <2>3, <2>4, <2>5 DEF Supplied
<1>10. Quotas'
  BY <1>1, <1>2, QuotasStay
<1> QED
  BY <1>5, <1>6, <1>7, <1>8, <1>9, <1>10 DEF IssuerInv

LEMMA ForwardRefusedStep ==
  ASSUME IssuerInv, NEW f \in Slots, ForwardRefused(f)
  PROVE  IssuerInv'
<1> DEFINE t == forwards[f].token
<1>1. TypeOK /\ Numbered /\ SpentLive /\ Claimed /\ Forwarded /\ ForwardsCounted
      /\ Supplied /\ Quotas
  BY DEF IssuerInv
<1>2. forwards[f] # None
      /\ UNCHANGED <<now, made, exists, active, set, kid, closes, issued, used, signed, counted>>
  BY DEF ForwardRefused
<1>3. exists /\ redeemed \in Nat /\ redeemed > 0 /\ redeemed' = redeemed - 1
  BY <1>1, <1>2 DEF ForwardRefused, Forwarded, TypeOK
<1>4. forwards' = [forwards EXCEPT ![f] = None]
  BY DEF ForwardRefused
<1>5. forwards'[f] = None /\ \A g \in Slots \ {f} : forwards'[g] = forwards[g]
  BY <1>1, <1>4 DEF TypeOK
<1>6. forwards[f] \in Forward /\ t \in Tokens
  BY <1>1, <1>2 DEF TypeOK, Forward
<1>7. spent' = IF forwards[f].burned THEN spent \ {t} ELSE spent
  BY DEF ForwardRefused, Returned
<1>8. claims \in [Tokens -> 0..2] /\ (forwards[f].burned => claims[t] = 1)
  BY <1>1, <1>2 DEF TypeOK, Forwarded
<1>9. claims' = [u \in Tokens |-> IF u = t /\ forwards[f].burned THEN claims[u] - 1 ELSE claims[u]]
  BY DEF ForwardRefused
<1>10. \A u \in Tokens : claims'[u] = IF u = t /\ forwards[f].burned THEN 0 ELSE claims[u]
  BY <1>8, <1>9
<1>11. claims' \in [Tokens -> 0..2]
  BY <1>8, <1>9
<1>12. TypeOK'
  BY <1>1, <1>2, <1>3, <1>4, <1>7, <1>11 DEF TypeOK
<1>13. Numbered' /\ SpentLive'
  BY <1>1, <1>2, <1>3, <1>7 DEF Numbered, SpentLive
<1>14. Claimed'
  <2> SUFFICES ASSUME NEW u \in Tokens
               PROVE  /\ u \in spent' => claims'[u] = 1
                      /\ u \notin spent' => claims'[u] = 0 \/ (claims'[u] = 1 /\ Dead(u)')
                      /\ claims'[u] > 0 => u \in signed'
    BY DEF Claimed
  <2>1. CASE u = t /\ forwards[f].burned
    BY <1>7, <1>10, <2>1
  <2>2. CASE ~(u = t /\ forwards[f].burned)
    <3>1. claims'[u] = claims[u] /\ (u \in spent' <=> u \in spent)
      BY <1>7, <1>10, <2>2
    <3>2. Dead(u) => Dead(u)'
      BY <1>2 DEF Dead
    <3> QED
      BY <1>1, <1>2, <3>1, <3>2 DEF Claimed
  <2> QED
    BY <2>1, <2>2
<1>15. \A g \in Slots \ {f} : forwards[g] # None =>
         /\ forwards[g] \in Forward /\ forwards[g].token \in Tokens
         /\ ~(forwards[g].burned /\ forwards[f].burned /\ forwards[g].token = t)
  BY <1>1, <1>2 DEF TypeOK, Forward, Forwarded
<1>16. Forwarded'
  <2> SUFFICES ASSUME NEW g \in Slots, forwards'[g] # None
               PROVE  /\ exists /\ issued > 0
                      /\ forwards'[g].burned => claims'[forwards'[g].token] = 1
                      /\ \A h \in Slots \ {g} : forwards'[h] # None =>
                           ~(forwards'[g].burned /\ forwards'[h].burned
                             /\ forwards'[g].token = forwards'[h].token)
    BY <1>2 DEF Forwarded
  <2>1. g # f /\ forwards'[g] = forwards[g]
    BY <1>5
  <2>2. forwards[g].burned => claims'[forwards[g].token] = 1
    BY <1>1, <1>10, <1>15, <2>1 DEF Forwarded
  <2>3. ASSUME NEW h \in Slots \ {g}, forwards'[h] # None
        PROVE  ~(forwards[g].burned /\ forwards[h].burned
                 /\ forwards[g].token = forwards[h].token) /\ forwards'[h] = forwards[h]
    BY <1>1, <1>5, <2>1, <2>3 DEF Forwarded
  <2> QED
    BY <1>1, <2>1, <2>2, <2>3 DEF Forwarded
<1>17. ForwardsCounted'
  <2> DEFINE out == {g \in Slots : forwards[g] # None}
             new == {g \in Slots : forwards'[g] # None}
  <2>1. new = out \ {f} /\ f \in out
    BY <1>2, <1>5
  <2>2. IsFiniteSet(out) /\ Cardinality(out) \in Nat
    BY FS_Subset, FS_CardinalityType, IssuerAssumption
  <2>3. Cardinality(new) = Cardinality(out) - 1
    BY <2>1, <2>2, FS_RemoveElement
  <2>4. Cardinality(out) <= redeemed
    BY <1>1, <2>1 DEF ForwardsCounted
  <2>5. Cardinality(new) <= redeemed'
    BY <1>3, <2>2, <2>3, <2>4
  <2> QED
    BY <1>2, <1>3, <2>5 DEF ForwardsCounted
<1>18. Supplied'
  <2>1. Live' \subseteq Live
    <3> SUFFICES ASSUME NEW u \in Live' PROVE u \in Live
      OBVIOUS
    <3>1. u \in signed /\ u[1] = kid
      BY <1>2 DEF Live
    <3>2. ASSUME u \notin spent', u \in spent
          PROVE  forwards[f] = [token |-> u, burned |-> TRUE]
      BY <1>6, <1>7, <3>2 DEF Forward
    <3>3. ASSUME NEW g \in Slots, forwards'[g] # None, forwards'[g] = [token |-> u, burned |-> TRUE]
          PROVE  forwards[g] # None /\ forwards[g] = [token |-> u, burned |-> TRUE]
      BY <1>5, <3>3
    <3> QED
      BY <1>2, <3>1, <3>2, <3>3 DEF Live
  <2>2. Live \in SUBSET Tokens
    BY <1>1 DEF Live, TypeOK
  <2>3. IsFiniteSet(Live) /\ Cardinality(Live) \in Nat
    BY <2>2, Finite
  <2>4. IsFiniteSet(Live') /\ Cardinality(Live') <= Cardinality(Live)
    BY <2>1, <2>3, FS_Subset
  <2>5. Cardinality(Live') \in Nat /\ issued \in Nat
    BY <1>1, <2>4, FS_CardinalityType DEF TypeOK
  <2> QED
    BY <1>1, <1>2, <2>3, <2>4, <2>5 DEF Supplied
<1>19. Quotas'
  BY <1>1, <1>2, QuotasStay
<1> QED
  BY <1>12, <1>13, <1>14, <1>16, <1>17, <1>18, <1>19 DEF IssuerInv

LEMMA PruneStep ==
  ASSUME IssuerInv, Prune
  PROVE  IssuerInv'
<1>1. TypeOK /\ Numbered /\ SpentLive /\ Claimed /\ Forwarded /\ ForwardsCounted
      /\ Supplied /\ Quotas
  BY DEF IssuerInv
<1>2. /\ UNCHANGED <<now, made, exists, active, set, kid, closes, issued, redeemed>>
      /\ UNCHANGED <<forwards, signed, claims, counted>>
  BY DEF Prune, service, history
<1>3. used' = [w \in Who |-> IF Counts(w) THEN used[w] ELSE NoUse]
  BY DEF Prune
<1>4. spent' = {t \in spent : Open(t[1])}
  BY DEF Prune
<1>5. TypeOK'
  <2>1. NoUse \in Usage
    BY DEF NoUse, Usage
  <2>2. used' \in [Who -> Usage]
    BY <1>1, <1>3, <2>1 DEF TypeOK
  <2> QED
    BY <1>1, <1>2, <1>4, <2>2 DEF TypeOK
<1>6. Numbered' /\ SpentLive'
  BY <1>1, <1>2, <1>4 DEF Numbered, SpentLive
<1>7. Claimed'
  <2> SUFFICES ASSUME NEW t \in Tokens
               PROVE  /\ t \in spent' => claims[t] = 1
                      /\ t \notin spent' => claims[t] = 0 \/ (claims[t] = 1 /\ Dead(t)')
                      /\ claims[t] > 0 => t \in signed
    BY <1>2 DEF Claimed
  <2>1. Dead(t)' <=> Dead(t)
    BY <1>2 DEF Dead
  <2>2. ASSUME t \in spent, t \notin spent' PROVE Dead(t)
    <3>1. ~Open(t[1])
      BY <1>4, <2>2
    <3>2. closes \in Nat \cup {None} /\ now \in Nat
      BY <1>1 DEF TypeOK
    <3> QED
      BY <3>1, <3>2 DEF Open, Dead
  <2> QED
    BY <1>1, <1>4, <2>1, <2>2 DEF Claimed
<1>8. Forwarded' /\ ForwardsCounted'
  BY <1>1, <1>2 DEF Forwarded, ForwardsCounted
<1>9. Supplied'
  <2> SUFFICES ASSUME exists, closes = None \/ closes > now
               PROVE  Cardinality(Live') <= issued
    BY <1>2 DEF Supplied
  <2>1. spent' = spent
    BY <1>1, <1>4 DEF Open, SpentLive
  <2>2. Live' = Live
    BY <1>2, <2>1 DEF Live
  <2> QED
    BY <1>1, <2>2 DEF Supplied
<1>10. Quotas'
  <2> SUFFICES ASSUME exists, set.quota # None, NEW w \in Who
               PROVE  counted[w] <= UsedNow(w)' /\ counted[w] <= set.quota.n
    BY <1>2 DEF Quotas
  <2>1. UsedNow(w)' = UsedNow(w)
    <3>1. CASE Counts(w)
      BY <1>2, <1>3, <3>1 DEF UsedNow
    <3>2. CASE ~Counts(w)
      BY <1>2, <1>3, <3>2 DEF UsedNow, Counts, NoUse
    <3> QED
      BY <3>1, <3>2
  <2> QED
    BY <1>1, <2>1 DEF Quotas
<1> QED
  BY <1>5, <1>6, <1>7, <1>8, <1>9, <1>10 DEF IssuerInv

LEMMA TickStep ==
  ASSUME IssuerInv, Tick
  PROVE  IssuerInv'
<1>1. TypeOK /\ Numbered /\ SpentLive /\ Claimed /\ Forwarded /\ ForwardsCounted
      /\ Supplied /\ Quotas
  BY DEF IssuerInv
<1>2. /\ UNCHANGED <<made, exists, active, set, kid, closes, issued, redeemed>>
      /\ UNCHANGED <<spent, used, forwards, signed, claims>>
  BY DEF Tick, service
<1>3. now \in Nat /\ now < MaxNow /\ MaxNow \in Nat /\ now' = now + 1
  BY <1>1, IssuerAssumption DEF Tick, TypeOK
<1>4. counted' = IF exists /\ set.quota # None /\ now' % set.quota.per = 0
                 THEN [w \in Who |-> 0] ELSE counted
  BY DEF Tick
<1>5. now' \in 0..MaxNow /\ counted' \in [Who -> Nat]
  BY <1>1, <1>3, <1>4 DEF TypeOK
<1>6. TypeOK'
  BY <1>1, <1>2, <1>5 DEF TypeOK
<1>7. Numbered' /\ SpentLive'
  BY <1>1, <1>2 DEF Numbered, SpentLive
<1>8. closes \in Nat \cup {None}
  BY <1>1 DEF TypeOK
<1>9. Claimed'
  <2>1. \A t \in Tokens : Dead(t) => Dead(t)'
    BY <1>2, <1>3, <1>8 DEF Dead
  <2> QED
    BY <1>1, <1>2, <2>1 DEF Claimed
<1>10. Forwarded' /\ ForwardsCounted'
  BY <1>1, <1>2 DEF Forwarded, ForwardsCounted
<1>11. Supplied'
  <2>1. Live' = Live
    BY <1>2 DEF Live
  <2>2. closes # None /\ closes > now' => closes > now
    BY <1>3, <1>8
  <2> QED
    BY <1>1, <1>2, <2>1, <2>2 DEF Supplied
<1>12. Quotas'
  <2> SUFFICES ASSUME exists, set.quota # None, NEW w \in Who
               PROVE  counted'[w] <= UsedNow(w)' /\ counted'[w] <= set.quota.n
    BY <1>2 DEF Quotas
  <2>1. set.quota.n \in Nat /\ set.quota.per \in Nat \ {0}
    BY <1>1, ItsWindow DEF Setting, Quota
  <2>2. used[w] \in Usage
    BY <1>1 DEF TypeOK
  <2>3. CASE now' % set.quota.per = 0
    <3>1. counted'[w] = 0
      BY <1>4, <2>3
    <3>2. UsedNow(w)' \in Nat
      BY <1>2, <2>2 DEF UsedNow, Usage
    <3> QED
      BY <2>1, <3>1, <3>2
  <2>4. CASE now' % set.quota.per # 0
    <3>1. now' \div set.quota.per = now \div set.quota.per
      BY <1>3, <2>1, <2>4, SamePeriod
    <3>2. UsedNow(w)' = UsedNow(w)
      BY <1>2, <3>1 DEF UsedNow
    <3>3. counted' = counted
      BY <1>4, <2>4
    <3> QED
      BY <1>1, <3>2, <3>3 DEF Quotas
  <2> QED
    BY <2>3, <2>4
<1> QED
  BY <1>6, <1>7, <1>9, <1>10, <1>11, <1>12 DEF IssuerInv

LEMMA AdminCreateStep ==
  ASSUME IssuerInv, NEW s \in Settings, AdminCreate(s)
  PROVE  IssuerInv'
<1>1. TypeOK /\ Numbered /\ SpentLive /\ Claimed /\ Forwarded /\ ForwardsCounted
  BY DEF IssuerInv
<1>2. /\ ~exists /\ exists' = TRUE /\ active' = TRUE /\ set' = s /\ kid' = made'
      /\ closes' = Closing(s.window)
      /\ issued' = 0 /\ redeemed' = 0 /\ counted' = [w \in Who |-> 0]
      /\ UNCHANGED <<now, spent, used, forwards, signed, claims>>
  BY DEF AdminCreate
<1>3. made' \in made + 1..MaxKeysets /\ made \in Nat
  BY <1>1, IssuerAssumption DEF AdminCreate, TypeOK
<1>4. kid' \in Kids
  BY <1>2, <1>3 DEF Kids
<1>5. s \in Setting /\ s.window \in Windows
  BY IssuerAssumption DEF Setting, Windows
<1>6. closes' \in Nat \cup {None}
  BY <1>1, <1>2, <1>5, ClosesLater DEF TypeOK
<1>7. spent = {}
  BY <1>1, <1>2 DEF SpentLive
<1>8. \A f \in Slots : forwards[f] = None
  BY <1>1, <1>2 DEF Forwarded
<1>9. \A t \in signed : t[1] # kid'
  <2> SUFFICES ASSUME NEW t \in signed PROVE t[1] # made'
    BY <1>2
  <2>1. t[1] \in Nat /\ t[1] <= made
    BY <1>1 DEF Numbered, TypeOK, Tokens, Kids
  <2> QED
    BY <1>3, <2>1
<1>10. TypeOK'
  <2>1. counted' \in [Who -> Nat]
    BY <1>2
  <2>2. made' \in 0..MaxKeysets
    BY <1>3
  <2> QED
    BY <1>1, <1>2, <1>4, <1>6, <2>1, <2>2 DEF TypeOK
<1>11. Numbered'
  <2>1. \A t \in signed : t[1] <= made'
    BY <1>1, <1>3 DEF Numbered, TypeOK, Tokens, Kids
  <2> QED
    BY <1>2, <1>3, <2>1 DEF Numbered
<1>12. SpentLive'
  BY <1>2, <1>7, <1>9 DEF SpentLive
<1>13. Claimed'
  BY <1>1, <1>2, <1>7, <1>9 DEF Claimed, Dead
<1>14. Forwarded' /\ ForwardsCounted'
  BY <1>2, <1>8 DEF Forwarded, ForwardsCounted
<1>15. Supplied'
  <2>1. Live' = {}
    BY <1>2, <1>9 DEF Live
  <2> QED
    BY <1>2, <2>1, FS_EmptySet DEF Supplied
<1>16. Quotas'
  <2> SUFFICES ASSUME s.quota # None, NEW w \in Who
               PROVE  counted'[w] <= UsedNow(w)' /\ counted'[w] <= s.quota.n
    BY <1>2 DEF Quotas
  <2>1. s.quota.n \in Nat /\ counted'[w] = 0
    BY <1>2, <1>5 DEF Setting, Quota
  <2>2. UsedNow(w)' \in Nat
    BY <1>1, <1>2 DEF UsedNow, TypeOK, Usage
  <2> QED
    BY <2>1, <2>2
<1> QED
  BY <1>10, <1>11, <1>12, <1>13, <1>14, <1>15, <1>16 DEF IssuerInv

LEMMA AdminUpdateStep ==
  ASSUME IssuerInv, NEW s \in Settings, AdminUpdate(s)
  PROVE  IssuerInv'
<1>1. TypeOK /\ Numbered /\ SpentLive /\ Quotas
  BY DEF IssuerInv
<1>2. /\ exists /\ exists' /\ set' = s /\ Rotate(s.window) /\ spent' = Spent(s.window)
      /\ UNCHANGED <<now, active, issued, redeemed, used, forwards, signed, claims>>
  BY DEF AdminUpdate
<1>3. s \in Setting /\ s.window \in Windows
  BY IssuerAssumption DEF Setting, Windows
<1>4. Cardinality({}) = 0 /\ {} \in SUBSET Secrets
  BY FS_EmptySet
<1>5. issued' = issued + Cardinality({})
      /\ signed' = signed \cup {<<Kid(s.window), x>> : x \in {}}
  BY <1>1, <1>2, <1>4 DEF TypeOK
<1>6. /\ signed' \subseteq Tokens /\ spent' \subseteq Tokens /\ issued' \in Nat
      /\ Numbered' /\ SpentLive' /\ Claimed' /\ Forwarded' /\ ForwardsCounted' /\ Supplied'
  BY <1>2, <1>3, <1>4, <1>5, Minted
<1>7. made' \in made..MaxKeysets /\ kid' \in Kids /\ closes' \in Nat \cup {None}
  BY <1>1, <1>2, <1>3, Rotation
<1>8. counted' = IF s.quota = set.quota THEN counted ELSE [w \in Who |-> 0]
  BY DEF AdminUpdate
<1>9. counted' \in [Who -> Nat]
  BY <1>1, <1>8 DEF TypeOK
<1>10. TypeOK'
  BY <1>1, <1>2, <1>6, <1>7, <1>9 DEF TypeOK
<1>11. Quotas'
  <2> SUFFICES ASSUME s.quota # None, NEW w \in Who
               PROVE  counted'[w] <= UsedNow(w)' /\ counted'[w] <= s.quota.n
    BY <1>2 DEF Quotas
  <2>1. CASE s.quota = set.quota
    <3>1. UsedNow(w)' = UsedNow(w)
      BY <1>2, <2>1 DEF UsedNow
    <3> QED
      BY <1>1, <1>2, <1>8, <2>1, <3>1 DEF Quotas
  <2>2. CASE s.quota # set.quota
    <3>1. s.quota.n \in Nat /\ counted'[w] = 0
      BY <1>3, <1>8, <2>2 DEF Setting, Quota
    <3>2. UsedNow(w)' \in Nat
      BY <1>1, <1>2 DEF UsedNow, TypeOK, Usage
    <3> QED
      BY <3>1, <3>2
  <2> QED
    BY <2>1, <2>2
<1> QED
  BY <1>6, <1>10, <1>11 DEF IssuerInv

LEMMA AdminActivateStep ==
  ASSUME IssuerInv, NEW on \in BOOLEAN, AdminActivate(on)
  PROVE  IssuerInv'
<1>1. TypeOK /\ Numbered /\ SpentLive /\ Claimed /\ Forwarded /\ ForwardsCounted
      /\ Supplied /\ Quotas
  BY DEF IssuerInv
<1>2. /\ active' \in BOOLEAN
      /\ UNCHANGED <<now, made, exists, set, kid, closes, issued, redeemed>>
      /\ UNCHANGED <<spent, used, forwards, signed, claims, counted>>
  BY DEF AdminActivate, history
<1>3. TypeOK' /\ Numbered' /\ SpentLive'
  BY <1>1, <1>2 DEF TypeOK, Numbered, SpentLive
<1>4. Claimed' /\ Forwarded' /\ ForwardsCounted'
  BY <1>1, <1>2 DEF Claimed, Dead, Forwarded, ForwardsCounted
<1>5. Supplied'
  <2>1. Live' = Live
    BY <1>2 DEF Live
  <2> QED
    BY <1>1, <1>2, <2>1 DEF Supplied
<1>6. Quotas'
  BY <1>1, <1>2, QuotasStay
<1> QED
  BY <1>3, <1>4, <1>5, <1>6 DEF IssuerInv

LEMMA AdminDeleteStep ==
  ASSUME IssuerInv, AdminDelete
  PROVE  IssuerInv'
<1>1. TypeOK /\ Numbered /\ SpentLive /\ Claimed /\ Forwarded /\ ForwardsCounted
  BY DEF IssuerInv
<1>2. /\ exists /\ exists' = FALSE /\ issued = 0
      /\ UNCHANGED <<now, made, active, set, kid, closes, issued, redeemed>>
      /\ UNCHANGED <<spent, used, forwards, signed, claims, counted>>
  BY DEF AdminDelete, Deletable, history
<1>3. \A f \in Slots : forwards[f] = None
  BY <1>1, <1>2 DEF Forwarded
<1>4. spent = {}
  BY <1>1, <1>2 DEF SpentLive
<1>5. TypeOK' /\ Numbered' /\ SpentLive'
  BY <1>1, <1>2, <1>4 DEF TypeOK, Numbered, SpentLive
<1>6. Claimed'
  BY <1>1, <1>2, <1>4 DEF Claimed, Dead
<1>7. Forwarded' /\ ForwardsCounted'
  BY <1>2, <1>3 DEF Forwarded, ForwardsCounted
<1>8. Supplied' /\ Quotas'
  BY <1>2 DEF Supplied, Quotas
<1> QED
  BY <1>5, <1>6, <1>7, <1>8 DEF IssuerInv

LEMMA AdminBatchStep ==
  ASSUME IssuerInv, NEW outs \in SUBSET Secrets, AdminBatch(outs)
  PROVE  IssuerInv'
<1>1. TypeOK /\ Numbered /\ SpentLive /\ Quotas
  BY DEF IssuerInv
<1>2. /\ exists /\ exists' /\ Rotate(set.window) /\ spent' = Spent(set.window)
      /\ issued' = issued + Cardinality(outs)
      /\ signed' = signed \cup {<<Kid(set.window), s>> : s \in outs}
      /\ UNCHANGED <<now, active, set, redeemed, used, forwards, claims, counted>>
  BY DEF AdminBatch, Token
<1>3. set.window \in Windows
  BY <1>1, <1>2, ItsWindow
<1>4. /\ signed' \subseteq Tokens /\ spent' \subseteq Tokens /\ issued' \in Nat
      /\ Numbered' /\ SpentLive' /\ Claimed' /\ Forwarded' /\ ForwardsCounted' /\ Supplied'
  BY <1>2, <1>3, Minted
<1>5. made' \in made..MaxKeysets /\ kid' \in Kids /\ closes' \in Nat \cup {None}
  BY <1>1, <1>2, <1>3, Rotation
<1>6. TypeOK'
  BY <1>1, <1>2, <1>4, <1>5 DEF TypeOK
<1>7. Quotas'
  BY <1>1, <1>2, QuotasStay
<1> QED
  BY <1>4, <1>6, <1>7 DEF IssuerInv

-----------------------------------------------------------------------------
(* The theorems. *)

LEMMA InitInv == Init => IssuerInv
<1> SUFFICES ASSUME Init PROVE IssuerInv
  OBVIOUS
<1>1. TypeOK
  <2>1. NoUse \in Usage
    BY DEF NoUse, Usage
  <2>2. used \in [Who -> Usage] /\ counted \in [Who -> Nat]
    BY <2>1 DEF Init
  <2>3. claims \in [Tokens -> 0..2] /\ forwards \in [Slots -> Forward \cup {None}]
    BY DEF Init
  <2>4. now \in 0..MaxNow /\ made \in 0..MaxKeysets
    BY IssuerAssumption DEF Init
  <2> QED
    BY <2>2, <2>3, <2>4 DEF Init, TypeOK
<1>2. Numbered /\ SpentLive /\ Claimed /\ Forwarded /\ ForwardsCounted
  BY DEF Init, Numbered, SpentLive, Claimed, Forwarded, ForwardsCounted
<1>3. Supplied /\ Quotas
  BY DEF Init, Supplied, Quotas
<1> QED
  BY <1>1, <1>2, <1>3 DEF IssuerInv

LEMMA StepInv == IssuerInv /\ [Next]_vars => IssuerInv'
<1> SUFFICES ASSUME IssuerInv, [Next]_vars PROVE IssuerInv'
  OBVIOUS
<1>1. ASSUME UNCHANGED vars PROVE IssuerInv'
  BY <1>1 DEF vars, service, history, IssuerInv, TypeOK, Numbered, SpentLive, Claimed, Dead,
              Forwarded, ForwardsCounted, Supplied, Live, Quotas, UsedNow
<1>2. ASSUME Requests PROVE IssuerInv'
  BY <1>2, TouchStep, UseStep, PresentStep, RequestStep, RefreshStep DEF Requests
<1>3. ASSUME Admin PROVE IssuerInv'
  BY <1>3, AdminCreateStep, AdminUpdateStep, AdminActivateStep, AdminDeleteStep, AdminBatchStep
     DEF Admin
<1>4. ASSUME NEW f \in Slots, ForwardAcked(f) \/ ForwardRefused(f) PROVE IssuerInv'
  BY <1>4, ForwardAckedStep, ForwardRefusedStep
<1> QED
  BY <1>1, <1>2, <1>3, <1>4, PruneStep, TickStep DEF Next

(* What issuing, burning, giving back, rotating and pruning keep true together
   (judge, issue, renew, rotated, prune and take of app/tessera.hoon). *)
THEOREM IssuerInvariant == Spec => []IssuerInv
BY InitInv, StepInv, PTL DEF Spec

(* Every field keeps its type: counters never go below 0, and a keyset closes
   at a time or never. *)
THEOREM TypeCorrect == Spec => []TypeOK
<1>1. IssuerInv => TypeOK
  BY DEF IssuerInv
<1> QED
  BY <1>1, IssuerInvariant, PTL

(* No token is burned twice (judge, renew), unless the agent it was burned for
   refused it (take). *)
THEOREM TokensUsedOnce == Spec => []UsedOnce
<1>1. IssuerInv => UsedOnce
  <2> SUFFICES ASSUME IssuerInv, NEW t \in Tokens PROVE claims[t] <= 1
    BY DEF UsedOnce
  <2>1. claims[t] = 0 \/ claims[t] = 1
    BY DEF IssuerInv, Claimed
  <2> QED
    BY <2>1
<1> QED
  BY <1>1, IssuerInvariant, PTL

(* What rotated, prune-spent and take forget of the spent set, no request can
   use any more. *)
THEOREM SpentSetKept == Spec => []SpentKept
<1>1. IssuerInv => SpentKept
  <2> SUFFICES ASSUME IssuerInv, NEW t \in Tokens, claims[t] > 0, t \notin spent, exists
               PROVE  t[1] # Kid(set.window)
    BY DEF SpentKept
  <2>1. TypeOK /\ Numbered /\ Claimed
    BY DEF IssuerInv
  <2>2. Dead(t) /\ t \in signed
    BY <2>1 DEF Claimed, TypeOK
  <2>3. t[1] \in Nat /\ t[1] <= made /\ made \in Nat
    BY <2>1, <2>2 DEF Numbered, TypeOK, Tokens, Kids
  <2>4. CASE Closing(set.window) = closes
    <3>1. closes = None \/ (closes > now /\ closes \in Nat /\ now \in Nat)
      BY <2>1, <2>4, ItsWindow, ClosesLater DEF TypeOK
    <3>2. t[1] # kid
      BY <2>2, <3>1 DEF Dead
    <3> QED
      BY <2>4, <3>2 DEF Kid
  <2>5. CASE Closing(set.window) # closes
    BY <2>3, <2>5 DEF Kid
  <2> QED
    BY <2>4, <2>5
<1> QED
  BY <1>1, IssuerInvariant, PTL

(* Minting, burning, refreshing and giving back never leave more good tokens
   of the service than it issued. *)
THEOREM SupplyBounded == Spec => []Supply
<1>1. IssuerInv => Supply
  <2> DEFINE good == {t \in signed \ spent : t[1] = Kid(set.window)}
  <2> SUFFICES ASSUME IssuerInv, exists PROVE Cardinality(good) <= issued
    BY DEF Supply
  <2>1. TypeOK /\ Numbered /\ Supplied
    BY DEF IssuerInv
  <2>2. issued \in Nat /\ made \in Nat
    BY <2>1 DEF TypeOK
  <2>3. CASE Closing(set.window) = closes
    <3>1. closes = None \/ closes > now
      BY <2>1, <2>3, ItsWindow, ClosesLater DEF TypeOK
    <3>2. good \subseteq Live
      BY <2>3 DEF Kid, Live
    <3>3. Live \in SUBSET Tokens /\ good \in SUBSET Tokens
      BY <2>1 DEF Live, TypeOK
    <3>4. IsFiniteSet(Live) /\ Cardinality(Live) \in Nat /\ Cardinality(good) \in Nat
      BY <3>3, Finite
    <3>5. Cardinality(good) <= Cardinality(Live)
      BY <3>2, <3>4, FS_Subset
    <3>6. Cardinality(Live) <= issued
      BY <2>1, <3>1 DEF Supplied
    <3> HIDE DEF good
    <3> QED
      BY <2>2, <3>4, <3>5, <3>6
  <2>4. CASE Closing(set.window) # closes
    <3>1. \A t \in signed : t[1] \in Nat /\ t[1] <= made
      BY <2>1 DEF Numbered, TypeOK, Tokens, Kids
    <3>2. good = {}
      BY <2>2, <2>4, <3>1 DEF Kid
    <3>3. Cardinality({}) = 0
      BY FS_EmptySet
    <3> HIDE DEF good
    <3> QED
      BY <2>2, <3>2, <3>3
  <2> QED
    BY <2>3, <2>4
<1> QED
  BY <1>1, IssuerInvariant, PTL

(* The decrement of redeemed for a refused forward (take) never crashes. *)
THEOREM RefusalsCounted == Spec => []ForwardsCounted
<1>1. IssuerInv => ForwardsCounted
  BY DEF IssuerInv
<1> QED
  BY <1>1, IssuerInvariant, PTL

(* No identity gets more than the quota in one of its periods (issue,
   quota-left, add-use, prune-used). *)
THEOREM QuotaNotExceeded == Spec => []QuotaKept
<1>1. IssuerInv => QuotaKept
  BY DEF IssuerInv, Quotas, QuotaKept
<1> QED
  BY <1>1, IssuerInvariant, PTL
=============================================================================
