-------------------------- MODULE TesseraShipsProofs --------------------------
(***************************************************************************)
(* ShipsInv is inductive for ships that use a request id again only after    *)
(* its ack, and with it the properties of TesseraShips hold for any number   *)
(* of holders, secrets, ids, windows and requests.                           *)
(***************************************************************************)
EXTENDS TesseraShipsInv, TLAPS

-----------------------------------------------------------------------------
(* Sending. *)

(* A request is added, and what was known of the earlier ones stays. *)
LEMMA Sending ==
  ASSUME TypeOK, NEW m \in Msg, Send(m)
  PROVE  /\ sent' = sent + 1 /\ sent + 1 \in Msgs /\ sent' \in 0..MaxMsgs
         /\ 1..sent' = 1..sent \cup {sent + 1} /\ sent + 1 \notin 1..sent
         /\ \A i \in 1..sent : /\ msg'[i] = msg[i] /\ stage'[i] = stage[i]
                               /\ answer'[i] = answer[i] /\ told'[i] = told[i]
         /\ msg'[sent + 1] = m /\ stage'[sent + 1] = "out"
         /\ answer'[sent + 1] = None /\ told'[sent + 1] = "nothing"
         /\ DOMAIN msg' = 1..sent'
         /\ msg' \in [1..sent' -> Msg] /\ stage' \in [1..sent' -> Stages]
         /\ answer' \in [1..sent' -> Answer \cup {None}]
         /\ told' \in [1..sent' -> {"nothing", "done", "valid", "refused", "nacked", "crash"}]
<1>1. sent \in 0..MaxMsgs /\ sent < MaxMsgs /\ sent' = sent + 1 /\ MaxMsgs \in Nat
  BY ShipsAssumption DEF TypeOK, Send
<1>2. 1..sent' = 1..sent \cup {sent + 1} /\ sent + 1 \notin 1..sent /\ sent + 1 \in 1..(sent + 1)
  BY <1>1
<1>3. \A i \in 1..sent : i <= sent /\ i \in 1..(sent + 1)
  BY <1>1
<1>4. \A f, x : /\ Extend(f, x) = [i \in 1..(sent + 1) |-> IF i <= sent THEN f[i] ELSE x]
                /\ Extend(f, x)[sent + 1] = x
                /\ \A i \in 1..sent : Extend(f, x)[i] = f[i]
  BY <1>1, <1>2, <1>3 DEF Extend
<1>5. \A f, x, S : f \in [1..sent -> S] /\ x \in S => Extend(f, x) \in [1..sent' -> S]
  BY <1>1, <1>2 DEF Extend
<1>6. /\ msg' = Extend(msg, m) /\ stage' = Extend(stage, "out")
      /\ answer' = Extend(answer, None) /\ told' = Extend(told, "nothing")
  BY DEF Send
<1>7. sent + 1 \in Msgs /\ sent' \in 0..MaxMsgs
  BY <1>1 DEF Msgs
<1>8. /\ msg' \in [1..sent' -> Msg] /\ stage' \in [1..sent' -> Stages]
      /\ answer' \in [1..sent' -> Answer \cup {None}]
      /\ told' \in [1..sent' -> {"nothing", "done", "valid", "refused", "nacked", "crash"}]
  BY <1>5, <1>6 DEF TypeOK, Stages
<1> QED
  BY <1>1, <1>2, <1>4, <1>6, <1>7, <1>8

(* The request waits under its id, which was free. *)
LEMMA SendingPend ==
  ASSUME TypeOK, NEW m \in Msg, Send(m)
  PROVE  /\ pend[m.from][m.rid] = NoMsg /\ m.from \in Holders /\ m.rid \in Rids
         /\ pend' \in [Holders -> [Rids -> 0..sent']]
         /\ pend'[m.from][m.rid] = sent + 1
         /\ \A h \in Holders, r \in Rids :
              ~(h = m.from /\ r = m.rid) => pend'[h][r] = pend[h][r]
<1>1. m.from \in Holders /\ m.rid \in Rids
  BY DEF Msg
<1>2. pend \in [Holders -> [Rids -> 0..sent]] /\ sent \in Nat /\ sent' = sent + 1
  BY ShipsAssumption DEF TypeOK, Send
<1>3. 0..sent \subseteq 0..sent' /\ sent + 1 \in 0..sent'
  BY <1>2
<1>4. pend' = [pend EXCEPT ![m.from][m.rid] = sent + 1] /\ pend[m.from][m.rid] = NoMsg
  BY DEF Send, FreeRid
<1> QED
  BY <1>1, <1>2, <1>3, <1>4

(* A request that is sent keeps the protocol, if it carries what its kind does. *)
LEMMA SendProtocol ==
  ASSUME Careful, Protocol, NEW m \in Msg, Send(m), TypeOK',
         out \subseteq out', asked \subseteq asked',
         m.kind = "request" => m.toks = {},
         m.kind \in {"present", "verify"} => \E t \in Tokens : m.toks = {t},
         m.kind \notin {"request", "refresh"} => m.blinds = {},
         m.kind = "transfer" <=> m.to # Issuer,
         m.kind = "verify" => m.toks \subseteq out',
         m.blinds \subseteq asked'
  PROVE  Protocol'
<1> DEFINE n == sent + 1
<1> USE DEF NoMsg
<1>0. TypeOK
  BY DEF Protocol
<1>1. /\ 1..sent' = 1..sent \cup {n} /\ n \notin 1..sent
      /\ \A i \in 1..sent : /\ msg'[i] = msg[i] /\ stage'[i] = stage[i]
                            /\ answer'[i] = answer[i] /\ told'[i] = told[i]
      /\ msg'[n] = m /\ stage'[n] = "out" /\ answer'[n] = None /\ told'[n] = "nothing"
  BY <1>0, Sending
<1>2. /\ pend[m.from][m.rid] = 0 /\ m.from \in Holders /\ m.rid \in Rids
      /\ pend'[m.from][m.rid] = n
      /\ \A h \in Holders, r \in Rids :
           ~(h = m.from /\ r = m.rid) => pend'[h][r] = pend[h][r]
  BY <1>0, SendingPend
<1>3. forwards' = forwards /\ burnt' = burnt /\ forwards \subseteq 1..sent /\ burnt \subseteq forwards
  BY <1>0 DEF Send, issuer, TypeOK
<1>4. \A i \in 1..sent : /\ msg[i].from \in Holders /\ msg[i].rid \in Rids
                         /\ i # 0 /\ i # n
  <2>1. \A i \in 1..sent : msg[i] \in Msg
    BY <1>0 DEF TypeOK
  <2>2. \A i \in 1..sent : i # 0
    OBVIOUS
  <2> QED
    BY <1>1, <2>1, <2>2 DEF Msg
<1>5. \A i \in 1..sent : msg[i].from = m.from /\ msg[i].rid = m.rid => stage[i] \in Heard
  BY DEF Send, FreeRid
<1>6. Shapes'
  BY <1>1 DEF Protocol, Shapes
<1>7. Answers'
  BY <1>1, <1>3 DEF Protocol, Answers
<1>8. Open'
  <2>1. \A i \in 1..sent : Waiting(i)' => Waiting(i)
    BY <1>1, <1>3 DEF Waiting
  <2>2. \A i \in 1..sent : Waiting(i) => ~(msg[i].from = m.from /\ msg[i].rid = m.rid)
    BY <1>2, <1>4 DEF Protocol, Open
  <2> QED
    BY <1>1, <1>2, <1>4, <2>1, <2>2 DEF Protocol, Open
<1>9. Serial'
  BY <1>1, <1>2, <1>4, <1>5 DEF Protocol, Serial, Heard
<1>10. PendOpen'
  <2> SUFFICES ASSUME NEW h \in Holders, NEW r \in Rids, pend'[h][r] # 0
               PROVE  LET i == pend'[h][r] IN
                      /\ msg'[i].from = h /\ msg'[i].rid = r /\ told'[i] \in {"nothing", "crash"}
                      /\ told'[i] = "nothing" =>
                           \/ stage'[i] \in {"out", "crashed"}
                           \/ IF msg'[i].kind = "transfer" THEN stage'[i] = "handled"
                              ELSE answer'[i] # None \/ i \in forwards'
    BY DEF PendOpen
  <2>1. CASE h = m.from /\ r = m.rid
    BY <2>1, <1>1, <1>2
  <2>2. CASE ~(h = m.from /\ r = m.rid)
    <3>1. pend'[h][r] = pend[h][r] /\ pend[h][r] \in 1..sent
      BY <2>2, <1>0, <1>2 DEF TypeOK
    <3> QED
      BY <3>1, <1>1, <1>3 DEF Protocol, PendOpen
  <2> QED
    BY <2>1, <2>2
<1>11. GiveSettled'
  BY <1>1 DEF Protocol, GiveSettled
<1> QED
  BY <1>6, <1>7, <1>8, <1>9, <1>10, <1>11 DEF Protocol

-----------------------------------------------------------------------------
(* What the issuer makes of a request. *)

(* The issuer answers a request, or asks the agent, after it burned and minted
   some tokens. *)
Verdict(i, result, burned, minted) ==
  /\ stage[i] = "out" /\ msg[i].kind # "transfer"
  /\ stage' = [stage EXCEPT ![i] = "handled"]
  /\ UNCHANGED <<holder, msg, sent, window, active, asked, told>>
  /\ \/ kid' = kid /\ spent' = spent /\ result = "refused"
     \/ kid' = window /\ spent' = SpentNow \cup burned
  /\ signed' = signed \cup minted
  /\ IF result = "asked"
     THEN /\ msg[i].kind = "present" /\ forwards' = forwards \cup {i}
          /\ burnt' = IF burned = {} THEN burnt ELSE burnt \cup {i}
          /\ UNCHANGED <<said, answer>>
     ELSE Reply(i, result) /\ UNCHANGED <<forwards, burnt>>
  /\ letgo' = IF result = "fresh" /\ msg[i].kind = "present" /\ burned = {}
              THEN letgo \cup msg[i].toks ELSE letgo
  /\ burned \subseteq msg[i].toks
  /\ result \notin {"issued", "fresh", "asked"} => burned = {}
  /\ result = "issued" => burned = msg[i].toks
  /\ result \in {"fresh", "asked"} => burned \in {{}, msg[i].toks}
  /\ result = "issued" => kid' = window /\ minted = Made(msg[i].blinds) /\ msg[i].kind \in {"request", "refresh"}
  /\ result # "issued" => minted = {}
  /\ result \in {"bad", "replay", "fresh"} => msg[i].kind \in {"present", "verify"} /\ kid' = window
  /\ result = "bad" => \A t \in msg[i].toks : ~Good(t)
  /\ result = "replay" => msg[i].toks \subseteq spent'
  /\ \A t \in burned : Good(t) \/ msg[i].kind = "verify"

(* A request that carries one token has it. *)
LEMMA TheToken ==
  ASSUME NEW i, NEW t \in Tokens, msg[i].toks = {t}
  PROVE  Token(i) = t
BY DEF Token

(* Every handler of the issuer comes to a verdict. *)
LEMMA Verdicts ==
  ASSUME TypeOK, Shapes, NEW i \in 1..sent,
         OnRequest(i) \/ OnPresent(i) \/ OnRefresh(i) \/ OnVerify(i)
  PROVE  \E result \in Results \cup {"asked"} : \E burned, minted : Verdict(i, result, burned, minted)
<1>1. CASE OnRequest(i)
  <2>1. msg[i].toks = {}
    BY <1>1 DEF OnRequest, AtIssuer, Arrives, Shapes
  <2>2. CASE Off(i)
    <3>1. Verdict(i, "refused", {}, {})
      BY <1>1, <2>2 DEF OnRequest, AtIssuer, Arrives, Acked, Off, Verdict
    <3> QED
      BY <3>1 DEF Results
  <2>3. CASE /\ active /\ Rotated /\ spent' = SpentNow /\ Reply(i, "refused") /\ UNCHANGED signed
             /\ UNCHANGED <<forwards, burnt, letgo>>
    <3>1. Verdict(i, "refused", {}, {})
      BY <1>1, <2>3 DEF OnRequest, AtIssuer, Arrives, Acked, Rotated, Verdict
    <3> QED
      BY <3>1 DEF Results
  <2>4. CASE /\ active /\ Rotated /\ spent' = SpentNow /\ Reply(i, "issued")
             /\ signed' = signed \cup Made(msg[i].blinds) /\ UNCHANGED <<forwards, burnt, letgo>>
    <3>1. Verdict(i, "issued", {}, Made(msg[i].blinds))
      BY <1>1, <2>1, <2>4 DEF OnRequest, AtIssuer, Arrives, Acked, Rotated, Verdict
    <3> QED
      BY <3>1 DEF Results
  <2> QED
    BY <1>1, <2>2, <2>3, <2>4 DEF OnRequest
<1>2. CASE OnRefresh(i)
  <2>1. CASE Off(i)
    <3>1. Verdict(i, "refused", {}, {})
      BY <1>2, <2>1 DEF OnRefresh, AtIssuer, Arrives, Acked, Off, Verdict
    <3> QED
      BY <3>1 DEF Results
  <2>2. CASE active /\ Rotated /\ Reply(i, "refused") /\ spent' = SpentNow /\ UNCHANGED signed
    <3>1. Verdict(i, "refused", {}, {})
      BY <1>2, <2>2 DEF OnRefresh, AtIssuer, Arrives, Acked, Rotated, Verdict
    <3> QED
      BY <3>1 DEF Results
  <2>3. CASE /\ active /\ Rotated /\ Reply(i, "issued") /\ spent' = SpentNow \cup msg[i].toks
             /\ signed' = signed \cup Made(msg[i].blinds)
             /\ \A t \in msg[i].toks : Good(t)
    <3>1. Verdict(i, "issued", msg[i].toks, Made(msg[i].blinds))
      BY <1>2, <2>3 DEF OnRefresh, AtIssuer, Arrives, Acked, Rotated, Verdict
    <3> QED
      BY <3>1 DEF Results
  <2> QED
    BY <1>2, <2>1, <2>2, <2>3 DEF OnRefresh
<1>3. CASE OnPresent(i)
  <2>0. msg[i].toks = {Token(i)} /\ msg[i].kind = "present"
    <3>1. msg[i].kind = "present"
      BY <1>3 DEF OnPresent, AtIssuer, Arrives
    <3> QED
      BY <3>1, TheToken DEF Shapes
  <2>1. CASE Off(i)
    <3>1. Verdict(i, "refused", {}, {})
      BY <1>3, <2>1, <2>0 DEF OnPresent, AtIssuer, Arrives, Acked, Off, Verdict
    <3> QED
      BY <3>1 DEF Results
  <2>2. CASE /\ active /\ Rotated /\ spent' = SpentNow /\ UNCHANGED <<forwards, burnt, letgo>>
             /\ \/ Reply(i, "refused")
                \/ ~Good(Token(i)) /\ Reply(i, "bad")
                \/ Token(i) \in SpentNow /\ Reply(i, "replay")
    <3>1. CASE Reply(i, "refused")
      <4>1. Verdict(i, "refused", {}, {})
        BY <1>3, <2>2, <2>0, <3>1 DEF OnPresent, AtIssuer, Arrives, Acked, Rotated, Verdict
      <4> QED
        BY <4>1 DEF Results
    <3>2. CASE ~Good(Token(i)) /\ Reply(i, "bad")
      <4>1. Verdict(i, "bad", {}, {})
        BY <1>3, <2>2, <2>0, <3>2 DEF OnPresent, AtIssuer, Arrives, Acked, Rotated, Verdict
      <4> QED
        BY <4>1 DEF Results
    <3>3. CASE Token(i) \in SpentNow /\ Reply(i, "replay")
      <4>1. Verdict(i, "replay", {}, {})
        BY <1>3, <2>2, <2>0, <3>3 DEF OnPresent, AtIssuer, Arrives, Acked, Rotated, Verdict
      <4> QED
        BY <4>1 DEF Results
    <3> QED
      BY <2>2, <3>1, <3>2, <3>3
  <2>3. ASSUME NEW burns \in BOOLEAN, active, Rotated, Good(Token(i)), Burn(Token(i), burns),
               Grant(i, burns) \/ AskAgent(i, burns)
        PROVE  \E result \in Results \cup {"asked"} : \E burned : Verdict(i, result, burned, {})
    <3> DEFINE burned == IF burns THEN msg[i].toks ELSE {}
    <3>1. /\ burned \subseteq msg[i].toks /\ burned \in {{}, msg[i].toks}
          /\ burned = {} <=> ~burns
          /\ spent' = SpentNow \cup burned
          /\ \A t \in burned : Good(t)
      BY <2>0, <2>3 DEF Burn
    <3> HIDE DEF burned
    <3>2. CASE Grant(i, burns)
      <4>1. Verdict(i, "fresh", burned, {})
        BY <1>3, <2>0, <2>3, <3>1, <3>2 DEF OnPresent, AtIssuer, Arrives, Acked, Rotated, Verdict, Grant
      <4> QED
        BY <4>1 DEF Results
    <3>3. CASE AskAgent(i, burns)
      <4>1. Verdict(i, "asked", burned, {})
        BY <1>3, <2>0, <2>3, <3>1, <3>3 DEF OnPresent, AtIssuer, Arrives, Acked, Rotated, Verdict, AskAgent
      <4> QED
        BY <4>1
    <3> QED
      BY <2>3, <3>2, <3>3
  <2> QED
    BY <1>3, <2>1, <2>2, <2>3 DEF OnPresent
<1>4. CASE OnVerify(i)
  <2>0. msg[i].toks = {Token(i)} /\ msg[i].kind = "verify"
    <3>1. msg[i].kind = "verify"
      BY <1>4 DEF OnVerify, AtIssuer, Arrives
    <3> QED
      BY <3>1, TheToken DEF Shapes
  <2>1. CASE Off(i)
    <3>1. Verdict(i, "refused", {}, {})
      BY <1>4, <2>1, <2>0 DEF OnVerify, AtIssuer, Arrives, Acked, Off, Verdict
    <3> QED
      BY <3>1 DEF Results
  <2>2. CASE active /\ Rotated /\ Reply(i, "refused") /\ spent' = SpentNow
    <3>1. Verdict(i, "refused", {}, {})
      BY <1>4, <2>2, <2>0 DEF OnVerify, AtIssuer, Arrives, Acked, Rotated, Verdict
    <3> QED
      BY <3>1 DEF Results
  <2>3. CASE active /\ Rotated /\ ~Good(Token(i)) /\ Reply(i, "bad") /\ spent' = SpentNow
    <3>1. Verdict(i, "bad", {}, {})
      BY <1>4, <2>3, <2>0 DEF OnVerify, AtIssuer, Arrives, Acked, Rotated, Verdict
    <3> QED
      BY <3>1 DEF Results
  <2>4. CASE active /\ Rotated /\ Token(i) \in SpentNow /\ Reply(i, "replay") /\ spent' = SpentNow
    <3>1. Verdict(i, "replay", {}, {})
      BY <1>4, <2>4, <2>0 DEF OnVerify, AtIssuer, Arrives, Acked, Rotated, Verdict
    <3> QED
      BY <3>1 DEF Results
  <2>5. ASSUME NEW burns \in BOOLEAN, active, Rotated, Reply(i, "fresh"), Good(Token(i)),
               Burn(Token(i), burns /\ msg[i].burn)
        PROVE  \E burned : Verdict(i, "fresh", burned, {})
    <3>1. CASE burns /\ msg[i].burn
      <4>1. Verdict(i, "fresh", msg[i].toks, {})
        BY <1>4, <2>5, <2>0, <3>1 DEF OnVerify, AtIssuer, Arrives, Acked, Rotated, Verdict, Burn
      <4> QED
        BY <4>1
    <3>2. CASE ~(burns /\ msg[i].burn)
      <4>1. Verdict(i, "fresh", {}, {})
        BY <1>4, <2>5, <2>0, <3>2 DEF OnVerify, AtIssuer, Arrives, Acked, Rotated, Verdict, Burn
      <4> QED
        BY <4>1
    <3> QED
      BY <3>1, <3>2
  <2> QED
    BY <1>4, <2>1, <2>2, <2>3, <2>4, <2>5 DEF OnVerify, Results
<1> QED
  BY <1>1, <1>2, <1>3, <1>4

-----------------------------------------------------------------------------
(* What ships hear. *)

(* An answer is about the request that waits under the id. *)
LEMMA AnswerHeard ==
  ASSUME Protocol, NEW i \in 1..sent, OnAnswer(i)
  PROVE  LET h == msg[i].from
             a == answer[i]
         IN /\ h \in Holders /\ msg[i].rid \in Rids /\ a # None /\ NextAnswer(i)
            /\ msg[i].kind # "transfer" /\ pend[h][msg[i].rid] = i
            /\ answer' = [answer EXCEPT ![i] = None]
            /\ pend' = [pend EXCEPT ![h][msg[i].rid] = NoMsg]
            /\ \E what \in {"done", "valid", "refused"} : Tell(i, what)
            /\ UNCHANGED <<offers, out, net, said, issuer, asked>>
            /\ \/ /\ msg[i].kind \in {"request", "refresh"} /\ a.result = "issued"
                  /\ wallet' = [wallet EXCEPT ![h] = ({a.kid} \X msg[i].blinds) \cup {t \in @ : t[1] = a.kid}]
                  /\ UNCHANGED letgo
               \/ /\ msg[i].kind \in {"request", "refresh"} /\ a.result # "issued"
                  /\ letgo' = letgo \cup msg[i].toks
                  /\ UNCHANGED wallet
               \/ /\ msg[i].kind = "present" /\ a.result = "refused"
                  /\ wallet' = [wallet EXCEPT ![h] = @ \cup msg[i].toks]
                  /\ UNCHANGED letgo
               \/ /\ \/ msg[i].kind = "present" /\ a.result # "refused"
                     \/ msg[i].kind = "verify"
                  /\ UNCHANGED <<wallet, letgo>>
<1>1. answer[i] # None /\ NextAnswer(i)
  BY DEF OnAnswer, NextAnswer
<1>2. pend[msg[i].from][msg[i].rid] = i /\ msg[i].kind # "transfer"
  BY <1>1 DEF Protocol, Open, Waiting, Answers
<1>3. msg[i] \in Msg /\ i # NoMsg
  BY DEF Protocol, TypeOK, NoMsg
<1>4. msg[i].from \in Holders /\ msg[i].rid \in Rids /\ msg[i].kind \in Kinds
  BY <1>3 DEF Msg
<1>5. \E what \in {"done", "valid", "refused"} : Tell(i, what)
  <2>1. CASE answer[i].result = "issued"
    BY <1>2, <1>3, <2>1 DEF OnAnswer
  <2>2. CASE answer[i].result \in {"fresh", "replay"}
    BY <1>2, <1>3, <2>2 DEF OnAnswer
  <2>3. CASE answer[i].result \notin {"issued", "fresh", "replay"}
    BY <1>2, <1>3, <2>3 DEF OnAnswer
  <2> QED
    BY <2>1, <2>2, <2>3
<1>6. /\ answer' = [answer EXCEPT ![i] = None]
      /\ pend' = [pend EXCEPT ![msg[i].from][msg[i].rid] = NoMsg]
      /\ UNCHANGED <<offers, out, net, said, issuer, asked>>
  BY <1>2, <1>3 DEF OnAnswer
<1>7. CASE msg[i].kind \in {"request", "refresh"}
  BY <1>1, <1>2, <1>3, <1>4, <1>5, <1>6, <1>7 DEF OnAnswer
<1>8. CASE msg[i].kind = "present"
  BY <1>1, <1>2, <1>3, <1>4, <1>5, <1>6, <1>8 DEF OnAnswer, Lost
<1>9. CASE msg[i].kind = "verify"
  BY <1>1, <1>2, <1>3, <1>4, <1>5, <1>6, <1>9 DEF OnAnswer
<1> QED
  BY <1>2, <1>4, <1>7, <1>8, <1>9 DEF Kinds

(* An ack ends a give; a nack ends a request and returns what it took from the
   wallet; any other ack says nothing. *)
LEMMA AckHeard ==
  ASSUME Protocol, NEW i \in 1..sent, TakeAck(i)
  PROVE  LET h == msg[i].from IN
         /\ h \in Holders /\ msg[i].rid \in Rids
         /\ UNCHANGED <<offers, out, msg, sent, answer, said, issuer, asked>>
         /\ \/ /\ stage[i] = "handled" /\ msg[i].kind # "transfer"
               /\ stage' = [stage EXCEPT ![i] = "acked"]
               /\ UNCHANGED <<wallet, pend, told, letgo>>
            \/ /\ stage[i] = "handled" /\ msg[i].kind = "transfer"
               /\ stage' = [stage EXCEPT ![i] = "acked"]
               /\ pend[h][msg[i].rid] = i
               /\ pend' = [pend EXCEPT ![h][msg[i].rid] = NoMsg]
               /\ Tell(i, "done")
               /\ UNCHANGED <<wallet, letgo>>
            \/ /\ stage[i] = "crashed"
               /\ stage' = [stage EXCEPT ![i] = "nacked"]
               /\ pend[h][msg[i].rid] = i
               /\ pend' = [pend EXCEPT ![h][msg[i].rid] = NoMsg]
               /\ Tell(i, "nacked")
               /\ wallet' = [wallet EXCEPT ![h] = @ \cup
                    IF msg[i].kind \in {"present", "transfer"} THEN msg[i].toks ELSE {}]
               /\ letgo' = IF msg[i].kind = "refresh" THEN letgo \cup msg[i].toks ELSE letgo
<1>1. stage[i] \in {"handled", "crashed"}
  BY DEF TakeAck
<1>2. pend[msg[i].from][msg[i].rid] \in {NoMsg, i}
  BY <1>1 DEF Protocol, Serial, Heard
<1>3. msg[i] \in Msg /\ i # NoMsg /\ stage \in [1..sent -> Stages]
  BY DEF Protocol, TypeOK, NoMsg
<1>4. msg[i].from \in Holders /\ msg[i].rid \in Rids
  BY <1>3 DEF Msg
<1>5. stage[i] = "crashed" \/ msg[i].kind = "transfer" => pend[msg[i].from][msg[i].rid] = i
  BY <1>1 DEF Protocol, Open, Waiting
<1>6. UNCHANGED <<offers, out, msg, sent, answer, said, issuer, asked>>
  BY DEF TakeAck
<1>7. CASE stage[i] = "handled" /\ msg[i].kind # "transfer"
  BY <1>2, <1>3, <1>4, <1>6, <1>7 DEF TakeAck
<1>8. CASE stage[i] = "handled" /\ msg[i].kind = "transfer"
  BY <1>3, <1>4, <1>5, <1>6, <1>8 DEF TakeAck
<1>9. CASE stage[i] = "crashed"
  BY <1>3, <1>4, <1>5, <1>6, <1>9 DEF TakeAck
<1> QED
  BY <1>1, <1>7, <1>8, <1>9

-----------------------------------------------------------------------------
(* Each step keeps the protocol. *)

(* What a message is made of. *)
LEMMA MsgParts ==
  ASSUME TypeOK, NEW i \in 1..sent
  PROVE  /\ msg[i].from \in Holders /\ msg[i].to \in Holders \cup {Issuer} /\ msg[i].rid \in Rids
         /\ msg[i].kind \in Kinds /\ msg[i].toks \subseteq Tokens /\ msg[i].blinds \subseteq Secrets
         /\ stage[i] \in Stages /\ answer[i] \in Answer \cup {None} /\ i # 0
<1>1. msg[i] \in Msg /\ stage[i] \in Stages /\ answer[i] \in Answer \cup {None} /\ i # 0
  BY DEF TypeOK
<1> QED
  BY <1>1 DEF Msg

(* An answer of the issuer has its parts. *)
LEMMA ReplyParts ==
  ASSUME TypeOK, NEW i \in 1..sent, NEW result \in Results, Reply(i, result), kid' \in Windows
  PROVE  /\ said' = said + 1 /\ said' \in Nat
         /\ answer'[i] = [result |-> result, kid |-> kid', no |-> said + 1]
         /\ answer'[i].result = result /\ answer'[i].kid = kid' /\ answer'[i].no = said + 1
         /\ answer'[i] \in Answer /\ answer'[i] # None
         /\ answer' = [answer EXCEPT ![i] = answer'[i]]
         /\ answer' \in [1..sent -> Answer \cup {None}]
         /\ \A j \in 1..sent : j # i => answer'[j] = answer[j]
<1> DEFINE a == [result |-> result, kid |-> kid', no |-> said + 1]
<1>1. said \in Nat /\ said' = said + 1 /\ answer' = [answer EXCEPT ![i] = a]
  BY DEF Reply, TypeOK
<1>2. a \in Answer
  BY <1>1 DEF Answer
<1>3. a # None
  BY <1>2, NoAnswer
<1>4. answer \in [1..sent -> Answer \cup {None}]
  BY DEF TypeOK
<1> HIDE DEF a
<1>5. answer'[i] = a /\ answer' \in [1..sent -> Answer \cup {None}]
  BY <1>1, <1>2, <1>4
<1>6. \A j \in 1..sent : j # i => answer'[j] = answer[j]
  BY <1>1, <1>4
<1> QED
  BY <1>1, <1>2, <1>3, <1>5, <1>6 DEF a

(* A request in pend was sent by its ship under its id. *)
LEMMA Pending ==
  ASSUME Protocol, NEW h \in Holders, NEW r \in Rids, pend[h][r] # 0
  PROVE  /\ pend[h][r] \in 1..sent
         /\ msg[pend[h][r]].from = h /\ msg[pend[h][r]].rid = r
         /\ told[pend[h][r]] \in {"nothing", "crash"}
BY DEF Protocol, TypeOK, PendOpen, NoMsg

(* A verdict keeps the protocol. *)
LEMMA VerdictProtocol ==
  ASSUME Protocol, NEW i \in 1..sent, NEW result \in Results \cup {"asked"},
         NEW burned, NEW minted, Verdict(i, result, burned, minted)
  PROVE  Protocol'
<1>0. TypeOK
  BY DEF Protocol
<1>1. /\ stage[i] = "out" /\ msg[i].kind # "transfer"
      /\ UNCHANGED <<wallet, offers, pend, out, msg, sent, window, active, asked, told>>
      /\ kid' \in Windows
  BY <1>0 DEF Verdict, holder, TypeOK
<1>2. /\ stage' = [stage EXCEPT ![i] = "handled"] /\ stage'[i] = "handled"
      /\ \A j \in 1..sent : j # i => stage'[j] = stage[j]
      /\ stage' \in [1..sent -> Stages]
  BY <1>0 DEF Verdict, TypeOK, Stages
<1>3. /\ answer[i] = None /\ i \notin forwards
      /\ \A j \in 1..sent : answer[j] # None => j # i
  BY <1>1 DEF Protocol, Answers
<1>4. /\ \A j \in 1..sent : j # i => answer'[j] = answer[j]
      /\ answer' \in [1..sent -> Answer \cup {None}]
      /\ said' \in Nat
      /\ \/ answer'[i] # None /\ forwards' = forwards
         \/ answer'[i] = None /\ forwards' = forwards \cup {i} /\ msg[i].kind = "present"
      /\ burnt' \subseteq forwards'
  <2>1. CASE result = "asked"
    BY <1>0, <1>3, <2>1 DEF Verdict, TypeOK
  <2>2. CASE result # "asked"
    BY <1>0, <1>1, <1>3, <2>2, ReplyParts DEF Verdict, TypeOK
  <2> QED
    BY <2>1, <2>2
<1>5. spent' \subseteq Tokens /\ signed' \subseteq Tokens /\ letgo' \subseteq Tokens
  <2>1. msg[i].toks \subseteq Tokens /\ msg[i].blinds \subseteq Secrets
    BY <1>0, MsgParts
  <2>2. spent' \subseteq spent \cup msg[i].toks
    BY DEF Verdict, SpentNow
  <2>3. Made(msg[i].blinds) \subseteq Tokens
    BY <1>0, <2>1 DEF Made, Tokens, TypeOK
  <2>4. signed' \subseteq signed \cup Made(msg[i].blinds) /\ letgo' \subseteq letgo \cup msg[i].toks
    BY DEF Verdict
  <2> QED
    BY <1>0, <2>1, <2>2, <2>3, <2>4 DEF TypeOK
<1>6. TypeOK'
  BY <1>0, <1>1, <1>2, <1>4, <1>5 DEF TypeOK
<1>7. Shapes'
  BY <1>1 DEF Protocol, Shapes
<1>8. Answers'
  BY <1>1, <1>2, <1>3, <1>4 DEF Protocol, Answers
<1>9. Open'
  <2>1. Waiting(i)
    BY <1>1 DEF Waiting
  <2>2. \A j \in 1..sent : j # i /\ Waiting(j)' => Waiting(j)
    BY <1>1, <1>2, <1>4 DEF Waiting
  <2> QED
    BY <1>1, <2>1, <2>2 DEF Protocol, Open
<1>10. Serial'
  BY <1>1, <1>2 DEF Protocol, Serial, Heard
<1>11. PendOpen'
  <2> SUFFICES ASSUME NEW h \in Holders, NEW r \in Rids, NEW j, j = pend[h][r], j # 0
               PROVE  /\ msg[j].from = h /\ msg[j].rid = r /\ told[j] \in {"nothing", "crash"}
                      /\ told[j] = "nothing" =>
                           \/ stage'[j] \in {"out", "crashed"}
                           \/ IF msg[j].kind = "transfer" THEN stage'[j] = "handled"
                              ELSE answer'[j] # None \/ j \in forwards'
    BY <1>1 DEF PendOpen, NoMsg
  <2>1. j \in 1..sent
    BY <1>0 DEF TypeOK
  <2>2. CASE j = i
    <3>0. pend[h][r] = i /\ pend[h][r] # 0
      BY <2>2
    <3>1. msg[i].from = h /\ msg[i].rid = r /\ told[i] \in {"nothing", "crash"}
      BY <3>0, Pending
    <3>2. answer'[i] # None \/ i \in forwards'
      BY <1>4
    <3> QED
      BY <2>2, <3>1, <3>2, <1>1
  <2>3. CASE j # i
    BY <2>3, <2>1, <1>1, <1>2, <1>4 DEF Protocol, PendOpen, NoMsg
  <2> QED
    BY <2>2, <2>3
<1>12. GiveSettled'
  BY <1>1, <1>2 DEF Protocol, GiveSettled
<1> QED
  BY <1>6, <1>7, <1>8, <1>9, <1>10, <1>11, <1>12 DEF Protocol

(* The agent's ack, or its nack, answers the request. *)
LEMMA ForwardProtocol ==
  ASSUME Protocol, NEW i \in 1..sent, NEW taken \in BOOLEAN, TakeForward(i, taken)
  PROVE  Protocol'
<1>0. TypeOK
  BY DEF Protocol
<1>1. /\ UNCHANGED <<wallet, offers, pend, out, msg, sent, stage, window, kid, active, signed, asked, told>>
      /\ i \in forwards /\ forwards' = forwards \ {i} /\ burnt' \subseteq forwards'
      /\ spent' \subseteq Tokens /\ letgo' \subseteq Tokens
      /\ msg[i].kind = "present" /\ stage[i] \in {"handled", "acked"}
  BY <1>0, MsgParts DEF Protocol, Answers, TakeForward, holder, net, TypeOK
<1>2. /\ \A j \in 1..sent : j # i => answer'[j] = answer[j]
      /\ answer' \in [1..sent -> Answer \cup {None}]
      /\ said' \in Nat /\ answer'[i] # None
  <2>1. \E result \in Results : Reply(i, result)
    BY DEF TakeForward, Results
  <2>2. kid' \in Windows
    BY <1>0, <1>1 DEF TypeOK
  <2> QED
    BY <1>0, <2>1, <2>2, ReplyParts
<1>3. TypeOK'
  BY <1>0, <1>1, <1>2 DEF TypeOK
<1>4. Shapes'
  BY <1>1 DEF Protocol, Shapes
<1>5. Answers'
  BY <1>1, <1>2 DEF Protocol, Answers
<1>6. Open'
  <2>1. \A j \in 1..sent : Waiting(j)' => Waiting(j)
    BY <1>1, <1>2 DEF Waiting
  <2> QED
    BY <1>1, <2>1 DEF Protocol, Open
<1>7. Serial' /\ GiveSettled'
  BY <1>1 DEF Protocol, Serial, GiveSettled
<1>8. PendOpen'
  <2> SUFFICES ASSUME NEW h \in Holders, NEW r \in Rids, NEW j, j = pend[h][r], j # 0
               PROVE  /\ msg[j].from = h /\ msg[j].rid = r /\ told[j] \in {"nothing", "crash"}
                      /\ told[j] = "nothing" =>
                           \/ stage[j] \in {"out", "crashed"}
                           \/ IF msg[j].kind = "transfer" THEN stage[j] = "handled"
                              ELSE answer'[j] # None \/ j \in forwards'
    BY <1>1 DEF PendOpen, NoMsg
  <2>1. j \in 1..sent
    BY <1>0 DEF TypeOK
  <2> QED
    BY <2>1, <1>1, <1>2 DEF Protocol, PendOpen, NoMsg
<1> QED
  BY <1>3, <1>4, <1>5, <1>6, <1>7, <1>8 DEF Protocol

(* A transfer that arrives, and a request that a ship crashes on, stay pending
   until their acks. *)
LEMMA ArrivalProtocol ==
  ASSUME Protocol, NEW i \in 1..sent, OnTransfer(i) \/ Nack(i)
  PROVE  Protocol'
<1>0. TypeOK
  BY DEF Protocol
<1>1. /\ UNCHANGED <<wallet, pend, out, msg, sent, answer, said, issuer, asked, told, letgo>>
      /\ UNCHANGED <<forwards, burnt, window, kid, active, spent, signed>>
      /\ stage[i] = "out"
      /\ \/ msg[i].kind = "transfer" /\ stage' = [stage EXCEPT ![i] = "handled"]
         \/ stage' = [stage EXCEPT ![i] = "crashed"]
  BY DEF OnTransfer, Nack, Arrives, Acked, holder, issuer
<1>2. /\ stage' \in [1..sent -> Stages]
      /\ stage'[i] = "crashed" \/ (msg[i].kind = "transfer" /\ stage'[i] = "handled")
      /\ \A j \in 1..sent : j # i => stage'[j] = stage[j]
  BY <1>0, <1>1 DEF TypeOK, Stages
<1>3. offers' \in [Holders -> [Holders -> SUBSET Tokens]]
  <2>1. CASE Nack(i)
    BY <1>0, <2>1 DEF TypeOK, Nack, holder
  <2>2. CASE OnTransfer(i)
    <3>1. msg[i].toks \subseteq Tokens /\ msg[i].from \in Holders
      BY <1>0, MsgParts
    <3>2. msg[i].to \in Holders
      BY <1>0, <2>2, MsgParts DEF Protocol, Shapes, OnTransfer, Arrives
    <3> QED
      BY <1>0, <2>2, <3>1, <3>2 DEF TypeOK, OnTransfer
  <2> QED
    BY <2>1, <2>2
<1>4. TypeOK'
  BY <1>0, <1>1, <1>2, <1>3 DEF TypeOK
<1>5. Shapes'
  BY <1>1 DEF Protocol, Shapes
<1>6. answer[i] = None /\ i \notin forwards /\ forwards \subseteq 1..sent
  BY <1>0, <1>1 DEF Protocol, Answers, TypeOK
<1>7. Answers'
  BY <1>1, <1>2, <1>6 DEF Protocol, Answers
<1>8. Open'
  <2>1. \A j \in 1..sent : Waiting(j)' => Waiting(j)
    BY <1>1, <1>2 DEF Waiting
  <2> QED
    BY <1>1, <2>1 DEF Protocol, Open
<1>9. Serial'
  BY <1>1, <1>2 DEF Protocol, Serial, Heard
<1>10. GiveSettled'
  BY <1>1, <1>2 DEF Protocol, GiveSettled
<1>11. PendOpen'
  <2> SUFFICES ASSUME NEW h \in Holders, NEW r \in Rids, NEW j, j = pend[h][r], j # 0
               PROVE  /\ msg[j].from = h /\ msg[j].rid = r /\ told[j] \in {"nothing", "crash"}
                      /\ told[j] = "nothing" =>
                           \/ stage'[j] \in {"out", "crashed"}
                           \/ IF msg[j].kind = "transfer" THEN stage'[j] = "handled"
                              ELSE answer[j] # None \/ j \in forwards
    BY <1>1 DEF PendOpen, NoMsg
  <2>1. j \in 1..sent
    BY <1>0 DEF TypeOK
  <2> QED
    BY <2>1, <1>1, <1>2 DEF Protocol, PendOpen, NoMsg
<1> QED
  BY <1>4, <1>5, <1>7, <1>8, <1>9, <1>10, <1>11 DEF Protocol

(* A request that ended waits no more, and no other is under its id. *)
LEMMA EndedPend ==
  ASSUME Protocol, NEW i \in 1..sent, pend[msg[i].from][msg[i].rid] = i,
         pend' = [pend EXCEPT ![msg[i].from][msg[i].rid] = NoMsg]
  PROVE  /\ pend' \in [Holders -> [Rids -> 0..sent]]
         /\ \A h \in Holders, r \in Rids : pend'[h][r] # NoMsg =>
              pend'[h][r] = pend[h][r] /\ pend'[h][r] # i /\ pend'[h][r] \in 1..sent
         /\ \A j \in 1..sent :
              /\ pend[msg[j].from][msg[j].rid] = j /\ j # i => pend'[msg[j].from][msg[j].rid] = j
              /\ pend[msg[j].from][msg[j].rid] = NoMsg => pend'[msg[j].from][msg[j].rid] = NoMsg
<1>0. TypeOK
  BY DEF Protocol
<1> DEFINE h0 == msg[i].from
           r0 == msg[i].rid
<1>1. h0 \in Holders /\ r0 \in Rids /\ i # 0
  BY <1>0, MsgParts
<1>2. pend \in [Holders -> [Rids -> 0..sent]] /\ 0 \in 0..sent
  BY <1>0 DEF TypeOK
<1>3. \A h \in Holders, r \in Rids :
        pend'[h][r] = IF h = h0 /\ r = r0 THEN 0 ELSE pend[h][r]
  BY <1>1, <1>2 DEF NoMsg
<1>4. pend' \in [Holders -> [Rids -> 0..sent]]
  BY <1>1, <1>2 DEF NoMsg
<1>5. \A h \in Holders, r \in Rids : pend[h][r] = i => h = h0 /\ r = r0
  BY <1>1 DEF Protocol, PendOpen, NoMsg
<1>6. \A j \in 1..sent : msg[j].from \in Holders /\ msg[j].rid \in Rids
  BY <1>0, MsgParts
<1>7. \A h \in Holders, r \in Rids : pend'[h][r] # 0 =>
        pend'[h][r] = pend[h][r] /\ pend'[h][r] # i /\ pend'[h][r] \in 1..sent
  BY <1>2, <1>3, <1>4, <1>5
<1>8. \A j \in 1..sent :
        /\ pend[msg[j].from][msg[j].rid] = j /\ j # i => pend'[msg[j].from][msg[j].rid] = j
        /\ pend[msg[j].from][msg[j].rid] = 0 => pend'[msg[j].from][msg[j].rid] = 0
  BY <1>1, <1>3, <1>6
<1> QED
  BY <1>4, <1>7, <1>8 DEF NoMsg

(* An answer ends its request. *)
LEMMA AnswerProtocol ==
  ASSUME Protocol, NEW i \in 1..sent, OnAnswer(i)
  PROVE  Protocol'
<1>0. TypeOK /\ i # 0
  BY DEF Protocol
<1>1. /\ msg[i].from \in Holders /\ answer[i] # None /\ msg[i].kind # "transfer"
      /\ pend[msg[i].from][msg[i].rid] = i
      /\ answer' = [answer EXCEPT ![i] = None]
      /\ pend' = [pend EXCEPT ![msg[i].from][msg[i].rid] = NoMsg]
      /\ \E what \in {"done", "valid", "refused"} : Tell(i, what)
      /\ UNCHANGED <<offers, out, msg, stage, sent, said, window, kid, active, spent, forwards, burnt, signed, asked>>
  BY AnswerHeard DEF net, issuer
<1>2. /\ answer' \in [1..sent -> Answer \cup {None}] /\ answer'[i] = None
      /\ \A j \in 1..sent : j # i => answer'[j] = answer[j]
      /\ told' \in [1..sent -> {"nothing", "done", "valid", "refused", "nacked", "crash"}]
      /\ \A j \in 1..sent : j # i => told'[j] = told[j]
  BY <1>0, <1>1 DEF TypeOK, Tell
<1>3. /\ pend' \in [Holders -> [Rids -> 0..sent]]
      /\ \A h \in Holders, r \in Rids : pend'[h][r] # NoMsg =>
           pend'[h][r] = pend[h][r] /\ pend'[h][r] # i /\ pend'[h][r] \in 1..sent
      /\ \A j \in 1..sent :
           /\ pend[msg[j].from][msg[j].rid] = j /\ j # i => pend'[msg[j].from][msg[j].rid] = j
           /\ pend[msg[j].from][msg[j].rid] = NoMsg => pend'[msg[j].from][msg[j].rid] = NoMsg
  BY <1>1, EndedPend
<1>4. wallet' \in [Holders -> SUBSET Tokens] /\ letgo' \subseteq Tokens
  <2>1. msg[i].toks \subseteq Tokens /\ msg[i].blinds \subseteq Secrets /\ answer[i] \in Answer
    BY <1>0, <1>1, MsgParts
  <2>2. {answer[i].kid} \X msg[i].blinds \subseteq Tokens
    BY <2>1 DEF Answer, Tokens
  <2>3. wallet \in [Holders -> SUBSET Tokens] /\ letgo \subseteq Tokens
    BY <1>0 DEF TypeOK
  <2>4. \/ wallet' = [wallet EXCEPT ![msg[i].from] =
                ({answer[i].kid} \X msg[i].blinds) \cup {t \in @ : t[1] = answer[i].kid}]
        \/ wallet' = [wallet EXCEPT ![msg[i].from] = @ \cup msg[i].toks]
        \/ wallet' = wallet
    BY AnswerHeard
  <2>5. letgo' = letgo \/ letgo' = letgo \cup msg[i].toks
    BY AnswerHeard
  <2> QED
    BY <1>1, <2>1, <2>2, <2>3, <2>4, <2>5
<1>5. TypeOK'
  BY <1>0, <1>1, <1>2, <1>3, <1>4 DEF TypeOK
<1>6. Shapes'
  BY <1>1 DEF Protocol, Shapes
<1>7. Answers'
  BY <1>1, <1>2 DEF Protocol, Answers
<1>8. Open'
  <2>1. \A j \in 1..sent : Waiting(j)' => Waiting(j)
    BY <1>1, <1>2 DEF Waiting
  <2>2. ~Waiting(i)'
    BY <1>1, <1>2 DEF Waiting, Protocol, Answers
  <2> SUFFICES ASSUME NEW j \in 1..sent, Waiting(j)'
               PROVE  pend'[msg[j].from][msg[j].rid] = j /\ told'[j] = "nothing"
    BY <1>1 DEF Open
  <2>3. j # i /\ pend[msg[j].from][msg[j].rid] = j /\ told[j] = "nothing"
    BY <2>1, <2>2 DEF Protocol, Open
  <2> QED
    BY <1>2, <1>3, <2>3
<1>9. Serial'
  <2> SUFFICES ASSUME NEW j \in 1..sent, stage[j] \notin Heard
               PROVE  pend'[msg[j].from][msg[j].rid] \in {NoMsg, j}
    BY <1>1 DEF Serial
  <2>1. pend[msg[j].from][msg[j].rid] \in {NoMsg, j}
    BY DEF Protocol, Serial
  <2>2. CASE j # i
    BY <1>3, <2>1, <2>2
  <2>3. CASE j = i
    <3>1. msg[i].rid \in Rids
      BY <1>0, MsgParts
    <3> QED
      BY <1>1, <1>3, <2>3, <3>1
  <2> QED
    BY <2>2, <2>3
<1>10. GiveSettled'
  BY <1>1, <1>2 DEF Protocol, GiveSettled
<1>11. PendOpen'
  <2>1. ASSUME NEW h \in Holders, NEW r \in Rids, pend'[h][r] # NoMsg
        PROVE  LET j == pend'[h][r] IN
               /\ msg[j].from = h /\ msg[j].rid = r /\ told'[j] \in {"nothing", "crash"}
               /\ told'[j] = "nothing" =>
                    \/ stage[j] \in {"out", "crashed"}
                    \/ IF msg[j].kind = "transfer" THEN stage[j] = "handled"
                       ELSE answer'[j] # None \/ j \in forwards
    <3> DEFINE j == pend[h][r]
    <3>1. pend'[h][r] = j /\ j # i /\ j \in 1..sent /\ j # NoMsg
      BY <1>3, <2>1
    <3>2. told'[j] = told[j] /\ answer'[j] = answer[j]
      BY <1>2, <3>1
    <3>3. /\ msg[j].from = h /\ msg[j].rid = r /\ told[j] \in {"nothing", "crash"}
          /\ told[j] = "nothing" =>
               \/ stage[j] \in {"out", "crashed"}
               \/ IF msg[j].kind = "transfer" THEN stage[j] = "handled"
                  ELSE answer[j] # None \/ j \in forwards
      BY <3>1 DEF Protocol, PendOpen
    <3> QED
      BY <3>1, <3>2, <3>3
  <2>2. UNCHANGED <<msg, stage, forwards>>
    BY <1>1
  <2> QED
    BY <2>1, <2>2, SMTT(30) DEF PendOpen
<1> QED
  BY <1>5, <1>6, <1>7, <1>8, <1>9, <1>10, <1>11 DEF Protocol

(* A request whose answer a ship crashed on stays in pend, and nothing more
   comes for it. *)
LEMMA LostAnswerProtocol ==
  ASSUME Protocol, NEW i \in 1..sent, LoseAnswer(i)
  PROVE  Protocol'
<1>0. TypeOK
  BY DEF Protocol
<1>1. /\ answer[i] # None /\ msg[i].kind # "transfer"
      /\ stage[i] \in {"handled", "acked"} /\ i \notin forwards
      /\ UNCHANGED <<wallet, offers, pend, out, msg, stage, sent, said>>
      /\ UNCHANGED <<window, kid, active, spent, forwards, burnt, signed, asked>>
  BY DEF LoseAnswer, NextAnswer, Protocol, Answers, holder, net, issuer
<1>2. /\ answer' \in [1..sent -> Answer \cup {None}] /\ answer'[i] = None
      /\ \A j \in 1..sent : j # i => answer'[j] = answer[j]
      /\ told' \in [1..sent -> {"nothing", "done", "valid", "refused", "nacked", "crash"}]
      /\ told'[i] = "crash"
      /\ \A j \in 1..sent : j # i => told'[j] = told[j]
  BY <1>0 DEF TypeOK, Tell, LoseAnswer
<1>3. letgo' \subseteq Tokens
  <2>1. msg[i].toks \subseteq Tokens /\ msg[i].blinds \subseteq Secrets /\ answer[i] \in Answer
    BY <1>0, <1>1, MsgParts
  <2>2. {answer[i].kid} \X msg[i].blinds \subseteq Tokens
    BY <2>1 DEF Answer, Tokens
  <2> QED
    BY <1>0, <2>1, <2>2 DEF LoseAnswer, TypeOK
<1>4. TypeOK'
  BY <1>0, <1>1, <1>2, <1>3 DEF TypeOK
<1>5. Shapes'
  BY <1>1 DEF Protocol, Shapes
<1>6. Answers'
  BY <1>1, <1>2 DEF Protocol, Answers
<1>7. Open'
  <2>1. \A j \in 1..sent : Waiting(j)' => j # i /\ Waiting(j)
    BY <1>1, <1>2 DEF Waiting
  <2> QED
    BY <1>1, <1>2, <2>1 DEF Protocol, Open
<1>8. Serial'
  BY <1>1 DEF Protocol, Serial
<1>9. GiveSettled'
  BY <1>1, <1>2 DEF Protocol, GiveSettled
<1>10. PendOpen'
  <2> SUFFICES ASSUME NEW h \in Holders, NEW r \in Rids, NEW j, j = pend[h][r], j # 0
               PROVE  /\ msg[j].from = h /\ msg[j].rid = r /\ told'[j] \in {"nothing", "crash"}
                      /\ told'[j] = "nothing" =>
                           \/ stage[j] \in {"out", "crashed"}
                           \/ IF msg[j].kind = "transfer" THEN stage[j] = "handled"
                              ELSE answer'[j] # None \/ j \in forwards
    BY <1>1 DEF PendOpen, NoMsg
  <2>1. j \in 1..sent
    BY <1>0 DEF TypeOK
  <2> QED
    BY <2>1, <1>1, <1>2 DEF Protocol, PendOpen, NoMsg
<1> QED
  BY <1>4, <1>5, <1>6, <1>7, <1>8, <1>9, <1>10 DEF Protocol

(* An ack ends a give, a nack any request. *)
LEMMA AckProtocol ==
  ASSUME Protocol, NEW i \in 1..sent, TakeAck(i)
  PROVE  Protocol'
<1>0. TypeOK /\ i # 0
  BY DEF Protocol
<1>1. /\ msg[i].from \in Holders /\ stage[i] \in {"handled", "crashed"}
      /\ UNCHANGED <<offers, out, msg, sent, answer, said, window, kid, active, spent, forwards, burnt, signed, asked>>
      /\ stage' = [stage EXCEPT ![i] = IF stage[i] = "handled" THEN "acked" ELSE "nacked"]
  BY AckHeard DEF issuer
<1>2. /\ stage' \in [1..sent -> Stages]
      /\ stage'[i] = IF stage[i] = "handled" THEN "acked" ELSE "nacked"
      /\ \A j \in 1..sent : j # i => stage'[j] = stage[j]
  BY <1>0, <1>1 DEF TypeOK, Stages
<1>3. stage[i] = "crashed" => answer[i] = None /\ i \notin forwards
  BY DEF Protocol, Answers
<1>4. wallet' \in [Holders -> SUBSET Tokens] /\ letgo' \subseteq Tokens
  <2>1. msg[i].toks \subseteq Tokens
    BY <1>0, MsgParts
  <2>2. wallet \in [Holders -> SUBSET Tokens] /\ letgo \subseteq Tokens
    BY <1>0 DEF TypeOK
  <2>3. \/ wallet' = wallet
        \/ wallet' = [wallet EXCEPT ![msg[i].from] = @ \cup msg[i].toks]
        \/ wallet' = [wallet EXCEPT ![msg[i].from] = @ \cup {}]
    BY AckHeard
  <2>4. letgo' = letgo \/ letgo' = letgo \cup msg[i].toks
    BY AckHeard
  <2> QED
    BY <1>1, <2>1, <2>2, <2>3, <2>4
<1>5. Shapes'
  BY <1>1 DEF Protocol, Shapes
<1>6. Answers'
  BY <1>1, <1>2, <1>3 DEF Protocol, Answers
<1>7. CASE stage[i] = "handled" /\ msg[i].kind # "transfer"
  <2>1. UNCHANGED <<pend, told>> /\ stage'[i] = "acked"
    BY <1>2, <1>7, AckHeard
  <2>2. TypeOK'
    BY <1>0, <1>1, <1>2, <1>4, <2>1 DEF TypeOK
  <2>3. \A j \in 1..sent : Waiting(j)' => Waiting(j)
    BY <1>1, <1>2, <2>1 DEF Waiting
  <2>4. Open'
    BY <1>1, <2>1, <2>3 DEF Protocol, Open
  <2>5. Serial'
    BY <1>1, <1>2, <2>1 DEF Protocol, Serial, Heard
  <2>6. GiveSettled'
    BY <1>1, <1>2, <1>7, <2>1 DEF Protocol, GiveSettled
  <2>7. PendOpen'
    <3> SUFFICES ASSUME NEW h \in Holders, NEW r \in Rids, NEW j, j = pend[h][r], j # 0
                 PROVE  /\ msg[j].from = h /\ msg[j].rid = r /\ told[j] \in {"nothing", "crash"}
                        /\ told[j] = "nothing" =>
                             \/ stage'[j] \in {"out", "crashed"}
                             \/ IF msg[j].kind = "transfer" THEN stage'[j] = "handled"
                                ELSE answer[j] # None \/ j \in forwards
      BY <1>1, <2>1 DEF PendOpen, NoMsg
    <3>1. j \in 1..sent
      BY <1>0 DEF TypeOK
    <3> QED
      BY <3>1, <1>1, <1>2, <1>7 DEF Protocol, PendOpen, NoMsg
  <2> QED
    BY <1>5, <1>6, <2>2, <2>4, <2>5, <2>6, <2>7 DEF Protocol
<1>8. CASE stage[i] = "crashed" \/ msg[i].kind = "transfer"
  <2>1. /\ pend[msg[i].from][msg[i].rid] = i
        /\ pend' = [pend EXCEPT ![msg[i].from][msg[i].rid] = NoMsg]
        /\ IF stage[i] = "handled" THEN Tell(i, "done") ELSE Tell(i, "nacked")
    BY <1>8, AckHeard
  <2>2. /\ pend' \in [Holders -> [Rids -> 0..sent]]
        /\ \A h \in Holders, r \in Rids : pend'[h][r] # NoMsg =>
             pend'[h][r] = pend[h][r] /\ pend'[h][r] # i /\ pend'[h][r] \in 1..sent
        /\ \A j \in 1..sent :
             /\ pend[msg[j].from][msg[j].rid] = j /\ j # i => pend'[msg[j].from][msg[j].rid] = j
             /\ pend[msg[j].from][msg[j].rid] = NoMsg => pend'[msg[j].from][msg[j].rid] = NoMsg
    BY <2>1, EndedPend
  <2>3. /\ told' \in [1..sent -> {"nothing", "done", "valid", "refused", "nacked", "crash"}]
        /\ told'[i] = IF stage[i] = "handled" THEN "done" ELSE "nacked"
        /\ \A j \in 1..sent : j # i => told'[j] = told[j]
    BY <1>0, <2>1 DEF TypeOK, Tell
  <2>4. TypeOK'
    BY <1>0, <1>1, <1>2, <1>4, <2>2, <2>3 DEF TypeOK
  <2>5. Open'
    <3>1. \A j \in 1..sent : Waiting(j)' => Waiting(j)
      BY <1>1, <1>2 DEF Waiting
    <3>2. ~Waiting(i)'
      BY <1>1, <1>2, <1>3, <1>8 DEF Waiting, Protocol, Answers
    <3> SUFFICES ASSUME NEW j \in 1..sent, Waiting(j)'
                 PROVE  pend'[msg[j].from][msg[j].rid] = j /\ told'[j] = "nothing"
      BY <1>1 DEF Open
    <3>3. j # i /\ pend[msg[j].from][msg[j].rid] = j /\ told[j] = "nothing"
      BY <3>1, <3>2 DEF Protocol, Open
    <3> QED
      BY <2>2, <2>3, <3>3
  <2>6. Serial'
    BY <1>1, <1>2, <2>2 DEF Protocol, Serial, Heard
  <2>7. GiveSettled'
    BY <1>1, <1>2, <2>3 DEF Protocol, GiveSettled
  <2>8. PendOpen'
    BY <1>1, <1>2, <2>2, <2>3 DEF Protocol, PendOpen
  <2> QED
    BY <1>5, <1>6, <2>4, <2>5, <2>6, <2>7, <2>8 DEF Protocol
<1> QED
  BY <1>1, <1>7, <1>8

(* A holder's request: it carries what its kind does, and what it carries is
   taken from the wallet or the offer it was in. *)
Asking(m) ==
  /\ Send(m)
  /\ m.kind = "request" => m.toks = {}
  /\ m.kind \in {"present", "verify"} => \E t \in Tokens : m.toks = {t}
  /\ m.kind \notin {"request", "refresh"} => m.blinds = {}
  /\ m.kind = "transfer" <=> m.to # Issuer
  /\ m.blinds \cap asked = {} /\ asked' = asked \cup m.blinds
  /\ UNCHANGED <<out, letgo>>
  /\ \/ m.kind = "request" /\ UNCHANGED <<wallet, offers>>
     \/ m.kind = "verify" /\ m.toks \subseteq out /\ UNCHANGED <<wallet, offers>>
     \/ /\ m.kind \in {"present", "transfer"} /\ m.toks \subseteq wallet[m.from]
        /\ wallet' = [wallet EXCEPT ![m.from] = @ \ m.toks]
        /\ UNCHANGED offers
     \/ /\ m.kind = "refresh"
        /\ \E f \in Holders : /\ m.toks = offers[m.from][f]
                              /\ offers' = [offers EXCEPT ![m.from][f] = {}]
        /\ UNCHANGED wallet

(* Every request of a holder is one of these. *)
LEMMA GetAsks ==
  ASSUME TypeOK, NEW h \in Holders, NEW r \in Rids, NEW ss \in SUBSET Secrets, DoGet(h, r, ss)
  PROVE  \E m \in Msg : Asking(m)
<1> DEFINE m == [from |-> h, to |-> Issuer, rid |-> r, kind |-> "request", toks |-> {},
                 blinds |-> ss, forward |-> FALSE, burn |-> FALSE]
<1>1. m \in Msg
  BY DEF Msg, Kinds
<1>2. Asking(m)
  BY DEF Asking, DoGet, MakeBlinds
<1> QED
  BY <1>1, <1>2

LEMMA UseAsks ==
  ASSUME TypeOK, NEW h \in Holders, NEW r \in Rids, NEW t \in Tokens, NEW b \in BOOLEAN,
         DoUse(h, r, t, b)
  PROVE  \E m \in Msg : Asking(m)
<1> DEFINE m == [from |-> h, to |-> Issuer, rid |-> r, kind |-> "present", toks |-> {t},
                 blinds |-> {}, forward |-> b, burn |-> TRUE]
<1>1. m \in Msg
  BY DEF Msg, Kinds
<1>2. Asking(m)
  BY DEF Asking, DoUse
<1> QED
  BY <1>1, <1>2

LEMMA AskAsks ==
  ASSUME TypeOK, NEW h \in Holders, NEW r \in Rids, NEW t \in Tokens, NEW b \in BOOLEAN,
         DoAsk(h, r, t, b)
  PROVE  \E m \in Msg : Asking(m)
<1> DEFINE m == [from |-> h, to |-> Issuer, rid |-> r, kind |-> "verify", toks |-> {t},
                 blinds |-> {}, forward |-> FALSE, burn |-> b]
<1>1. m \in Msg
  BY DEF Msg, Kinds
<1>2. Asking(m)
  BY DEF Asking, DoAsk
<1> QED
  BY <1>1, <1>2

LEMMA GiveAsks ==
  ASSUME TypeOK, NEW h \in Holders, NEW r \in Rids, NEW to \in Holders, NEW ts \in SUBSET Tokens,
         DoGive(h, r, to, ts)
  PROVE  \E m \in Msg : Asking(m)
<1> DEFINE m == [from |-> h, to |-> to, rid |-> r, kind |-> "transfer", toks |-> ts,
                 blinds |-> {}, forward |-> FALSE, burn |-> FALSE]
<1>1. m \in Msg
  BY DEF Msg, Kinds
<1>2. to # Issuer
  BY ShipsAssumption
<1>3. Asking(m)
  BY <1>2 DEF Asking, DoGive
<1> QED
  BY <1>1, <1>3

LEMMA AcceptAsks ==
  ASSUME TypeOK, NEW h \in Holders, NEW r \in Rids, NEW f \in Holders, NEW ss \in SUBSET Secrets,
         DoAccept(h, r, f, ss)
  PROVE  \E m \in Msg : Asking(m)
<1> DEFINE m == [from |-> h, to |-> Issuer, rid |-> r, kind |-> "refresh", toks |-> offers[h][f],
                 blinds |-> ss, forward |-> FALSE, burn |-> FALSE]
<1>1. m \in Msg
  BY DEF Msg, Kinds, TypeOK
<1>2. Asking(m)
  BY DEF Asking, DoAccept, MakeBlinds
<1> QED
  BY <1>1, <1>2

(* A request keeps the protocol. *)
LEMMA AskingProtocol ==
  ASSUME Careful, Protocol, NEW m \in Msg, Asking(m)
  PROVE  Protocol'
<1>0. TypeOK /\ Send(m)
  BY DEF Protocol, Asking
<1>1. /\ m.from \in Holders /\ m.toks \subseteq Tokens /\ m.blinds \subseteq Secrets
  BY DEF Msg
<1>2. asked' \subseteq Secrets
  BY <1>0, <1>1 DEF Asking, TypeOK
<1>3. wallet' \in [Holders -> SUBSET Tokens] /\ offers' \in [Holders -> [Holders -> SUBSET Tokens]]
  <2>1. wallet \in [Holders -> SUBSET Tokens] /\ offers \in [Holders -> [Holders -> SUBSET Tokens]]
    BY <1>0 DEF TypeOK
  <2>2. CASE UNCHANGED <<wallet, offers>>
    BY <2>1, <2>2
  <2>3. CASE wallet' = [wallet EXCEPT ![m.from] = @ \ m.toks] /\ UNCHANGED offers
    BY <1>1, <2>1, <2>3
  <2>4. CASE /\ \E f \in Holders : offers' = [offers EXCEPT ![m.from][f] = {}]
             /\ UNCHANGED wallet
    BY <1>1, <2>1, <2>4
  <2> QED
    BY <2>2, <2>3, <2>4 DEF Asking
<1>4. /\ sent' \in 0..MaxMsgs
      /\ msg' \in [1..sent' -> Msg] /\ stage' \in [1..sent' -> Stages]
      /\ answer' \in [1..sent' -> Answer \cup {None}]
      /\ told' \in [1..sent' -> {"nothing", "done", "valid", "refused", "nacked", "crash"}]
      /\ 1..sent \subseteq 1..sent'
  BY <1>0, Sending
<1>5. pend' \in [Holders -> [Rids -> 0..sent']]
  BY <1>0, SendingPend
<1>6. UNCHANGED <<said, window, kid, active, spent, forwards, burnt, signed, out, letgo>>
  BY DEF Asking, Send, issuer
<1>7. TypeOK'
  BY <1>0, <1>2, <1>3, <1>4, <1>5, <1>6 DEF TypeOK
<1> QED
  BY <1>0, <1>6, <1>7, SendProtocol DEF Asking

(* What happens in one ship alone, or to the clock, is no part of it. *)
LEMMA AloneProtocol ==
  ASSUME Protocol,
         \/ \E h, f \in Holders : DoDecline(h, f)
         \/ \E h \in Holders, t \in Tokens : TakeOut(h, t)
         \/ Turn \/ Switch
         \/ UNCHANGED vars
  PROVE  Protocol'
<1>0. TypeOK
  BY DEF Protocol
<1>1. /\ UNCHANGED <<pend, msg, stage, sent, answer, said, kid, spent, forwards, burnt, signed, asked, told>>
      /\ out \subseteq out'
  BY DEF DoDecline, TakeOut, Turn, Switch, holder, net, issuer, vars
<1>2. wallet' \in [Holders -> SUBSET Tokens] /\ out' \subseteq Tokens
  BY <1>0 DEF DoDecline, TakeOut, Turn, Switch, holder, vars, TypeOK
<1>3. offers' \in [Holders -> [Holders -> SUBSET Tokens]]
  <2>1. offers' = offers \/ \E h, f \in Holders : offers' = [offers EXCEPT ![h][f] = {}]
    BY DEF DoDecline, TakeOut, Turn, Switch, holder, vars
  <2>2. offers \in [Holders -> [Holders -> SUBSET Tokens]]
    BY <1>0 DEF TypeOK
  <2> QED
    BY <2>1, <2>2
<1>4. letgo' \subseteq Tokens
  BY <1>0 DEF DoDecline, TakeOut, Turn, Switch, holder, vars, TypeOK
<1>5. window' \in Windows /\ active' \in BOOLEAN
  <2>1. /\ window' = window \/ (window < MaxWindow /\ window' = window + 1)
        /\ active' = active \/ active' = ~active
    BY DEF DoDecline, TakeOut, Turn, Switch, issuer, vars
  <2>2. window \in 0..MaxWindow /\ MaxWindow \in Nat /\ active \in BOOLEAN
    BY <1>0, ShipsAssumption DEF TypeOK, Windows
  <2>3. window' \in Windows
    BY <2>1, <2>2 DEF Windows
  <2>4. active' \in BOOLEAN
    BY <2>1, <2>2
  <2> QED
    BY <2>3, <2>4
<1>6. TypeOK'
  BY <1>0, <1>1, <1>2, <1>3, <1>4, <1>5 DEF TypeOK
<1>7. Shapes' /\ Answers' /\ Serial' /\ GiveSettled'
  BY <1>1 DEF Protocol, Shapes, Answers, Serial, GiveSettled
<1>8. Open'
  BY <1>1 DEF Protocol, Open, Waiting
<1>9. PendOpen'
  BY <1>1 DEF Protocol, PendOpen
<1> QED
  BY <1>6, <1>7, <1>8, <1>9 DEF Protocol

(* The steps there are. *)
LEMMA Steps ==
  ASSUME TypeOK, Shapes, [Next]_vars
  PROVE  \/ \E m \in Msg : Asking(m)
         \/ \E i \in 1..sent, result \in Results \cup {"asked"} : \E burned, minted :
              Verdict(i, result, burned, minted)
         \/ \E i \in 1..sent, taken \in BOOLEAN : TakeForward(i, taken)
         \/ \E i \in 1..sent : OnTransfer(i) \/ Nack(i) \/ OnAnswer(i) \/ LoseAnswer(i) \/ TakeAck(i)
         \/ \E h, f \in Holders : DoDecline(h, f)
         \/ \E h \in Holders, t \in Tokens : TakeOut(h, t)
         \/ Turn \/ Switch
         \/ UNCHANGED vars
<1>1. ASSUME NEW h \in Holders, Holding(h)
      PROVE  \/ \E m \in Msg : Asking(m)
             \/ \E f \in Holders : DoDecline(h, f)
             \/ \E t \in Tokens : TakeOut(h, t)
  <2>1. \A t \in wallet[h] \cup out : t \in Tokens
    BY DEF TypeOK
  <2>2. \A ts \in SUBSET wallet[h] : ts \in SUBSET Tokens
    BY <2>1
  <2> QED
    BY <1>1, <2>1, <2>2, GetAsks, UseAsks, AskAsks, GiveAsks, AcceptAsks DEF Holding
<1>2. ASSUME NEW i \in 1..sent, Handling(i)
      PROVE  \/ \E result \in Results \cup {"asked"} : \E burned, minted : Verdict(i, result, burned, minted)
             \/ OnTransfer(i) \/ Nack(i)
  BY <1>2, Verdicts DEF Handling
<1> QED
  BY <1>1, <1>2 DEF Next, Hearing

(* Every step keeps the protocol. *)
LEMMA ProtocolStep ==
  ASSUME Careful, Protocol, [Next]_vars
  PROVE  Protocol'
<1>1. TypeOK /\ Shapes
  BY DEF Protocol
<1> QED
  BY <1>1, Steps, AskingProtocol, VerdictProtocol, ForwardProtocol, ArrivalProtocol,
     AnswerProtocol, LostAnswerProtocol, AckProtocol, AloneProtocol

(* No request was sent at first. *)
LEMMA ProtocolInit ==
  ASSUME Init
  PROVE  Protocol
<1>1. 1..sent = {} /\ sent \in 0..MaxMsgs /\ 0 \in 0..sent /\ 0 \in Windows
  BY ShipsAssumption DEF Init, Windows
<1>2. /\ msg \in [1..sent -> Msg] /\ stage \in [1..sent -> Stages]
      /\ answer \in [1..sent -> Answer \cup {None}]
      /\ told \in [1..sent -> {"nothing", "done", "valid", "refused", "nacked", "crash"}]
  BY <1>1 DEF Init
<1>3. TypeOK
  BY <1>1, <1>2 DEF Init, TypeOK, NoMsg
<1> QED
  BY <1>1, <1>3 DEF Init, Protocol, Shapes, Answers, Open, Serial, PendOpen, GiveSettled, NoMsg

-----------------------------------------------------------------------------
(* Theorems about requests. *)

(* The protocol of requests is inductive: what waits in pend, what is on its
   way, and what askers were told fit together. *)
THEOREM ProtocolKept ==
  ASSUME Careful
  PROVE  Spec => []Protocol
BY ProtocolInit, ProtocolStep, PTL DEF Spec

(* Every variable of the ships and of the network keeps its type. *)
THEOREM TypeCorrect ==
  ASSUME Careful
  PROVE  Spec => []TypeOK
<1>1. Protocol => TypeOK
  BY DEF Protocol
<1> QED
  BY <1>1, ProtocolKept, PTL

(* A request that waits in pend was told nothing and can still be ended. *)
THEOREM PendingOpen ==
  ASSUME Careful
  PROVE  Spec => []PendOpen
<1>1. Protocol => PendOpen
  BY DEF Protocol
<1> QED
  BY <1>1, ProtocolKept, PTL

(* A give is told done only if the receiver took it, and nacked if it did not. *)
THEOREM GivesSettled ==
  ASSUME Careful
  PROVE  Spec => []GiveSettled
<1>1. Protocol => GiveSettled
  BY DEF Protocol
<1> QED
  BY <1>1, ProtocolKept, PTL

-----------------------------------------------------------------------------
(* Places. *)

Wallet(h)   == <<"wallet", h>>
Offer(h, f) == <<"offer", h, f>>
Shown       == <<"out">>
Way(i)      == <<"way", i>>

\* tokens there are to be used
Live(p) == p[1] # "out" /\ ~(p[1] = "way" /\ p[2] \in burnt)

(* The places there are, and what is at each, before and after a step. *)
LEMMA PlaceForms ==
  /\ \A h \in Holders : Wallet(h) \in Places /\ At(Wallet(h)) = wallet[h] /\ At(Wallet(h))' = wallet'[h]
  /\ \A h, f \in Holders : /\ Offer(h, f) \in Places /\ At(Offer(h, f)) = offers[h][f]
                           /\ At(Offer(h, f))' = offers'[h][f]
  /\ Shown \in Places /\ At(Shown) = out /\ At(Shown)' = out'
  /\ \A i \in Msgs : Way(i) \in Places /\ At(Way(i)) = Carried(i) /\ At(Way(i))' = Carried(i)'
  /\ \A p \in Places : \/ \E h \in Holders : p = Wallet(h)
                       \/ \E h, f \in Holders : p = Offer(h, f)
                       \/ p = Shown
                       \/ \E i \in Msgs : p = Way(i)
<1> USE DEF Wallet, Offer, Shown, Way, Places, At
<1>1. \A h \in Holders : Wallet(h) \in Places /\ At(Wallet(h)) = wallet[h] /\ At(Wallet(h))' = wallet'[h]
  OBVIOUS
<1>2. \A h, f \in Holders : /\ Offer(h, f) \in Places /\ At(Offer(h, f)) = offers[h][f]
                            /\ At(Offer(h, f))' = offers'[h][f]
  OBVIOUS
<1>3. Shown \in Places /\ At(Shown) = out /\ At(Shown)' = out'
  OBVIOUS
<1>4. \A i \in Msgs : Way(i) \in Places /\ At(Way(i)) = Carried(i) /\ At(Way(i))' = Carried(i)'
  OBVIOUS
<1>5. \A p \in Places : \/ \E h \in Holders : p = Wallet(h)
                        \/ \E h, f \in Holders : p = Offer(h, f)
                        \/ p = Shown
                        \/ \E i \in Msgs : p = Way(i)
  OBVIOUS
<1> QED
  BY <1>1, <1>2, <1>3, <1>4, <1>5

(* No two of them are one. *)
LEMMA PlacesApart ==
  /\ \A h, g : Wallet(h) = Wallet(g) => h = g
  /\ \A h, f, g, e : Offer(h, f) = Offer(g, e) => h = g /\ f = e
  /\ \A i, j : Way(i) = Way(j) => i = j
  /\ \A h, g, f : Wallet(h) # Offer(g, f)
  /\ \A h : Wallet(h) # Shown
  /\ \A h, i : Wallet(h) # Way(i)
  /\ \A h, f : Offer(h, f) # Shown
  /\ \A h, f, i : Offer(h, f) # Way(i)
  /\ \A i : Way(i) # Shown
BY DEF Wallet, Offer, Shown, Way

(* Which of them are live. *)
LEMMA PlacesLive ==
  /\ \A h : Live(Wallet(h))
  /\ \A h, f : Live(Offer(h, f))
  /\ ~Live(Shown)
  /\ \A i : Live(Way(i)) <=> i \notin burnt
  /\ \A i : Live(Way(i))' <=> i \notin burnt'
  /\ \A h : Live(Wallet(h))'
  /\ \A h, f : Live(Offer(h, f))'
  /\ ~Live(Shown)'
BY DEF Wallet, Offer, Shown, Way, Live

(* Tokens at two places may change both, and nothing else does; only fresh
   tokens were nowhere before. *)
Shift(src, dest, fresh) ==
  /\ src \in Places /\ dest \in Places
  /\ \A p \in Places \ {src, dest} : At(p)' = At(p)
  /\ At(src)' \subseteq At(src) \cup fresh
  /\ At(dest)' \subseteq At(src) \cup At(dest) \cup fresh
  /\ src # dest => At(src)' \cap At(dest)' = {}
  /\ \A p \in Places : At(p) \cap fresh = {}

(* What is left of a place unless it is one of two. *)
LEMMA Elsewhere ==
  ASSUME NEW src, NEW dest,
         \A h \in Holders : Wallet(h) \notin {src, dest} => wallet'[h] = wallet[h],
         \A h, f \in Holders : Offer(h, f) \notin {src, dest} => offers'[h][f] = offers[h][f],
         Shown \notin {src, dest} => out' = out,
         \A i \in Msgs : Way(i) \notin {src, dest} => Carried(i)' = Carried(i)
  PROVE  \A p \in Places \ {src, dest} : At(p)' = At(p)
<1> SUFFICES ASSUME NEW p \in Places, p \notin {src, dest}
             PROVE  At(p)' = At(p)
  OBVIOUS
<1>1. CASE \E h \in Holders : p = Wallet(h)
  <2> PICK h \in Holders : p = Wallet(h)
    BY <1>1
  <2> QED
    BY PlaceForms
<1>2. CASE \E h, f \in Holders : p = Offer(h, f)
  <2> PICK h \in Holders, f \in Holders : p = Offer(h, f)
    BY <1>2
  <2> QED
    BY PlaceForms
<1>3. CASE p = Shown
  BY <1>3, PlaceForms
<1>4. CASE \E i \in Msgs : p = Way(i)
  <2> PICK i \in Msgs : p = Way(i)
    BY <1>4
  <2> QED
    BY PlaceForms
<1> QED
  BY <1>1, <1>2, <1>3, <1>4, PlaceForms

(* A token stays in one place. *)
LEMMA ShiftOneHolder ==
  ASSUME OneHolder, NEW src, NEW dest, NEW fresh, Shift(src, dest, fresh)
  PROVE  OneHolder'
<1> SUFFICES ASSUME NEW p \in Places, NEW t \in At(p)', NEW q \in Places, t \in At(q)'
             PROVE  q = p
  BY DEF OneHolder, Places
<1>1. CASE p \notin {src, dest} /\ q \notin {src, dest}
  BY <1>1 DEF Shift, OneHolder
<1>2. CASE p \in {src, dest} /\ q \notin {src, dest}
  BY <1>2 DEF Shift, OneHolder
<1>3. CASE p \notin {src, dest} /\ q \in {src, dest}
  BY <1>3 DEF Shift, OneHolder
<1>4. CASE p \in {src, dest} /\ q \in {src, dest}
  BY <1>4 DEF Shift
<1> QED
  BY <1>1, <1>2, <1>3, <1>4

(* What is somewhere was somewhere, or is fresh. *)
LEMMA ShiftFrom ==
  ASSUME NEW src, NEW dest, NEW fresh, Shift(src, dest, fresh), NEW p \in Places, NEW t \in At(p)'
  PROVE  t \in fresh \/ \E q \in Places : t \in At(q)
BY DEF Shift

(* Tokens that come from a live place, or stay, while the issuer does nothing,
   are not used up. *)
LEMMA ShiftFreshHeld ==
  ASSUME FreshHeld, NEW src, NEW dest, Shift(src, dest, {}), Live(src) \/ src = dest,
         UNCHANGED <<spent, kid, forwards, burnt>>
  PROVE  FreshHeld'
<1> SUFFICES ASSUME NEW p \in Places, NEW t \in At(p)', t \in spent, t[1] = kid
             PROVE  ~Live(p)
  BY DEF FreshHeld, Places, Live
<1>1. \A q \in Places : t \in At(q) => ~Live(q)
  BY DEF FreshHeld, Live
<1>2. CASE p \notin {src, dest}
  BY <1>1, <1>2 DEF Shift
<1>3. CASE p = src
  BY <1>1, <1>3 DEF Shift
<1>4. CASE p = dest
  BY <1>1, <1>4 DEF Shift
<1> QED
  BY <1>2, <1>3, <1>4

(* No good token gets lost if what leaves both places is let go, or dead. *)
LEMMA ShiftNothingLost ==
  ASSUME NothingLost, NEW src, NEW dest, NEW fresh, Shift(src, dest, fresh),
         UNCHANGED <<spent, kid, signed>>, letgo \subseteq letgo',
         \A t \in At(src) \cup At(dest) : t[1] = kid =>
           t \in At(src)' \cup At(dest)' \cup letgo'
  PROVE  NothingLost'
<1> SUFFICES ASSUME NEW t \in signed, t \notin spent, t[1] = kid, t \notin letgo'
             PROVE  \E p \in Places : t \in At(p)'
  BY DEF NothingLost, Places
<1>1. PICK p \in Places : t \in At(p)
  BY DEF NothingLost
<1>2. CASE p \notin {src, dest}
  BY <1>1, <1>2 DEF Shift
<1>3. CASE p \in {src, dest}
  BY <1>1, <1>3 DEF Shift
<1> QED
  BY <1>2, <1>3

(* Only tokens are anywhere. *)
LEMMA PlaceTokens ==
  ASSUME TypeOK, NEW p \in Places
  PROVE  At(p) \subseteq Tokens
<1>1. \A i \in 1..sent : /\ msg[i].toks \subseteq Tokens /\ msg[i].blinds \subseteq Secrets
                         /\ answer[i] # None => answer[i].kid \in Windows
  BY MsgParts DEF Answer
<1>2. \A i \in Msgs : Carried(i) \subseteq Tokens
  <2> SUFFICES ASSUME NEW i \in Msgs
               PROVE  Carried(i) \subseteq Tokens
    OBVIOUS
  <2>1. CASE i > sent
    BY <2>1 DEF Carried
  <2>2. CASE ~(i > sent)
    <3>1. i \in 1..sent
      BY <2>2 DEF Msgs, TypeOK
    <3>2. answer[i] # None => {answer[i].kid} \X msg[i].blinds \subseteq Tokens
      BY <1>1, <3>1 DEF Tokens
    <3> QED
      BY <1>1, <3>1, <3>2 DEF Carried
  <2> QED
    BY <2>1, <2>2
<1>3. CASE \E h \in Holders : p = Wallet(h)
  BY <1>3, PlaceForms DEF TypeOK
<1>4. CASE \E h, f \in Holders : p = Offer(h, f)
  BY <1>4, PlaceForms DEF TypeOK
<1>5. CASE p = Shown
  BY <1>5, PlaceForms DEF TypeOK
<1>6. CASE \E i \in Msgs : p = Way(i)
  BY <1>2, <1>6, PlaceForms
<1> QED
  BY <1>3, <1>4, <1>5, <1>6, PlaceForms

(* Windows are numbers. *)
LEMMA TokenWindow ==
  ASSUME NEW t \in Tokens
  PROVE  t[1] \in Nat /\ t[2] \in Secrets /\ t = <<t[1], t[2]>>
BY ShipsAssumption DEF Tokens, Windows

(* Keysets only go forward. *)
LEMMA ShiftAged ==
  ASSUME TypeOK, TypeOK', Aged, NEW src, NEW dest, NEW fresh, Shift(src, dest, fresh),
         kid <= kid', kid' <= window',
         \A t \in fresh : t[1] <= kid',
         \A t \in signed' : t \in signed \/ t[1] <= kid',
         \A i \in 1..sent' : \A t \in msg'[i].toks :
           (\E j \in 1..sent : t \in msg[j].toks) \/ \E p \in Places : t \in At(p)
  PROVE  Aged'
<1>1. kid \in Nat /\ kid' \in Nat
  BY ShipsAssumption DEF TypeOK, Windows
<1>2. \A t \in Tokens : t[1] \in Nat
  BY TokenWindow
<1>3. \A p \in Places : \A t \in At(p) : t[1] <= kid'
  <2> SUFFICES ASSUME NEW p \in Places, NEW t \in At(p)
               PROVE  t[1] <= kid'
    OBVIOUS
  <2>1. t[1] \in Nat /\ t[1] <= kid
    BY <1>2, PlaceTokens DEF Aged
  <2> QED
    BY <1>1, <2>1
<1>4. \A p \in Places : \A t \in At(p)' : t[1] <= kid'
  BY <1>3, ShiftFrom
<1>5. \A j \in 1..sent : \A t \in msg[j].toks : t[1] <= kid'
  <2> SUFFICES ASSUME NEW j \in 1..sent, NEW t \in msg[j].toks
               PROVE  t[1] <= kid'
    OBVIOUS
  <2>1. t[1] \in Nat /\ t[1] <= kid
    BY <1>2, MsgParts DEF Aged
  <2> QED
    BY <1>1, <2>1
<1>6. \A t \in signed : t[1] <= kid'
  <2> SUFFICES ASSUME NEW t \in signed
               PROVE  t[1] <= kid'
    OBVIOUS
  <2>1. t[1] \in Nat /\ t[1] <= kid
    BY <1>2 DEF Aged, TypeOK
  <2> QED
    BY <1>1, <2>1
<1> QED
  BY <1>3, <1>4, <1>5, <1>6 DEF Aged, Places

(* Secrets stay apart while no request is sent. *)
LEMMA ShiftSecret ==
  ASSUME Secret, NEW src, NEW dest, NEW fresh, Shift(src, dest, fresh),
         UNCHANGED <<msg, sent, asked>>,
         \A i \in 1..sent : stage'[i] = "out" => stage[i] = "out",
         \A t \in fresh : t[2] \in asked,
         \A t \in fresh, i \in 1..sent : stage'[i] = "out" => t[2] \notin msg[i].blinds,
         \A t \in spent' : t \in spent \/ \E p \in Places : t \in At(p)
  PROVE  Secret'
<1>1. \A t \in spent' : t[2] \in asked
  BY DEF Secret
<1>2. \A p \in Places : \A t \in At(p)' : t[2] \in asked
  BY ShiftFrom DEF Secret
<1>3. \A i \in 1..sent : stage'[i] = "out" =>
        \A t \in spent' : t[2] \notin msg[i].blinds
  BY DEF Secret
<1>4. \A i \in 1..sent : stage'[i] = "out" =>
        \A p \in Places : \A t \in At(p)' : t[2] \notin msg[i].blinds
  BY ShiftFrom DEF Secret
<1>5. \A i, j \in 1..sent : i # j => msg[i].blinds \cap msg[j].blinds = {}
  BY DEF Secret
<1> QED
  BY <1>1, <1>2, <1>3, <1>4, <1>5 DEF Secret, Places

(* A request keeps what it carries if nothing of it changes. *)
LEMMA SameCarried ==
  ASSUME NEW i \in 1..sent, i \in 1..sent', TypeOK, TypeOK',
         msg'[i] = msg[i], answer'[i] = answer[i], i \in forwards' <=> i \in forwards,
         stage'[i] \in {"out", "crashed"} <=> stage[i] \in {"out", "crashed"}
  PROVE  Carried(i)' = Carried(i)
<1>1. ~(i > sent) /\ ~(i > sent')
  BY DEF TypeOK
<1> QED
  BY <1>1 DEF Carried

(* Nothing that was not sent carries anything. *)
LEMMA NotSent ==
  ASSUME TypeOK, NEW i \in Msgs, i \notin 1..sent
  PROVE  Carried(i) = {}
<1>1. i > sent
  BY DEF TypeOK, Msgs
<1> QED
  BY <1>1 DEF Carried

(* Nor after the step. *)
LEMMA NotSentNext ==
  ASSUME TypeOK', NEW i \in Msgs, i \notin 1..sent'
  PROVE  Carried(i)' = {}
<1>1. i > sent'
  BY DEF TypeOK, Msgs
<1> QED
  BY <1>1 DEF Carried

(* What one request carries changes if only it does. *)
LEMMA OthersCarried ==
  ASSUME TypeOK, TypeOK', NEW i \in 1..sent, UNCHANGED <<msg, sent>>,
         \A j \in 1..sent : j # i =>
           /\ answer'[j] = answer[j] /\ (j \in forwards' <=> j \in forwards)
           /\ stage'[j] = stage[j]
  PROVE  \A j \in Msgs : Way(j) # Way(i) => Carried(j)' = Carried(j)
<1> SUFFICES ASSUME NEW j \in Msgs, j # i
             PROVE  Carried(j)' = Carried(j)
  OBVIOUS
<1>1. CASE j \in 1..sent
  BY <1>1, SameCarried
<1>2. CASE j \notin 1..sent
  BY <1>2, NotSent, NotSentNext
<1> QED
  BY <1>1, <1>2

-----------------------------------------------------------------------------
(* Where tokens are after the issuer's verdict. *)

(* What the request carried stays on its way if it may come back, what was
   minted is on its way, and what was used is nowhere. *)
LEMMA VerdictCarried ==
  ASSUME Protocol, TypeOK', NEW i \in 1..sent, NEW result \in Results \cup {"asked"},
         NEW burned, NEW minted, Verdict(i, result, burned, minted)
  PROVE  /\ i \in Msgs
         /\ Carried(i) = IF msg[i].kind \in {"present", "refresh"} THEN msg[i].toks ELSE {}
         /\ Carried(i)' = IF result = "asked" \/ (result = "refused" /\ msg[i].kind \in {"present", "refresh"})
                          THEN msg[i].toks ELSE minted
         /\ \A j \in Msgs : Way(j) # Way(i) => Carried(j)' = Carried(j)
         /\ result = "asked" => i \in forwards' /\ (i \in burnt' <=> burned # {})
         /\ result # "asked" => i \notin forwards'
         /\ i \notin forwards /\ \A j \in forwards : j # i /\ j \in forwards'
         /\ \A j \in forwards' : j \in forwards \/ j = i
         /\ burnt \subseteq forwards /\ \A j : j # i => (j \in burnt' <=> j \in burnt)
<1>0. TypeOK
  BY DEF Protocol
<1>1. /\ stage[i] = "out" /\ msg[i].kind # "transfer" /\ msg[i].kind \in Kinds
      /\ UNCHANGED <<msg, sent>> /\ i \in Msgs /\ ~(i > sent)
  BY <1>0, MsgParts, ShipsAssumption DEF Verdict, TypeOK, Msgs
<1>2. /\ stage'[i] = "handled" /\ \A j \in 1..sent : j # i => stage'[j] = stage[j]
  BY <1>0 DEF Verdict, TypeOK
<1>3. answer[i] = None /\ i \notin forwards /\ burnt \subseteq forwards
  BY <1>0, <1>1 DEF Protocol, Answers, TypeOK
<1>4. Carried(i) = IF msg[i].kind \in {"present", "refresh"} THEN msg[i].toks ELSE {}
  BY <1>1, <1>3 DEF Carried
<1>5. kid' \in Windows
  BY <1>0 DEF Verdict, TypeOK
<1>6. CASE result = "asked"
  <2>1. /\ answer' = answer /\ forwards' = forwards \cup {i}
        /\ burnt' = IF burned = {} THEN burnt ELSE burnt \cup {i}
    BY <1>6 DEF Verdict
  <2>2. Carried(i)' = msg[i].toks
    BY <1>1, <2>1 DEF Carried
  <2>3. \A j \in Msgs : Way(j) # Way(i) => Carried(j)' = Carried(j)
    BY <1>0, <1>1, <1>2, <2>1, OthersCarried
  <2> QED
    BY <1>1, <1>3, <1>4, <1>6, <2>1, <2>2, <2>3
<1>7. CASE result # "asked"
  <2>1. Reply(i, result) /\ forwards' = forwards /\ burnt' = burnt /\ result \in Results
    BY <1>7 DEF Verdict
  <2>2. /\ answer'[i].result = result /\ answer'[i].kid = kid' /\ answer'[i] # None
        /\ \A j \in 1..sent : j # i => answer'[j] = answer[j]
    BY <1>0, <1>5, <2>1, ReplyParts
  <2>3. \A j \in Msgs : Way(j) # Way(i) => Carried(j)' = Carried(j)
    BY <1>0, <1>1, <1>2, <2>1, <2>2, OthersCarried
  <2>4. Carried(i)' = IF result = "refused" /\ msg[i].kind \in {"present", "refresh"}
                      THEN msg[i].toks ELSE minted
    <3>1. CASE result = "refused" /\ msg[i].kind \in {"present", "refresh"}
      BY <1>1, <1>2, <1>3, <2>1, <2>2, <3>1 DEF Carried
    <3>2. CASE result = "issued"
      <4>1. minted = {kid'} \X msg[i].blinds
        BY <3>2 DEF Verdict, Made
      <4> QED
        BY <1>1, <1>2, <1>3, <2>1, <2>2, <3>2, <4>1 DEF Carried
    <3>3. CASE result # "issued" /\ ~(result = "refused" /\ msg[i].kind \in {"present", "refresh"})
      <4>1. minted = {}
        BY <3>3 DEF Verdict
      <4> QED
        BY <1>1, <1>2, <1>3, <2>1, <2>2, <3>3, <4>1 DEF Carried
    <3> QED
      BY <3>1, <3>2, <3>3
  <2> QED
    BY <1>1, <1>3, <1>4, <1>7, <2>1, <2>3, <2>4
<1> QED
  BY <1>6, <1>7

(* Blinds on their way are of no token that there is. *)
LEMMA MintedFresh ==
  ASSUME Protocol, Whereabouts, NEW i \in 1..sent, NEW result \in Results \cup {"asked"},
         NEW burned, NEW minted, Verdict(i, result, burned, minted)
  PROVE  /\ \A p \in Places : At(p) \cap minted = {}
         /\ \A t \in minted : t \in Tokens /\ t[1] = window /\ t[2] \in msg[i].blinds /\ t \notin spent
         /\ minted # {} => kid' = window
<1>1. minted = {} \/ (minted = {window} \X msg[i].blinds /\ kid' = window)
  BY DEF Verdict, Made
<1>2. \A t \in minted : t[1] = window /\ t[2] \in msg[i].blinds
  BY <1>1
<1>3. minted \subseteq Tokens
  <2>1. msg[i].blinds \subseteq Secrets /\ window \in Windows
    BY MsgParts DEF Protocol, TypeOK
  <2> QED
    BY <1>1, <2>1 DEF Tokens
<1>4. stage[i] = "out"
  BY DEF Verdict
<1>5. /\ \A t \in spent : t[2] \notin msg[i].blinds
      /\ \A p \in Places : \A t \in At(p) : t[2] \notin msg[i].blinds
  BY <1>4 DEF Whereabouts, Secret
<1>6. \A p \in Places : At(p) \cap minted = {}
  BY <1>2, <1>5
<1>7. \A t \in minted : t \notin spent
  BY <1>2, <1>5
<1> QED
  BY <1>1, <1>2, <1>3, <1>6, <1>7

(* Only the request's place changes. *)
LEMMA VerdictShift ==
  ASSUME Protocol, TypeOK', Whereabouts, NEW i \in 1..sent, NEW result \in Results \cup {"asked"},
         NEW burned, NEW minted, Verdict(i, result, burned, minted)
  PROVE  Shift(Way(i), Way(i), minted)
<1>1. /\ Way(i) \in Places /\ At(Way(i)) = Carried(i) /\ At(Way(i))' = Carried(i)'
  BY VerdictCarried, PlaceForms
<1>2. Carried(i)' \subseteq Carried(i) \cup minted
  <2> DEFINE back == result = "asked" \/ (result = "refused" /\ msg[i].kind \in {"present", "refresh"})
  <2>1. back => msg[i].kind \in {"present", "refresh"}
    BY DEF Verdict
  <2>2. CASE back
    <3>1. Carried(i)' = msg[i].toks /\ Carried(i) = msg[i].toks
      BY <2>1, <2>2, VerdictCarried
    <3> QED
      BY <3>1
  <2>3. CASE ~back
    <3>1. Carried(i)' = minted
      BY <2>3, VerdictCarried
    <3> QED
      BY <3>1
  <2> QED
    BY <2>2, <2>3
<1>3. \A p \in Places \ {Way(i), Way(i)} : At(p)' = At(p)
  <2>1. wallet' = wallet /\ offers' = offers /\ out' = out
    BY DEF Verdict, holder
  <2>2. \A j \in Msgs : Way(j) # Way(i) => Carried(j)' = Carried(j)
    BY VerdictCarried
  <2> QED
    BY <2>1, <2>2, Elsewhere
<1>4. \A p \in Places : At(p) \cap minted = {}
  BY MintedFresh
<1> QED
  BY <1>1, <1>2, <1>3, <1>4 DEF Shift

(* The spent set is kept, or the keyset is newer than every token. *)
LEMMA VerdictKeyset ==
  ASSUME Protocol, Whereabouts, NEW i \in 1..sent, NEW result \in Results \cup {"asked"},
         NEW burned, NEW minted, Verdict(i, result, burned, minted)
  PROVE  /\ kid \in Nat /\ kid' \in Nat /\ window \in Nat /\ window' = window
         /\ kid <= kid' /\ kid' <= window'
         /\ \/ kid' = kid /\ spent' = spent \cup burned
            \/ kid' > kid /\ spent' = burned
<1>1. kid \in Nat /\ window \in Nat /\ kid <= window /\ window' = window
  BY ShipsAssumption DEF Protocol, TypeOK, Windows, Whereabouts, Aged, Verdict
<1>2. CASE kid' = kid /\ spent' = spent /\ result = "refused"
  BY <1>1, <1>2 DEF Verdict
<1>3. CASE kid' = window /\ spent' = SpentNow \cup burned
  BY <1>1, <1>3 DEF SpentNow
<1> QED
  BY <1>1, <1>2, <1>3 DEF Verdict

(* What is burned is held by nobody: it was on its way, or shown. *)
LEMMA VerdictFreshHeld ==
  ASSUME Protocol, TypeOK', Whereabouts, NEW i \in 1..sent, NEW result \in Results \cup {"asked"},
         NEW burned, NEW minted, Verdict(i, result, burned, minted)
  PROVE  FreshHeld'
<1> SUFFICES ASSUME NEW p \in Places, NEW t \in At(p)', t \in spent', t[1] = kid', Live(p)'
             PROVE  FALSE
  BY DEF FreshHeld, Places, Live
<1>0. i \in Msgs /\ Way(i) \in Places /\ At(Way(i)) = Carried(i) /\ At(Way(i))' = Carried(i)'
  BY VerdictCarried, PlaceForms
<1>1. burned \subseteq msg[i].toks
  BY DEF Verdict
<1>2. t \notin minted
  <2> SUFFICES ASSUME t \in minted
               PROVE  FALSE
    OBVIOUS
  <2>1. t \notin spent /\ result = "issued" /\ t[2] \in msg[i].blinds
    BY MintedFresh DEF Verdict
  <2>2. t \in msg[i].toks
    BY <1>1, <2>1, VerdictKeyset
  <2>3. t \in At(Way(i))
    <3>1. msg[i].kind \in {"present", "refresh"}
      BY <2>1, <2>2 DEF Verdict, Protocol, Shapes
    <3>2. Carried(i) = msg[i].toks
      BY <3>1, VerdictCarried
    <3> QED
      BY <1>0, <2>2, <3>2
  <2> QED
    BY <1>0, <2>3, MintedFresh
<1>3. t \in At(p)
  BY <1>2, VerdictShift DEF Shift
<1>4. Live(p)
  <2>1. CASE \E j \in Msgs : p = Way(j)
    BY <2>1, VerdictCarried, PlacesLive
  <2>2. CASE ~\E j \in Msgs : p = Way(j)
    BY <2>2, PlaceForms, PlacesLive
  <2> QED
    BY <2>1, <2>2
<1>5. ~(t \in spent /\ t[1] = kid)
  BY <1>3, <1>4 DEF Whereabouts, FreshHeld, Live
<1>6. t \in burned
  BY <1>5, VerdictKeyset
<1>7. CASE msg[i].kind = "verify"
  <2>1. t \in At(Shown) /\ Shown \in Places
    BY <1>1, <1>6, <1>7, PlaceForms DEF Protocol, Shapes
  <2>2. p = Shown
    BY <1>3, <2>1 DEF Whereabouts, OneHolder
  <2> QED
    BY <1>4, <2>2, PlacesLive
<1>8. CASE msg[i].kind # "verify"
  <2>1. msg[i].kind \in {"present", "refresh"}
    <3>1. msg[i].kind \in Kinds
      BY MsgParts DEF Protocol
    <3> QED
      BY <1>1, <1>6, <1>8, <3>1 DEF Protocol, Shapes, Kinds, Verdict
  <2>2. t \in At(Way(i))
    BY <1>0, <1>1, <1>6, <2>1, VerdictCarried
  <2>3. p = Way(i)
    BY <1>0, <1>3, <2>2 DEF Whereabouts, OneHolder
  <2>4. result \in {"issued", "fresh", "asked"}
    BY <1>6 DEF Verdict
  <2>5. result = "asked"
    BY <1>0, <1>2, <2>3, <2>4, VerdictCarried
  <2> QED
    BY <1>6, <2>3, <2>5, VerdictCarried, PlacesLive
<1> QED
  BY <1>7, <1>8

(* What is neither on its way back nor minted was used, or is dead. *)
LEMMA VerdictNothingLost ==
  ASSUME Protocol, TypeOK', Whereabouts, NEW i \in 1..sent, NEW result \in Results \cup {"asked"},
         NEW burned, NEW minted, Verdict(i, result, burned, minted)
  PROVE  NothingLost'
<1> SUFFICES ASSUME NEW t \in signed', t \notin spent', t[1] = kid'
             PROVE  t \in letgo' \/ \E p \in Places : t \in At(p)'
  BY DEF NothingLost, Places
<1>0. i \in Msgs /\ Way(i) \in Places /\ At(Way(i)) = Carried(i) /\ At(Way(i))' = Carried(i)'
  BY VerdictCarried, PlaceForms
<1>1. CASE t \in minted
  <2>1. result = "issued"
    BY <1>1 DEF Verdict
  <2> QED
    BY <1>0, <1>1, <2>1, VerdictCarried
<1>2. CASE t \notin minted
  <2>1. t \in signed
    BY <1>2 DEF Verdict
  <2>2. kid' = kid /\ t \notin spent
    <3>1. t[1] \in Nat /\ t[1] <= kid
      BY <2>1, TokenWindow DEF Protocol, TypeOK, Whereabouts, Aged
    <3> QED
      BY <3>1, VerdictKeyset
  <2>3. t \in letgo \/ \E p \in Places : t \in At(p)
    BY <2>1, <2>2 DEF Whereabouts, NothingLost
  <2>4. CASE t \in letgo
    BY <2>4 DEF Verdict
  <2>5. CASE \E p \in Places : p # Way(i) /\ t \in At(p)
    BY <2>5, VerdictShift DEF Shift
  <2>6. CASE t \in At(Way(i))
    <3>0. t \in Carried(i)
      BY <1>0, <2>6
    <3>1. msg[i].kind \in {"present", "refresh"} /\ t \in msg[i].toks
      <4>1. CASE msg[i].kind \in {"present", "refresh"}
        <5>1. Carried(i) = msg[i].toks
          BY <4>1, VerdictCarried
        <5> QED
          BY <3>0, <4>1, <5>1
      <4>2. CASE msg[i].kind \notin {"present", "refresh"}
        <5>1. Carried(i) = {}
          BY <4>2, VerdictCarried
        <5> QED
          BY <3>0, <5>1
      <4> QED
        BY <4>1, <4>2
    <3>2. CASE result \in {"refused", "asked"}
      BY <1>0, <3>1, <3>2, VerdictCarried
    <3>3. CASE result = "issued" \/ result = "fresh"
      <4>1. t \in burned \/ t \in letgo'
        BY <3>1, <3>3 DEF Verdict
      <4> QED
        BY <4>1, VerdictKeyset
    <3>4. CASE result = "replay"
      BY <3>1, <3>4 DEF Verdict
    <3>5. CASE result = "bad"
      <4>1. ~Good(t) /\ kid' = window
        BY <3>1, <3>5 DEF Verdict
      <4> QED
        BY <2>1, <4>1 DEF Good
    <3> QED
      BY <3>2, <3>3, <3>4, <3>5 DEF Results
  <2> QED
    BY <2>3, <2>4, <2>5, <2>6
<1> QED
  BY <1>1, <1>2

(* A present that waits for the agent carries its token. *)
LEMMA ForwardToken ==
  ASSUME Protocol, NEW i \in forwards
  PROVE  /\ i \in 1..sent /\ i \in Msgs /\ Token(i) \in Tokens /\ msg[i].toks = {Token(i)}
         /\ Carried(i) = {Token(i)} /\ At(Way(i)) = {Token(i)} /\ Way(i) \in Places
<1>1. i \in 1..sent /\ i \in Msgs /\ ~(i > sent)
  BY ShipsAssumption DEF Protocol, TypeOK, Msgs
<1>2. PICK t \in Tokens : msg[i].toks = {t}
  BY <1>1 DEF Protocol, Answers, Shapes
<1>3. Token(i) = t
  BY <1>2, TheToken
<1>4. Carried(i) = {Token(i)}
  BY <1>1, <1>2, <1>3 DEF Carried
<1> QED
  BY <1>1, <1>2, <1>3, <1>4, PlaceForms

(* A token that was burned for the agent is burned. *)
LEMMA VerdictBurned ==
  ASSUME Protocol, TypeOK', Whereabouts, NEW i \in 1..sent, NEW result \in Results \cup {"asked"},
         NEW burned, NEW minted, Verdict(i, result, burned, minted)
  PROVE  Burned'
<1>1. \A j : Token(j)' = Token(j)
  BY DEF Token, Verdict
<1> SUFFICES ASSUME NEW j \in burnt', Token(j)[1] = kid'
             PROVE  Token(j) \in spent'
  BY <1>1 DEF Burned
<1>2. CASE j \in burnt
  <2>1. Token(j) \in Tokens /\ msg[j].toks = {Token(j)} /\ j \in 1..sent
    BY <1>2, VerdictCarried, ForwardToken
  <2>2. Token(j)[1] \in Nat /\ Token(j)[1] <= kid
    BY <2>1, TokenWindow DEF Whereabouts, Aged
  <2>3. kid' = kid /\ spent \subseteq spent'
    BY <2>2, VerdictKeyset
  <2> QED
    BY <1>2, <2>3 DEF Whereabouts, Burned
<1>3. CASE j \notin burnt
  <2>1. j = i /\ result = "asked" /\ burned # {}
    BY <1>3, VerdictCarried DEF Verdict
  <2>2. burned = msg[i].toks /\ msg[i].kind = "present"
    BY <2>1 DEF Verdict
  <2>3. PICK t \in Tokens : msg[i].toks = {t}
    BY <2>2 DEF Protocol, Shapes
  <2>4. Token(j) = t
    BY <2>1, <2>3, TheToken
  <2> QED
    BY <2>2, <2>3, <2>4, VerdictKeyset
<1> QED
  BY <1>2, <1>3

(* An answer keeps answers in the order of keysets. *)
LEMMA ReplyOrdered ==
  ASSUME Protocol, Whereabouts, NEW i \in 1..sent, NEW result \in Results, Reply(i, result),
         UNCHANGED <<msg, sent, wallet>>, kid' \in Windows, kid <= kid'
  PROVE  Ordered'
<1>0. TypeOK /\ kid \in Nat /\ kid' \in Nat /\ said \in Nat
  BY ShipsAssumption DEF Protocol, TypeOK, Windows
<1>1. /\ said' = said + 1 /\ answer'[i] # None /\ answer'[i].no = said + 1 /\ answer'[i].kid = kid'
      /\ \A j \in 1..sent : j # i => answer'[j] = answer[j]
  BY <1>0, ReplyParts
<1>2. \A j \in 1..sent : answer[j] # None =>
        /\ answer[j].kid \in Nat /\ answer[j].no \in Nat
        /\ answer[j].no <= said /\ answer[j].kid <= kid
  BY <1>0, ShipsAssumption, MsgParts DEF Answer, Windows, Whereabouts, Ordered
<1>3. \A t \in Tokens : t[1] \in Nat
  BY TokenWindow
<1>4. \A h \in Holders : \A t \in wallet[h] : t[1] <= kid'
  <2> SUFFICES ASSUME NEW h \in Holders, NEW t \in wallet[h]
               PROVE  t[1] <= kid'
    OBVIOUS
  <2>1. Wallet(h) \in Places /\ t \in At(Wallet(h))
    BY PlaceForms
  <2>2. t[1] \in Nat /\ t[1] <= kid
    BY <1>0, <1>3, <2>1, PlaceTokens DEF Whereabouts, Aged
  <2> QED
    BY <1>0, <2>2
<1>5. \A j \in 1..sent : \A t \in msg[j].toks : t[1] <= kid'
  <2> SUFFICES ASSUME NEW j \in 1..sent, NEW t \in msg[j].toks
               PROVE  t[1] <= kid'
    OBVIOUS
  <2>2. t[1] \in Nat /\ t[1] <= kid
    BY <1>0, <1>3, MsgParts DEF Whereabouts, Aged
  <2> QED
    BY <1>0, <2>2
<1>6. \A j \in 1..sent : answer'[j] # None => answer'[j].no <= said' /\ answer'[j].kid <= kid'
  BY <1>0, <1>1, <1>2
<1>7. \A j, k \in 1..sent : answer'[j] # None /\ answer'[k] # None /\ answer'[j].no <= answer'[k].no =>
        answer'[j].kid <= answer'[k].kid
  <2> SUFFICES ASSUME NEW j \in 1..sent, NEW k \in 1..sent, answer'[j] # None, answer'[k] # None,
                      answer'[j].no <= answer'[k].no
               PROVE  answer'[j].kid <= answer'[k].kid
    OBVIOUS
  <2>1. CASE k = i
    BY <1>0, <1>1, <1>6, <2>1
  <2>2. CASE k # i /\ j = i
    <3>1. answer'[k].no \in Nat /\ answer'[k].no <= said /\ answer'[j].no = said + 1
      BY <1>1, <1>2, <2>2
    <3> QED
      BY <1>0, <3>1
  <2>3. CASE k # i /\ j # i
    BY <1>1, <2>3 DEF Whereabouts, Ordered
  <2> QED
    BY <2>1, <2>2, <2>3
<1>8. \A j \in 1..sent : answer'[j] # None =>
        /\ \A t \in wallet[msg[j].from] : t[1] <= answer'[j].kid
        /\ \A k \in 1..sent :
             msg[k].from = msg[j].from /\ msg[k].kind \in {"present", "transfer"} =>
               \A t \in msg[k].toks : t[1] <= answer'[j].kid
  <2> SUFFICES ASSUME NEW j \in 1..sent, answer'[j] # None
               PROVE  /\ \A t \in wallet[msg[j].from] : t[1] <= answer'[j].kid
                      /\ \A k \in 1..sent :
                           msg[k].from = msg[j].from /\ msg[k].kind \in {"present", "transfer"} =>
                             \A t \in msg[k].toks : t[1] <= answer'[j].kid
    OBVIOUS
  <2>1. CASE j = i
    <3>1. msg[i].from \in Holders
      BY <1>0, MsgParts
    <3> QED
      BY <1>1, <1>4, <1>5, <2>1, <3>1
  <2>2. CASE j # i
    BY <1>1, <2>2 DEF Whereabouts, Ordered
  <2> QED
    BY <2>1, <2>2
<1> QED
  BY <1>6, <1>7, <1>8 DEF Ordered

(* Its answer is of the newest keyset. *)
LEMMA VerdictOrdered ==
  ASSUME Protocol, TypeOK', Whereabouts, NEW i \in 1..sent, NEW result \in Results \cup {"asked"},
         NEW burned, NEW minted, Verdict(i, result, burned, minted)
  PROVE  Ordered'
<1>0. UNCHANGED <<msg, sent, wallet>>
  BY DEF Verdict, holder
<1>1. CASE result = "asked"
  <2>1. UNCHANGED <<answer, said>> /\ kid \in Nat /\ kid' \in Nat /\ kid <= kid'
    BY <1>1, VerdictKeyset DEF Verdict
  <2>2. \A j \in 1..sent : answer[j] # None => answer[j].kid \in Nat
    BY ShipsAssumption, MsgParts DEF Protocol, Answer, Windows
  <2> QED
    BY <1>0, <2>1, <2>2 DEF Whereabouts, Ordered
<1>2. CASE result # "asked"
  <2>1. Reply(i, result) /\ result \in Results /\ kid' \in Windows /\ TypeOK
    BY <1>2 DEF Verdict, TypeOK, Protocol
  <2> QED
    BY <1>0, <2>1, VerdictKeyset, ReplyOrdered DEF Whereabouts
<1> QED
  BY <1>1, <1>2

(* What it mints is of the keyset there is. *)
LEMMA VerdictAged ==
  ASSUME Protocol, TypeOK', Whereabouts, NEW i \in 1..sent, NEW result \in Results \cup {"asked"},
         NEW burned, NEW minted, Verdict(i, result, burned, minted)
  PROVE  Aged'
<1>1. TypeOK /\ Aged /\ UNCHANGED <<msg, sent>> /\ signed' = signed \cup minted
  BY DEF Protocol, Whereabouts, Verdict
<1>2. kid <= kid' /\ kid' <= window' /\ window' = window /\ window \in Nat /\ kid' \in Nat
  BY VerdictKeyset
<1>3. \A t \in minted : t[1] <= kid'
  <2> SUFFICES ASSUME NEW t \in minted
               PROVE  t[1] <= kid'
    OBVIOUS
  <2>1. t[1] = window /\ kid' = window
    BY MintedFresh
  <2> QED
    BY <1>2, <2>1
<1>4. Shift(Way(i), Way(i), minted)
  BY VerdictShift
<1> QED
  BY <1>1, <1>2, <1>3, <1>4, ShiftAged

(* The blinds it signs are on their way no more. *)
LEMMA VerdictSecret ==
  ASSUME Protocol, TypeOK', Whereabouts, NEW i \in 1..sent, NEW result \in Results \cup {"asked"},
         NEW burned, NEW minted, Verdict(i, result, burned, minted)
  PROVE  Secret'
<1>1. Secret /\ UNCHANGED <<msg, sent, asked>> /\ stage \in [1..sent -> Stages]
  BY DEF Protocol, TypeOK, Whereabouts, Verdict
<1>2. stage'[i] = "handled" /\ \A j \in 1..sent : j # i => stage'[j] = stage[j]
  BY <1>1 DEF Verdict
<1>3. \A j \in 1..sent : stage'[j] = "out" => stage[j] = "out" /\ j # i
  BY <1>2
<1>4. \A t \in minted : t[2] \in msg[i].blinds
  BY MintedFresh
<1>5. \A t \in minted : t[2] \in asked
  BY <1>4 DEF Protocol, Shapes
<1>6. \A t \in minted, j \in 1..sent : stage'[j] = "out" => t[2] \notin msg[j].blinds
  BY <1>1, <1>3, <1>4 DEF Secret
<1>7. \A t \in spent' : t \in spent \/ \E p \in Places : t \in At(p)
  <2> SUFFICES ASSUME NEW t \in burned
               PROVE  \E p \in Places : t \in At(p)
    BY VerdictKeyset
  <2>1. t \in msg[i].toks /\ msg[i].kind \in Kinds /\ msg[i].kind # "transfer"
    BY MsgParts DEF Verdict, Protocol
  <2>2. CASE msg[i].kind = "verify"
    BY <2>1, <2>2, PlaceForms DEF Protocol, Shapes
  <2>3. CASE msg[i].kind = "request"
    BY <2>1, <2>3 DEF Protocol, Shapes
  <2>4. CASE msg[i].kind \in {"present", "refresh"}
    <3>1. Way(i) \in Places /\ At(Way(i)) = Carried(i) /\ Carried(i) = msg[i].toks
      BY <2>4, VerdictCarried, PlaceForms
    <3> QED
      BY <2>1, <3>1
  <2> QED
    BY <2>1, <2>2, <2>3, <2>4 DEF Kinds
<1>8. Shift(Way(i), Way(i), minted)
  BY VerdictShift
<1> QED
  BY <1>1, <1>3, <1>5, <1>6, <1>7, <1>8, ShiftSecret

(* The issuer's verdict keeps tokens where they belong. *)
LEMMA VerdictWhereabouts ==
  ASSUME Protocol, TypeOK', Whereabouts, NEW i \in 1..sent, NEW result \in Results \cup {"asked"},
         NEW burned, NEW minted, Verdict(i, result, burned, minted)
  PROVE  Whereabouts'
<1>1. OneHolder'
  BY VerdictShift, ShiftOneHolder DEF Whereabouts
<1> QED
  BY <1>1, VerdictFreshHeld, VerdictNothingLost, VerdictAged, VerdictSecret, VerdictBurned,
     VerdictOrdered DEF Whereabouts

-----------------------------------------------------------------------------
(* Where tokens are after the agent answered. *)

(* A refusal by the agent is on its way with the token; a use is not. *)
LEMMA ForwardCarried ==
  ASSUME Protocol, TypeOK', NEW i \in 1..sent, NEW taken \in BOOLEAN, TakeForward(i, taken)
  PROVE  /\ i \in forwards /\ forwards' = forwards \ {i}
         /\ Carried(i)' = IF taken THEN {} ELSE {Token(i)}
         /\ Shift(Way(i), Way(i), {})
<1>0. TypeOK /\ i \in forwards /\ forwards' = forwards \ {i} /\ UNCHANGED <<holder, net, kid>>
  BY DEF Protocol, TakeForward
<1>1. /\ Way(i) \in Places /\ At(Way(i)) = {Token(i)} /\ At(Way(i))' = Carried(i)'
      /\ msg[i].toks = {Token(i)} /\ ~(i > sent)
  BY <1>0, ForwardToken, PlaceForms DEF TypeOK
<1>2. msg[i].kind = "present" /\ stage[i] \in {"handled", "acked"}
  BY <1>0 DEF Protocol, Answers
<1> DEFINE result == IF taken THEN "fresh" ELSE "refused"
<1>3. Reply(i, result) /\ result \in Results /\ kid' \in Windows
  BY <1>0 DEF TakeForward, Results, TypeOK
<1>4. /\ answer'[i].result = result /\ answer'[i] # None
      /\ \A j \in 1..sent : j # i => answer'[j] = answer[j]
  BY <1>0, <1>3, ReplyParts
<1>5. Carried(i)' = IF taken THEN {} ELSE {Token(i)}
  <2>1. CASE taken
    BY <1>0, <1>1, <1>2, <1>4, <2>1 DEF Carried, net
  <2>2. CASE ~taken
    BY <1>0, <1>1, <1>2, <1>4, <2>2 DEF Carried, net
  <2> QED
    BY <2>1, <2>2
<1>6. \A j \in Msgs : Way(j) # Way(i) => Carried(j)' = Carried(j)
  BY <1>0, <1>4, OthersCarried DEF net
<1>7. \A p \in Places \ {Way(i), Way(i)} : At(p)' = At(p)
  BY <1>0, <1>6, Elsewhere DEF holder
<1>8. At(Way(i))' \subseteq At(Way(i))
  BY <1>1, <1>5
<1>9. Shift(Way(i), Way(i), {})
  BY <1>1, <1>7, <1>8 DEF Shift
<1> QED
  BY <1>0, <1>5, <1>9

(* The agent's answer keeps tokens where they belong. *)
LEMMA ForwardWhereabouts ==
  ASSUME Protocol, TypeOK', Whereabouts, NEW i \in 1..sent, NEW taken \in BOOLEAN, TakeForward(i, taken)
  PROVE  Whereabouts'
<1>0. /\ TypeOK /\ UNCHANGED <<holder, net, window, active, signed, asked, told, kid>>
      /\ spent' = IF ~taken /\ i \in burnt THEN spent \ {Token(i)} ELSE spent
      /\ letgo' = IF taken /\ i \notin burnt THEN letgo \cup msg[i].toks ELSE letgo
      /\ i \in forwards /\ forwards' = forwards \ {i} /\ burnt' = burnt \ {i}
      /\ burnt \subseteq forwards
      /\ OneHolder /\ FreshHeld /\ NothingLost /\ Aged /\ Secret /\ Burned /\ Ordered
  BY DEF Protocol, TakeForward, Whereabouts, TypeOK
<1>1. /\ Way(i) \in Places /\ At(Way(i)) = {Token(i)} /\ At(Way(i))' = Carried(i)'
      /\ Carried(i)' = IF taken THEN {} ELSE {Token(i)}
      /\ Shift(Way(i), Way(i), {}) /\ msg[i].toks = {Token(i)}
  BY <1>0, ForwardCarried, ForwardToken, PlaceForms
<1>2. spent' \subseteq spent /\ kid' = kid
  BY <1>0
<1>3. OneHolder'
  BY <1>0, <1>1, ShiftOneHolder
<1>4. FreshHeld'
  <2> SUFFICES ASSUME NEW p \in Places, NEW t \in At(p)', t \in spent', t[1] = kid', Live(p)'
               PROVE  FALSE
    BY DEF FreshHeld, Places, Live
  <2>1. CASE p # Way(i)
    <3>1. t \in At(p)
      BY <1>1, <2>1 DEF Shift
    <3>2. Live(p)
      <4>1. CASE \E j \in Msgs : p = Way(j)
        BY <1>0, <2>1, <4>1, PlacesLive
      <4>2. CASE ~\E j \in Msgs : p = Way(j)
        BY <4>2, PlaceForms, PlacesLive
      <4> QED
        BY <4>1, <4>2
    <3> QED
      BY <1>0, <1>2, <3>1, <3>2 DEF FreshHeld, Live
  <2>2. CASE p = Way(i)
    <3>1. ~taken /\ t = Token(i)
      <4>1. t \in Carried(i)'
        BY <1>1, <2>2
      <4>2. CASE taken
        BY <1>1, <4>1, <4>2
      <4>3. CASE ~taken
        BY <1>1, <4>1, <4>3
      <4> QED
        BY <4>2, <4>3
    <3>2. CASE i \in burnt
      BY <1>0, <3>1, <3>2
    <3>3. CASE i \notin burnt
      <4>1. Live(Way(i)) /\ t \in At(Way(i)) /\ t \in spent
        BY <1>0, <1>1, <3>1, <3>3, PlacesLive
      <4> QED
        BY <1>0, <1>1, <4>1 DEF FreshHeld, Live
    <3> QED
      BY <3>2, <3>3
  <2> QED
    BY <2>1, <2>2
<1>5. NothingLost'
  <2> SUFFICES ASSUME NEW t \in signed, t \notin spent', t[1] = kid, t \notin letgo'
               PROVE  \E p \in Places : t \in At(p)'
    BY <1>0 DEF NothingLost, Places
  <2>1. CASE t = Token(i)
    <3>1. i \in burnt => t \in spent
      BY <1>0, <2>1 DEF Burned
    <3>2. ~taken
      BY <1>0, <1>1, <2>1, <3>1
    <3> QED
      BY <1>1, <2>1, <3>2
  <2>2. CASE t # Token(i)
    <3>1. t \notin spent
      BY <1>0, <2>2
    <3>2. PICK p \in Places : t \in At(p)
      BY <1>0, <3>1 DEF NothingLost
    <3>3. p # Way(i)
      BY <1>1, <2>2, <3>2
    <3> QED
      BY <1>1, <3>2, <3>3 DEF Shift
  <2> QED
    BY <2>1, <2>2
<1>6. Aged'
  <2>1. kid \in Nat /\ window \in Nat
    BY <1>0, ShipsAssumption DEF TypeOK, Windows
  <2>2. kid <= kid' /\ kid' <= window' /\ UNCHANGED <<msg, sent, signed>>
    BY <1>0, <2>1 DEF Aged, net
  <2> QED
    BY <1>0, <1>1, <2>2, ShiftAged
<1>7. Secret'
  <2>1. UNCHANGED <<msg, sent, asked, stage>>
    BY <1>0 DEF net
  <2> QED
    BY <1>0, <1>1, <1>2, <2>1, ShiftSecret
<1>8. Burned'
  <2>1. \A j : Token(j)' = Token(j)
    BY <1>0 DEF Token, net
  <2> SUFFICES ASSUME NEW j \in burnt, j # i, Token(j)[1] = kid
               PROVE  Token(j) \in spent'
    BY <1>0, <2>1 DEF Burned
  <2>2. Token(j) \in spent
    BY <1>0 DEF Burned
  <2>3. Token(j) # Token(i)
    <3>1. Way(j) \in Places /\ Token(j) \in At(Way(j)) /\ Way(j) # Way(i)
      BY <1>0, ForwardToken, PlacesApart
    <3> QED
      BY <1>0, <1>1, <3>1 DEF OneHolder
  <2> QED
    BY <1>0, <2>2, <2>3
<1>9. Ordered'
  <2>1. Reply(i, IF taken THEN "fresh" ELSE "refused") /\ (IF taken THEN "fresh" ELSE "refused") \in Results
    BY DEF TakeForward, Results
  <2>2. UNCHANGED <<msg, sent, wallet>> /\ kid' \in Windows /\ kid <= kid'
    BY <1>0, ShipsAssumption DEF net, holder, TypeOK, Windows
  <2> QED
    BY <2>1, <2>2, ReplyOrdered
<1> QED
  BY <1>3, <1>4, <1>5, <1>6, <1>7, <1>8, <1>9 DEF Whereabouts

-----------------------------------------------------------------------------
(* Where tokens are after a holder asked for something. *)

(* The request carries what was taken for it. *)
LEMMA AskingCarried ==
  ASSUME Protocol, TypeOK', NEW m \in Msg, Asking(m), NEW n, n = sent + 1
  PROVE  /\ Way(n) \in Places /\ At(Way(n)) = {}
         /\ At(Way(n))' = IF m.kind \in {"present", "refresh", "transfer"} THEN m.toks ELSE {}
         /\ \A j \in Msgs : Way(j) # Way(n) => Carried(j)' = Carried(j)
<1>0. TypeOK /\ Send(m) /\ forwards' = forwards /\ forwards \subseteq 1..sent
  BY DEF Protocol, TypeOK, Asking, Send, issuer
<1>1. /\ n \in Msgs /\ n \notin 1..sent /\ 1..sent' = 1..sent \cup {n}
      /\ msg'[n] = m /\ stage'[n] = "out" /\ answer'[n] = None
      /\ \A i \in 1..sent : /\ msg'[i] = msg[i] /\ stage'[i] = stage[i] /\ answer'[i] = answer[i]
  BY <1>0, Sending
<1>2. ~(n > sent')
  BY <1>0, ShipsAssumption DEF TypeOK, Send
<1>3. At(Way(n)) = {} /\ Way(n) \in Places /\ At(Way(n))' = Carried(n)'
  <2>1. Carried(n) = {}
    BY <1>0, <1>1, NotSent
  <2> QED
    BY <1>1, <2>1, PlaceForms
<1>4. n \notin forwards'
  BY <1>0, <1>1
<1>5. Carried(n)' = IF m.kind \in {"present", "refresh", "transfer"} THEN m.toks ELSE {}
  <2>1. CASE m.kind \in {"present", "refresh", "transfer"}
    BY <1>1, <1>2, <2>1 DEF Carried
  <2>2. CASE m.kind \notin {"present", "refresh", "transfer"}
    BY <1>1, <1>2, <1>4, <2>2 DEF Carried
  <2> QED
    BY <2>1, <2>2
<1>6. ASSUME NEW j \in Msgs, j # n
      PROVE  Carried(j)' = Carried(j)
  <2>1. CASE j \in 1..sent
    BY <1>0, <1>1, <2>1, SameCarried
  <2>2. CASE j \notin 1..sent
    BY <1>0, <1>1, <1>6, <2>2, NotSent, NotSentNext
  <2> QED
    BY <2>1, <2>2
<1> QED
  BY <1>3, <1>5, <1>6

(* The tokens move from where they were to the request, and stay good. *)
LEMMA AskingShift ==
  ASSUME Protocol, TypeOK', NEW m \in Msg, Asking(m)
  PROVE  \E src, dest : /\ Shift(src, dest, {}) /\ Live(src)
                        /\ At(src) \cup At(dest) \subseteq At(src)' \cup At(dest)'
<1>n. PICK n : n = sent + 1
  OBVIOUS
<1>way. PICK way : way = Way(n)
  OBVIOUS
<1>0. /\ way \in Places /\ At(way) = {}
      /\ At(way)' = IF m.kind \in {"present", "refresh", "transfer"} THEN m.toks ELSE {}
      /\ \A j \in Msgs : Way(j) # way => Carried(j)' = Carried(j)
  BY <1>n, <1>way, AskingCarried
<1>1. /\ TypeOK /\ m.from \in Holders /\ out' = out
      /\ wallet \in [Holders -> SUBSET Tokens] /\ offers \in [Holders -> [Holders -> SUBSET Tokens]]
  BY DEF Protocol, TypeOK, Msg, Asking
<1>2. Live(way)
  <2>1. n \notin burnt
    BY <1>n, <1>1, ShipsAssumption DEF TypeOK
  <2> QED
    BY <1>way, <2>1, PlacesLive
<1>3. CASE m.kind \in {"request", "verify"}
  <2>1. UNCHANGED <<wallet, offers>> /\ At(way)' = {}
    BY <1>0, <1>3 DEF Asking
  <2>2. \A p \in Places \ {way, way} : At(p)' = At(p)
    BY <1>0, <1>1, <2>1, Elsewhere
  <2>3. Shift(way, way, {})
    BY <1>0, <2>1, <2>2 DEF Shift
  <2> QED
    BY <1>0, <1>2, <2>1, <2>3
<1>4. CASE m.kind \in {"present", "transfer"}
  <2>src. PICK src : src = Wallet(m.from)
    OBVIOUS
  <2>1. /\ m.toks \subseteq wallet[m.from] /\ wallet' = [wallet EXCEPT ![m.from] = @ \ m.toks]
        /\ UNCHANGED offers /\ At(way)' = m.toks
    BY <1>0, <1>4 DEF Asking
  <2>2. src \in Places /\ At(src) = wallet[m.from] /\ At(src)' = wallet[m.from] \ m.toks
    BY <1>1, <2>src, <2>1, PlaceForms
  <2>3. Live(src) /\ src # way
    BY <1>way, <2>src, PlacesLive, PlacesApart
  <2>4. \A h \in Holders : Wallet(h) \notin {src, way} => wallet'[h] = wallet[h]
    BY <1>1, <2>src, <2>1
  <2>5. \A p \in Places \ {src, way} : At(p)' = At(p)
    BY <1>0, <1>1, <2>1, <2>4, Elsewhere
  <2>6. Shift(src, way, {})
    BY <1>0, <2>1, <2>2, <2>5 DEF Shift
  <2>7. At(src) \cup At(way) \subseteq At(src)' \cup At(way)'
    BY <1>0, <2>1, <2>2
  <2> QED
    BY <2>3, <2>6, <2>7
<1>5. CASE m.kind = "refresh"
  <2>1. PICK f \in Holders : /\ m.toks = offers[m.from][f]
                             /\ offers' = [offers EXCEPT ![m.from][f] = {}]
    BY <1>5 DEF Asking
  <2>2. UNCHANGED wallet /\ At(way)' = m.toks
    BY <1>0, <1>5 DEF Asking
  <2>src. PICK src : src = Offer(m.from, f)
    OBVIOUS
  <2>3. src \in Places /\ At(src) = m.toks /\ At(src)' = {}
    BY <1>1, <2>src, <2>1, PlaceForms
  <2>4. Live(src) /\ src # way
    BY <1>way, <2>src, PlacesLive, PlacesApart
  <2>5. \A h, g \in Holders : Offer(h, g) \notin {src, way} => offers'[h][g] = offers[h][g]
    BY <1>1, <2>src, <2>1
  <2>6. \A p \in Places \ {src, way} : At(p)' = At(p)
    BY <1>0, <1>1, <2>2, <2>5, Elsewhere
  <2>7. Shift(src, way, {})
    BY <1>0, <2>2, <2>3, <2>6 DEF Shift
  <2>8. At(src) \cup At(way) \subseteq At(src)' \cup At(way)'
    BY <1>0, <2>2, <2>3
  <2> QED
    BY <2>4, <2>7, <2>8
<1> QED
  BY <1>3, <1>4, <1>5 DEF Asking

(* What it carries was in the wallet, so it is no newer than answers to come. *)
LEMMA AskingOrdered ==
  ASSUME Protocol, TypeOK', Whereabouts, NEW m \in Msg, Asking(m)
  PROVE  Ordered'
<1> DEFINE n == sent + 1
<1>0. TypeOK /\ Send(m) /\ UNCHANGED <<said, kid>> /\ wallet \in [Holders -> SUBSET Tokens]
  BY DEF Protocol, TypeOK, Asking, Send, issuer
<1>1. /\ 1..sent' = 1..sent \cup {n} /\ msg'[n] = m /\ answer'[n] = None
      /\ \A i \in 1..sent : msg'[i] = msg[i] /\ answer'[i] = answer[i]
  BY <1>0, Sending
<1>2. m.from \in Holders /\ \A i \in 1..sent : msg[i].from \in Holders
  BY <1>0, MsgParts DEF Msg
<1>3. \A h \in Holders : wallet'[h] \subseteq wallet[h]
  <2>1. wallet' = wallet \/ wallet' = [wallet EXCEPT ![m.from] = @ \ m.toks]
    BY DEF Asking
  <2> QED
    BY <1>0, <1>2, <2>1
<1>4. m.kind \in {"present", "transfer"} => m.toks \subseteq wallet[m.from]
  BY DEF Asking
<1> HIDE DEF n
<1>5. ASSUME NEW i \in 1..sent, answer[i] # None
      PROVE  /\ \A t \in wallet'[msg[i].from] : t[1] <= answer[i].kid
             /\ \A j \in 1..sent' :
                  msg'[j].from = msg[i].from /\ msg'[j].kind \in {"present", "transfer"} =>
                    \A t \in msg'[j].toks : t[1] <= answer[i].kid
  <2>1. /\ \A t \in wallet[msg[i].from] : t[1] <= answer[i].kid
        /\ \A j \in 1..sent :
             msg[j].from = msg[i].from /\ msg[j].kind \in {"present", "transfer"} =>
               \A t \in msg[j].toks : t[1] <= answer[i].kid
    BY <1>5 DEF Whereabouts, Ordered
  <2> QED
    BY <1>1, <1>2, <1>3, <1>4, <2>1
<1>6. \A i \in 1..sent' : answer'[i] # None => i \in 1..sent /\ answer'[i] = answer[i] /\ msg'[i] = msg[i]
  BY <1>1
<1>7. \A i \in 1..sent' : answer'[i] # None => answer'[i].no <= said' /\ answer'[i].kid <= kid'
  BY <1>0, <1>6 DEF Whereabouts, Ordered
<1>8. \A i, j \in 1..sent' : answer'[i] # None /\ answer'[j] # None /\ answer'[i].no <= answer'[j].no =>
        answer'[i].kid <= answer'[j].kid
  BY <1>6 DEF Whereabouts, Ordered
<1>9. \A i \in 1..sent' : answer'[i] # None =>
        /\ \A t \in wallet'[msg'[i].from] : t[1] <= answer'[i].kid
        /\ \A j \in 1..sent' :
             msg'[j].from = msg'[i].from /\ msg'[j].kind \in {"present", "transfer"} =>
               \A t \in msg'[j].toks : t[1] <= answer'[i].kid
  BY <1>5, <1>6
<1> QED
  BY <1>7, <1>8, <1>9 DEF Ordered

(* A request keeps tokens where they belong. *)
LEMMA AskingWhereabouts ==
  ASSUME Protocol, TypeOK', Whereabouts, NEW m \in Msg, Asking(m)
  PROVE  Whereabouts'
<1> DEFINE n == sent + 1
<1>0. /\ TypeOK /\ Send(m) /\ UNCHANGED <<said, window, kid, spent, forwards, burnt, signed, out, letgo>>
      /\ burnt \subseteq 1..sent
      /\ OneHolder /\ FreshHeld /\ NothingLost /\ Aged /\ Secret /\ Burned
  BY DEF Protocol, TypeOK, Asking, Send, issuer, Whereabouts
<1>1. /\ 1..sent' = 1..sent \cup {n} /\ msg'[n] = m /\ n \notin 1..sent
      /\ \A i \in 1..sent : msg'[i] = msg[i] /\ stage'[i] = stage[i]
  BY <1>0, Sending
<1>2. PICK src, dest : /\ Shift(src, dest, {}) /\ Live(src)
                       /\ At(src) \cup At(dest) \subseteq At(src)' \cup At(dest)'
  BY AskingShift
<1>3. OneHolder'
  BY <1>0, <1>2, ShiftOneHolder
<1>4. FreshHeld'
  BY <1>0, <1>2, ShiftFreshHeld
<1>5. NothingLost'
  BY <1>0, <1>2, ShiftNothingLost
<1>6. \A t \in m.toks : \E p \in Places : t \in At(p)
  <2>1. m.from \in Holders
    BY DEF Msg
  <2>2. CASE m.kind = "request"
    BY <2>2 DEF Asking
  <2>3. CASE m.kind = "verify"
    BY <2>3, PlaceForms DEF Asking
  <2>4. CASE m.kind \in {"present", "transfer"}
    BY <2>1, <2>4, PlaceForms DEF Asking
  <2>5. CASE m.kind = "refresh"
    <3>1. PICK f \in Holders : m.toks = offers[m.from][f]
      BY <2>5 DEF Asking
    <3>2. Offer(m.from, f) \in Places /\ At(Offer(m.from, f)) = m.toks
      BY <2>1, <3>1, PlaceForms
    <3> QED
      BY <3>2
  <2> QED
    BY <2>2, <2>3, <2>4, <2>5 DEF Asking
<1>7. Aged'
  <2>1. kid \in Nat /\ window \in Nat /\ kid <= kid' /\ kid' <= window'
    BY <1>0, ShipsAssumption DEF TypeOK, Windows, Aged
  <2> QED
    BY <1>0, <1>1, <1>2, <1>6, <2>1, ShiftAged
<1>8. Secret'
  <2>1. m.blinds \cap asked = {} /\ asked' = asked \cup m.blinds
    BY DEF Asking
  <2>2. \A t \in spent : t[2] \in asked
    BY <1>0 DEF Secret
  <2>3. \A p \in Places : \A t \in At(p)' : t[2] \in asked
    BY <1>0, <1>2, ShiftFrom DEF Secret
  <2>4. \A i \in 1..sent' : stage'[i] = "out" =>
          /\ \A t \in spent : t[2] \notin msg'[i].blinds
          /\ \A p \in Places : \A t \in At(p)' : t[2] \notin msg'[i].blinds
    <3> SUFFICES ASSUME NEW i \in 1..sent', stage'[i] = "out"
                 PROVE  /\ \A t \in spent : t[2] \notin msg'[i].blinds
                        /\ \A p \in Places : \A t \in At(p)' : t[2] \notin msg'[i].blinds
      OBVIOUS
    <3>1. CASE i = n
      BY <1>1, <2>1, <2>2, <2>3, <3>1
    <3>2. CASE i \in 1..sent
      <4>1. msg'[i] = msg[i] /\ stage[i] = "out"
        BY <1>1, <3>2
      <4>2. \A t \in spent : t[2] \notin msg[i].blinds
        BY <1>0, <3>2, <4>1 DEF Secret
      <4>3. \A p \in Places : \A t \in At(p) : t[2] \notin msg[i].blinds
        BY <1>0, <3>2, <4>1 DEF Secret
      <4>4. \A p \in Places : \A t \in At(p)' : t[2] \notin msg[i].blinds
        BY <1>2, <4>3, ShiftFrom
      <4> QED
        BY <4>1, <4>2, <4>4
    <3> QED
      BY <1>1, <3>1, <3>2
  <2>5. \A i, j \in 1..sent' : i # j => msg'[i].blinds \cap msg'[j].blinds = {}
    <3>1. \A i \in 1..sent : msg[i].blinds \cap m.blinds = {}
      BY <2>1 DEF Protocol, Shapes
    <3>2. \A i, j \in 1..sent : i # j => msg[i].blinds \cap msg[j].blinds = {}
      BY <1>0 DEF Secret
    <3> HIDE DEF n
    <3> QED
      BY <1>1, <3>1, <3>2
  <2>6. \A t \in spent' : t[2] \in asked'
    BY <1>0, <2>1, <2>2
  <2>7. \A p \in Places : \A t \in At(p)' : t[2] \in asked'
    BY <2>1, <2>3
  <2>8. spent' = spent
    BY <1>0
  <2> QED
    BY <2>4, <2>5, <2>6, <2>7, <2>8 DEF Secret, Places
<1>9. Burned'
  <2>1. \A j \in burnt : Token(j)' = Token(j)
    BY <1>0, <1>1 DEF Token
  <2> QED
    BY <1>0, <2>1 DEF Burned
<1> QED
  BY <1>3, <1>4, <1>5, <1>7, <1>8, <1>9, AskingOrdered DEF Whereabouts

-----------------------------------------------------------------------------
(* Where tokens are after the ships heard, or did something alone. *)

(* What ships have and get back is no newer than the answers to come. *)
LEMMA MoveOrdered ==
  ASSUME Protocol, Ordered, UNCHANGED <<msg, sent, said, kid>>,
         \A i \in 1..sent : answer'[i] \in {answer[i], None},
         \A h \in Holders : \A t \in wallet'[h] :
           \/ t \in wallet[h]
           \/ \E j \in 1..sent : /\ msg[j].from = h /\ msg[j].kind \in {"present", "transfer"}
                                 /\ t \in msg[j].toks
           \/ \A i \in 1..sent : answer'[i] # None /\ msg[i].from = h => t[1] <= answer[i].kid
  PROVE  Ordered'
<1>1. \A i \in 1..sent : answer'[i] # None => answer'[i] = answer[i] /\ answer[i] # None
  OBVIOUS
<1>2. \A i \in 1..sent : msg[i].from \in Holders
  BY MsgParts DEF Protocol
<1>3. \A i \in 1..sent : answer'[i] # None => answer'[i].no <= said /\ answer'[i].kid <= kid
  BY <1>1 DEF Ordered
<1>4. \A i, j \in 1..sent : answer'[i] # None /\ answer'[j] # None /\ answer'[i].no <= answer'[j].no =>
        answer'[i].kid <= answer'[j].kid
  BY <1>1 DEF Ordered
<1>5. ASSUME NEW i \in 1..sent, answer'[i] # None
      PROVE  /\ \A t \in wallet'[msg[i].from] : t[1] <= answer'[i].kid
             /\ \A j \in 1..sent :
                  msg[j].from = msg[i].from /\ msg[j].kind \in {"present", "transfer"} =>
                    \A t \in msg[j].toks : t[1] <= answer'[i].kid
  <2>1. answer'[i] = answer[i] /\ answer[i] # None /\ msg[i].from \in Holders
    BY <1>1, <1>2, <1>5
  <2>2. /\ \A t \in wallet[msg[i].from] : t[1] <= answer[i].kid
        /\ \A j \in 1..sent :
             msg[j].from = msg[i].from /\ msg[j].kind \in {"present", "transfer"} =>
               \A t \in msg[j].toks : t[1] <= answer[i].kid
    BY <2>1 DEF Ordered
  <2>3. \A t \in wallet'[msg[i].from] : t[1] <= answer[i].kid
    BY <1>5, <2>1, <2>2
  <2> QED
    BY <2>1, <2>2, <2>3
<1> QED
  BY <1>3, <1>4, <1>5 DEF Ordered

(* A step that leaves the issuer and the requests alone, and loses no good token. *)
LEMMA MoveWhereabouts ==
  ASSUME Protocol, TypeOK', Whereabouts, NEW src, NEW dest, Shift(src, dest, {}),
         Live(src) \/ src = dest,
         UNCHANGED <<msg, sent, said, asked, spent, kid, signed, forwards, burnt>>,
         kid <= window', letgo \subseteq letgo', Ordered',
         \A i \in 1..sent : stage'[i] = "out" => stage[i] = "out",
         \A t \in At(src) \cup At(dest) : t[1] = kid =>
           t \in At(src)' \cup At(dest)' \cup letgo'
  PROVE  Whereabouts'
<1>0. TypeOK /\ OneHolder /\ FreshHeld /\ NothingLost /\ Aged /\ Secret /\ Burned
  BY DEF Protocol, Whereabouts
<1>1. OneHolder'
  BY <1>0, ShiftOneHolder
<1>2. FreshHeld'
  BY <1>0, ShiftFreshHeld
<1>3. NothingLost'
  BY <1>0, ShiftNothingLost
<1>4. Aged'
  <2>1. kid \in Nat /\ kid <= kid' /\ kid' <= window'
    BY <1>0, ShipsAssumption DEF TypeOK, Windows
  <2> QED
    BY <1>0, <2>1, ShiftAged
<1>5. Secret'
  BY <1>0, ShiftSecret
<1>6. Burned'
  <2>1. \A j : Token(j)' = Token(j)
    BY DEF Token
  <2> QED
    BY <1>0, <2>1 DEF Burned
<1> QED
  BY <1>1, <1>2, <1>3, <1>4, <1>5, <1>6 DEF Whereabouts

(* So does what happens in one ship alone, or to the clock. *)
LEMMA AloneWhereabouts ==
  ASSUME Protocol, TypeOK', Whereabouts,
         \/ \E h, f \in Holders : DoDecline(h, f)
         \/ \E h \in Holders, t \in Tokens : TakeOut(h, t)
         \/ Turn \/ Switch
         \/ UNCHANGED vars
  PROVE  Whereabouts'
<1>0. TypeOK /\ Ordered /\ kid <= window /\ kid \in Nat /\ window \in Nat
  BY ShipsAssumption DEF Protocol, Whereabouts, Aged, TypeOK, Windows
<1>1. UNCHANGED <<pend, msg, stage, sent, answer, said, kid, spent, forwards, burnt, signed, asked, told>>
  BY DEF DoDecline, TakeOut, Turn, Switch, holder, net, issuer, vars
<1>2. letgo \subseteq letgo' /\ kid <= window'
  <2>1. window' = window \/ window' = window + 1
    BY DEF DoDecline, TakeOut, Turn, Switch, issuer, vars
  <2>2. letgo \subseteq letgo'
    BY DEF DoDecline, TakeOut, Turn, Switch, vars
  <2> QED
    BY <1>0, <2>1, <2>2
<1>3. \A j \in Msgs : Carried(j)' = Carried(j)
  <2> SUFFICES ASSUME NEW j \in Msgs
               PROVE  Carried(j)' = Carried(j)
    OBVIOUS
  <2>1. CASE j \in 1..sent
    BY <1>0, <1>1, <2>1, SameCarried
  <2>2. CASE j \notin 1..sent
    BY <1>0, <1>1, <2>2, NotSent, NotSentNext
  <2> QED
    BY <2>1, <2>2
<1>4. wallet \in [Holders -> SUBSET Tokens] /\ offers \in [Holders -> [Holders -> SUBSET Tokens]]
  BY <1>0 DEF TypeOK
<1>5. Ordered'
  <2>1. \A h \in Holders : wallet'[h] \subseteq wallet[h]
    <3>1. wallet' = wallet \/ \E h \in Holders, t \in Tokens : wallet' = [wallet EXCEPT ![h] = @ \ {t}]
      BY DEF DoDecline, TakeOut, Turn, Switch, holder, vars
    <3> QED
      BY <1>4, <3>1
  <2> QED
    BY <1>0, <1>1, <2>1, MoveOrdered
<1>6. CASE \E h, f \in Holders : DoDecline(h, f)
  <2>1. PICK h \in Holders, f \in Holders : DoDecline(h, f)
    BY <1>6
  <2>2. PICK src : src = Offer(h, f)
    OBVIOUS
  <2>3. /\ offers' = [offers EXCEPT ![h][f] = {}] /\ letgo' = letgo \cup offers[h][f]
        /\ UNCHANGED <<wallet, out>>
    BY <2>1 DEF DoDecline
  <2>4. src \in Places /\ At(src) = offers[h][f] /\ At(src)' = {}
    BY <1>4, <2>2, <2>3, PlaceForms
  <2>5. \A g, e \in Holders : Offer(g, e) \notin {src, src} => offers'[g][e] = offers[g][e]
    BY <1>4, <2>2, <2>3
  <2>6. \A p \in Places \ {src, src} : At(p)' = At(p)
    BY <1>3, <2>3, <2>5, Elsewhere
  <2>7. Shift(src, src, {})
    BY <2>4, <2>6 DEF Shift
  <2>8. \A t \in At(src) \cup At(src) : t \in letgo'
    BY <2>3, <2>4
  <2> QED
    BY <1>1, <1>2, <1>5, <2>7, <2>8, MoveWhereabouts
<1>7. CASE \E h \in Holders, t \in Tokens : TakeOut(h, t)
  <2>1. PICK h \in Holders, t \in Tokens : TakeOut(h, t)
    BY <1>7
  <2>2. PICK src : src = Wallet(h)
    OBVIOUS
  <2>3. /\ t \in wallet[h] /\ wallet' = [wallet EXCEPT ![h] = @ \ {t}]
        /\ out' = out \cup {t} /\ UNCHANGED offers
    BY <2>1 DEF TakeOut
  <2>4. /\ src \in Places /\ At(src) = wallet[h] /\ At(src)' = wallet[h] \ {t}
        /\ Shown \in Places /\ At(Shown) = out /\ At(Shown)' = out \cup {t}
        /\ Live(src) /\ src # Shown
    BY <1>4, <2>2, <2>3, PlaceForms, PlacesLive, PlacesApart
  <2>5. \A g \in Holders : Wallet(g) \notin {src, Shown} => wallet'[g] = wallet[g]
    BY <1>4, <2>2, <2>3
  <2>6. \A p \in Places \ {src, Shown} : At(p)' = At(p)
    BY <1>3, <2>3, <2>5, Elsewhere
  <2>7. At(src) \cap At(Shown) = {}
    BY <2>4 DEF Whereabouts, OneHolder
  <2>8. Shift(src, Shown, {})
    BY <2>3, <2>4, <2>6, <2>7 DEF Shift
  <2>9. At(src) \cup At(Shown) \subseteq At(src)' \cup At(Shown)'
    BY <2>4
  <2> QED
    BY <1>1, <1>2, <1>5, <2>4, <2>8, <2>9, MoveWhereabouts
<1>8. CASE Turn \/ Switch \/ UNCHANGED vars
  <2>1. UNCHANGED <<wallet, offers, out>>
    BY <1>8 DEF Turn, Switch, holder, vars
  <2>2. At(Shown)' = At(Shown) /\ Shown \in Places
    BY <2>1, PlaceForms
  <2>3. \A p \in Places \ {Shown, Shown} : At(p)' = At(p)
    BY <1>3, <2>1, Elsewhere
  <2>4. Shift(Shown, Shown, {})
    BY <2>2, <2>3 DEF Shift
  <2> QED
    BY <1>1, <1>2, <1>5, <2>2, <2>4, MoveWhereabouts
<1> QED
  BY <1>6, <1>7, <1>8

(* A transfer that arrives waits as an offer; one that crashes stays on its way. *)
LEMMA ArrivalWhereabouts ==
  ASSUME Protocol, TypeOK', Whereabouts, NEW i \in 1..sent, OnTransfer(i) \/ Nack(i)
  PROVE  Whereabouts'
<1>0. /\ TypeOK /\ Ordered /\ kid <= window /\ window' = window
      /\ UNCHANGED <<wallet, out, msg, sent, answer, said, kid, spent, forwards, burnt, signed, asked, letgo>>
  BY DEF Protocol, Whereabouts, Aged, OnTransfer, Nack, holder, issuer
<1>1. /\ i \in Msgs /\ ~(i > sent) /\ stage \in [1..sent -> Stages]
      /\ offers \in [Holders -> [Holders -> SUBSET Tokens]]
      /\ msg[i].from \in Holders /\ msg[i].to \in Holders \cup {Issuer}
  BY <1>0, ShipsAssumption, MsgParts DEF TypeOK, Msgs
<1>2. stage[i] = "out" /\ answer[i] = None /\ i \notin forwards /\ i \notin burnt
  BY DEF OnTransfer, Nack, Arrives, Protocol, Answers, TypeOK
<1>3. Way(i) \in Places /\ At(Way(i)) = Carried(i) /\ At(Way(i))' = Carried(i)' /\ Live(Way(i))
  BY <1>1, <1>2, PlaceForms, PlacesLive
<1>4. \A j \in 1..sent : stage'[j] = "out" => stage[j] = "out"
  BY <1>1, <1>2 DEF OnTransfer, Nack, Acked
<1>5. \A j \in Msgs : Way(j) # Way(i) => Carried(j)' = Carried(j)
  <2>1. \A j \in 1..sent : j # i => stage'[j] = stage[j]
    BY <1>1 DEF OnTransfer, Nack, Acked
  <2> QED
    BY <1>0, <2>1, OthersCarried
<1>6. Ordered'
  BY <1>0, MoveOrdered
<1>7. CASE OnTransfer(i)
  <2>1. PICK h, f : h = msg[i].to /\ f = msg[i].from
    OBVIOUS
  <2>2. h \in Holders /\ f \in Holders /\ msg[i].kind = "transfer"
    BY <1>1, <1>7, <2>1 DEF OnTransfer, Arrives, Protocol, Shapes
  <2>3. /\ offers' = [offers EXCEPT ![h][f] = @ \cup msg[i].toks]
        /\ stage'[i] = "handled"
    BY <1>1, <1>7, <2>1 DEF OnTransfer, Acked
  <2>4. Carried(i) = msg[i].toks
    BY <1>1, <1>2, <2>2 DEF Carried
  <2>5. Carried(i)' = {}
    BY <1>0, <1>1, <1>2, <2>2, <2>3 DEF Carried
  <2>6. PICK dest : dest = Offer(h, f)
    OBVIOUS
  <2>7. /\ dest \in Places /\ At(dest) = offers[h][f] /\ At(dest)' = offers[h][f] \cup msg[i].toks
    BY <1>1, <2>2, <2>3, <2>6, PlaceForms
  <2>8. \A g, e \in Holders : Offer(g, e) \notin {Way(i), dest} => offers'[g][e] = offers[g][e]
    BY <1>1, <2>2, <2>3, <2>6
  <2>9. \A p \in Places \ {Way(i), dest} : At(p)' = At(p)
    <3>1. UNCHANGED <<wallet, out>>
      BY <1>0
    <3>2. \A j \in Msgs : Way(j) \notin {Way(i), dest} => Carried(j)' = Carried(j)
      BY <1>5
    <3> QED
      BY <2>8, <3>1, <3>2, Elsewhere
  <2>10. Shift(Way(i), dest, {})
    BY <1>3, <2>4, <2>5, <2>7, <2>9 DEF Shift
  <2>11. At(Way(i)) \cup At(dest) \subseteq At(Way(i))' \cup At(dest)'
    BY <1>3, <2>4, <2>5, <2>7
  <2> QED
    BY <1>0, <1>3, <1>4, <1>6, <2>10, <2>11, MoveWhereabouts
<1>8. CASE Nack(i)
  <2>1. UNCHANGED offers /\ stage'[i] = "crashed"
    BY <1>1, <1>8 DEF Nack, holder
  <2>2. Carried(i)' = Carried(i)
    BY <1>0, <1>2, <2>1, SameCarried
  <2>3. \A p \in Places \ {Way(i), Way(i)} : At(p)' = At(p)
    BY <1>0, <1>5, <2>1, Elsewhere
  <2>4. Shift(Way(i), Way(i), {})
    BY <1>3, <2>2, <2>3 DEF Shift
  <2> QED
    BY <1>0, <1>3, <1>4, <1>6, <2>2, <2>4, MoveWhereabouts
<1> QED
  BY <1>7, <1>8

(* What an answer carries, and that it carries nothing when it was heard. *)
LEMMA HeardCarried ==
  ASSUME Protocol, TypeOK', NEW i \in 1..sent, answer[i] # None,
         answer' = [answer EXCEPT ![i] = None], UNCHANGED <<net, forwards, burnt>>
  PROVE  /\ Way(i) \in Places /\ At(Way(i)) = Carried(i) /\ At(Way(i))' = {} /\ Live(Way(i))
         /\ msg[i].kind \in {"present", "refresh"} /\ answer[i].result = "refused" =>
              Carried(i) = msg[i].toks
         /\ answer[i].result = "issued" => Carried(i) = {answer[i].kid} \X msg[i].blinds
         /\ ~(msg[i].kind \in {"present", "refresh"} /\ answer[i].result = "refused")
              /\ answer[i].result # "issued" => Carried(i) = {}
         /\ \A j \in Msgs : Way(j) # Way(i) => Carried(j)' = Carried(j)
<1>0. TypeOK /\ answer \in [1..sent -> Answer \cup {None}] /\ UNCHANGED <<msg, sent, stage>>
  BY DEF Protocol, TypeOK, net
<1>1. i \in Msgs /\ ~(i > sent)
  BY <1>0, ShipsAssumption DEF TypeOK, Msgs
<1>2. stage[i] \in {"handled", "acked"} /\ i \notin forwards /\ i \notin burnt
  BY DEF Protocol, Answers, TypeOK
<1>3. answer'[i] = None /\ \A j \in 1..sent : j # i => answer'[j] = answer[j]
  BY <1>0
<1>4. Way(i) \in Places /\ At(Way(i)) = Carried(i) /\ At(Way(i))' = Carried(i)' /\ Live(Way(i))
  BY <1>1, <1>2, PlaceForms, PlacesLive
<1>5. Carried(i)' = {}
  BY <1>0, <1>1, <1>2, <1>3 DEF Carried
<1>6. msg[i].kind \in {"present", "refresh"} /\ answer[i].result = "refused" =>
        Carried(i) = msg[i].toks
  BY <1>1 DEF Carried
<1>7. answer[i].result = "issued" => Carried(i) = {answer[i].kid} \X msg[i].blinds
  BY <1>1, <1>2 DEF Carried
<1>8. ~(msg[i].kind \in {"present", "refresh"} /\ answer[i].result = "refused")
        /\ answer[i].result # "issued" => Carried(i) = {}
  BY <1>1, <1>2 DEF Carried
<1>9. \A j \in Msgs : Way(j) # Way(i) => Carried(j)' = Carried(j)
  BY <1>0, <1>3, OthersCarried
<1> QED
  BY <1>4, <1>5, <1>6, <1>7, <1>8, <1>9

(* A ship that crashes on an answer lets go of what the answer carried. *)
LEMMA LostAnswerWhereabouts ==
  ASSUME Protocol, TypeOK', Whereabouts, NEW i \in 1..sent, LoseAnswer(i)
  PROVE  Whereabouts'
<1>0. /\ Ordered /\ kid <= window /\ window' = window /\ answer[i] # None
      /\ answer' = [answer EXCEPT ![i] = None] /\ answer \in [1..sent -> Answer \cup {None}]
      /\ letgo' = letgo \cup msg[i].toks \cup ({answer[i].kid} \X msg[i].blinds)
      /\ UNCHANGED <<wallet, offers, out, net, forwards, burnt>>
      /\ UNCHANGED <<msg, sent, stage, said, kid, spent, signed, asked>>
  BY DEF Protocol, TypeOK, Whereabouts, Aged, LoseAnswer, NextAnswer, holder, net, issuer
<1>1. /\ Way(i) \in Places /\ At(Way(i)) = Carried(i) /\ At(Way(i))' = {} /\ Live(Way(i))
      /\ \A j \in Msgs : Way(j) # Way(i) => Carried(j)' = Carried(j)
  BY <1>0, HeardCarried
<1>2. Carried(i) \subseteq letgo'
  <2>1. CASE msg[i].kind \in {"present", "refresh"} /\ answer[i].result = "refused"
    <3>1. Carried(i) = msg[i].toks
      BY <1>0, <2>1, HeardCarried
    <3> QED
      BY <1>0, <3>1
  <2>2. CASE answer[i].result = "issued"
    <3>1. Carried(i) = {answer[i].kid} \X msg[i].blinds
      BY <1>0, <2>2, HeardCarried
    <3> QED
      BY <1>0, <3>1
  <2>3. CASE ~(msg[i].kind \in {"present", "refresh"} /\ answer[i].result = "refused")
             /\ answer[i].result # "issued"
    <3>1. Carried(i) = {}
      BY <1>0, <2>3, HeardCarried
    <3> QED
      BY <3>1
  <2> QED
    BY <2>1, <2>2, <2>3
<1>3. \A p \in Places \ {Way(i), Way(i)} : At(p)' = At(p)
  BY <1>0, <1>1, Elsewhere
<1>4. Shift(Way(i), Way(i), {})
  BY <1>1, <1>3 DEF Shift
<1>5. Ordered'
  BY <1>0, MoveOrdered
<1>6. \A t \in At(Way(i)) \cup At(Way(i)) : t \in letgo'
  BY <1>1, <1>2
<1> QED
  BY <1>0, <1>4, <1>5, <1>6, MoveWhereabouts

(* An answer's tokens come to the wallet, where those of older keysets are
   dropped, which are dead. *)
LEMMA AnswerWhereabouts ==
  ASSUME Protocol, TypeOK', Whereabouts, NEW i \in 1..sent, OnAnswer(i)
  PROVE  Whereabouts'
<1> DEFINE h == msg[i].from
           a == answer[i]
<1>2. /\ h \in Holders /\ a # None /\ NextAnswer(i)
      /\ answer' = [answer EXCEPT ![i] = None]
      /\ UNCHANGED <<offers, out, net, said, issuer, asked>>
      /\ \/ /\ msg[i].kind \in {"request", "refresh"} /\ a.result = "issued"
            /\ wallet' = [wallet EXCEPT ![h] = ({a.kid} \X msg[i].blinds) \cup {t \in @ : t[1] = a.kid}]
            /\ UNCHANGED letgo
         \/ /\ msg[i].kind \in {"request", "refresh"} /\ a.result # "issued"
            /\ letgo' = letgo \cup msg[i].toks
            /\ UNCHANGED wallet
         \/ /\ msg[i].kind = "present" /\ a.result = "refused"
            /\ wallet' = [wallet EXCEPT ![h] = @ \cup msg[i].toks]
            /\ UNCHANGED letgo
         \/ /\ \/ msg[i].kind = "present" /\ a.result # "refused"
               \/ msg[i].kind = "verify"
            /\ UNCHANGED <<wallet, letgo>>
  BY AnswerHeard
<1>3. /\ TypeOK /\ Ordered /\ kid <= window /\ window' = window
      /\ wallet \in [Holders -> SUBSET Tokens] /\ answer \in [1..sent -> Answer \cup {None}]
      /\ UNCHANGED <<msg, sent, stage, said, kid, spent, signed, asked, forwards, burnt>>
      /\ letgo \subseteq letgo'
  BY <1>2 DEF Protocol, TypeOK, Whereabouts, Aged, net, issuer
<1>4. /\ Way(i) \in Places /\ At(Way(i)) = Carried(i) /\ At(Way(i))' = {} /\ Live(Way(i))
      /\ \A j \in Msgs : Way(j) # Way(i) => Carried(j)' = Carried(j)
  BY <1>2, <1>3, HeardCarried
<1>5. PICK dest : dest = Wallet(h)
  OBVIOUS
<1>6. dest \in Places /\ At(dest) = wallet[h] /\ At(dest)' = wallet'[h]
  BY <1>2, <1>5, PlaceForms
<1>7. \A p \in Places \ {Way(i), dest} : At(p)' = At(p)
  <2>1. \A g \in Holders : Wallet(g) \notin {Way(i), dest} => wallet'[g] = wallet[g]
    BY <1>2, <1>3, <1>5
  <2> QED
    BY <1>2, <1>4, <2>1, Elsewhere
<1>8. ASSUME wallet'[h] \subseteq Carried(i) \cup wallet[h], Ordered',
             \A t \in Carried(i) \cup wallet[h] : t[1] = kid => t \in wallet'[h] \cup letgo'
      PROVE  Whereabouts'
  <2>1. Shift(Way(i), dest, {})
    BY <1>4, <1>6, <1>7, <1>8 DEF Shift
  <2>2. \A t \in At(Way(i)) \cup At(dest) : t[1] = kid => t \in At(Way(i))' \cup At(dest)' \cup letgo'
    BY <1>4, <1>6, <1>8
  <2> QED
    BY <1>3, <1>4, <1>8, <2>1, <2>2, MoveWhereabouts
<1>9. CASE msg[i].kind \in {"request", "refresh"} /\ a.result = "issued"
  <2>1. wallet' = [wallet EXCEPT ![h] = ({a.kid} \X msg[i].blinds) \cup {t \in @ : t[1] = a.kid}]
    BY <1>2, <1>9
  <2>2. wallet'[h] = ({a.kid} \X msg[i].blinds) \cup {t \in wallet[h] : t[1] = a.kid}
    BY <1>2, <1>3, <2>1
  <2>3. Carried(i) = {a.kid} \X msg[i].blinds
    BY <1>2, <1>3, <1>9, HeardCarried
  <2>4. a.kid \in Nat /\ a.kid <= kid /\ kid \in Nat /\ \A t \in wallet[h] : t[1] <= a.kid
    BY <1>2, <1>3, ShipsAssumption, MsgParts DEF Answer, Windows, TypeOK, Ordered
  <2>5. \A t \in wallet[h] : t[1] = kid => t[1] = a.kid
    BY <2>4
  <2>6. Ordered'
    <3>1. \A j \in 1..sent : answer'[j] # None /\ msg[j].from = h => a.kid <= answer[j].kid
      <4> SUFFICES ASSUME NEW j \in 1..sent, answer'[j] # None, msg[j].from = h
                   PROVE  a.kid <= answer[j].kid
        OBVIOUS
      <4>1. answer[j] # None
        BY <1>2, <1>3
      <4>2. a.no <= answer[j].no
        BY <1>2, <4>1 DEF NextAnswer
      <4> QED
        BY <1>2, <1>3, <4>1, <4>2 DEF Ordered
    <3>2. \A t \in wallet'[h] : t[1] = a.kid
      BY <2>2
    <3>3. \A g \in Holders : g # h => wallet'[g] = wallet[g]
      BY <1>3, <2>1
    <3>4. \A g \in Holders : \A t \in wallet'[g] :
            \/ t \in wallet[g]
            \/ \A j \in 1..sent : answer'[j] # None /\ msg[j].from = g => t[1] <= answer[j].kid
      BY <3>1, <3>2, <3>3
    <3>5. \A j \in 1..sent : answer'[j] \in {answer[j], None}
      BY <1>2, <1>3
    <3> QED
      BY <1>3, <3>4, <3>5, MoveOrdered
  <2>7. wallet'[h] \subseteq Carried(i) \cup wallet[h]
    BY <2>2, <2>3
  <2>8. \A t \in Carried(i) \cup wallet[h] : t[1] = kid => t \in wallet'[h]
    BY <2>2, <2>3, <2>5
  <2> QED
    BY <1>8, <2>6, <2>7, <2>8
<1>10. CASE msg[i].kind = "present" /\ a.result = "refused"
  <2>1. wallet' = [wallet EXCEPT ![h] = @ \cup msg[i].toks]
    BY <1>2, <1>10
  <2>2. wallet'[h] = wallet[h] \cup msg[i].toks
    BY <1>2, <1>3, <2>1
  <2>3. Carried(i) = msg[i].toks
    BY <1>2, <1>3, <1>10, HeardCarried
  <2>4. \A g \in Holders : \A t \in wallet'[g] :
          \/ t \in wallet[g]
          \/ \E j \in 1..sent : /\ msg[j].from = g /\ msg[j].kind \in {"present", "transfer"}
                                /\ t \in msg[j].toks
    BY <1>3, <1>10, <2>1, <2>2
  <2>5. \A j \in 1..sent : answer'[j] \in {answer[j], None}
    BY <1>2, <1>3
  <2>6. Ordered'
    BY <1>3, <2>4, <2>5, MoveOrdered
  <2>7. /\ wallet'[h] \subseteq Carried(i) \cup wallet[h]
        /\ \A t \in Carried(i) \cup wallet[h] : t \in wallet'[h]
    BY <2>2, <2>3
  <2> QED
    BY <1>8, <2>6, <2>7
<1>11. CASE ~(msg[i].kind \in {"request", "refresh"} /\ a.result = "issued")
            /\ ~(msg[i].kind = "present" /\ a.result = "refused")
  <2>1. UNCHANGED wallet
    BY <1>2, <1>11
  <2>2. Carried(i) \subseteq letgo'
    <3>1. CASE msg[i].kind \in {"present", "refresh"} /\ a.result = "refused"
      <4>1. Carried(i) = msg[i].toks /\ letgo' = letgo \cup msg[i].toks
        BY <1>2, <1>3, <1>11, <3>1, HeardCarried
      <4> QED
        BY <4>1
    <3>2. CASE a.result = "issued"
      <4>1. msg[i].blinds = {}
        BY <1>2, <1>11, <3>2 DEF Protocol, Shapes
      <4>2. Carried(i) = {a.kid} \X msg[i].blinds
        BY <1>2, <1>3, <3>2, HeardCarried
      <4> QED
        BY <4>1, <4>2
    <3>3. CASE ~(msg[i].kind \in {"present", "refresh"} /\ a.result = "refused")
               /\ a.result # "issued"
      <4>1. Carried(i) = {}
        BY <1>2, <1>3, <3>3, HeardCarried
      <4> QED
        BY <4>1
    <3> QED
      BY <3>1, <3>2, <3>3
  <2>3. \A j \in 1..sent : answer'[j] \in {answer[j], None}
    BY <1>2, <1>3
  <2>4. Ordered'
    BY <1>3, <2>1, <2>3, MoveOrdered
  <2>5. /\ wallet'[h] \subseteq Carried(i) \cup wallet[h]
        /\ \A t \in Carried(i) \cup wallet[h] : t \in wallet'[h] \cup letgo'
    BY <2>1, <2>2
  <2> QED
    BY <1>8, <2>4, <2>5
<1> QED
  BY <1>9, <1>10, <1>11

(* A nack returns what a use or a give took, and lets go of what an accept took;
   another ack moves nothing. *)
LEMMA AckWhereabouts ==
  ASSUME Protocol, TypeOK', Whereabouts, NEW i \in 1..sent, TakeAck(i)
  PROVE  Whereabouts'
<1> DEFINE h == msg[i].from
<1>1. /\ h \in Holders /\ UNCHANGED <<offers, out, msg, sent, answer, said, issuer, asked>>
      /\ \/ /\ stage[i] = "handled" /\ stage' = [stage EXCEPT ![i] = "acked"]
            /\ UNCHANGED <<wallet, letgo>>
         \/ /\ stage[i] = "crashed" /\ stage' = [stage EXCEPT ![i] = "nacked"]
            /\ wallet' = [wallet EXCEPT ![h] = @ \cup
                 IF msg[i].kind \in {"present", "transfer"} THEN msg[i].toks ELSE {}]
            /\ letgo' = IF msg[i].kind = "refresh" THEN letgo \cup msg[i].toks ELSE letgo
  BY AckHeard
<1>2. /\ TypeOK /\ Ordered /\ kid <= window /\ window' = window
      /\ UNCHANGED <<msg, sent, answer, said, kid, spent, signed, asked, forwards, burnt>>
      /\ stage \in [1..sent -> Stages] /\ wallet \in [Holders -> SUBSET Tokens]
      /\ i \in Msgs /\ ~(i > sent)
  BY <1>1, ShipsAssumption DEF Protocol, TypeOK, Whereabouts, Aged, issuer, Msgs
<1>3. \A j \in 1..sent : j # i => stage'[j] = stage[j]
  BY <1>1, <1>2
<1>4. \A j \in Msgs : Way(j) # Way(i) => Carried(j)' = Carried(j)
  BY <1>2, <1>3, OthersCarried
<1>5. Way(i) \in Places /\ At(Way(i)) = Carried(i) /\ At(Way(i))' = Carried(i)'
  BY <1>2, PlaceForms
<1>6. \A j \in 1..sent : stage'[j] = "out" => stage[j] = "out"
  BY <1>1, <1>2
<1>7. CASE stage[i] = "handled"
  <2>1. UNCHANGED <<wallet, offers, out, letgo>> /\ stage'[i] = "acked"
    BY <1>1, <1>2, <1>7
  <2>2. Carried(i)' = Carried(i)
    BY <1>2, <1>7, <2>1, SameCarried
  <2>3. \A p \in Places \ {Way(i), Way(i)} : At(p)' = At(p)
    BY <1>4, <2>1, Elsewhere
  <2>4. Shift(Way(i), Way(i), {})
    BY <1>5, <2>2, <2>3 DEF Shift
  <2>5. Ordered'
    BY <1>2, <2>1, MoveOrdered
  <2> QED
    BY <1>2, <1>5, <1>6, <2>1, <2>2, <2>4, <2>5, MoveWhereabouts
<1>8. CASE stage[i] = "crashed"
  <2> DEFINE back == IF msg[i].kind \in {"present", "transfer"} THEN msg[i].toks ELSE {}
  <2>1. /\ UNCHANGED <<offers, out>> /\ stage'[i] = "nacked"
        /\ wallet' = [wallet EXCEPT ![h] = @ \cup back]
        /\ letgo' = IF msg[i].kind = "refresh" THEN letgo \cup msg[i].toks ELSE letgo
    BY <1>1, <1>2, <1>8
  <2>2. wallet'[h] = wallet[h] \cup back /\ letgo \subseteq letgo'
    BY <1>1, <1>2, <2>1
  <2>3. answer[i] = None /\ i \notin forwards /\ i \notin burnt
    BY <1>8 DEF Protocol, Answers, TypeOK
  <2>4. Carried(i)' = {} /\ Live(Way(i))
    BY <1>2, <2>1, <2>3, PlacesLive DEF Carried
  <2>5. Carried(i) = IF msg[i].kind \in {"present", "refresh", "transfer"} THEN msg[i].toks ELSE {}
    <3>1. CASE msg[i].kind \in {"present", "refresh", "transfer"}
      BY <1>2, <1>8, <3>1 DEF Carried
    <3>2. CASE msg[i].kind \notin {"present", "refresh", "transfer"}
      BY <1>2, <2>3, <3>2 DEF Carried
    <3> QED
      BY <3>1, <3>2
  <2>6. back \subseteq Carried(i) /\ Carried(i) \subseteq back \cup letgo'
    <3>1. CASE msg[i].kind \in {"present", "transfer"}
      BY <2>5, <3>1
    <3>2. CASE msg[i].kind = "refresh"
      BY <2>1, <2>5, <3>2
    <3>3. CASE msg[i].kind \notin {"present", "transfer", "refresh"}
      BY <2>5, <3>3
    <3> QED
      BY <3>1, <3>2, <3>3
  <2>7. PICK dest : dest = Wallet(h)
    OBVIOUS
  <2>8. dest \in Places /\ At(dest) = wallet[h] /\ At(dest)' = wallet[h] \cup back
    BY <1>1, <2>2, <2>7, PlaceForms
  <2>9. \A g \in Holders : Wallet(g) \notin {Way(i), dest} => wallet'[g] = wallet[g]
    BY <1>1, <1>2, <2>1, <2>7
  <2>10. \A p \in Places \ {Way(i), dest} : At(p)' = At(p)
    <3>1. \A j \in Msgs : Way(j) \notin {Way(i), dest} => Carried(j)' = Carried(j)
      BY <1>4
    <3> QED
      BY <2>1, <2>9, <3>1, Elsewhere
  <2>11. \A g \in Holders : \A t \in wallet'[g] :
           \/ t \in wallet[g]
           \/ \E j \in 1..sent : /\ msg[j].from = g /\ msg[j].kind \in {"present", "transfer"}
                                 /\ t \in msg[j].toks
    <3>1. \A g \in Holders : g # h => wallet'[g] = wallet[g]
      BY <1>2, <2>1
    <3>2. \A t \in back : msg[i].kind \in {"present", "transfer"} /\ t \in msg[i].toks
      OBVIOUS
    <3> QED
      BY <1>1, <2>2, <3>1, <3>2
  <2> HIDE DEF back
  <2>12. Ordered'
    BY <1>2, <2>11, MoveOrdered
  <2>13. Shift(Way(i), dest, {})
    BY <1>5, <2>4, <2>6, <2>8, <2>10 DEF Shift
  <2>14. \A t \in At(Way(i)) \cup At(dest) : t \in At(Way(i))' \cup At(dest)' \cup letgo'
    BY <1>5, <2>6, <2>8
  <2> QED
    BY <1>2, <1>6, <2>2, <2>4, <2>12, <2>13, <2>14, MoveWhereabouts
<1> QED
  BY <1>1, <1>7, <1>8

-----------------------------------------------------------------------------
(* The invariant. *)

(* Every step keeps both. *)
LEMMA ShipsStep ==
  ASSUME Careful, ShipsInv, [Next]_vars
  PROVE  ShipsInv'
<1>1. Protocol /\ Whereabouts /\ TypeOK /\ Shapes
  BY DEF ShipsInv, Protocol
<1>2. Protocol'
  BY <1>1, ProtocolStep
<1>3. TypeOK'
  BY <1>2 DEF Protocol
<1>4. Whereabouts'
  <2>1. ASSUME NEW i \in 1..sent, OnTransfer(i) \/ Nack(i) \/ OnAnswer(i) \/ LoseAnswer(i) \/ TakeAck(i)
        PROVE  Whereabouts'
    BY <1>1, <1>3, <2>1, ArrivalWhereabouts, AnswerWhereabouts, LostAnswerWhereabouts, AckWhereabouts
  <2> QED
    BY <1>1, <1>3, <2>1, Steps, AskingWhereabouts, VerdictWhereabouts, ForwardWhereabouts,
       AloneWhereabouts
<1> QED
  BY <1>2, <1>4 DEF ShipsInv

(* There are no tokens at first. *)
LEMMA ShipsInit ==
  ASSUME Init
  PROVE  ShipsInv
<1>1. Protocol
  BY ProtocolInit
<1>2. /\ TypeOK /\ sent = 0 /\ 1..sent = {} /\ signed = {} /\ spent = {} /\ forwards = {} /\ burnt = {} /\ out = {}
      /\ kid = 0 /\ window = 0
      /\ \A h \in Holders : wallet[h] = {}
      /\ \A h, f \in Holders : offers[h][f] = {}
  BY <1>1 DEF Init, Protocol
<1>3. \A p \in Places : At(p) = {}
  <2> SUFFICES ASSUME NEW p \in Places
               PROVE  At(p) = {}
    OBVIOUS
  <2>1. CASE \E h \in Holders : p = Wallet(h)
    BY <1>2, <2>1, PlaceForms
  <2>2. CASE \E h, f \in Holders : p = Offer(h, f)
    BY <1>2, <2>2, PlaceForms
  <2>3. CASE p = Shown
    BY <1>2, <2>3, PlaceForms
  <2>4. CASE \E i \in Msgs : p = Way(i)
    BY <1>2, <2>4, PlaceForms, NotSent
  <2> QED
    BY <2>1, <2>2, <2>3, <2>4, PlaceForms
<1>4. OneHolder /\ FreshHeld /\ NothingLost
  BY <1>2, <1>3 DEF OneHolder, FreshHeld, NothingLost
<1>5. Aged /\ Secret /\ Burned /\ Ordered
  BY <1>2, <1>3 DEF Aged, Secret, Burned, Ordered
<1> QED
  BY <1>1, <1>4, <1>5 DEF ShipsInv, Whereabouts

(* The inductive invariant: requests and tokens are as the protocol has them. *)
THEOREM ShipsCorrect ==
  ASSUME Careful
  PROVE  Spec => []ShipsInv
BY ShipsInit, ShipsStep, PTL DEF Spec

(* No token is in two places: no two holders count on it. *)
THEOREM TokensApart ==
  ASSUME Careful
  PROVE  Spec => []OneHolder
<1>1. ShipsInv => OneHolder
  BY DEF ShipsInv, Whereabouts
<1> QED
  BY <1>1, ShipsCorrect, PTL

(* No token that is held, offered or may come back was used up under the keyset. *)
THEOREM HeldUnspent ==
  ASSUME Careful
  PROVE  Spec => []FreshHeld
<1>1. ShipsInv => FreshHeld
  BY DEF ShipsInv, Whereabouts
<1> QED
  BY <1>1, ShipsCorrect, PTL

(* No good token is lost on the way, unless it was declined, an accept of it
   failed, or a ship crashed on an answer. *)
THEOREM TokensKept ==
  ASSUME Careful
  PROVE  Spec => []NothingLost
<1>1. ShipsInv => NothingLost
  BY DEF ShipsInv, Whereabouts
<1> QED
  BY <1>1, ShipsCorrect, PTL
=============================================================================
