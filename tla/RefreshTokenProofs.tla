------------------------- MODULE RefreshTokenProofs -------------------------
(* Proofs about module RefreshToken, for any bounds.                       *)
EXTENDS RefreshToken, TLAPS

-----------------------------------------------------------------------------
(* Types                                                                   *)

\* What has been minted stays minted when a request starts.
LEMMA MintedGrows ==
    ASSUME serial \in Nat
    PROVE  /\ Minted \subseteq 1..(serial + 1)
           /\ serial + 1 \in 1..(serial + 1)
  BY SMT DEF Minted

\* Every variable has its type at the start.
LEMMA TypeInit == Init => TypeOK
  BY SMT DEF Init, TypeOK, Minted

\* A request that starts is well typed, and what was well typed stays so.
LEMMA TypeStart ==
    ASSUME TypeOK,
           NEW op \in Operations, NEW session, NEW old, NEW phase,
           session \in 1..(serial + 1),
           old \in 1..(serial + 1) \cup {NoToken},
           phase \in {"create", "cleanup", "update", "respond"},
           Start(op, session, old, phase)
    PROVE  /\ serial' \in Nat
           /\ Minted \subseteq Minted'
           /\ active' \subseteq Request'
  <1>1. serial \in Nat /\ active \subseteq Request
    BY DEF TypeOK
  <1>2. serial' = serial + 1
    BY DEF Start
  <1>3. Minted' = 1..(serial + 1) /\ Minted \subseteq Minted' /\ serial + 1 \in Minted'
    BY <1>1, <1>2, MintedGrows DEF Minted
  <1>4. Request \subseteq Request'
    BY <1>3 DEF Request
  <1>5. [id |-> serial + 1, op |-> op, session |-> session, old |-> old,
         phase |-> phase] \in Request'
    BY <1>3 DEF Request
  <1> QED
    BY <1>1, <1>2, <1>3, <1>4, <1>5 DEF Start

\* A request in flight that moves on stays well typed.
LEMMA TypeMoveTo ==
    ASSUME TypeOK, NEW q \in active, NEW phase, serial' = serial,
           phase \in {"create", "cleanup", "update", "respond"},
           MoveTo(q, phase)
    PROVE  active' \subseteq Request'
  <1>1. Request' = Request /\ active \subseteq Request
    BY DEF Request, TypeOK, Minted
  <1>2. [q EXCEPT !.phase = phase] \in Request
    BY <1>1 DEF Request
  <1> QED
    BY <1>1, <1>2 DEF MoveTo

\* Every step keeps the types.
LEMMA TypeStep == TypeOK /\ [Next]_vars => TypeOK'
  <1> SUFFICES ASSUME TypeOK, [Next]_vars PROVE TypeOK'
    OBVIOUS
  <1> USE DEF ghostVars
  <1>0. serial \in Nat
    BY DEF TypeOK
  <1>1. ASSUME NEW op \in Operations, BeginSession(op) PROVE TypeOK'
    <2>1. Start(op, serial + 1, NoToken, "create")
          /\ UNCHANGED <<sessions, held, rotated, deleted, overlapped, lost>>
      BY <1>1 DEF BeginSession
    <2>2. serial + 1 \in 1..(serial + 1)
      BY <1>0, SMT
    <2>3. serial' \in Nat /\ Minted \subseteq Minted' /\ active' \subseteq Request'
      BY <2>1, <2>2, TypeStart
    <2> QED
      BY <2>1, <2>3 DEF TypeOK, Session, Held
  <1>2. ASSUME NEW s \in sessions, BeginRefresh(s) PROVE TypeOK'
    <2>1. /\ Start("refresh", s.id, s.token, "update")
          /\ overlapped' \in {overlapped, overlapped \cup {s.id}}
          /\ UNCHANGED <<sessions, held, rotated, deleted, lost>>
      BY <1>2 DEF BeginRefresh
    <2>2. s.id \in Minted /\ s.token \in Minted \cup {NoToken}
      BY DEF TypeOK, Session
    <2>3. Minted \subseteq 1..(serial + 1)
      BY <1>0, MintedGrows
    <2>4. serial' \in Nat /\ Minted \subseteq Minted' /\ active' \subseteq Request'
      BY <2>1, <2>2, <2>3, TypeStart DEF Operations
    <2> QED
      BY <2>1, <2>2, <2>4 DEF TypeOK, Session, Held
  <1>3. ASSUME NEW q \in active, CreateSession(q) PROVE TypeOK'
    <2>1. serial' = serial /\ Minted' = Minted /\ q \in Request
      BY <1>3 DEF CreateSession, Minted, TypeOK
    <2>2. active' \subseteq Request'
      BY <1>3, <2>1, TypeMoveTo DEF CreateSession
    <2>3. [id |-> q.session, token |-> CreatedToken(q), expired |-> FALSE] \in Session
      BY <2>1 DEF Request, Session, CreatedToken
    <2> QED
      BY <1>3, <2>1, <2>2, <2>3 DEF CreateSession, TypeOK, Session, Held
  <1>4. ASSUME NEW q \in active, DeleteExpired(q) PROVE TypeOK'
    <2>1. serial' = serial /\ Minted' = Minted
      BY <1>4 DEF DeleteExpired, Minted
    <2>2. active' \subseteq Request'
      BY <1>4, <2>1, TypeMoveTo DEF DeleteExpired
    <2>3. \A s \in sessions : s.id \in Minted
      BY DEF TypeOK, Session
    <2> QED
      BY <1>4, <2>1, <2>2, <2>3 DEF DeleteExpired, TypeOK, Session, Held
  <1>5. ASSUME NEW q \in active, UpdateSession(q) PROVE TypeOK'
    <2>1. serial' = serial /\ Minted' = Minted /\ q \in Request
      BY <1>5 DEF UpdateSession, Minted, TypeOK
    <2>2. active' \subseteq Request'
      <3>1. CASE Leave(q)
        BY <2>1, <3>1 DEF Leave, TypeOK, Request
      <3>2. CASE MoveTo(q, "respond")
        BY <2>1, <3>2, TypeMoveTo
      <3> QED
        BY <1>5, <3>1, <3>2 DEF UpdateSession
    <2>3. Refreshed(q) \subseteq Session
      <3>1. q.id \in Minted /\ \A s \in sessions : s.id \in Minted
        BY <2>1 DEF Request, Session, TypeOK
      <3>2. \A s \in sessions :
              [id |-> s.id, token |-> q.id, expired |-> FALSE] \in Session
        BY <3>1 DEF Session
      <3> QED
        BY <3>2 DEF Refreshed
    <2>4. \A s \in sessions : s.token \in Minted \cup {NoToken}
      BY DEF TypeOK, Session
    <2>5. sessions' \subseteq Session
      BY <1>5, <2>3 DEF UpdateSession, TypeOK
    <2>6. rotated' \subseteq Minted \cup {NoToken}
      BY <1>5, <2>4 DEF UpdateSession, TypeOK
    <2> QED
      BY <1>5, <2>1, <2>2, <2>5, <2>6 DEF UpdateSession, TypeOK, Session, Held
  <1>6. ASSUME NEW q \in active, Respond(q) PROVE TypeOK'
    <2>1. serial' = serial /\ Minted' = Minted /\ q \in Request
      BY <1>6 DEF Respond, Minted, TypeOK
    <2>2. [session |-> q.session, token |-> Answered(q), op |-> q.op] \in Held
      BY <2>1 DEF Request, Held, Answered
    <2> QED
      BY <1>6, <2>1, <2>2 DEF Respond, Leave, TypeOK, Session, Held, Request
  <1>7. ASSUME NEW q \in active, Abort(q) PROVE TypeOK'
    <2>1. serial' = serial /\ Minted' = Minted /\ q.session \in Minted
      BY <1>7 DEF Abort, Minted, TypeOK, Request
    <2> QED
      BY <1>7, <2>1 DEF Abort, Leave, TypeOK, Session, Held, Request
  <1>8. ASSUME NEW s \in sessions, Expire(s) PROVE TypeOK'
    <2>1. serial' = serial /\ Minted' = Minted
      BY <1>8 DEF Expire, Minted
    <2>2. [s EXCEPT !.expired = TRUE] \in Session
      BY DEF TypeOK, Session
    <2> QED
      BY <1>8, <2>1, <2>2 DEF Expire, TypeOK, Session, Held, Request
  <1>9. ASSUME UNCHANGED vars PROVE TypeOK'
    BY <1>9 DEF vars, TypeOK, Minted, Session, Request, Held
  <1> QED
    BY <1>1, <1>2, <1>3, <1>4, <1>5, <1>6, <1>7, <1>8, <1>9 DEF Next, Advance

\* Every row, request and token is one that a request has minted, for any
\* number of requests.
THEOREM TypeCorrect == Spec => []TypeOK
  BY TypeInit, TypeStep, PTL DEF Spec

-----------------------------------------------------------------------------
(* What a request mints is used once                                       *)

Unwritten == {"create", "update"}

\* Two requests in flight have different numbers.
RequestsDistinct == \A p, q \in active : p.id = q.id => p = q

\* The token of a request that has still to write is nowhere yet.
TokenUnused ==
    \A q \in active : q.phase \in Unwritten =>
        /\ q.id \notin rotated
        /\ \A s \in sessions : s.token # q.id

\* Nor is the row of a request that has still to create it, and no other
\* request is about that row.
RowUnused ==
    \A q \in active : q.phase = "create" =>
        /\ q.session = q.id
        /\ q.id \notin deleted
        /\ \A s \in sessions : s.id # q.id
        /\ \A p \in active : p # q => p.session # q.id

\* A refresh under way replaces a token, never the null of verifyEmail.
Rotatable ==
    /\ NoToken \notin rotated
    /\ \A h \in held : h.token # NoToken
    /\ \A q \in active : q.phase = "update" =>
         \A s \in sessions : s.id = q.session => s.token # NoToken

MintInv ==
    /\ RequestsDistinct
    /\ TokenUnused
    /\ RowUnused
    /\ Rotatable
    /\ TokensIdentify
    /\ RotatedGone
    /\ DeletedGone

\* Nothing is minted at the start.
LEMMA MintInit == Init => MintInv
  BY DEF Init, MintInv, RequestsDistinct, TokenUnused, RowUnused, Rotatable,
         TokensIdentify, RotatedGone, DeletedGone, NoToken

\* The number of the next request is in no row, set or request yet.
LEMMA NextIsFresh ==
    ASSUME TypeOK
    PROVE  /\ serial + 1 # NoToken
           /\ \A s \in sessions : s.id # serial + 1 /\ s.token # serial + 1
           /\ \A q \in active : q.id # serial + 1 /\ q.session # serial + 1
           /\ serial + 1 \notin rotated
           /\ serial + 1 \notin deleted
           /\ serial + 1 \in 1..(serial + 1)
  <1>1. serial \in Nat /\ serial + 1 \notin Minted /\ serial + 1 # NoToken
        /\ serial + 1 \in 1..(serial + 1)
    BY SMT DEF TypeOK, Minted, NoToken
  <1>2. \A s \in sessions : s.id \in Minted /\ s.token \in Minted \cup {NoToken}
    BY DEF TypeOK, Session
  <1>3. \A q \in active : q.id \in Minted /\ q.session \in Minted
    BY DEF TypeOK, Request
  <1>4. rotated \subseteq Minted \cup {NoToken} /\ deleted \subseteq Minted
    BY DEF TypeOK
  <1> QED
    BY <1>1, <1>2, <1>3, <1>4

\* A request that leaves, or moves on to a phase where it writes no more, is
\* the same request, and the others stay.
LEMMA Settled ==
    ASSUME TypeOK, RequestsDistinct, NEW q \in active,
           NEW phase \in {"cleanup", "respond"},
           MoveTo(q, phase) \/ Leave(q)
    PROVE  /\ RequestsDistinct'
           /\ \A p \in active' :
                \/ p \in active /\ p # q
                \/ /\ p.id = q.id
                   /\ p.session = q.session
                   /\ p.op = q.op
                   /\ p.phase = phase
  <1>1. CASE Leave(q)
    BY <1>1 DEF Leave, RequestsDistinct
  <1>2. CASE MoveTo(q, phase)
    <2> DEFINE m == [q EXCEPT !.phase = phase]
    <2>1. m.id = q.id /\ m.session = q.session /\ m.op = q.op /\ m.phase = phase
      BY DEF TypeOK, Request
    <2>2. active' = (active \ {q}) \cup {m}
      BY <1>2 DEF MoveTo
    <2> HIDE DEF m
    <2> QED
      BY <2>1, <2>2 DEF RequestsDistinct
  <1> QED
    BY <1>1, <1>2

\* The start of a session mints a row and a token that are unused.
LEMMA MintBeginSession ==
    ASSUME TypeOK, MintInv, NEW op \in Operations, BeginSession(op)
    PROVE  MintInv'
  <1> DEFINE new == [id |-> serial + 1, op |-> op, session |-> serial + 1,
                     old |-> NoToken, phase |-> "create"]
  <1>1. active' = active \cup {new}
        /\ UNCHANGED <<sessions, held, rotated, deleted, overlapped, lost>>
    BY DEF BeginSession, Start, ghostVars
  <1>2. new.id = serial + 1 /\ new.session = serial + 1 /\ new.phase = "create"
    OBVIOUS
  <1> HIDE DEF new
  <1>3. RequestsDistinct'
    BY <1>1, <1>2, NextIsFresh DEF MintInv, RequestsDistinct
  <1>4. TokenUnused'
    BY <1>1, <1>2, NextIsFresh DEF MintInv, TokenUnused
  <1>5. RowUnused'
    <2>1. \A q \in active : q.id # serial + 1 /\ q.session # serial + 1
      BY NextIsFresh
    <2>2. ASSUME NEW q \in active', q.phase = "create"
          PROVE  /\ q.session = q.id
                 /\ q.id \notin deleted'
                 /\ \A s \in sessions' : s.id # q.id
                 /\ \A p \in active' : p # q => p.session # q.id
      <3>1. CASE q = new
        BY <1>1, <1>2, <2>1, <3>1, NextIsFresh
      <3>2. CASE q \in active
        BY <1>1, <1>2, <2>1, <2>2, <3>2 DEF MintInv, RowUnused
      <3> QED
        BY <1>1, <3>1, <3>2
    <2> QED
      BY <2>2 DEF RowUnused
  <1>6. Rotatable' /\ TokensIdentify' /\ RotatedGone' /\ DeletedGone'
    BY <1>1, <1>2 DEF MintInv, Rotatable, TokensIdentify, RotatedGone, DeletedGone
  <1> QED
    BY <1>3, <1>4, <1>5, <1>6 DEF MintInv

\* The start of a refresh mints an unused token, and the token it found is not
\* null.
LEMMA MintBeginRefresh ==
    ASSUME TypeOK, MintInv, NEW s \in sessions, BeginRefresh(s)
    PROVE  MintInv'
  <1> DEFINE new == [id |-> serial + 1, op |-> "refresh", session |-> s.id,
                     old |-> s.token, phase |-> "update"]
  <1>1. active' = active \cup {new}
        /\ UNCHANGED <<sessions, held, rotated, deleted, lost>>
    BY DEF BeginRefresh, Start
  <1>2. new.id = serial + 1 /\ new.session = s.id /\ new.phase = "update"
    OBVIOUS
  <1> HIDE DEF new
  <1>3. RequestsDistinct'
    BY <1>1, <1>2, NextIsFresh DEF MintInv, RequestsDistinct
  <1>4. TokenUnused'
    BY <1>1, <1>2, NextIsFresh DEF MintInv, TokenUnused
  <1>5. RowUnused'
    BY <1>1, <1>2 DEF MintInv, RowUnused
  <1>6. Rotatable'
    <2>1. s.token # NoToken
      BY DEF BeginRefresh, MintInv, Rotatable
    <2>2. \A t \in sessions : t.id = s.id => t = s
      BY DEF MintInv, TokensIdentify
    <2> QED
      BY <1>1, <1>2, <2>1, <2>2 DEF MintInv, Rotatable
  <1>7. TokensIdentify' /\ RotatedGone' /\ DeletedGone'
    BY <1>1 DEF MintInv, TokensIdentify, RotatedGone, DeletedGone
  <1> QED
    BY <1>3, <1>4, <1>5, <1>6, <1>7 DEF MintInv

\* session.create writes a row and a token that are unused.
LEMMA MintCreateSession ==
    ASSUME TypeOK, MintInv, NEW q \in active, CreateSession(q)
    PROVE  MintInv'
  <1> DEFINE row == [id |-> q.session, token |-> CreatedToken(q), expired |-> FALSE]
             next == IF q.op = "open" THEN "cleanup" ELSE "respond"
  <1>1. /\ q.phase = "create"
        /\ sessions' = sessions \cup {row}
        /\ MoveTo(q, next)
        /\ UNCHANGED <<serial, held, rotated, deleted, overlapped, lost>>
    BY DEF CreateSession, ghostVars
  <1>2. row.id = q.id /\ row.token \in {q.id, NoToken}
    BY <1>1 DEF MintInv, RowUnused, CreatedToken
  <1>3. next \in {"cleanup", "respond"}
    OBVIOUS
  <1> HIDE DEF row, next
  <1>4. /\ RequestsDistinct'
        /\ \A p \in active' :
             \/ p \in active /\ p # q
             \/ p.id = q.id /\ p.session = q.session /\ p.phase = next
    BY <1>1, <1>3, Settled DEF MintInv
  <1>5. /\ q.session = q.id /\ q.id \notin rotated /\ q.id \notin deleted
        /\ \A s \in sessions : s.id # q.id /\ s.token # q.id
        /\ \A p \in active : p # q => p.id # q.id /\ p.session # q.id
    BY <1>1 DEF MintInv, TokenUnused, RowUnused, RequestsDistinct, Unwritten
  <1>6. \A p \in active : p.id # NoToken
    BY DEF TypeOK, Request, Minted, NoToken
  <1>7. \A p \in active' : p.phase \in Unwritten => p \in active /\ p # q
    BY <1>3, <1>4 DEF Unwritten
  <1>8. TokenUnused'
    BY <1>1, <1>2, <1>5, <1>6, <1>7 DEF MintInv, TokenUnused
  <1>9. RowUnused'
    <2>1. ASSUME NEW p \in active', p.phase = "create"
          PROVE  /\ p.session = p.id
                 /\ p.id \notin deleted'
                 /\ \A s \in sessions' : s.id # p.id
                 /\ \A r \in active' : r # p => r.session # p.id
      <3>1. p \in active /\ p # q
        BY <1>7, <2>1 DEF Unwritten
      <3>2. /\ p.session = p.id /\ p.id \notin deleted
            /\ \A s \in sessions : s.id # p.id
            /\ \A r \in active : r # p => r.session # p.id
        BY <2>1, <3>1 DEF MintInv, RowUnused
      <3>3. ASSUME NEW r \in active', r # p PROVE r.session # p.id
        <4>1. CASE r \in active
          BY <3>2, <3>3, <4>1
        <4>2. CASE r.session = q.session
          BY <3>1, <3>2, <4>2
        <4> QED
          BY <1>4, <4>1, <4>2
      <3> QED
        BY <1>1, <1>2, <1>5, <3>1, <3>2, <3>3
    <2> QED
      BY <2>1 DEF RowUnused
  <1>10. Rotatable'
    BY <1>1, <1>2, <1>5, <1>7 DEF MintInv, Rotatable, Unwritten
  <1>11. TokensIdentify'
    BY <1>1, <1>2, <1>5 DEF MintInv, TokensIdentify
  <1>12. RotatedGone' /\ DeletedGone'
    BY <1>1, <1>2, <1>5 DEF MintInv, RotatedGone, DeletedGone, Rotatable
  <1> QED
    BY <1>4, <1>8, <1>9, <1>10, <1>11, <1>12 DEF MintInv

\* The cleanup only takes rows away.
LEMMA MintDeleteExpired ==
    ASSUME TypeOK, MintInv, NEW q \in active, DeleteExpired(q)
    PROVE  MintInv'
  <1> DEFINE gone == {s \in sessions : Stale(s)}
  <1>1. /\ sessions' = sessions \ gone
        /\ deleted' = deleted \cup {s.id : s \in gone}
        /\ q.phase = "cleanup"
        /\ MoveTo(q, "respond")
        /\ UNCHANGED <<serial, held, rotated, overlapped, lost>>
    BY DEF DeleteExpired
  <1>2. gone \subseteq sessions
    OBVIOUS
  <1> HIDE DEF gone
  <1>3. /\ RequestsDistinct'
        /\ \A p \in active' :
             \/ p \in active /\ p # q
             \/ p.id = q.id /\ p.session = q.session /\ p.phase = "respond"
    BY <1>1, Settled DEF MintInv
  <1>4. \A p \in active' : p.phase \in Unwritten => p \in active
    BY <1>3 DEF Unwritten
  <1>5. TokenUnused'
    BY <1>1, <1>2, <1>4 DEF MintInv, TokenUnused
  <1>6. RowUnused'
    <2>1. ASSUME NEW p \in active', p.phase = "create"
          PROVE  /\ p.session = p.id
                 /\ p.id \notin deleted'
                 /\ \A s \in sessions' : s.id # p.id
                 /\ \A r \in active' : r # p => r.session # p.id
      <3>1. p \in active /\ p # q
        BY <1>1, <1>4, <2>1 DEF Unwritten
      <3>2. /\ p.session = p.id /\ p.id \notin deleted
            /\ \A s \in sessions : s.id # p.id
            /\ \A r \in active : r # p => r.session # p.id
        BY <2>1, <3>1 DEF MintInv, RowUnused
      <3>3. ASSUME NEW r \in active', r # p PROVE r.session # p.id
        <4>1. CASE r \in active
          BY <3>2, <3>3, <4>1
        <4>2. CASE r.session = q.session
          BY <3>1, <3>2, <4>2
        <4> QED
          BY <1>3, <4>1, <4>2
      <3> QED
        BY <1>1, <1>2, <3>2, <3>3
    <2> QED
      BY <2>1 DEF RowUnused
  <1>7. Rotatable'
    BY <1>1, <1>2, <1>4 DEF MintInv, Rotatable, Unwritten
  <1>8. TokensIdentify' /\ RotatedGone'
    BY <1>1, <1>2 DEF MintInv, TokensIdentify, RotatedGone
  <1>9. DeletedGone'
    BY <1>1, <1>2 DEF MintInv, TokensIdentify, DeletedGone
  <1> QED
    BY <1>3, <1>5, <1>6, <1>7, <1>8, <1>9 DEF MintInv

\* What session.update does: it finds no row, or the one row with the id, which
\* gets the minted token.
LEMMA UpdateCases ==
    ASSUME TypeOK, TokensIdentify, NEW q \in active, UpdateSession(q)
    PROVE  \/ /\ \A s \in sessions : s.id # q.session
              /\ sessions' = sessions
              /\ rotated' = rotated
              /\ Leave(q)
           \/ \E s \in sessions :
                /\ s.id = q.session
                /\ sessions' = (sessions \ {s}) \cup
                     {[id |-> q.session, token |-> q.id, expired |-> FALSE]}
                /\ rotated' = rotated \cup {s.token}
                /\ MoveTo(q, "respond")
  <1> DEFINE found == {s \in sessions : s.id = q.session}
  <1>1. /\ sessions' = (sessions \ found) \cup Refreshed(q)
        /\ IF Refreshed(q) = {}
           THEN Leave(q) /\ UNCHANGED rotated
           ELSE MoveTo(q, "respond") /\ rotated' = rotated \cup {s.token : s \in found}
    BY DEF UpdateSession
  <1>2. CASE found = {}
    <2>1. Refreshed(q) = {}
      BY <1>2 DEF Refreshed
    <2> QED
      BY <1>1, <1>2, <2>1
  <1>3. CASE found # {}
    <2>1. PICK s \in sessions : s.id = q.session
      BY <1>3
    <2>2. found = {s}
      BY <2>1 DEF TokensIdentify
    <2>4. Refreshed(q) = {[id |-> q.session, token |-> q.id, expired |-> FALSE]}
      BY <2>1, <2>2 DEF Refreshed
    <2>5. {t.token : t \in found} = {s.token}
      BY <2>2
    <2> HIDE DEF found
    <2> QED
      BY <1>1, <2>1, <2>2, <2>4, <2>5
  <1> QED
    BY <1>2, <1>3

\* session.update puts an unused token in place of one that is then rotated.
LEMMA MintUpdateSession ==
    ASSUME TypeOK, MintInv, NEW q \in active, UpdateSession(q)
    PROVE  MintInv'
  <1>1. q.phase = "update"
        /\ UNCHANGED <<serial, held, deleted, overlapped, lost>>
    BY DEF UpdateSession
  <1>2. Leave(q) \/ MoveTo(q, "respond")
    BY UpdateCases DEF MintInv
  <1>3. /\ RequestsDistinct'
        /\ \A p \in active' :
             \/ p \in active /\ p # q
             \/ p.id = q.id /\ p.session = q.session /\ p.phase = "respond"
    BY <1>2, Settled DEF MintInv
  <1>4. \A p \in active' : p.phase \in Unwritten => p \in active /\ p # q
    BY <1>3 DEF Unwritten
  <1>5. RowUnused' /\ TokenUnused' /\ Rotatable' /\ TokensIdentify'
        /\ RotatedGone' /\ DeletedGone'
    <2>1. CASE sessions' = sessions /\ rotated' = rotated
      <3>1. RowUnused'
        <4>1. ASSUME NEW p \in active', p.phase = "create"
              PROVE  /\ p.session = p.id
                     /\ p.id \notin deleted'
                     /\ \A s \in sessions' : s.id # p.id
                     /\ \A r \in active' : r # p => r.session # p.id
          <5>1. p \in active /\ p # q
            BY <1>4, <4>1 DEF Unwritten
          <5>2. /\ p.session = p.id /\ p.id \notin deleted
                /\ \A s \in sessions : s.id # p.id
                /\ \A r \in active : r # p => r.session # p.id
            BY <4>1, <5>1 DEF MintInv, RowUnused
          <5> QED
            BY <1>1, <1>3, <2>1, <5>1, <5>2
        <4> QED
          BY <4>1 DEF RowUnused
      <3> QED
        BY <1>1, <1>4, <2>1, <3>1 DEF MintInv, TokenUnused, Rotatable, TokensIdentify,
           RotatedGone, DeletedGone, Unwritten
    <2>2. ASSUME NEW s \in sessions,
                 s.id = q.session,
                 sessions' = (sessions \ {s}) \cup
                   {[id |-> q.session, token |-> q.id, expired |-> FALSE]},
                 rotated' = rotated \cup {s.token}
          PROVE  RowUnused' /\ TokenUnused' /\ Rotatable' /\ TokensIdentify'
                 /\ RotatedGone' /\ DeletedGone'
      <3> DEFINE new == [id |-> q.session, token |-> q.id, expired |-> FALSE]
      <3>1. sessions' = (sessions \ {s}) \cup {new} /\ new.id = s.id /\ new.token = q.id
        BY <2>2
      <3> HIDE DEF new
      <3>2. /\ q.id \notin rotated
            /\ \A t \in sessions : t.token # q.id
            /\ \A p \in active : p # q => p.id # q.id
            /\ s.token # NoToken
        BY <1>1, <2>2 DEF MintInv, TokenUnused, RequestsDistinct, Rotatable, Unwritten
      <3>3. q.id # NoToken
        BY DEF TypeOK, Request, Minted, NoToken
      <3>4. \A t \in sessions : t # s => t.id # s.id /\ t.token # s.token
        BY <3>2 DEF MintInv, TokensIdentify
      <3>5. RowUnused'
        <4>1. ASSUME NEW p \in active', p.phase = "create"
              PROVE  /\ p.session = p.id
                     /\ p.id \notin deleted'
                     /\ \A t \in sessions' : t.id # p.id
                     /\ \A r \in active' : r # p => r.session # p.id
          <5>1. p \in active /\ p # q
            BY <1>4, <4>1 DEF Unwritten
          <5>2. /\ p.session = p.id /\ p.id \notin deleted
                /\ \A t \in sessions : t.id # p.id
                /\ \A r \in active : r # p => r.session # p.id
            BY <4>1, <5>1 DEF MintInv, RowUnused
          <5> QED
            BY <1>1, <1>3, <2>2, <3>1, <5>1, <5>2
        <4> QED
          BY <4>1 DEF RowUnused
      <3>6. TokenUnused'
        BY <1>4, <2>2, <3>1, <3>2 DEF MintInv, TokenUnused
      <3>7. Rotatable'
        BY <1>1, <1>4, <2>2, <3>1, <3>2, <3>3 DEF MintInv, Rotatable, Unwritten
      <3>8. TokensIdentify'
        BY <3>1, <3>2, <3>4 DEF MintInv, TokensIdentify
      <3>9. RotatedGone'
        BY <2>2, <3>1, <3>2, <3>4 DEF MintInv, RotatedGone
      <3>10. DeletedGone'
        BY <1>1, <2>2, <3>1 DEF MintInv, DeletedGone
      <3> QED
        BY <3>5, <3>6, <3>7, <3>8, <3>9, <3>10
    <2> QED
      BY <2>1, <2>2, UpdateCases DEF MintInv
  <1> QED
    BY <1>3, <1>5 DEF MintInv

\* A request that leaves, its answer delivered or lost, writes no row.
LEMMA MintLeave ==
    ASSUME TypeOK, MintInv, NEW q \in active, Respond(q) \/ Abort(q)
    PROVE  MintInv'
  <1>1. Leave(q) /\ UNCHANGED <<sessions, serial, rotated, deleted>>
    BY DEF Respond, Abort
  <1>2. active' \subseteq active
    BY <1>1 DEF Leave
  <1>3. Rotatable'
    <2>1. \A h \in held' : h \in held \/ h.token = q.id
      BY DEF Respond, Abort, Answered
    <2>2. q.id # NoToken
      BY DEF TypeOK, Request, Minted, NoToken
    <2> QED
      BY <1>1, <1>2, <2>1, <2>2 DEF MintInv, Rotatable
  <1> QED
    BY <1>1, <1>2, <1>3 DEF MintInv, RequestsDistinct, TokenUnused, RowUnused,
       TokensIdentify, RotatedGone, DeletedGone

\* A row that expires keeps its id and its token.
LEMMA MintExpire ==
    ASSUME TypeOK, MintInv, NEW s \in sessions, Expire(s)
    PROVE  MintInv'
  <1> DEFINE new == [s EXCEPT !.expired = TRUE]
  <1>1. sessions' = (sessions \ {s}) \cup {new}
        /\ UNCHANGED <<active, serial, held, rotated, deleted, overlapped, lost>>
    BY DEF Expire, ghostVars
  <1>2. new.id = s.id /\ new.token = s.token
    BY DEF TypeOK, Session
  <1> HIDE DEF new
  <1>3. TokenUnused' /\ RowUnused' /\ Rotatable'
    BY <1>1, <1>2 DEF MintInv, TokenUnused, RowUnused, Rotatable
  <1>4. TokensIdentify' /\ RotatedGone' /\ DeletedGone'
    BY <1>1, <1>2 DEF MintInv, TokensIdentify, RotatedGone, DeletedGone
  <1> QED
    BY <1>1, <1>3, <1>4 DEF MintInv, RequestsDistinct

\* Every step keeps what is minted unique.
LEMMA MintStep == TypeOK /\ MintInv /\ [Next]_vars => MintInv'
  <1> SUFFICES ASSUME TypeOK, MintInv, [Next]_vars PROVE MintInv'
    OBVIOUS
  <1>1. CASE UNCHANGED vars
    BY <1>1 DEF vars, MintInv, RequestsDistinct, TokenUnused, RowUnused, Rotatable,
       TokensIdentify, RotatedGone, DeletedGone
  <1>2. CASE Next
    BY <1>2, MintBeginSession, MintBeginRefresh, MintCreateSession, MintDeleteExpired,
       MintUpdateSession, MintLeave, MintExpire DEF Next, Advance
  <1> QED
    BY <1>1, <1>2

\* The types and the invariant of minting hold for ever.
LEMMA Minting == Spec => [](TypeOK /\ MintInv)
  BY TypeInit, TypeStep, MintInit, MintStep, PTL DEF Spec

\* A refresh token that refreshAccessToken has replaced is in no row again.
THEOREM RotatedStaysGone == Spec => []RotatedGone
  <1>1. MintInv => RotatedGone
    BY DEF MintInv
  <1> QED
    BY <1>1, Minting, PTL

\* A session the cleanup of login or verifyOtp has removed does not come back
\* through the update of a refresh.
THEOREM DeletedStaysGone == Spec => []DeletedGone
  <1>1. MintInv => DeletedGone
    BY DEF MintInv
  <1> QED
    BY <1>1, Minting, PTL

\* The findFirst of refreshAccessToken has at most one row to find.
THEOREM TokensIdentifyRows == Spec => []TokensIdentify
  <1>1. MintInv => TokensIdentify
    BY DEF MintInv
  <1> QED
    BY <1>1, Minting, PTL

\* The three together: a refresh token opens one session while it is good, and
\* none afterwards.
THEOREM TokensOpenOneSession == Spec => []TokensOpenOne
  <1>1. TokensIdentify /\ RotatedGone /\ DeletedGone => TokensOpenOne
    BY DEF TokensOpenOne
  <1> QED
    BY <1>1, TokensIdentifyRows, RotatedStaysGone, DeletedStaysGone, PTL

-----------------------------------------------------------------------------
(* Delivered tokens are accounted for                                      *)

\* A token is in its row, was rotated away, or the row was removed.
Accounted(id, token) ==
    \/ \E s \in sessions : s.id = id /\ s.token = token
    \/ token \in rotated
    \/ id \in deleted

\* The token of every answer delivered, or still to be delivered, is accounted
\* for.
HeldInv ==
    /\ \A h \in held : h.op # "verifyEmail" => Accounted(h.session, h.token)
    /\ \A q \in active :
         q.op # "verifyEmail" /\ q.phase \in {"cleanup", "respond"}
         => Accounted(q.session, q.id)

\* Rows only leave by the cleanup, and tokens only by a rotation: what is
\* accounted for stays so.
LEMMA AccountedStays ==
    ASSUME TypeOK, MintInv, [Next]_vars, NEW id, NEW token, Accounted(id, token)
    PROVE  Accounted(id, token)'
  <1>1. CASE sessions \subseteq sessions' /\ rotated \subseteq rotated'
             /\ deleted \subseteq deleted'
    BY <1>1 DEF Accounted
  <1>2. ASSUME NEW q \in active, DeleteExpired(q)
        PROVE  Accounted(id, token)'
    <2> DEFINE gone == {s \in sessions : Stale(s)}
    <2>1. /\ sessions' = sessions \ gone
          /\ deleted' = deleted \cup {s.id : s \in gone}
          /\ rotated' = rotated
      BY <1>2 DEF DeleteExpired
    <2> HIDE DEF gone
    <2> QED
      BY <2>1 DEF Accounted
  <1>3. ASSUME NEW q \in active, UpdateSession(q)
        PROVE  Accounted(id, token)'
    <2>1. deleted' = deleted
      BY <1>3 DEF UpdateSession
    <2>2. CASE sessions' = sessions /\ rotated' = rotated
      BY <2>1, <2>2 DEF Accounted
    <2>3. ASSUME NEW s \in sessions, sessions \ {s} \subseteq sessions',
                 rotated' = rotated \cup {s.token}
          PROVE  Accounted(id, token)'
      BY <2>1, <2>3 DEF Accounted
    <2> QED
      BY <1>3, <2>2, <2>3, UpdateCases DEF MintInv
  <1>4. ASSUME NEW s \in sessions, Expire(s)
        PROVE  Accounted(id, token)'
    <2> DEFINE new == [s EXCEPT !.expired = TRUE]
    <2>1. sessions' = (sessions \ {s}) \cup {new}
          /\ UNCHANGED <<rotated, deleted>>
      BY <1>4 DEF Expire, ghostVars
    <2>2. new.id = s.id /\ new.token = s.token
      BY DEF TypeOK, Session
    <2> HIDE DEF new
    <2> QED
      BY <2>1, <2>2 DEF Accounted
  <1>5. CASE UNCHANGED vars
    BY <1>1, <1>5 DEF vars
  <1>6. ASSUME NEW op \in Operations, BeginSession(op) PROVE Accounted(id, token)'
    BY <1>1, <1>6 DEF BeginSession, ghostVars
  <1>7. ASSUME NEW s \in sessions, BeginRefresh(s) PROVE Accounted(id, token)'
    BY <1>1, <1>7 DEF BeginRefresh
  <1>8. ASSUME NEW q \in active, CreateSession(q) PROVE Accounted(id, token)'
    BY <1>1, <1>8 DEF CreateSession, ghostVars
  <1>9. ASSUME NEW q \in active, Respond(q) \/ Abort(q) PROVE Accounted(id, token)'
    BY <1>1, <1>9 DEF Respond, Abort
  <1> QED
    BY <1>2, <1>3, <1>4, <1>5, <1>6, <1>7, <1>8, <1>9 DEF Next, Advance

\* Each request in flight after a step was in flight before it, at the same
\* phase, or it has started, created its row, ended its cleanup or updated its
\* row; and what it then has to deliver is accounted for.
LEMMA AnswersAccounted ==
    ASSUME TypeOK, MintInv, HeldInv, [Next]_vars
    PROVE  \A p \in active' :
             p.op # "verifyEmail" /\ p.phase \in {"cleanup", "respond"}
             => Accounted(p.session, p.id)'
  <1> SUFFICES ASSUME NEW p \in active',
                      p.op # "verifyEmail",
                      p.phase \in {"cleanup", "respond"}
               PROVE  Accounted(p.session, p.id)'
    OBVIOUS
  <1>1. CASE p \in active
    BY <1>1, AccountedStays DEF HeldInv
  <1>2. ASSUME NEW op \in Operations, BeginSession(op) PROVE p \in active
    BY <1>2 DEF BeginSession, Start
  <1>3. ASSUME NEW s \in sessions, BeginRefresh(s) PROVE p \in active
    BY <1>3 DEF BeginRefresh, Start
  <1>4. ASSUME NEW q \in active, CreateSession(q)
        PROVE  p \in active \/ Accounted(p.session, p.id)'
    <2> DEFINE next == IF q.op = "open" THEN "cleanup" ELSE "respond"
    <2>1. MoveTo(q, next) /\ next \in {"cleanup", "respond"}
      BY <1>4 DEF CreateSession
    <2> HIDE DEF next
    <2>2. p \in active \/ (p.id = q.id /\ p.session = q.session /\ p.op = q.op)
      BY <2>1, Settled DEF MintInv
    <2>3. ASSUME p.id = q.id, p.session = q.session, p.op = q.op
          PROVE  Accounted(p.session, p.id)'
      <3> DEFINE row == [id |-> q.session, token |-> q.id, expired |-> FALSE]
      <3>1. row \in sessions'
        BY <1>4, <2>3 DEF CreateSession, CreatedToken
      <3> QED
        BY <2>3, <3>1 DEF Accounted
    <2> QED
      BY <2>2, <2>3
  <1>5. ASSUME NEW q \in active, DeleteExpired(q)
        PROVE  p \in active \/ Accounted(p.session, p.id)'
    <2>1. q.phase = "cleanup" /\ MoveTo(q, "respond")
      BY <1>5 DEF DeleteExpired
    <2>2. p \in active \/ (p.id = q.id /\ p.session = q.session /\ p.op = q.op)
      BY <2>1, Settled DEF MintInv
    <2>3. q.op # "verifyEmail" => Accounted(q.session, q.id)'
      BY <2>1, AccountedStays DEF HeldInv
    <2> QED
      BY <2>2, <2>3 DEF Accounted
  <1>6. ASSUME NEW q \in active, UpdateSession(q)
        PROVE  p \in active \/ Accounted(p.session, p.id)'
    <2>1. CASE Leave(q)
      BY <2>1 DEF Leave
    <2>2. ASSUME NEW s \in sessions,
                 sessions' = (sessions \ {s}) \cup
                   {[id |-> q.session, token |-> q.id, expired |-> FALSE]},
                 MoveTo(q, "respond")
          PROVE  p \in active \/ Accounted(p.session, p.id)'
      <3>1. p \in active \/ (p.id = q.id /\ p.session = q.session)
        BY <2>2, Settled DEF MintInv
      <3> DEFINE row == [id |-> q.session, token |-> q.id, expired |-> FALSE]
      <3>2. row \in sessions' /\ row.id = q.session /\ row.token = q.id
        BY <2>2
      <3> HIDE DEF row
      <3> QED
        BY <3>1, <3>2 DEF Accounted
    <2> QED
      BY <1>6, <2>1, <2>2, UpdateCases DEF MintInv
  <1>7. ASSUME NEW q \in active, Respond(q) \/ Abort(q) PROVE p \in active
    BY <1>7 DEF Respond, Abort, Leave
  <1>8. ASSUME NEW s \in sessions, Expire(s) PROVE p \in active
    BY <1>8 DEF Expire
  <1>9. CASE UNCHANGED vars
    BY <1>1, <1>9 DEF vars
  <1> QED
    BY <1>1, <1>2, <1>3, <1>4, <1>5, <1>6, <1>7, <1>8, <1>9 DEF Next, Advance

\* Every answer that reaches a client was still to be delivered before.
LEMMA HeldStep == TypeOK /\ MintInv /\ HeldInv /\ [Next]_vars => HeldInv'
  <1> SUFFICES ASSUME TypeOK, MintInv, HeldInv, [Next]_vars PROVE HeldInv'
    OBVIOUS
  <1>1. ASSUME NEW h \in held', h.op # "verifyEmail"
        PROVE  Accounted(h.session, h.token)'
    <2>1. CASE h \in held
      BY <1>1, <2>1, AccountedStays DEF HeldInv
    <2>2. ASSUME NEW q \in active, Respond(q), h \notin held
          PROVE  Accounted(h.session, h.token)'
      <3>1. h = [session |-> q.session, token |-> q.id, op |-> q.op]
            /\ q.phase = "respond"
        BY <2>2 DEF Respond, Answered
      <3>2. Accounted(q.session, q.id)
        BY <1>1, <3>1 DEF HeldInv
      <3> QED
        BY <3>1, <3>2, AccountedStays
    <2>3. h \in held \/ \E q \in active : Respond(q)
      BY DEF Next, Advance, vars, ghostVars, BeginSession, BeginRefresh, CreateSession,
         DeleteExpired, UpdateSession, Abort, Expire
    <2> QED
      BY <2>1, <2>2, <2>3
  <1> QED
    BY <1>1, AnswersAccounted DEF HeldInv

\* A refresh token that reached a client through login, verifyOtp or
\* refreshAccessToken is in its row until a refresh replaces it or the cleanup
\* removes the row.
THEOREM HeldStaysAccounted == Spec => []HeldAccounted
  <1>1. Init => HeldInv
    BY DEF Init, HeldInv
  <1>2. TypeOK /\ HeldInv => HeldAccounted
    <2> SUFFICES ASSUME TypeOK, HeldInv, NEW h \in held, h.op # "verifyEmail",
                        h.token \notin rotated, h.session \notin deleted
                 PROVE  \/ [id |-> h.session, token |-> h.token,
                            expired |-> FALSE] \in sessions
                        \/ [id |-> h.session, token |-> h.token,
                            expired |-> TRUE] \in sessions
      BY DEF HeldAccounted
    <2>1. PICK s \in sessions : s.id = h.session /\ s.token = h.token
      BY DEF HeldInv, Accounted
    <2>2. s = [id |-> h.session, token |-> h.token, expired |-> s.expired]
          /\ s.expired \in BOOLEAN
      BY <2>1 DEF TypeOK, Session
    <2> QED
      BY <2>2
  <1> QED
    BY <1>1, <1>2, HeldStep, Minting, PTL DEF Spec

-----------------------------------------------------------------------------
(* A client that waits for its answers                                     *)

\* The token of a request in flight is with no client, nor is any token of a
\* row that is still to be created.
Unanswered ==
    \A q \in active, h \in held :
        /\ h.token # q.id
        /\ q.phase = "create" => h.session # q.session

\* The rows a client may have refreshed in turn.
Careful(s) == s.token # NoToken /\ s.id \notin overlapped \cup lost

\* A client of the row holds its token.
InHand(s) == \E h \in held : h.session = s.id /\ h.token = s.token

\* At most one request is about such a row: either it has still to replace the
\* token of the row, which a client holds, or the token is its own.
InTurn(s) ==
    /\ \A p, q \in active : p.session = s.id /\ q.session = s.id => p = q
    /\ \A h \in held : h.session = s.id => h.token <= s.token
    /\ \A q \in active : q.session = s.id =>
         IF q.phase = "update" THEN q.op = "refresh" /\ s.token < q.id /\ InHand(s)
         ELSE q.phase # "create" /\ s.token = q.id
    /\ (\A q \in active : q.session # s.id) => InHand(s)

TurnInv == Unanswered /\ \A s \in sessions : Careful(s) => InTurn(s)

\* No row is there at the start.
LEMMA TurnInit == Init => TurnInv
  BY DEF Init, TurnInv, Unanswered

\* The number of the next request is above all numbers so far.
LEMMA NextIsAbove ==
    ASSUME TypeOK
    PROVE  /\ \A s \in sessions : s.token \in Nat /\ s.token < serial + 1
           /\ \A h \in held : /\ h.token \in Nat /\ h.token < serial + 1
                              /\ h.session # serial + 1
  BY DEF TypeOK, Session, Held, Minted, NoToken

\* A new row is nobody's business yet.
LEMMA TurnBeginSession ==
    ASSUME TypeOK, TurnInv, NEW op \in Operations, BeginSession(op)
    PROVE  TurnInv'
  <1> DEFINE new == [id |-> serial + 1, op |-> op, session |-> serial + 1,
                     old |-> NoToken, phase |-> "create"]
  <1>1. active' = active \cup {new}
        /\ UNCHANGED <<sessions, held, rotated, deleted, overlapped, lost>>
    BY DEF BeginSession, Start, ghostVars
  <1>2. new.id = serial + 1 /\ new.session = serial + 1
    OBVIOUS
  <1> HIDE DEF new
  <1>3. Unanswered'
    BY <1>1, <1>2, NextIsAbove DEF TurnInv, Unanswered
  <1>4. ASSUME NEW s \in sessions, Careful(s) PROVE InTurn(s)'
    <2>1. s.id # new.session
      BY <1>2, NextIsFresh
    <2>2. InTurn(s)
      BY <1>4 DEF TurnInv
    <2> QED
      BY <1>1, <2>1, <2>2 DEF InTurn, InHand
  <1> QED
    BY <1>1, <1>3, <1>4 DEF TurnInv, Careful

\* A client refreshes with a token it holds: no request has that token still to
\* deliver, so the row's latest request has been answered, or is a rival.
LEMMA TurnBeginRefresh ==
    ASSUME TypeOK, MintInv, TurnInv, NEW s \in sessions, BeginRefresh(s)
    PROVE  TurnInv'
  <1> DEFINE new == [id |-> serial + 1, op |-> "refresh", session |-> s.id,
                     old |-> s.token, phase |-> "update"]
             rivals == {q \in active : q.op = "refresh" /\ q.session = s.id}
  <1>1. /\ active' = active \cup {new}
        /\ overlapped' = IF rivals = {} THEN overlapped ELSE overlapped \cup {s.id}
        /\ UNCHANGED <<sessions, held, rotated, deleted, lost>>
    BY DEF BeginRefresh, Start
  <1>2. new.id = serial + 1 /\ new.session = s.id /\ new.phase = "update"
        /\ new.op = "refresh"
    OBVIOUS
  <1>3. PICK h \in held : h.token = s.token
    BY DEF BeginRefresh
  <1>4. s.token # NoToken
    BY <1>3 DEF MintInv, Rotatable
  <1>5. \A t \in sessions : t.id = s.id => t = s
    BY DEF MintInv, TokensIdentify
  <1>6. Unanswered'
    BY <1>1, <1>2, NextIsAbove DEF TurnInv, Unanswered
  <1>7. ASSUME NEW t \in sessions, Careful(t)' PROVE InTurn(t)'
    <2>1. Careful(t) /\ InTurn(t)
      BY <1>1, <1>7 DEF Careful, TurnInv
    <2>2. CASE t.id # s.id
      BY <1>1, <1>2, <2>1, <2>2 DEF InTurn, InHand
    <2>3. CASE t = s
      <3>1. rivals = {}
        BY <1>1, <1>7, <2>3 DEF Careful
      <3>2. \A q \in active : q.session # s.id
        BY <1>3, <2>1, <2>3, <3>1 DEF InTurn, TurnInv, Unanswered
      <3>3. InHand(s) /\ s.token < new.id
        BY <1>2, <2>1, <2>3, <3>2, NextIsAbove DEF InTurn
      <3> HIDE DEF new, rivals
      <3> QED
        BY <1>1, <1>2, <2>1, <2>3, <3>2, <3>3 DEF InTurn, InHand
    <2> QED
      BY <1>5, <2>2, <2>3
  <1> QED
    BY <1>1, <1>6, <1>7 DEF TurnInv

\* session.create makes a row about which there is no other request.
LEMMA TurnCreateSession ==
    ASSUME TypeOK, MintInv, TurnInv, NEW q \in active, CreateSession(q)
    PROVE  TurnInv'
  <1> DEFINE next == IF q.op = "open" THEN "cleanup" ELSE "respond"
             row == [id |-> q.session, token |-> CreatedToken(q), expired |-> FALSE]
             m == [q EXCEPT !.phase = next]
  <1>1. /\ q.phase = "create" /\ sessions' = sessions \cup {row}
        /\ active' = (active \ {q}) \cup {m}
        /\ UNCHANGED <<serial, held, rotated, deleted, overlapped, lost>>
    BY DEF CreateSession, MoveTo, ghostVars
  <1>2. /\ m.id = q.id /\ m.session = q.session /\ m.phase \in {"cleanup", "respond"}
        /\ m.phase = next
    BY DEF TypeOK, Request
  <1>3. row.id = q.session /\ row.token \in {NoToken, q.id}
    BY DEF CreatedToken
  <1> HIDE DEF row, m, next
  <1>4. /\ q.session = q.id
        /\ \A s \in sessions : s.id # q.id
        /\ \A p \in active : p # q => p.session # q.id
    BY <1>1 DEF MintInv, RowUnused
  <1>5. Unanswered' /\ \A h \in held : h.session # q.session
    BY <1>1, <1>2 DEF TurnInv, Unanswered
  <1>6. ASSUME NEW s \in sessions', Careful(s)' PROVE InTurn(s)'
    <2>1. CASE s \in sessions
      <3>1. InTurn(s) /\ s.id # q.session
        BY <1>1, <1>4, <1>6, <2>1 DEF Careful, TurnInv
      <3> QED
        BY <1>1, <1>2, <3>1 DEF InTurn, InHand
    <2>2. CASE s = row
      <3>1. s.token = q.id /\ s.id = q.session
        BY <1>3, <1>6, <2>2 DEF Careful
      <3> QED
        BY <1>1, <1>2, <1>4, <1>5, <3>1 DEF InTurn
    <2> QED
      BY <1>1, <2>1, <2>2
  <1> QED
    BY <1>5, <1>6 DEF TurnInv

\* The cleanup removes rows, and the request that made it answers next.
LEMMA TurnDeleteExpired ==
    ASSUME TypeOK, TurnInv, NEW q \in active, DeleteExpired(q)
    PROVE  TurnInv'
  <1> DEFINE m == [q EXCEPT !.phase = "respond"]
  <1>1. /\ q.phase = "cleanup" /\ sessions' \subseteq sessions
        /\ active' = (active \ {q}) \cup {m}
        /\ UNCHANGED <<serial, held, rotated, overlapped, lost>>
    BY DEF DeleteExpired, MoveTo
  <1>2. m.id = q.id /\ m.session = q.session /\ m.phase = "respond"
    BY DEF TypeOK, Request
  <1> HIDE DEF m
  <1>3. Unanswered'
    BY <1>1, <1>2 DEF TurnInv, Unanswered
  <1>4. ASSUME NEW s \in sessions', Careful(s)' PROVE InTurn(s)'
    <2>1. InTurn(s) /\ s \in sessions
      BY <1>1, <1>4 DEF Careful, TurnInv
    <2> QED
      BY <1>1, <1>2, <2>1 DEF InTurn, InHand
  <1> QED
    BY <1>3, <1>4 DEF TurnInv

\* session.update gives the row the token of its one request, above those before.
LEMMA TurnUpdateSession ==
    ASSUME TypeOK, MintInv, TurnInv, NEW q \in active, UpdateSession(q)
    PROVE  TurnInv'
  <1>1. UNCHANGED <<serial, held, deleted, overlapped, lost>> /\ q.phase = "update"
    BY DEF UpdateSession
  <1>2. CASE /\ \A s \in sessions : s.id # q.session
             /\ sessions' = sessions
             /\ Leave(q)
    <2>1. Unanswered'
      BY <1>1, <1>2 DEF TurnInv, Unanswered, Leave
    <2>2. ASSUME NEW s \in sessions, Careful(s) PROVE InTurn(s)'
      <3>1. InTurn(s) /\ s.id # q.session
        BY <1>2, <2>2 DEF TurnInv
      <3> QED
        BY <1>1, <1>2, <3>1 DEF InTurn, InHand, Leave
    <2> QED
      BY <1>1, <1>2, <2>1, <2>2 DEF TurnInv, Careful
  <1>3. ASSUME NEW t \in sessions, t.id = q.session,
               sessions' = (sessions \ {t}) \cup
                  {[id |-> q.session, token |-> q.id, expired |-> FALSE]},
               MoveTo(q, "respond")
        PROVE  TurnInv'
    <2> DEFINE m == [q EXCEPT !.phase = "respond"]
               row == [id |-> q.session, token |-> q.id, expired |-> FALSE]
    <2>1. active' = (active \ {q}) \cup {m} /\ sessions' = (sessions \ {t}) \cup {row}
      BY <1>3 DEF MoveTo
    <2>2. /\ m.id = q.id /\ m.session = q.session /\ m.phase = "respond"
          /\ row.id = q.session /\ row.token = q.id
      BY DEF TypeOK, Request
    <2> HIDE DEF m, row
    <2>3. \A s \in sessions : s.id = t.id => s = t
      BY DEF MintInv, TokensIdentify
    <2>4. Unanswered'
      BY <1>1, <2>1, <2>2 DEF TurnInv, Unanswered
    <2>5. ASSUME NEW s \in sessions', Careful(s)' PROVE InTurn(s)'
      <3>1. CASE s # row
        <4>1. s \in sessions /\ s.id # q.session /\ InTurn(s)
          BY <1>1, <1>3, <2>1, <2>3, <2>5, <3>1 DEF Careful, TurnInv
        <4> QED
          BY <1>1, <2>1, <2>2, <4>1 DEF InTurn, InHand
      <3>2. CASE s = row
        <4>1. t.token # NoToken
          BY <1>1, <1>3 DEF MintInv, Rotatable
        <4>2. Careful(t) /\ InTurn(t)
          BY <1>1, <1>3, <2>2, <2>5, <3>2, <4>1 DEF Careful, TurnInv
        <4>3. t.token < q.id /\ t.token \in Nat /\ q.id \in Nat
              /\ \A h \in held : h.token \in Nat
          BY <1>1, <1>3, <4>2 DEF InTurn, TypeOK, Session, Request, Held, Minted, NoToken
        <4>4. \A h \in held : h.session = s.id => h.token <= q.id
          BY <1>3, <2>2, <3>2, <4>2, <4>3 DEF InTurn
        <4>5. \A p \in active' : p.session = s.id => p = m
          BY <1>3, <2>1, <2>2, <3>2, <4>2 DEF InTurn
        <4> QED
          BY <1>1, <2>1, <2>2, <3>2, <4>4, <4>5 DEF InTurn
      <3> QED
        BY <3>1, <3>2
    <2> QED
      BY <2>4, <2>5 DEF TurnInv
  <1> QED
    BY <1>2, <1>3, UpdateCases DEF MintInv

\* The answer brings the row's token to the client.
LEMMA TurnRespond ==
    ASSUME TypeOK, MintInv, TurnInv, NEW q \in active, Respond(q)
    PROVE  TurnInv'
  <1> DEFINE new == [session |-> q.session, token |-> q.id, op |-> q.op]
  <1>1. /\ q.phase = "respond" /\ active' = active \ {q} /\ held' = held \cup {new}
        /\ UNCHANGED <<sessions, serial, overlapped, lost>>
    BY DEF Respond, Leave, Answered
  <1>2. new.session = q.session /\ new.token = q.id
    OBVIOUS
  <1> HIDE DEF new
  <1>3. Unanswered'
    <2>1. \A p \in active' : p.id # q.id
      BY <1>1 DEF MintInv, RequestsDistinct
    <2>2. \A p \in active' : p.phase = "create" => q.session # p.session
      BY <1>1 DEF MintInv, RowUnused
    <2> QED
      BY <1>1, <1>2, <2>1, <2>2 DEF TurnInv, Unanswered
  <1>4. ASSUME NEW s \in sessions, Careful(s) PROVE InTurn(s)'
    <2>1. InTurn(s)
      BY <1>4 DEF TurnInv
    <2>2. CASE s.id # q.session
      BY <1>1, <1>2, <2>1, <2>2 DEF InTurn, InHand
    <2>3. CASE s.id = q.session
      <3>1. s.token = q.id /\ \A p \in active' : p.session # s.id
        BY <1>1, <2>1, <2>3 DEF InTurn
      <3>2. q.id \in Nat
        BY DEF TypeOK, Request, Minted
      <3>3. InHand(s)'
        BY <1>1, <1>2, <2>3, <3>1 DEF InHand
      <3>4. \A h \in held' : h.session = s.id => h.token <= s.token
        BY <1>1, <1>2, <2>1, <3>1, <3>2 DEF InTurn
      <3> QED
        BY <1>1, <3>1, <3>3, <3>4 DEF InTurn
    <2> QED
      BY <2>2, <2>3
  <1> QED
    BY <1>1, <1>3, <1>4 DEF TurnInv, Careful

\* A request that dies takes its row out of consideration.
LEMMA TurnAbort ==
    ASSUME TurnInv, NEW q \in active, Abort(q)
    PROVE  TurnInv'
  <1>1. /\ active' = active \ {q} /\ lost' = lost \cup {q.session}
        /\ UNCHANGED <<sessions, held, overlapped>>
    BY DEF Abort, Leave
  <1>2. Unanswered'
    BY <1>1 DEF TurnInv, Unanswered
  <1>3. ASSUME NEW s \in sessions, Careful(s)' PROVE InTurn(s)'
    <2>1. InTurn(s) /\ s.id # q.session
      BY <1>1, <1>3 DEF Careful, TurnInv
    <2> QED
      BY <1>1, <2>1 DEF InTurn, InHand
  <1> QED
    BY <1>1, <1>2, <1>3 DEF TurnInv

\* An expired row keeps its id and token.
LEMMA TurnExpire ==
    ASSUME TypeOK, TurnInv, NEW t \in sessions, Expire(t)
    PROVE  TurnInv'
  <1> DEFINE row == [t EXCEPT !.expired = TRUE]
  <1>1. sessions' = (sessions \ {t}) \cup {row}
        /\ UNCHANGED <<active, held, overlapped, lost>>
    BY DEF Expire, ghostVars
  <1>2. row.id = t.id /\ row.token = t.token
    BY DEF TypeOK, Session
  <1> HIDE DEF row
  <1>3. Unanswered'
    BY <1>1 DEF TurnInv, Unanswered
  <1>4. ASSUME NEW s \in sessions', Careful(s)' PROVE InTurn(s)'
    <2>1. PICK x \in sessions : x.id = s.id /\ x.token = s.token
      BY <1>1, <1>2
    <2>2. InTurn(x)
      BY <1>1, <1>4, <2>1 DEF Careful, TurnInv
    <2> QED
      BY <1>1, <2>1, <2>2 DEF InTurn, InHand
  <1> QED
    BY <1>3, <1>4 DEF TurnInv

\* Every step keeps the turns.
LEMMA TurnStep == TypeOK /\ MintInv /\ TurnInv /\ [Next]_vars => TurnInv'
  <1> SUFFICES ASSUME TypeOK, MintInv, TurnInv, [Next]_vars PROVE TurnInv'
    OBVIOUS
  <1>1. CASE UNCHANGED vars
    BY <1>1 DEF vars, TurnInv, Unanswered, Careful, InTurn, InHand
  <1>2. CASE Next
    BY <1>2, TurnBeginSession, TurnBeginRefresh, TurnCreateSession, TurnDeleteExpired,
       TurnUpdateSession, TurnRespond, TurnAbort, TurnExpire DEF Next, Advance
  <1> QED
    BY <1>1, <1>2

\* A client that waits for each answer of refreshAccessToken before it refreshes
\* again holds the token of its session, however the refreshes of other sessions,
\* the logins and their cleanups interleave.
THEOREM ClientsInTurnKeepSession == Spec => []SequentialAccess
  <1>1. TurnInv => SequentialAccess
    BY DEF TurnInv, Careful, InTurn, InHand, SequentialAccess
  <1> QED
    BY <1>1, TurnInit, TurnStep, Minting, PTL DEF Spec
=============================================================================
