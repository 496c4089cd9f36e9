--------------------------- MODULE ReadSide_proofs ---------------------------
(* Proofs about ReadSide: the commands that look at a session leave it as  *)
(* it is, and what they tell of it is true.                                *)
EXTENDS ReadSide, Engine_proofs

-----------------------------------------------------------------------------
(* Nothing that a reader does is seen by the session.                      *)

\* A step of a session that is looked at is one of the session, or none.
LEMMA ReadersStand == [ReadNext]_rvars => [Next]_vars
<1> SUFFICES ASSUME [ReadNext]_rvars PROVE [Next]_vars
  OBVIOUS
<1>1. CASE SessionStep
  BY <1>1 DEF SessionStep, Next
<1>2. CASE Export
  BY <1>2 DEF Export
<1>3. CASE Quiet
  BY <1>3 DEF Quiet
<1>4. CASE \/ ReadLog \/ TellFromLog \/ Probe \/ Rest
           \/ \E p \in Probers : ProbeBegins(p) \/ ProbeEnds(p)
  BY <1>3, <1>4 DEF ReadLog, TellFromLog, Probe, Tell, Rest, ProbeBegins, ProbeEnds
<1>5. CASE UNCHANGED rvars
  BY <1>5 DEF rvars
<1> QED
  BY <1>1, <1>2, <1>4, <1>5 DEF ReadNext

\* show, doctor, export and every question for the lease leave the session as
\* it is: what the runners and the operators do with them around, they can do
\* without them.
THEOREM SessionUndisturbed == ReadSpec => Init /\ [][Next]_vars
<1>1. ReadInit => Init
  BY DEF ReadInit
<1> QED
  BY <1>1, ReadersStand, PTL DEF ReadSpec

\* So all that the session keeps, it keeps.
LEMMA EngineKept == ReadSpec => []IInv
<1>1. ReadInit => IInv
  BY EngineInit DEF ReadInit
<1>2. IInv /\ [ReadNext]_rvars => IInv'
  BY ReadersStand, EngineStep
<1> QED
  BY <1>1, <1>2, PTL DEF ReadSpec

-----------------------------------------------------------------------------
(* Reading a log to which an event was appended.                           *)

IsLog(s) == \E X : s \in Seq(X)

\* Append, on sequences of anything.
LEMMA Appending ==
  ASSUME NEW s, IsLog(s), NEW e
  PROVE  /\ IsLog(Append(s, e)) /\ Len(s) \in Nat
         /\ DOMAIN s = 1..Len(s) /\ DOMAIN Append(s, e) = 1..(Len(s) + 1)
         /\ Len(Append(s, e)) = Len(s) + 1 /\ Append(s, e)[Len(s) + 1] = e
         /\ \A i \in 1..Len(s) : Append(s, e)[i] = s[i]
<1>1. PICK X : s \in Seq(X)
  BY DEF IsLog
<1> DEFINE Y == X \cup {e}
<1>2. s \in Seq(Y) /\ e \in Y
  BY <1>1
<1> HIDE DEF Y
<1>3. Append(s, e) \in Seq(Y)
  BY <1>2
<1> QED
  BY <1>2, <1>3 DEF IsLog

\* The new event is at the end.
LEMMA AppendIndexes ==
  ASSUME NEW s, IsLog(s), NEW e, NEW T
  PROVE  /\ Indexes(Append(s, e), T) = Indexes(s, T) \cup {i \in {Len(s) + 1} : e.type \in T}
         /\ Indexes(s, T) \subseteq 1..Len(s)
         /\ \A i \in Indexes(s, T) : Append(s, e)[i] = s[i]
<1> DEFINE t == Append(s, e)
           n == Len(s)
<1>1. /\ n \in Nat /\ DOMAIN s = 1..n /\ DOMAIN t = 1..(n + 1) /\ t[n + 1] = e
      /\ \A i \in 1..n : t[i] = s[i]
  BY Appending
<1> HIDE DEF t, n
<1> QED
  BY <1>1 DEF Indexes, t, n

\* LastIndex is the greatest index.
LEMMA LastIndexIs ==
  ASSUME NEW s, IsLog(s), NEW T
  PROVE  /\ Indexes(s, T) = {} => LastIndex(s, T) = 0
         /\ Indexes(s, T) # {} =>
              /\ LastIndex(s, T) \in Indexes(s, T) /\ LastIndex(s, T) \in 1..Len(s)
              /\ \A j \in Indexes(s, T) : j <= LastIndex(s, T)
<1>1. Indexes(s, T) \in SUBSET (1..Len(s)) /\ Len(s) \in Nat
  BY Appending, AppendIndexes
<1>2. Indexes(s, T) # {} => \E m \in Indexes(s, T) : \A i \in Indexes(s, T) : i <= m
  BY <1>1, GreatestOf
<1> QED
  BY <1>1, <1>2 DEF LastIndex

\* An event of the types becomes the last one.
LEMMA AppendLast ==
  ASSUME NEW s, IsLog(s), NEW e, NEW T
  PROVE  LastIndex(Append(s, e), T) = IF e.type \in T THEN Len(s) + 1 ELSE LastIndex(s, T)
<1> DEFINE t == Append(s, e)
           n == Len(s)
<1>1. /\ Indexes(t, T) = Indexes(s, T) \cup {i \in {n + 1} : e.type \in T}
      /\ Indexes(s, T) \subseteq 1..n /\ n \in Nat /\ IsLog(t) /\ Len(t) = n + 1
  BY Appending, AppendIndexes
<1> HIDE DEF t, n
<1>2. CASE e.type \in T
  <2>1. n + 1 \in Indexes(t, T) /\ \A i \in Indexes(t, T) : i <= n + 1 /\ i \in Nat
    BY <1>1, <1>2
  <2>2. LastIndex(t, T) \in Indexes(t, T) /\ n + 1 <= LastIndex(t, T)
    BY <1>1, <2>1, LastIndexIs
  <2>3. LastIndex(t, T) = n + 1
    BY <1>1, <2>1, <2>2
  <2> QED BY <1>2, <2>3 DEF t, n
<1>3. CASE e.type \notin T
  <2>1. Indexes(t, T) = Indexes(s, T)
    BY <1>1, <1>3
  <2>2. LastIndex(t, T) = LastIndex(s, T)
    BY <2>1 DEF LastIndex
  <2> QED BY <1>3, <2>2 DEF t, n
<1> QED
  BY <1>2, <1>3

\* The end that stands: the new one, none after a grant, or the one before.
LEMMA AppendEnd ==
  ASSUME NEW s, IsLog(s), NEW e
  PROVE  /\ e.type = "session.finished" => endOf(Append(s, e)) = Len(s) + 1
         /\ e.type = "turn_budget.granted" => endOf(Append(s, e)) = 0
         /\ e.type \notin {"session.finished", "turn_budget.granted"} =>
              /\ endOf(Append(s, e)) = endOf(s)
              /\ endOf(s) # 0 => Append(s, e)[endOf(s)] = s[endOf(s)]
         /\ endOf(s) \in 0..Len(s)
<1> DEFINE t == Append(s, e)
           n == Len(s)
           T == {"session.finished", "turn_budget.granted"}
<1>1. LastIndex(t, T) = IF e.type \in T THEN n + 1 ELSE LastIndex(s, T)
  BY AppendLast
<1>2. n \in Nat /\ t[n + 1] = e /\ \A i \in 1..n : t[i] = s[i]
  BY Appending
<1>3. LastIndex(s, T) \in 0..n
  BY <1>2, LastIndexIs
<1>4. /\ endOf(s) = (IF LastIndex(s, T) # 0 /\ s[LastIndex(s, T)].type = "session.finished"
                     THEN LastIndex(s, T) ELSE 0)
      /\ endOf(t) = (IF LastIndex(t, T) # 0 /\ t[LastIndex(t, T)].type = "session.finished"
                     THEN LastIndex(t, T) ELSE 0)
  BY DEF endOf
<1>5. /\ e.type = "session.finished" => endOf(t) = n + 1
      /\ e.type = "turn_budget.granted" => endOf(t) = 0
      /\ e.type \notin T => endOf(t) = endOf(s) /\ (endOf(s) # 0 => t[endOf(s)] = s[endOf(s)])
      /\ endOf(s) \in 0..n
  <2> HIDE DEF t, n
  <2> QED BY <1>1, <1>2, <1>3, <1>4
<1> QED
  BY <1>5

\* The events at P open something that those at Q close.
Stands(P, Q) == \E i \in P : \A j \in Q : ~(j > i)

\* The last of these events says whether it is open.
LEMMA StandsAfter ==
  ASSUME NEW n \in Nat, NEW P \in SUBSET (1..n), NEW Q \in SUBSET (1..n)
  PROVE  Stands(P \cup {n + 1}, Q) /\ ~Stands(P, Q \cup {n + 1})
<1>1. \A i \in 1..n : ~(i > n + 1) /\ n + 1 > i
  OBVIOUS
<1> QED
  BY <1>1 DEF Stands

\* The events of the types about request x, and about attempt x.
About(s, T, x) == {i \in Indexes(s, T) : s[i].id = x}
Tried(s, T, x) == {i \in Indexes(s, T) : attemptKey(s[i]) = x}

Closing == {"attempt.finished", "provider.failed"}

\* What is open in the two views of the read side.
LEMMA OpenIs ==
  ASSUME NEW s, IsLog(s), NEW x
  PROVE  /\ x \in pendingChildren(s) <=>
              Stands(About(s, {"child.requested"}, x), About(s, {"child.decided"}, x))
         /\ x \in abandonedAttempts(s) <=>
              Stands(Tried(s, {"attempt.started"}, x), Tried(s, Closing, x))
<1>1. x \in pendingChildren(s) <=>
        \E i \in Indexes(s, {"child.requested"}) :
           /\ \A j \in Indexes(s, {"child.decided"}) : j > i => s[j].id # s[i].id
           /\ s[i].id = x
  BY DEF pendingChildren, Open, Id
<1>2. x \in abandonedAttempts(s) <=>
        \E i \in Indexes(s, {"attempt.started"}) :
           /\ \A j \in Indexes(s, Closing) : j > i => attemptKey(s[j]) # attemptKey(s[i])
           /\ attemptKey(s[i]) = x
  BY DEF abandonedAttempts, Open, Closing
<1>3. Stands(About(s, {"child.requested"}, x), About(s, {"child.decided"}, x)) <=>
        \E i \in Indexes(s, {"child.requested"}) :
           /\ \A j \in Indexes(s, {"child.decided"}) : j > i => s[j].id # s[i].id
           /\ s[i].id = x
  BY DEF Stands, About
<1>4. Stands(Tried(s, {"attempt.started"}, x), Tried(s, Closing, x)) <=>
        \E i \in Indexes(s, {"attempt.started"}) :
           /\ \A j \in Indexes(s, Closing) : j > i => attemptKey(s[j]) # attemptKey(s[i])
           /\ attemptKey(s[i]) = x
  BY DEF Stands, Tried
<1> QED
  BY <1>1, <1>2, <1>3, <1>4

\* Another event is about something else, or it is the last one about x.
LEMMA AppendAbout ==
  ASSUME NEW s, IsLog(s), NEW e, NEW T, NEW x
  PROVE  /\ e.type \in T /\ e.id = x => About(Append(s, e), T, x) = About(s, T, x) \cup {Len(s) + 1}
         /\ ~(e.type \in T /\ e.id = x) => About(Append(s, e), T, x) = About(s, T, x)
         /\ About(s, T, x) \in SUBSET (1..Len(s)) /\ Len(s) \in Nat
<1> DEFINE t == Append(s, e)
           n == Len(s)
<1>1. /\ Indexes(t, T) = Indexes(s, T) \cup {i \in {n + 1} : e.type \in T}
      /\ Indexes(s, T) \subseteq 1..n /\ \A i \in Indexes(s, T) : t[i] = s[i]
      /\ n \in Nat /\ t[n + 1] = e
  BY Appending, AppendIndexes
<1> HIDE DEF t, n
<1>2. About(s, T, x) \in SUBSET (1..n)
  BY <1>1 DEF About
<1>3. About(t, T, x) = About(s, T, x) \cup {i \in {n + 1} : e.type \in T /\ e.id = x}
  BY <1>1 DEF About
<1> QED
  BY <1>1, <1>2, <1>3 DEF t, n

LEMMA AppendTried ==
  ASSUME NEW s, IsLog(s), NEW e, NEW T, NEW x
  PROVE  /\ e.type \in T /\ attemptKey(e) = x =>
              Tried(Append(s, e), T, x) = Tried(s, T, x) \cup {Len(s) + 1}
         /\ ~(e.type \in T /\ attemptKey(e) = x) => Tried(Append(s, e), T, x) = Tried(s, T, x)
         /\ Tried(s, T, x) \in SUBSET (1..Len(s)) /\ Len(s) \in Nat
<1> DEFINE t == Append(s, e)
           n == Len(s)
<1>1. /\ Indexes(t, T) = Indexes(s, T) \cup {i \in {n + 1} : e.type \in T}
      /\ Indexes(s, T) \subseteq 1..n /\ \A i \in Indexes(s, T) : t[i] = s[i]
      /\ n \in Nat /\ t[n + 1] = e
  BY Appending, AppendIndexes
<1> HIDE DEF t, n
<1>2. Tried(s, T, x) \in SUBSET (1..n)
  BY <1>1 DEF Tried
<1>3. Tried(t, T, x) = Tried(s, T, x) \cup {i \in {n + 1} : e.type \in T /\ attemptKey(e) = x}
  BY <1>1 DEF Tried
<1> QED
  BY <1>1, <1>2, <1>3 DEF t, n

\* A request waits from child.requested to child.decided.
LEMMA AppendPending ==
  ASSUME NEW s, IsLog(s), NEW e
  PROVE  /\ e.type \notin {"child.requested", "child.decided"} =>
              pendingChildren(Append(s, e)) = pendingChildren(s)
         /\ e.type = "child.requested" =>
              pendingChildren(Append(s, e)) = pendingChildren(s) \cup {e.id}
         /\ e.type = "child.decided" =>
              pendingChildren(Append(s, e)) = pendingChildren(s) \ {e.id}
<1>1. IsLog(Append(s, e))
  BY Appending
<1> DEFINE p == pendingChildren(s)
           r == pendingChildren(Append(s, e))
<1>2. ASSUME NEW x
      PROVE  /\ e.type \notin {"child.requested", "child.decided"} => (x \in r <=> x \in p)
             /\ e.type = "child.requested" => (x \in r <=> x \in p \/ x = e.id)
             /\ e.type = "child.decided" => (x \in r <=> x \in p /\ x # e.id)
  <2> DEFINE A == About(s, {"child.requested"}, x)
             B == About(s, {"child.decided"}, x)
             C == About(Append(s, e), {"child.requested"}, x)
             D == About(Append(s, e), {"child.decided"}, x)
  <2>1. (x \in p <=> Stands(A, B)) /\ (x \in r <=> Stands(C, D))
    BY <1>1, OpenIs
  <2>2. /\ e.type \in {"child.requested"} /\ e.id = x => C = A \cup {Len(s) + 1}
        /\ ~(e.type \in {"child.requested"} /\ e.id = x) => C = A
    BY AppendAbout
  <2>3. /\ e.type \in {"child.decided"} /\ e.id = x => D = B \cup {Len(s) + 1}
        /\ ~(e.type \in {"child.decided"} /\ e.id = x) => D = B
    BY AppendAbout
  <2>4. Stands(A \cup {Len(s) + 1}, B) /\ ~Stands(A, B \cup {Len(s) + 1})
    BY AppendAbout, StandsAfter
  <2> HIDE DEF A, B, C, D, p, r
  <2> QED BY <2>1, <2>2, <2>3, <2>4
<1> HIDE DEF p, r
<1>3. /\ e.type \notin {"child.requested", "child.decided"} => r = p
      /\ e.type = "child.requested" => r = p \cup {e.id}
      /\ e.type = "child.decided" => r = p \ {e.id}
  BY <1>2
<1> QED
  BY <1>3 DEF p, r

\* An attempt is open from attempt.started to provider.failed or
\* attempt.finished.
LEMMA AppendAttempts ==
  ASSUME NEW s, IsLog(s), NEW e, NEW x
  PROVE  /\ e.type \notin {"attempt.started", "attempt.finished", "provider.failed"}
              \/ attemptKey(e) # x =>
              (x \in abandonedAttempts(Append(s, e)) <=> x \in abandonedAttempts(s))
         /\ e.type = "attempt.started" /\ attemptKey(e) = x =>
              x \in abandonedAttempts(Append(s, e))
         /\ e.type \in Closing /\ attemptKey(e) = x => x \notin abandonedAttempts(Append(s, e))
<1>1. IsLog(Append(s, e))
  BY Appending
<1> DEFINE p == abandonedAttempts(s)
           r == abandonedAttempts(Append(s, e))
           A == Tried(s, {"attempt.started"}, x)
           B == Tried(s, Closing, x)
           C == Tried(Append(s, e), {"attempt.started"}, x)
           D == Tried(Append(s, e), Closing, x)
           k == attemptKey(e)
<1>2. (x \in p <=> Stands(A, B)) /\ (x \in r <=> Stands(C, D))
  BY <1>1, OpenIs
<1>3. /\ e.type \in {"attempt.started"} /\ k = x => C = A \cup {Len(s) + 1}
      /\ ~(e.type \in {"attempt.started"} /\ k = x) => C = A
  BY AppendTried
<1>4. /\ e.type \in Closing /\ k = x => D = B \cup {Len(s) + 1}
      /\ ~(e.type \in Closing /\ k = x) => D = B
  BY AppendTried
<1>5. Stands(A \cup {Len(s) + 1}, B) /\ ~Stands(A, B \cup {Len(s) + 1})
  BY AppendTried, StandsAfter
<1> HIDE DEF A, B, C, D, p, r, k
<1>6. /\ e.type \notin {"attempt.started", "attempt.finished", "provider.failed"} \/ k # x =>
           (x \in r <=> x \in p)
      /\ e.type = "attempt.started" /\ k = x => x \in r
      /\ e.type \in Closing /\ k = x => x \notin r
  BY <1>2, <1>3, <1>4, <1>5 DEF Closing
<1> QED
  BY <1>6 DEF p, r, k

-----------------------------------------------------------------------------
(* The event that a step appends.                                          *)

\* What Appended looks at, in its order.
Speaks   == st'.turn # st.turn /\ Active(st') # Active(st)
Calls    == Active(st') /\ st'.turn.attempts # st.turn.attempts /\ Active(st)
Requests == st'.requests # st.requests
Raises   == st'.granted # st.granted
Judges   == st.validation = "none" /\ st'.validation # "none"
Closes   == st.terminal = "none" /\ st'.terminal # "none"

\* One arm at most is open, and it is the one taken.
LEMMA Arms ==
  /\ Speaks /\ ~Calls /\ ~Requests /\ ~Raises /\ ~Judges /\ ~Closes => Appended = TurnEvent(st, st')
  /\ ~Speaks /\ Calls /\ ~Requests /\ ~Raises /\ ~Judges /\ ~Closes =>
       Appended = AttemptEvent(st, st')
  /\ ~Speaks /\ ~Calls /\ Requests /\ ~Raises /\ ~Judges /\ ~Closes =>
       Appended = ChildEvent(st, st')
  /\ ~Speaks /\ ~Calls /\ ~Requests /\ Raises /\ ~Judges /\ ~Closes =>
       Appended = [type |-> "turn_budget.granted", turns |-> st'.granted - st.granted]
  /\ ~Speaks /\ ~Calls /\ ~Requests /\ ~Raises /\ Judges /\ ~Closes =>
       Appended = [type |-> "result.produced", outcome |-> st'.validation]
  /\ ~Speaks /\ ~Calls /\ ~Requests /\ ~Raises /\ ~Judges /\ Closes => Appended = EndEvent(st')
  /\ ~Speaks /\ ~Calls /\ ~Requests /\ ~Raises /\ ~Judges /\ ~Closes =>
       Appended = [type |-> "other"]
<1>1. Speaks /\ ~Calls /\ ~Requests /\ ~Raises /\ ~Judges /\ ~Closes =>
        Appended = TurnEvent(st, st')
  BY Zenon DEF Appended, Speaks, Calls, Requests, Raises, Judges, Closes
<1>2. ~Speaks /\ Calls /\ ~Requests /\ ~Raises /\ ~Judges /\ ~Closes =>
        Appended = AttemptEvent(st, st')
  BY Zenon DEF Appended, Speaks, Calls, Requests, Raises, Judges, Closes
<1>3. ~Speaks /\ ~Calls /\ Requests /\ ~Raises /\ ~Judges /\ ~Closes =>
        Appended = ChildEvent(st, st')
  BY Zenon DEF Appended, Speaks, Calls, Requests, Raises, Judges, Closes
<1>4. ~Speaks /\ ~Calls /\ ~Requests /\ Raises /\ ~Judges /\ ~Closes =>
        Appended = [type |-> "turn_budget.granted", turns |-> st'.granted - st.granted]
  BY Zenon DEF Appended, Speaks, Calls, Requests, Raises, Judges, Closes
<1>5. ~Speaks /\ ~Calls /\ ~Requests /\ ~Raises /\ Judges /\ ~Closes =>
        Appended = [type |-> "result.produced", outcome |-> st'.validation]
  BY Zenon DEF Appended, Speaks, Calls, Requests, Raises, Judges, Closes
<1>6. ~Speaks /\ ~Calls /\ ~Requests /\ ~Raises /\ ~Judges /\ Closes => Appended = EndEvent(st')
  BY Zenon DEF Appended, Speaks, Calls, Requests, Raises, Judges, Closes
<1>7. ~Speaks /\ ~Calls /\ ~Requests /\ ~Raises /\ ~Judges /\ ~Closes =>
        Appended = [type |-> "other"]
  BY Zenon DEF Appended, Speaks, Calls, Requests, Raises, Judges, Closes
<1> QED
  BY <1>1, <1>2, <1>3, <1>4, <1>5, <1>6, <1>7

\* session.finished tells how, and whether the result was the reason.
LEMMA EndsEvent ==
  ASSUME NEW how \in {"completed", "failed"}, Ends(how)
  PROVE  Appended = [type |-> "session.finished", status |-> how,
                     reason |-> IF how = "failed" /\ pc = "success" THEN "invalid_result"
                                ELSE "other"]
<1>1. ~Speaks /\ ~Calls /\ ~Requests /\ ~Raises /\ ~Judges /\ Closes
  BY DEF Ends, SameTurn, SameAccount, SameGrant, SameResult, Active, Speaks, Calls, Requests,
         Raises, Judges, Closes
<1>2. Appended = EndEvent(st') /\ st'.terminal = how
  BY <1>1, Arms DEF Ends
<1> QED
  BY <1>2 DEF EndEvent

\* turn_budget.granted
LEMMA GrantsEvent ==
  ASSUME Typed, NEW n \in Nat, NEW p, Grants(n, p)
  PROVE  Appended.type = "turn_budget.granted" /\ Appended.turns = n
<1>1. st.granted \in Nat
  BY Numbers
<1>2. ~Speaks /\ ~Calls /\ ~Requests /\ Raises /\ ~Judges /\ ~Closes
  BY <1>1 DEF Grants, SameTurn, SameAccount, SameResult, SameTerminal, Active, Speaks, Calls,
              Requests, Raises, Judges, Closes
<1>3. Appended = [type |-> "turn_budget.granted", turns |-> st'.granted - st.granted]
  BY <1>2, Arms
<1>4. st'.granted - st.granted = n
  BY <1>1 DEF Grants
<1> QED
  BY <1>3, <1>4

\* result.produced
LEMMA ValidatesEvent ==
  ASSUME NEW v \in {"valid", "invalid"}, Validates(v)
  PROVE  Appended.type = "result.produced" /\ Appended.outcome = v
<1>1. ~Speaks /\ ~Calls /\ ~Requests /\ ~Raises /\ Judges /\ ~Closes
  BY DEF Validates, SameTurn, SameAccount, SameGrant, SameTerminal, Active, Speaks, Calls,
         Requests, Raises, Judges, Closes
<1> QED
  BY <1>1, Arms DEF Validates

\* turn.started names the turn.
LEMMA TurnStartsEvent ==
  ASSUME NEW actor, NEW round, NEW role \in Roles, TurnStarts(actor, round, role)
  PROVE  Appended = [type |-> "turn.started", actor |-> actor, round |-> round, role |-> role]
<1>1. /\ st'.turn = [actor |-> actor, round |-> round, role |-> role, attempts |-> <<>>]
      /\ ~Active(st)
  BY DEF TurnStarts
<1>2. Active(st') /\ st'.turn # st.turn
  BY <1>1 DEF Active, NoTurn, Roles
<1>3. ~Requests /\ ~Raises /\ ~Judges /\ ~Closes
  BY DEF TurnStarts, SameAccount, SameGrant, Requests, Raises, Judges, Closes
<1>4. Appended = TurnEvent(st, st')
  BY <1>1, <1>2, <1>3, Arms DEF Speaks, Calls
<1> QED
  BY <1>1, <1>2, <1>4 DEF TurnEvent

\* turn.finished names the turn that was there, and has its answer.
LEMMA TurnEndsEvent ==
  ASSUME NEW reply, TurnEnds(reply)
  PROVE  /\ Appended.type = "turn.finished" /\ Appended.reply = reply
         /\ Appended.actor = st.turn.actor /\ Appended.round = st.turn.round
<1>1. Active(st) /\ ~Active(st') /\ st'.turn # st.turn
  BY DEF TurnEnds, Active
<1>2. ~Requests /\ ~Raises /\ ~Judges /\ ~Closes
  BY DEF TurnEnds, SameAccount, SameGrant, SameResult, SameTerminal,
         Requests, Raises, Judges, Closes
<1>3. Appended = TurnEvent(st, st')
  BY <1>1, <1>2, Arms DEF Speaks, Calls
<1>4. ReplyOf(st) = reply
  BY DEF TurnEnds, TurnReply, ReplyOf, Reply0
<1> QED
  BY <1>1, <1>3, <1>4 DEF TurnEvent

\* The turn goes on while its attempts change.
LEMMA CallsArm ==
  ASSUME Typed, TurnInv, SameButAttempts, st'.turn.attempts # st.turn.attempts
  PROVE  Appended = AttemptEvent(st, st') /\ st'.turn.actor = st.turn.actor
<1>1. Active(st) /\ Active(st')
  BY RoleOfTurn DEF SameButAttempts, Active, NoTurn, Roles
<1>2. ~Requests /\ ~Raises /\ ~Judges /\ ~Closes
  BY DEF SameButAttempts, SameAccount, SameGrant, SameResult, SameTerminal, Requests, Raises,
         Judges, Closes
<1> QED
  BY <1>1, <1>2, Arms DEF Speaks, Calls, SameButAttempts

\* A record is the record of its fields.
LEMMA StateIs ==
  ASSUME NEW D, NEW s \in State(D)
  PROVE  s = [started |-> s.started, provisioned |-> s.provisioned, terminal |-> s.terminal,
              phase |-> s.phase, turn |-> s.turn, conv |-> s.conv, ledger |-> s.ledger,
              result |-> s.result, granted |-> s.granted, atGrant |-> s.atGrant,
              grant |-> s.grant, requests |-> s.requests, childrenUsed |-> s.childrenUsed,
              childTurns |-> s.childTurns, steering |-> s.steering, validation |-> s.validation]
  BY DEF State

LEMMA TurnIs ==
  ASSUME NEW t \in TurnRec
  PROVE  t = [actor |-> t.actor, round |-> t.round, role |-> t.role, attempts |-> t.attempts]
  BY DEF TurnRec

\* When nothing but the attempts may have changed, they have.
LEMMA AttemptsTell ==
  ASSUME Typed, Typed', plan' = plan, SameButAttempts, st' # st
  PROVE  st'.turn.attempts # st.turn.attempts
<1> SUFFICES ASSUME st'.turn.attempts = st.turn.attempts PROVE st' = st
  OBVIOUS
<1>1. st \in State(DOMAIN st.requests) /\ st' \in State(DOMAIN st'.requests)
  BY DEF Typed, State
<1>2. st.turn \in TurnRec /\ st'.turn \in TurnRec
  BY <1>1 DEF State
<1>3. st'.turn = st.turn
  BY <1>2, TurnIs DEF SameButAttempts
<1> QED
  BY <1>1, <1>3, StateIs
     DEF SameButAttempts, SameLife, SameTerminal, SameResult, SameTalk, SameGrant, SameAccount,
         SameSteering

\* The attempt that the event is about.
NewAttempt == CHOOSE i \in DOMAIN st'.turn.attempts :
                 i \notin DOMAIN st.turn.attempts \/ st'.turn.attempts[i] # st.turn.attempts[i]

\* attempt.started names the next attempt.
LEMMA TriesEvent ==
  ASSUME Typed, TurnInv, Tries
  PROVE  /\ Appended.type = "attempt.started"
         /\ attemptKey(Appended) = <<st.turn.actor, Len(st.turn.attempts) + 1>>
         /\ DOMAIN st'.turn.attempts = DOMAIN st.turn.attempts \cup {Len(st.turn.attempts) + 1}
         /\ st'.turn.attempts[Len(st.turn.attempts) + 1].outcome = "none"
         /\ \A i \in DOMAIN st.turn.attempts : st'.turn.attempts[i] = st.turn.attempts[i]
         /\ Len(st.turn.attempts) + 1 \notin DOMAIN st.turn.attempts
<1> DEFINE q == st.turn.attempts
           r == st'.turn.attempts
           n == Len(q) + 1
<1>1. q \in Seq(Attempt) /\ r = Append(q, Fresh) /\ Fresh.outcome = "none" /\ SameButAttempts
  BY Numbers DEF Tries, Fresh
<1>2. IsLog(q)
  BY <1>1 DEF IsLog
<1>3. /\ DOMAIN r = DOMAIN q \cup {n} /\ n \notin DOMAIN q /\ r[n] = Fresh
      /\ \A i \in DOMAIN q : r[i] = q[i]
  <2>1. /\ Len(q) \in Nat /\ DOMAIN q = 1..Len(q) /\ DOMAIN r = 1..(Len(q) + 1)
        /\ r[Len(q) + 1] = Fresh /\ \A i \in 1..Len(q) : r[i] = q[i]
    BY <1>1, <1>2, Appending
  <2> HIDE DEF q, r
  <2> QED BY <2>1
<1>4. r # q
  BY <1>3
<1>5. Appended = AttemptEvent(st, st') /\ st'.turn.actor = st.turn.actor
  BY <1>1, <1>4, CallsArm
<1> HIDE DEF q, r, n
<1>6. (CHOOSE i \in DOMAIN r : i \notin DOMAIN q \/ r[i] # q[i]) = n
  BY <1>3
<1>7. NewAttempt = n
  BY <1>6 DEF NewAttempt, q, r
<1>8. Appended = [type |-> "attempt.started", actor |-> st.turn.actor, attempt |-> n]
  BY <1>3, <1>5, <1>7 DEF AttemptEvent, NewAttempt, q
<1>9. attemptKey(Appended) = <<st.turn.actor, n>>
  BY <1>8 DEF attemptKey
<1> QED
  BY <1>1, <1>3, <1>8, <1>9 DEF q, r, n

\* provider.failed and attempt.finished name the last attempt.
LEMMA MarksEvent ==
  ASSUME Typed, Typed', plan' = plan, TurnInv, NEW a, Marks(a), st' # st
  PROVE  /\ Appended.type = (IF a.closed THEN "attempt.finished" ELSE "provider.failed")
         /\ Appended.type \in Closing /\ Appended.actor = st.turn.actor
         /\ attemptKey(Appended) = <<st.turn.actor, Len(st.turn.attempts)>>
         /\ DOMAIN st'.turn.attempts = DOMAIN st.turn.attempts
         /\ Len(st.turn.attempts) \in DOMAIN st.turn.attempts
         /\ st'.turn.attempts[Len(st.turn.attempts)].outcome # "none"
         /\ \A i \in DOMAIN st.turn.attempts :
              i # Len(st.turn.attempts) => st'.turn.attempts[i] = st.turn.attempts[i]
<1> DEFINE q == st.turn.attempts
           r == st'.turn.attempts
           n == Len(q)
<1>1. /\ q \in Seq(Attempt) /\ q # <<>> /\ r = [q EXCEPT ![n] = a] /\ a.outcome # "none"
      /\ SameButAttempts
  BY Numbers DEF Marks
<1>2. /\ DOMAIN r = DOMAIN q /\ n \in DOMAIN q /\ r[n] = a
      /\ \A i \in DOMAIN q : i # n => r[i] = q[i]
  <2> HIDE DEF r
  <2> QED BY <1>1
<1>3. r # q
  BY <1>1, AttemptsTell
<1>4. Appended = AttemptEvent(st, st') /\ st'.turn.actor = st.turn.actor
  BY <1>1, <1>3, CallsArm
<1> HIDE DEF q, r, n
<1>5. (CHOOSE i \in DOMAIN r : i \notin DOMAIN q \/ r[i] # q[i]) = n
  <2>1. r[n] # q[n]
    <3>1. \E i \in DOMAIN q : r[i] # q[i]
      <4>1. q \in Seq(Attempt) /\ r = [q EXCEPT ![n] = a]
        BY <1>1 DEF q, r, n
      <4> QED BY <1>2, <1>3, <4>1
    <3> QED BY <1>2, <3>1
  <2> QED BY <1>2, <2>1
<1>6. NewAttempt = n
  BY <1>5 DEF NewAttempt, q, r
<1>7. /\ Appended.type = (IF a.closed THEN "attempt.finished" ELSE "provider.failed")
      /\ Appended.actor = st.turn.actor /\ Appended.attempt = n
  BY <1>2, <1>4, <1>6 DEF AttemptEvent, NewAttempt, q, r
<1>8. attemptKey(Appended) = <<st.turn.actor, n>>
  BY <1>7 DEF attemptKey
<1> QED
  BY <1>1, <1>2, <1>7, <1>8 DEF q, r, n, Closing

\* The request that the event is about.
NewRequest == CHOOSE x \in DOMAIN st'.requests :
                 x \notin DOMAIN st.requests \/ st'.requests[x] # st.requests[x]

\* An event about a request.
LEMMA RequestsArm ==
  ASSUME Typed, SameButAccount, NEW id \in DOMAIN st'.requests,
         id \notin DOMAIN st.requests \/ st'.requests[id] # st.requests[id],
         \A x \in DOMAIN st'.requests \ {id} :
           x \in DOMAIN st.requests /\ st'.requests[x] = st.requests[x]
  PROVE  Appended = ChildEvent(st, st') /\ NewRequest = id
<1>1. ~Speaks /\ ~Calls /\ Requests /\ ~Raises /\ ~Judges /\ ~Closes
  BY DEF SameButAccount, SameTurn, SameGrant, SameResult, SameTerminal, Active, Speaks, Calls,
         Requests, Raises, Judges, Closes
<1> DEFINE r == st'.requests
           q == st.requests
<1> HIDE DEF r, q
<1>2. (CHOOSE x \in DOMAIN r : x \notin DOMAIN q \/ r[x] # q[x]) = id
  BY DEF r, q
<1> QED
  BY <1>1, <1>2, Arms DEF NewRequest, r, q

\* child.requested
LEMMA AsksEvent ==
  ASSUME Typed, NEW id, Asks(id)
  PROVE  Appended = [type |-> "child.requested", id |-> id]
<1>1. /\ id \notin DOMAIN st.requests /\ DOMAIN st'.requests = DOMAIN st.requests \cup {id}
      /\ \A x \in DOMAIN st.requests : st'.requests[x] = st.requests[x]
      /\ SameButAccount
  BY DEF Asks
<1>2. Appended = ChildEvent(st, st') /\ NewRequest = id
  BY <1>1, RequestsArm
<1> QED
  BY <1>1, <1>2 DEF ChildEvent, NewRequest

\* What happens to one request that is there.
LEMMA RequestStep ==
  ASSUME Typed, NEW id \in DOMAIN st.requests, NEW b,
         st'.requests = [st.requests EXCEPT ![id] = b]
  PROVE  /\ DOMAIN st'.requests = DOMAIN st.requests /\ st'.requests[id] = b
         /\ st.requests[id] \in Request
         /\ \A x \in DOMAIN st.requests \ {id} : st'.requests[x] = st.requests[x]
<1>1. st.requests \in [DOMAIN st.requests -> Request]
  BY DEF Typed, State
<1> QED
  BY <1>1

\* child.decided
LEMMA DecidesEvent ==
  ASSUME Typed, NEW id, NEW verdict, NEW turns, Decides(id, verdict, turns),
         ~Completed(st, id)
  PROVE  /\ Appended.type = "child.decided" /\ Appended.id = id
         /\ Appended.admitted <=> verdict = "admitted"
<1>1. /\ id \in DOMAIN st.requests /\ st.requests[id].verdict = "none" /\ verdict # "none"
      /\ st'.requests =
           [st.requests EXCEPT
               ![id] = [st.requests[id] EXCEPT !.verdict = verdict, !.turns = turns]]
      /\ SameButAccount
  BY DEF Decides, Undecided, Decided
<1>2. /\ DOMAIN st'.requests = DOMAIN st.requests /\ st.requests[id] \in Request
      /\ st'.requests[id] = [st.requests[id] EXCEPT !.verdict = verdict, !.turns = turns]
      /\ \A x \in DOMAIN st.requests \ {id} : st'.requests[x] = st.requests[x]
  BY <1>1, RequestStep
<1>3. st'.requests[id].verdict = verdict /\ st'.requests[id].status = st.requests[id].status
  BY <1>2 DEF Request
<1>4. Appended = ChildEvent(st, st') /\ NewRequest = id
  BY <1>1, <1>2, <1>3, RequestsArm
<1>5. ~Completed(st', id)
  BY <1>3 DEF Completed
<1> QED
  BY <1>1, <1>3, <1>4, <1>5 DEF ChildEvent, NewRequest

\* child.completed
LEMMA CompletesEvent ==
  ASSUME Typed, NEW id, NEW status \in {"completed", "failed"}, NEW reply,
         Completes(id, status, reply)
  PROVE  /\ Appended.type = "child.completed" /\ Appended.id = id
         /\ Appended.status = status
<1>1. /\ id \in DOMAIN st.requests /\ st.requests[id].status = "none" /\ status # "none"
      /\ st'.requests =
           [st.requests EXCEPT
               ![id] = [st.requests[id] EXCEPT !.status = status, !.reply = reply]]
      /\ SameButAccount
  BY DEF Completes, Unfinished, Completed
<1>2. /\ DOMAIN st'.requests = DOMAIN st.requests /\ st.requests[id] \in Request
      /\ st'.requests[id] = [st.requests[id] EXCEPT !.status = status, !.reply = reply]
      /\ \A x \in DOMAIN st.requests \ {id} : st'.requests[x] = st.requests[x]
  BY <1>1, RequestStep
<1>3. st'.requests[id].status = status
  BY <1>2 DEF Request
<1>4. Appended = ChildEvent(st, st') /\ NewRequest = id
  BY <1>1, <1>2, <1>3, RequestsArm
<1>5. Completed(st', id)
  BY <1>1, <1>3 DEF Completed
<1> QED
  BY <1>1, <1>3, <1>4, <1>5 DEF ChildEvent, NewRequest

\* The other events are none that the views look at.
LEMMA OtherEvent ==
  ASSUME \/ Readies \/ (\E p \in Prompts : Queues(p)) \/ \E i \in Nat : Applies(i)
  PROVE  Appended.type = "other"
<1>1. SameTurn /\ st'.requests = st.requests /\ SameGrant /\ SameResult /\ SameTerminal
  BY DEF Readies, Queues, Applies, SameButSteering, SameAccount
<1>2. ~Speaks /\ ~Calls /\ ~Requests /\ ~Raises /\ ~Judges /\ ~Closes
  BY <1>1 DEF SameTurn, SameGrant, SameResult, SameTerminal, Active, Speaks, Calls, Requests,
              Raises, Judges, Closes
<1> QED
  BY <1>2, Arms

-----------------------------------------------------------------------------
(* What the log says of the session, and the step of each part.            *)

\* An end stands in the log if and only if the session is over, and tells it.
EndTold ==
  IF Finished
  THEN /\ endOf(log) # 0 /\ log[endOf(log)].status = st.terminal
       /\ st.terminal = "failed" =>
            ((log[endOf(log)].reason = "invalid_result") <=> (st.validation = "invalid"))
  ELSE endOf(log) = 0

\* Only an admitted child comes to an end.
AdmittedFirst == \A id \in DOMAIN st.requests : Completed(st, id) => Admitted(st, id)

\* The role of a turn follows from its actor.
RoleOf(actor) == IF actor \in {"facilitator", "reducer"} THEN actor ELSE "participant"

HasStarted(s, actor, round) ==
  \E j \in Indexes(s, {"turn.started"}) : s[j].actor = actor /\ s[j].round = round

\* The turns of participants that are finished.
Spoken(s) == {i \in Indexes(s, {"turn.finished"}) : RoleOf(s[i].actor) = "participant"}

TalkTold ==
  /\ \A i \in Indexes(log, {"turn.started"}) : log[i].role = RoleOf(log[i].actor)
  /\ \A i \in Indexes(log, {"turn.finished"}) : HasStarted(log, log[i].actor, log[i].round)
  /\ Active(st) => HasStarted(log, st.turn.actor, st.turn.round)
  /\ Cardinality(Spoken(log)) = Len(st.conv)

LogInv ==
  /\ IsLog(log) /\ IsLog(past) /\ (st.started => log # <<>>)
  /\ EndTold /\ AdmittedFirst /\ pendingChildren(log) = Undecided
  /\ DiagnosticsTrue /\ TalkTold

\* A step of the session that is seen in the log.
Logged == /\ Typed /\ TurnInv /\ Schedule /\ Effect /\ plan' = plan /\ Typed'
          /\ st' # st /\ IsLog(log) /\ log' = Append(log, Appended) /\ IsLog(past)
          /\ past' = IF Active(st) /\ ~Active(st') THEN Append(past, st.turn) ELSE past

\* The end is told.
LEMMA EndStep ==
  ASSUME Logged, EndTold, AdmittedFirst
  PROVE  EndTold'
<1> USE DEF Logged
<1>1. /\ Appended.type = "session.finished" => endOf(log') = Len(log) + 1
      /\ Appended.type = "turn_budget.granted" => endOf(log') = 0
      /\ Appended.type \notin {"session.finished", "turn_budget.granted"} =>
           /\ endOf(log') = endOf(log)
           /\ endOf(log) # 0 => log'[endOf(log)] = log[endOf(log)]
  BY AppendEnd
<1>2. Len(log) \in Nat /\ log'[Len(log) + 1] = Appended
  BY Appending
<1>3. Len(st.conv) \in Nat /\ st.granted \in Nat /\ st.atGrant \in Nat
  BY Numbers
<1>4. ASSUME Appended.type \notin {"session.finished", "turn_budget.granted"},
             Finished' <=> Finished, Finished => SameTerminal /\ SameResult
      PROVE  EndTold'
  BY <1>1, <1>4 DEF EndTold, SameTerminal, SameResult
<1>5. ASSUME Appended.type \notin {"session.finished", "turn_budget.granted"},
             SameTerminal, SameResult, SameTalk, SameGrant
      PROVE  EndTold'
  BY <1>4, <1>5 DEF SameTerminal, SameTalk, SameGrant, Finished, hasUnstartedGrantedWork
<1>6. ASSUME NEW how \in {"completed", "failed"}, Ends(how) PROVE EndTold'
  <2>1. Appended = [type |-> "session.finished", status |-> how,
                    reason |-> IF how = "failed" /\ pc = "success" THEN "invalid_result"
                               ELSE "other"]
    BY <1>6, EndsEvent
  <2>2. /\ st'.terminal = how /\ st'.validation = st.validation /\ st'.conv = st.conv
        /\ st'.granted = st.granted /\ st'.atGrant = st.atGrant /\ st.terminal = "none"
        /\ how = "completed" => st.validation = "valid"
        /\ how = "failed" => ((st.validation = "invalid") <=> (pc = "success"))
    BY <1>6 DEF Ends, SameResult, SameTalk, SameGrant
  <2>3. how = "completed" => ~(st.granted > 0 /\ Len(st.conv) = st.atGrant)
    BY <2>2 DEF TurnInv, Schedule, Active, NoTurn
  <2>4. Finished'
    BY <2>2, <2>3 DEF Finished, hasUnstartedGrantedWork
  <2> QED
    BY <1>1, <1>2, <2>1, <2>2, <2>4 DEF EndTold
<1>7. ASSUME NEW n \in Nat, NEW p, Grants(n, p) PROVE EndTold'
  <2>1. Appended.type = "turn_budget.granted"
    BY <1>7, GrantsEvent
  <2>2. ~Finished'
    BY <1>3, <1>7 DEF Grants, SameTerminal, SameTalk, turnBudgetGrantApplicable, Finished,
                      hasUnstartedGrantedWork
  <2> QED
    BY <1>1, <2>1, <2>2 DEF EndTold
<1>8. ASSUME NEW actor, NEW round, NEW role \in Roles, TurnStarts(actor, round, role) PROVE EndTold'
  <2>1. Appended.type = "turn.started"
    BY <1>8, TurnStartsEvent
  <2>2. ~Finished /\ ~Finished'
    BY <1>8 DEF TurnStarts, Finished
  <2> QED
    BY <1>4, <2>1, <2>2
<1>9. ASSUME NEW reply, TurnEnds(reply) PROVE EndTold'
  <2>1. Appended.type = "turn.finished"
    BY <1>9, TurnEndsEvent
  <2>2. ~Finished /\ ~Finished'
    BY <1>9 DEF TurnEnds, SameTerminal, Finished
  <2> QED
    BY <1>4, <2>1, <2>2
<1>10. ASSUME NEW v \in {"valid", "invalid"}, Validates(v) PROVE EndTold'
  <2>1. Appended.type = "result.produced"
    BY <1>10, ValidatesEvent
  <2>2. ~Finished /\ ~Finished'
    BY <1>10 DEF Validates, SameTerminal, Finished
  <2> QED
    BY <1>4, <2>1, <2>2
<1>11. CASE Tries
  BY <1>5, <1>11, TriesEvent DEF Tries, SameButAttempts
<1>12. ASSUME NEW a \in Attempt, Marks(a) PROVE EndTold'
  BY <1>5, <1>12, MarksEvent DEF Marks, SameButAttempts, Closing
<1>13. ASSUME NEW id \in Ids, Asks(id) PROVE EndTold'
  BY <1>5, <1>13, AsksEvent DEF Asks, SameButAccount
<1>14. ASSUME NEW id \in Ids, NEW verdict \in Verdicts, NEW turns \in Nat,
              Decides(id, verdict, turns)
       PROVE  EndTold'
  <2>1. Appended.type = "child.decided"
    BY <1>14, DecidesEvent DEF AdmittedFirst, Admitted, Decides, Undecided, Decided
  <2> QED
    BY <1>5, <1>14, <2>1 DEF Decides, SameButAccount
<1>15. ASSUME NEW id \in Ids, NEW status \in {"completed", "failed"}, NEW reply,
              Completes(id, status, reply)
       PROVE  EndTold'
  BY <1>5, <1>15, CompletesEvent DEF Completes, SameButAccount
<1>16. ASSUME \/ Readies \/ (\E p \in Prompts : Queues(p)) \/ \E i \in Nat : Applies(i)
       PROVE  EndTold'
  BY <1>5, <1>16, OtherEvent DEF Readies, Queues, Applies, SameButSteering
<1> QED
  BY <1>6, <1>7, <1>8, <1>9, <1>10, <1>11, <1>12, <1>13, <1>14, <1>15, <1>16 DEF Effect, Unmoved

\* Who is decided for is admitted before the child ends.
LEMMA AdmittedStep ==
  ASSUME Typed, Effect, AdmittedFirst
  PROVE  AdmittedFirst'
<1>1. CASE st'.requests = st.requests
  BY <1>1 DEF AdmittedFirst, Completed, Admitted
<1>2. ASSUME NEW id, Asks(id) PROVE AdmittedFirst'
  BY <1>2 DEF Asks, Asked, AdmittedFirst, Completed, Admitted
<1>3. ASSUME NEW id, NEW verdict, NEW turns, Decides(id, verdict, turns) PROVE AdmittedFirst'
  <2>1. /\ id \in DOMAIN st.requests /\ st.requests[id].verdict = "none"
        /\ st'.requests =
             [st.requests EXCEPT
               ![id] = [st.requests[id] EXCEPT !.verdict = verdict, !.turns = turns]]
    BY <1>3 DEF Decides, Undecided, Decided
  <2>2. /\ DOMAIN st'.requests = DOMAIN st.requests /\ st.requests[id] \in Request
        /\ st'.requests[id] = [st.requests[id] EXCEPT !.verdict = verdict, !.turns = turns]
        /\ \A x \in DOMAIN st.requests \ {id} : st'.requests[x] = st.requests[x]
    BY <2>1, RequestStep
  <2>3. st'.requests[id].status = "none"
    BY <2>1, <2>2 DEF Request, AdmittedFirst, Completed, Admitted
  <2> QED
    BY <2>2, <2>3 DEF AdmittedFirst, Completed, Admitted
<1>4. ASSUME NEW id, NEW status, NEW reply, Completes(id, status, reply) PROVE AdmittedFirst'
  <2>1. /\ id \in DOMAIN st.requests /\ st.requests[id].verdict = "admitted"
        /\ st'.requests =
             [st.requests EXCEPT
               ![id] = [st.requests[id] EXCEPT !.status = status, !.reply = reply]]
    BY <1>4 DEF Completes, Unfinished, Admitted
  <2>2. /\ DOMAIN st'.requests = DOMAIN st.requests /\ st.requests[id] \in Request
        /\ st'.requests[id] = [st.requests[id] EXCEPT !.status = status, !.reply = reply]
        /\ \A x \in DOMAIN st.requests \ {id} : st'.requests[x] = st.requests[x]
    BY <2>1, RequestStep
  <2>3. st'.requests[id].verdict = "admitted"
    BY <2>1, <2>2 DEF Request
  <2> QED
    BY <2>2, <2>3 DEF AdmittedFirst, Completed, Admitted
<1> QED
  BY <1>1, <1>2, <1>3, <1>4
     DEF Effect, Unmoved, Readies, Ends, TurnStarts, Tries, Marks, SameButAttempts, TurnEnds,
         Queues,
         Applies, SameButSteering, Grants, Validates, SameAccount

\* The requests that wait in the log are those without a decision.
LEMMA PendingStep ==
  ASSUME Logged, AdmittedFirst, pendingChildren(log) = Undecided
  PROVE  pendingChildren(log') = Undecided'
<1> USE DEF Logged
<1>1. /\ Appended.type \notin {"child.requested", "child.decided"} =>
           pendingChildren(log') = pendingChildren(log)
      /\ Appended.type = "child.requested" =>
           pendingChildren(log') = pendingChildren(log) \cup {Appended.id}
      /\ Appended.type = "child.decided" =>
           pendingChildren(log') = pendingChildren(log) \ {Appended.id}
  BY AppendPending
<1>2. ASSUME Appended.type \notin {"child.requested", "child.decided"}, st'.requests = st.requests
      PROVE  pendingChildren(log') = Undecided'
  BY <1>1, <1>2 DEF Undecided, Decided
<1>3. ASSUME NEW id, Asks(id) PROVE pendingChildren(log') = Undecided'
  <2>1. Appended.type = "child.requested" /\ Appended.id = id
    BY <1>3, AsksEvent
  <2>2. Undecided' = Undecided \cup {id}
    BY <1>3 DEF Asks, Asked, Undecided, Decided
  <2> QED BY <1>1, <2>1, <2>2
<1>4. ASSUME NEW id, NEW verdict, NEW turns, Decides(id, verdict, turns)
      PROVE  pendingChildren(log') = Undecided'
  <2>1. Appended.type = "child.decided" /\ Appended.id = id
    BY <1>4, DecidesEvent DEF AdmittedFirst, Admitted, Decides, Undecided, Decided
  <2>2. /\ id \in DOMAIN st.requests /\ verdict # "none"
        /\ st'.requests =
             [st.requests EXCEPT
               ![id] = [st.requests[id] EXCEPT !.verdict = verdict, !.turns = turns]]
    BY <1>4 DEF Decides, Undecided
  <2>3. /\ DOMAIN st'.requests = DOMAIN st.requests /\ st.requests[id] \in Request
        /\ st'.requests[id] = [st.requests[id] EXCEPT !.verdict = verdict, !.turns = turns]
        /\ \A x \in DOMAIN st.requests \ {id} : st'.requests[x] = st.requests[x]
    BY <2>2, RequestStep
  <2>4. st'.requests[id].verdict # "none"
    BY <2>2, <2>3 DEF Request
  <2>5. Undecided' = Undecided \ {id}
    BY <2>3, <2>4 DEF Undecided, Decided
  <2> QED BY <1>1, <2>1, <2>5
<1>5. ASSUME NEW id, NEW status \in {"completed", "failed"}, NEW reply, Completes(id, status, reply)
      PROVE  pendingChildren(log') = Undecided'
  <2>1. Appended.type = "child.completed"
    BY <1>5, CompletesEvent
  <2>2. /\ id \in DOMAIN st.requests
        /\ st'.requests =
             [st.requests EXCEPT
               ![id] = [st.requests[id] EXCEPT !.status = status, !.reply = reply]]
    BY <1>5 DEF Completes, Unfinished
  <2>3. /\ DOMAIN st'.requests = DOMAIN st.requests /\ st.requests[id] \in Request
        /\ st'.requests[id] = [st.requests[id] EXCEPT !.status = status, !.reply = reply]
        /\ \A x \in DOMAIN st.requests \ {id} : st'.requests[x] = st.requests[x]
    BY <2>2, RequestStep
  <2>4. st'.requests[id].verdict = st.requests[id].verdict
    BY <2>3 DEF Request
  <2>5. Undecided' = Undecided
    BY <2>3, <2>4 DEF Undecided, Decided
  <2> QED BY <1>1, <2>1, <2>5
<1>6. ASSUME NEW how \in {"completed", "failed"}, Ends(how) PROVE pendingChildren(log') = Undecided'
  BY <1>2, <1>6, EndsEvent DEF Ends, SameAccount
<1>7. ASSUME NEW n \in Nat, NEW p, Grants(n, p) PROVE pendingChildren(log') = Undecided'
  BY <1>2, <1>7, GrantsEvent DEF Grants, SameAccount
<1>8. ASSUME NEW actor, NEW round, NEW role \in Roles, TurnStarts(actor, round, role)
      PROVE  pendingChildren(log') = Undecided'
  BY <1>2, <1>8, TurnStartsEvent DEF TurnStarts, SameAccount
<1>9. ASSUME NEW reply, TurnEnds(reply) PROVE pendingChildren(log') = Undecided'
  BY <1>2, <1>9, TurnEndsEvent DEF TurnEnds, SameAccount
<1>10. ASSUME NEW v \in {"valid", "invalid"}, Validates(v) PROVE pendingChildren(log') = Undecided'
  BY <1>2, <1>10, ValidatesEvent DEF Validates, SameAccount
<1>11. CASE Tries
  BY <1>2, <1>11, TriesEvent DEF Tries, SameButAttempts, SameAccount
<1>12. ASSUME NEW a \in Attempt, Marks(a) PROVE pendingChildren(log') = Undecided'
  BY <1>2, <1>12, MarksEvent DEF Marks, SameButAttempts, SameAccount, Closing
<1>13. ASSUME \/ Readies \/ (\E p \in Prompts : Queues(p)) \/ \E i \in Nat : Applies(i)
       PROVE  pendingChildren(log') = Undecided'
  BY <1>2, <1>13, OtherEvent DEF Readies, Queues, Applies, SameButSteering, SameAccount
<1> QED
  BY <1>3, <1>4, <1>5, <1>6, <1>7, <1>8, <1>9, <1>10, <1>11, <1>12, <1>13 DEF Effect, Unmoved

\* An attempt is made or marked in a turn that goes on.
LEMMA TurnGoesOn ==
  ASSUME Typed, Typed', TurnInv, SameButAttempts
  PROVE  Active(st) => Active(st')
<1> QED
  BY RoleOfTurn DEF SameButAttempts, Active, NoTurn, Roles

\* A turn takes the place of the attempts of its numbers that the actor lost
\* before.
LEMMA LostAppend ==
  ASSUME NEW q, IsLog(q), NEW t
  PROVE  LostIn(Append(q, t)) = (LostIn(q) \ Made(t)) \cup Lost(t)
<1> DEFINE r == Append(q, t)
           m == Len(q)
<1>1. /\ m \in Nat /\ DOMAIN q = 1..m /\ DOMAIN r = 1..(m + 1) /\ Len(r) = m + 1
      /\ r[m + 1] = t /\ \A i \in 1..m : r[i] = q[i]
  BY Appending
<1> HIDE DEF r, m
<1>2. ASSUME NEW x
      PROVE  x \in LostIn(r) <=> x \in (LostIn(q) \ Made(t)) \cup Lost(t)
  <2>1. x \in LostIn(r) <=>
          \E i \in 1..(m + 1) : x \in Lost(r[i]) /\ \A j \in (i + 1)..(m + 1) : x \notin Made(r[j])
    BY <1>1 DEF LostIn
  <2>2. x \in LostIn(q) <=>
          \E i \in 1..m : x \in Lost(q[i]) /\ \A j \in (i + 1)..m : x \notin Made(q[j])
    BY <1>1 DEF LostIn, m
  <2>3. ASSUME NEW i \in 1..m
        PROVE  (\A j \in (i + 1)..(m + 1) : x \notin Made(r[j]))
                 <=> (\A j \in (i + 1)..m : x \notin Made(q[j])) /\ x \notin Made(t)
    <3>1. (i + 1)..(m + 1) = ((i + 1)..m) \cup {m + 1} /\ (i + 1)..m \subseteq 1..m
      BY <1>1
    <3> QED BY <1>1, <3>1
  <2>4. (m + 1 + 1)..(m + 1) = {} /\ 1..(m + 1) = (1..m) \cup {m + 1}
    BY <1>1
  <2> QED BY <1>1, <2>1, <2>2, <2>3, <2>4
<1>3. LostIn(r) = (LostIn(q) \ Made(t)) \cup Lost(t)
  BY <1>2
<1> QED BY <1>3 DEF r

\* A turn without attempts changes nothing.
LEMMA LostNothing ==
  ASSUME NEW q, IsLog(q), NEW t, t.attempts = <<>>
  PROVE  LostIn(Append(q, t)) = LostIn(q)
<1>1. Made(t) = {} /\ Lost(t) = {}
  BY DEF Made, Lost, Occurs
<1> QED BY <1>1, LostAppend

\* The attempts without an outcome are those that are open in the log.
LEMMA DiagnosticsStep ==
  ASSUME Logged, AdmittedFirst, DiagnosticsTrue
  PROVE  DiagnosticsTrue' /\ IsLog(past')
<1> USE DEF Logged
<1>a. IsLog(past')
  BY Appending
<1> SUFFICES DiagnosticsTrue'
  BY <1>a
<1>1. /\ Appended.type \notin {"attempt.started", "attempt.finished", "provider.failed"} =>
           abandonedAttempts(log') = abandonedAttempts(log)
      /\ Appended.type = "attempt.started" =>
           abandonedAttempts(log') = abandonedAttempts(log) \cup {attemptKey(Appended)}
      /\ Appended.type \in Closing =>
           abandonedAttempts(log') = abandonedAttempts(log) \ {attemptKey(Appended)}
  <2>1. ASSUME NEW x
        PROVE  /\ (\/ Appended.type \notin {"attempt.started", "attempt.finished", "provider.failed"}
                   \/ attemptKey(Appended) # x) =>
                    (x \in abandonedAttempts(log') <=> x \in abandonedAttempts(log))
               /\ Appended.type = "attempt.started" /\ attemptKey(Appended) = x =>
                    x \in abandonedAttempts(log')
               /\ Appended.type \in Closing /\ attemptKey(Appended) = x =>
                    x \notin abandonedAttempts(log')
    BY AppendAttempts
  <2> QED BY <2>1 DEF Closing
<1>2. ASSUME Appended.type \notin {"attempt.started", "attempt.finished", "provider.failed"},
             st'.turn = st.turn
      PROVE  DiagnosticsTrue'
  <2>1. past' = past
    BY <1>2 DEF Active
  <2> QED BY <1>1, <1>2, <2>1 DEF DiagnosticsTrue
<1>3. LostIn(Append(past, st.turn)) = (LostIn(past) \ Made(st.turn)) \cup Lost(st.turn)
  BY LostAppend
<1>4. CASE Tries
  <2> DEFINE n == Len(st.turn.attempts) + 1
             x == <<st.turn.actor, n>>
  <2>1. /\ Appended.type = "attempt.started" /\ attemptKey(Appended) = x
        /\ DOMAIN st'.turn.attempts = DOMAIN st.turn.attempts \cup {n}
        /\ st'.turn.attempts[n].outcome = "none" /\ st'.turn.actor = st.turn.actor
        /\ \A i \in DOMAIN st.turn.attempts : st'.turn.attempts[i] = st.turn.attempts[i]
        /\ n \notin DOMAIN st.turn.attempts
    BY <1>4, TriesEvent DEF Tries, SameButAttempts
  <2>2. past' = past
    BY <1>4, TurnGoesOn DEF Tries
  <2> HIDE DEF n
  <2>3. Made(st'.turn) = Made(st.turn) \cup {x} /\ Lost(st'.turn) = Lost(st.turn) \cup {x}
    BY <2>1 DEF Made, Lost, Occurs
  <2>4. LostIn(Append(past, st'.turn)) = (LostIn(past) \ Made(st'.turn)) \cup Lost(st'.turn)
    BY LostAppend
  <2>5. LostIn(Append(past, st'.turn)) = LostIn(Append(past, st.turn)) \cup {x}
    BY <1>3, <2>3, <2>4
  <2> QED
    BY <1>1, <2>1, <2>2, <2>5 DEF DiagnosticsTrue
<1>5. ASSUME NEW a \in Attempt, Marks(a) PROVE DiagnosticsTrue'
  <2> DEFINE n == Len(st.turn.attempts)
             x == <<st.turn.actor, n>>
  <2>1. /\ Appended.type \in Closing /\ attemptKey(Appended) = x
        /\ DOMAIN st'.turn.attempts = DOMAIN st.turn.attempts /\ n \in DOMAIN st.turn.attempts
        /\ st'.turn.attempts[n].outcome # "none" /\ st'.turn.actor = st.turn.actor
        /\ \A i \in DOMAIN st.turn.attempts :
             i # n => st'.turn.attempts[i] = st.turn.attempts[i]
    BY <1>5, MarksEvent DEF Marks, SameButAttempts
  <2>2. past' = past
    BY <1>5, TurnGoesOn DEF Marks
  <2> HIDE DEF n
  <2>3. /\ Made(st'.turn) = Made(st.turn) /\ x \in Made(st.turn)
        /\ Lost(st'.turn) = Lost(st.turn) \ {x}
    BY <2>1 DEF Made, Lost, Occurs
  <2>4. LostIn(Append(past, st'.turn)) = (LostIn(past) \ Made(st'.turn)) \cup Lost(st'.turn)
    BY LostAppend
  <2>5. LostIn(Append(past, st'.turn)) = LostIn(Append(past, st.turn)) \ {x}
    BY <1>3, <2>3, <2>4
  <2> QED
    BY <1>1, <2>1, <2>2, <2>5 DEF DiagnosticsTrue
<1>6. ASSUME NEW how \in {"completed", "failed"}, Ends(how) PROVE DiagnosticsTrue'
  BY <1>2, <1>6, EndsEvent DEF Ends, SameTurn
<1>7. ASSUME NEW n \in Nat, NEW p, Grants(n, p) PROVE DiagnosticsTrue'
  BY <1>2, <1>7, GrantsEvent DEF Grants, SameTurn
<1>8. ASSUME NEW actor, NEW round, NEW role \in Roles, TurnStarts(actor, round, role)
      PROVE  DiagnosticsTrue'
  <2>1. Appended.type = "turn.started"
    BY <1>8, TurnStartsEvent
  <2>2. past' = past /\ st.turn.attempts = <<>> /\ st'.turn.attempts = <<>>
    BY <1>8 DEF TurnStarts, Active, NoTurn
  <2>3. /\ LostIn(Append(past, st.turn)) = LostIn(past)
        /\ LostIn(Append(past, st'.turn)) = LostIn(past)
    BY <2>2, LostNothing
  <2> QED BY <1>1, <2>1, <2>2, <2>3 DEF DiagnosticsTrue
<1>9. ASSUME NEW reply, TurnEnds(reply) PROVE DiagnosticsTrue'
  <2>1. Appended.type = "turn.finished"
    BY <1>9, TurnEndsEvent
  <2>2. past' = Append(past, st.turn) /\ st'.turn.attempts = <<>>
    BY <1>9 DEF TurnEnds, Active, NoTurn
  <2>3. LostIn(Append(past', st'.turn)) = LostIn(past')
    BY <1>a, <2>2, LostNothing
  <2> QED BY <1>1, <2>1, <2>2, <2>3 DEF DiagnosticsTrue
<1>10. ASSUME NEW v \in {"valid", "invalid"}, Validates(v) PROVE DiagnosticsTrue'
  BY <1>2, <1>10, ValidatesEvent DEF Validates, SameTurn
<1>11. ASSUME NEW id \in Ids, Asks(id) PROVE DiagnosticsTrue'
  BY <1>2, <1>11, AsksEvent DEF Asks, SameButAccount, SameTurn
<1>12. ASSUME NEW id \in Ids, NEW verdict \in Verdicts, NEW turns \in Nat,
              Decides(id, verdict, turns)
       PROVE  DiagnosticsTrue'
  <2>1. Appended.type = "child.decided"
    BY <1>12, DecidesEvent DEF AdmittedFirst, Admitted, Decides, Undecided, Decided
  <2> QED
    BY <1>2, <1>12, <2>1 DEF Decides, SameButAccount, SameTurn
<1>13. ASSUME NEW id \in Ids, NEW status \in {"completed", "failed"}, NEW reply,
              Completes(id, status, reply)
       PROVE  DiagnosticsTrue'
  BY <1>2, <1>13, CompletesEvent DEF Completes, SameButAccount, SameTurn
<1>14. ASSUME \/ Readies \/ (\E p \in Prompts : Queues(p)) \/ \E i \in Nat : Applies(i)
       PROVE  DiagnosticsTrue'
  BY <1>2, <1>14, OtherEvent DEF Readies, Queues, Applies, SameButSteering, SameTurn
<1> QED
  BY <1>4, <1>5, <1>6, <1>7, <1>8, <1>9, <1>10, <1>11, <1>12, <1>13, <1>14 DEF Effect, Unmoved

\* The participants are none of the controls.
LEMMA ParticipantRole ==
  ASSUME Typed, NEW n \in Nat \ {0}
  PROVE  RoleOf(ParticipantActorForTurn(n)) = "participant"
<1>1. /\ plan.slots \in Seq(STRING) /\ Len(plan.slots) \in Nat \ {0}
      /\ \A i \in DOMAIN plan.slots : plan.slots[i] \notin {"facilitator", "reducer"}
  BY PlanAssumption DEF Typed, ValidPlan, Plan
<1>2. n - 1 \in Nat /\ DOMAIN plan.slots = 1..Len(plan.slots)
  BY <1>1
<1>3. ((n - 1) % Len(plan.slots)) + 1 \in DOMAIN plan.slots
  BY <1>1, <1>2, InCycle, Zenon
<1> QED
  BY <1>1, <1>3 DEF ParticipantActorForTurn, RoleOf

\* So the turn in hand has the role of its actor.
LEMMA TurnRole ==
  ASSUME Typed, TurnInv, Active(st)
  PROVE  st.turn.role = RoleOf(st.turn.actor)
<1>1. st.turn.role \in Roles /\ Len(st.conv) + 1 \in Nat \ {0}
  BY RoleOfTurn, Numbers
<1>2. CASE st.turn.role = "participant"
  BY <1>1, <1>2, ParticipantRole DEF TurnInv
<1>3. CASE st.turn.role \in {"facilitator", "reducer"}
  BY <1>3 DEF TurnInv, RoleOf
<1> QED
  BY <1>1, <1>2, <1>3 DEF Roles

\* What the new event adds to the events of the types.
LEMMA LoggedIndexes ==
  ASSUME Logged, NEW T
  PROVE  /\ Appended.type \in T => Indexes(log', T) = Indexes(log, T) \cup {Len(log) + 1}
         /\ Appended.type \notin T => Indexes(log', T) = Indexes(log, T)
         /\ Indexes(log, T) \subseteq 1..Len(log)
         /\ \A i \in Indexes(log, T) : log'[i] = log[i]
<1> DEFINE e == Appended
<1> HIDE DEF e
<1>1. log' = Append(log, e) /\ IsLog(log)
  BY DEF Logged, e
<1> DEFINE t == Append(log, e)
<1>2. /\ Indexes(t, T) = Indexes(log, T) \cup {i \in {Len(log) + 1} : e.type \in T}
      /\ Indexes(log, T) \subseteq 1..Len(log)
      /\ \A i \in Indexes(log, T) : t[i] = log[i]
  BY <1>1, AppendIndexes
<1> HIDE DEF t
<1>3. log' = t
  BY <1>1 DEF t
<1> QED
  BY <1>2, <1>3 DEF e

\* The log of turns says what it said, and what the new event adds.
LEMMA TalkSame ==
  ASSUME Logged, TalkTold, Appended.type \notin {"turn.started", "turn.finished"},
         SameTalk, Active(st') <=> Active(st),
         Active(st) => st'.turn.actor = st.turn.actor /\ st'.turn.round = st.turn.round
  PROVE  TalkTold'
<1>1. /\ Indexes(log', {"turn.started"}) = Indexes(log, {"turn.started"})
      /\ \A i \in Indexes(log, {"turn.started"}) : log'[i] = log[i]
  BY LoggedIndexes
<1>2. /\ Indexes(log', {"turn.finished"}) = Indexes(log, {"turn.finished"})
      /\ \A i \in Indexes(log, {"turn.finished"}) : log'[i] = log[i]
  BY LoggedIndexes
<1>3. Spoken(log') = Spoken(log)
  BY <1>2 DEF Spoken
<1>4. \A actor, round : HasStarted(log, actor, round) => HasStarted(log', actor, round)
  BY <1>1 DEF HasStarted
<1> QED
  BY <1>1, <1>2, <1>3, <1>4 DEF TalkTold, SameTalk

\* A turn that starts is told with the role of its actor.
LEMMA TalkStarts ==
  ASSUME Logged, TalkTold, NEW actor \in Actors, NEW round \in Nat, NEW role \in Roles,
         TurnStarts(actor, round, role)
  PROVE  TalkTold'
<1> DEFINE n == Len(log) + 1
<1>1. Appended = [type |-> "turn.started", actor |-> actor, round |-> round, role |-> role]
  BY TurnStartsEvent
<1>2. role = RoleOf(actor)
  <2>1. CASE role = "participant"
    BY <2>1, ParticipantRole, Numbers DEF TurnStarts, Logged
  <2>2. CASE role \in {"facilitator", "reducer"}
    BY <2>2 DEF TurnStarts, RoleOf
  <2> QED BY <2>1, <2>2 DEF Roles
<1>3. /\ Indexes(log', {"turn.started"}) = Indexes(log, {"turn.started"}) \cup {n}
      /\ \A i \in Indexes(log, {"turn.started"}) : log'[i] = log[i]
  BY <1>1, LoggedIndexes
<1>4. /\ Indexes(log', {"turn.finished"}) = Indexes(log, {"turn.finished"})
      /\ \A i \in Indexes(log, {"turn.finished"}) : log'[i] = log[i]
  BY <1>1, LoggedIndexes
<1>5. log'[n] = Appended
  BY Appending DEF Logged
<1>6. Spoken(log') = Spoken(log) /\ st'.conv = st.conv
  BY <1>4 DEF Spoken, TurnStarts, SameTalk
<1>7. /\ st'.turn.actor = actor /\ st'.turn.round = round
  BY DEF TurnStarts
<1> HIDE DEF n
<1>8. \A i \in Indexes(log', {"turn.started"}) : log'[i].role = RoleOf(log'[i].actor)
  BY <1>1, <1>2, <1>3, <1>5 DEF TalkTold
<1>9. \A a, r : HasStarted(log, a, r) => HasStarted(log', a, r)
  BY <1>3 DEF HasStarted
<1>10. HasStarted(log', actor, round)
  BY <1>1, <1>3, <1>5 DEF HasStarted
<1> QED
  BY <1>4, <1>6, <1>7, <1>8, <1>9, <1>10 DEF TalkTold

\* A turn that ends is counted if a participant had it.
LEMMA TalkEnds ==
  ASSUME Logged, TalkTold, NEW reply \in Reply, TurnEnds(reply)
  PROVE  TalkTold'
<1> DEFINE n == Len(log) + 1
<1>1. /\ Appended.type = "turn.finished"
      /\ Appended.actor = st.turn.actor /\ Appended.round = st.turn.round
  BY TurnEndsEvent
<1>2. st.turn.role = RoleOf(st.turn.actor) /\ Active(st) /\ ~Active(st')
  BY TurnRole DEF TurnEnds, Active, Logged
<1>3. /\ Indexes(log', {"turn.started"}) = Indexes(log, {"turn.started"})
      /\ \A i \in Indexes(log, {"turn.started"}) : log'[i] = log[i]
  BY <1>1, LoggedIndexes
<1>4. /\ Indexes(log', {"turn.finished"}) = Indexes(log, {"turn.finished"}) \cup {n}
      /\ Indexes(log, {"turn.finished"}) \subseteq 1..Len(log)
      /\ \A i \in Indexes(log, {"turn.finished"}) : log'[i] = log[i]
  BY <1>1, LoggedIndexes
<1>5. log'[n] = Appended /\ Len(log) \in Nat /\ n \notin 1..Len(log)
  BY Appending DEF Logged
<1> HIDE DEF n
<1>6. \A a, r : HasStarted(log, a, r) => HasStarted(log', a, r)
  BY <1>3 DEF HasStarted
<1>7. \A i \in Indexes(log', {"turn.finished"}) : HasStarted(log', log'[i].actor, log'[i].round)
  BY <1>1, <1>2, <1>4, <1>5, <1>6 DEF TalkTold
<1>8. Spoken(log) \subseteq 1..Len(log) /\ n \notin Spoken(log)
  BY <1>4, <1>5 DEF Spoken
<1>9. IsFiniteSet(Spoken(log))
  <2>1. IsFiniteSet(1..Len(log))
    BY <1>5, FS_Interval
  <2> QED BY <1>8, <2>1, FS_Subset
<1>10. CASE st.turn.role = "participant"
  <2>1. Spoken(log') = Spoken(log) \cup {n}
    BY <1>1, <1>2, <1>4, <1>5, <1>10 DEF Spoken
  <2>2. Cardinality(Spoken(log')) = Cardinality(Spoken(log)) + 1
    BY <1>8, <1>9, <2>1, FS_AddElement
  <2>3. Len(st'.conv) = Len(st.conv) + 1
    <3>1. st'.conv = Append(st.conv, [actor |-> st.turn.actor, text |-> reply.text])
      BY <1>10 DEF TurnEnds
    <3>2. IsLog(st.conv)
      BY Numbers DEF IsLog, Logged
    <3> QED BY <3>1, <3>2, Appending
  <2> QED
    BY <1>2, <1>3, <1>7, <2>2, <2>3 DEF TalkTold
<1>11. CASE st.turn.role # "participant"
  <2>1. Spoken(log') = Spoken(log) /\ st'.conv = st.conv
    BY <1>1, <1>2, <1>4, <1>5, <1>11 DEF Spoken, TurnEnds
  <2> QED
    BY <1>2, <1>3, <1>7, <2>1 DEF TalkTold
<1> QED
  BY <1>10, <1>11

\* The conversation is in the log.
LEMMA TalkStep ==
  ASSUME Logged, TalkTold, AdmittedFirst
  PROVE  TalkTold'
<1> USE DEF Logged
<1>1. ASSUME NEW how \in {"completed", "failed"}, Ends(how) PROVE TalkTold'
  BY <1>1, EndsEvent, TalkSame DEF Ends, SameTurn, Active
<1>2. ASSUME NEW n \in Nat, NEW p, Grants(n, p) PROVE TalkTold'
  BY <1>2, GrantsEvent, TalkSame DEF Grants, SameTurn, Active
<1>3. ASSUME NEW v \in {"valid", "invalid"}, Validates(v) PROVE TalkTold'
  BY <1>3, ValidatesEvent, TalkSame DEF Validates, SameTurn, Active
<1>4. ASSUME SameButAttempts PROVE Active(st')
  BY <1>4, RoleOfTurn DEF SameButAttempts, Active, NoTurn, Roles
<1>5. CASE Tries
  BY <1>4, <1>5, TriesEvent, TalkSame DEF Tries, SameButAttempts
<1>6. ASSUME NEW a \in Attempt, Marks(a) PROVE TalkTold'
  BY <1>4, <1>6, MarksEvent, TalkSame DEF Marks, SameButAttempts, Closing
<1>7. ASSUME NEW id \in Ids, Asks(id) PROVE TalkTold'
  BY <1>7, AsksEvent, TalkSame DEF Asks, SameButAccount, SameTurn, Active
<1>8. ASSUME NEW id \in Ids, NEW verdict \in Verdicts, NEW turns \in Nat,
             Decides(id, verdict, turns)
      PROVE  TalkTold'
  <2>1. Appended.type = "child.decided"
    BY <1>8, DecidesEvent DEF AdmittedFirst, Admitted, Decides, Undecided, Decided
  <2> QED
    BY <1>8, <2>1, TalkSame DEF Decides, SameButAccount, SameTurn, Active
<1>9. ASSUME NEW id \in Ids, NEW status \in {"completed", "failed"}, NEW reply,
             Completes(id, status, reply)
      PROVE  TalkTold'
  BY <1>9, CompletesEvent, TalkSame DEF Completes, SameButAccount, SameTurn, Active
<1>10. ASSUME \/ Readies \/ (\E p \in Prompts : Queues(p)) \/ \E i \in Nat : Applies(i)
       PROVE  TalkTold'
  BY <1>10, OtherEvent, TalkSame DEF Readies, Queues, Applies, SameButSteering, SameTurn, Active
<1> QED
  BY <1>1, <1>2, <1>3, <1>5, <1>6, <1>7, <1>8, <1>9, <1>10, TalkStarts, TalkEnds
     DEF Effect, Unmoved

\* A log that was not begun tells of a session that was not started.
LEMMA LogInit == ReadInit => LogInv
<1> SUFFICES ASSUME ReadInit PROVE LogInv
  OBVIOUS
<1>1. /\ log = <<>> /\ st.started = FALSE /\ st.terminal = "none" /\ st.requests = <<>>
      /\ st.turn = NoTurn /\ st.conv = <<>> /\ past = <<>>
  BY DEF ReadInit, Init, newExecutionState
<1>2. IsLog(log) /\ IsLog(past) /\ DOMAIN log = {} /\ DOMAIN st.requests = {}
  <2>1. <<>> \in Seq({})
    OBVIOUS
  <2> QED BY <1>1, <2>1 DEF IsLog
<1>3. \A T : Indexes(log, T) = {}
  BY <1>2 DEF Indexes
<1>4. EndTold
  BY <1>1, <1>3 DEF EndTold, Finished, endOf, LastIndex
<1>5. AdmittedFirst /\ pendingChildren(log) = Undecided
  BY <1>2, <1>3 DEF AdmittedFirst, pendingChildren, Open, Undecided
<1>6. DiagnosticsTrue
  <2>1. LostIn(Append(past, st.turn)) = LostIn(past)
    <3>1. st.turn.attempts = <<>>
      BY <1>1 DEF NoTurn
    <3> QED BY <1>2, <3>1, LostNothing
  <2>2. LostIn(past) = {}
    BY <1>1 DEF LostIn
  <2>3. abandonedAttempts(log) = {}
    BY <1>3 DEF abandonedAttempts, Open
  <2> QED BY <2>1, <2>2, <2>3 DEF DiagnosticsTrue
<1>7. TalkTold
  <2>1. Spoken(log) = {} /\ ~Active(st) /\ Len(st.conv) = 0
    BY <1>1, <1>3 DEF Spoken, Active
  <2> QED
    BY <1>3, <2>1, FS_EmptySet DEF TalkTold
<1> QED
  BY <1>1, <1>2, <1>4, <1>5, <1>6, <1>7 DEF LogInv

\* A step of the session that moves it is told in the log; nothing else is.
LEMMA StepIsLogged ==
  ASSUME IInv, LogInv, [ReadNext]_rvars
  PROVE  Logged \/ (st' = st /\ log' = log /\ plan' = plan /\ past' = past)
<1>1. Effect /\ plan' = plan /\ Typed'
  BY NextStep, ReadersStand DEF Step
<1>2. CASE SessionStep
  BY <1>1, <1>2 DEF SessionStep, Logged, IInv, LogInv
<1>3. CASE Quiet \/ UNCHANGED <<vars, log, past>>
  BY <1>3 DEF Quiet, vars
<1>4. CASE Export \/ ReadLog \/ TellFromLog \/ Probe \/ Rest
  BY <1>3, <1>4 DEF Export, ReadLog, TellFromLog, Probe, Tell, Rest
<1>5. CASE \E p \in Probers : ProbeBegins(p) \/ ProbeEnds(p)
  BY <1>3, <1>5 DEF ProbeBegins, ProbeEnds
<1> QED
  BY <1>2, <1>3, <1>4, <1>5 DEF ReadNext, rvars

\* The log goes on telling of the session.
LEMMA LogStep == IInv /\ LogInv /\ [ReadNext]_rvars => LogInv'
<1> SUFFICES ASSUME IInv, LogInv, [ReadNext]_rvars PROVE LogInv'
  OBVIOUS
<1>1. CASE Logged
  <2>1. IsLog(log') /\ log' # <<>>
    <3>1. /\ Len(log) \in Nat /\ IsLog(Append(log, Appended))
          /\ Len(Append(log, Appended)) = Len(log) + 1
      BY <1>1, Appending DEF Logged
    <3>2. Len(log') # 0
      BY <1>1, <3>1 DEF Logged
    <3> QED BY <1>1, <3>1, <3>2 DEF Logged
  <2> QED
    BY <1>1, <2>1, EndStep, AdmittedStep, PendingStep, DiagnosticsStep, TalkStep
       DEF LogInv, Logged
<1>2. CASE st' = st /\ log' = log /\ plan' = plan /\ past' = past
  <2>1. /\ Finished' = Finished /\ Undecided' = Undecided /\ endOf(log)' = endOf(log)
        /\ pendingChildren(log)' = pendingChildren(log)
    BY <1>2 DEF Finished, hasUnstartedGrantedWork, Undecided, Decided
  <2>2. EndTold' /\ AdmittedFirst'
    BY <1>2, <2>1 DEF LogInv, EndTold, AdmittedFirst, Completed, Admitted
  <2>3. DiagnosticsTrue'
    BY <1>2 DEF LogInv, DiagnosticsTrue
  <2>4. TalkTold'
    BY <1>2 DEF LogInv, TalkTold, Active
  <2> QED
    BY <1>2, <2>1, <2>2, <2>3, <2>4 DEF LogInv
<1> QED
  BY <1>1, <1>2, StepIsLogged

\* Every history keeps it.
LEMMA LogKept == ReadSpec => []LogInv
  BY LogInit, LogStep, EngineKept, PTL DEF ReadSpec

\* The attempts that diagnostics call abandoned are those that the engine lost
\* in this turn or in an earlier one, but for the lost attempts of an earlier
\* turn whose number the actor used again in a later turn: those are forgotten
\* from the start of that later attempt.
THEOREM DiagnosticsAreTrue == ReadSpec => []DiagnosticsTrue
<1>1. LogInv => DiagnosticsTrue
  BY DEF LogInv
<1> QED
  BY <1>1, LogKept, PTL

-----------------------------------------------------------------------------
(* The report: its status and its count of turns.                          *)

\* The transcript takes the role of a turn from its start; it is that of its
\* actor.
LEMMA RoleTold ==
  ASSUME IsLog(log), TalkTold, NEW i \in Indexes(log, {"turn.finished"})
  PROVE  roleOf(log, log[i]) = RoleOf(log[i].actor)
<1> DEFINE S == {j \in Indexes(log, {"turn.started"}) :
                   log[j].actor = log[i].actor /\ log[j].round = log[i].round}
           m == CHOOSE k \in S : \A j \in S : j <= k
<1>1. S \in SUBSET (1..Len(log)) /\ Len(log) \in Nat
  BY Appending, AppendIndexes
<1>2. S # {}
  BY DEF TalkTold, HasStarted
<1>3. \E k \in S : \A j \in S : j <= k
  BY <1>1, <1>2, GreatestOf
<1>4. m \in S
  BY <1>3
<1>5. roleOf(log, log[i]) = log[m].role
  BY DEF roleOf
<1> HIDE DEF m
<1> QED
  BY <1>4, <1>5 DEF TalkTold

\* The turns of participants that the transcript counts are those that the
\* engine has in the conversation.
LEMMA CountIs ==
  ASSUME IsLog(log), TalkTold
  PROVE  participantTurnCount(log) = Len(st.conv)
<1>1. {i \in Indexes(log, {"turn.finished"}) : roleOf(log, log[i]) = "participant"} = Spoken(log)
  BY RoleTold DEF Spoken
<1> QED
  BY <1>1 DEF TalkTold, participantTurnCount

\* The report of a session that is over tells its end.
LEMMA ExportedTrue ==
  ASSUME Typed, LogInv, Exported.status \in {"completed", "failed"}
  PROVE  /\ Exported = [status |-> st.terminal, turns |-> Len(st.conv), valid |-> Exported.valid]
         /\ Exported.valid \in BOOLEAN /\ st.terminal \in {"completed", "failed"} /\ Finished
<1> DEFINE v == ValidReport(BuildReport(log))
<1>1. v \in BOOLEAN
  BY DEF ValidReport
<1>2. BuildReport(log).status = Status(log) /\ BuildReport(log).turns = participantTurnCount(log)
  BY DEF BuildReport
<1> HIDE DEF v
<1>3. Exported = [status |-> Status(log), turns |-> Len(st.conv), valid |-> v]
  BY <1>2, CountIs DEF Exported, LogInv, v
<1>4. Status(log) \in {"completed", "failed"}
  BY <1>3
<1>5. endOf(log) # 0 /\ Status(log) = PublicStatus(log[endOf(log)].status, log[endOf(log)].reason)
  BY <1>4 DEF Status
<1>6. Finished /\ log[endOf(log)].status = st.terminal
  BY <1>5 DEF LogInv, EndTold
<1>7. Status(log) = st.terminal
  BY <1>4, <1>5, <1>6 DEF PublicStatus
<1> QED
  BY <1>1, <1>3, <1>4, <1>6, <1>7

-----------------------------------------------------------------------------
(* What is exported, from the reading of the log to the rename.            *)

\* The end that a directory tells.
EndIn(d) == [status |-> d.session.status, turns |-> d.session.turns]

Moments == {"off", "write", "verify", "look", "rename"}

\* A command that is at work has a directory, and one that means to publish it
\* has verified it.
Exporting ==
  /\ step \in [Exporter -> Moments] /\ temp \in [Exporter -> Directory \cup {Absent}]
  /\ \A e \in Exporter :
       /\ (step[e] = "off") <=> (temp[e] = Absent)
       /\ step[e] \in {"look", "rename"} => Verifies(temp[e])
       /\ step[e] # "off" => EndIn(temp[e]) \in ends

ExportInv ==
  /\ Exporting /\ target \in Directory \cup {Absent}
  /\ target # Absent => EndIn(target) \in ends
  /\ Ended \subseteq ends

LEMMA ExportInit == ReadInit => ExportInv
<1> SUFFICES ASSUME ReadInit PROVE ExportInv
  OBVIOUS
<1>1. /\ target = Absent /\ temp = [e \in Exporter |-> Absent] /\ step = [e \in Exporter |-> "off"]
      /\ st.terminal = "none"
  BY DEF ReadInit, EInit, Init, newExecutionState
<1>2. Exporting
  BY <1>1 DEF Exporting, Moments
<1> QED
  BY <1>1, <1>2 DEF ExportInv, Ended, Finished

\* What one command does to its directory.
LEMMA ExporterStep ==
  ASSUME Exporting, NEW e \in Exporter, NEW to \in Moments, NEW d \in Directory \cup {Absent},
         step' = [step EXCEPT ![e] = to], temp' = [temp EXCEPT ![e] = d], ends' = ends,
         (to = "off") <=> (d = Absent), to \in {"look", "rename"} => Verifies(d),
         to # "off" => EndIn(d) \in ends
  PROVE  Exporting'
<1>1. /\ step' \in [Exporter -> Moments] /\ temp' \in [Exporter -> Directory \cup {Absent}]
      /\ step'[e] = to /\ temp'[e] = d
      /\ \A x \in Exporter \ {e} : step'[x] = step[x] /\ temp'[x] = temp[x]
  BY DEF Exporting
<1> QED
  BY <1>1 DEF Exporting

\* A step of an export keeps what exports know, and publishes what verifies.
LEMMA ExportStep ==
  ASSUME Typed, LogInv, ExportInv, Export
  PROVE  ExportInv' /\ (target' = target \/ (target = Absent /\ Verifies(target')))
<1>1. PICK e \in Exporter :
        \/ Begin(e, Exported) \/ WritePayload(e) \/ WriteManifest(e) \/ VerifyTemp(e)
        \/ Look(e) \/ Rename(e) \/ GiveUp(e)
  BY DEF Export, ENext
<1>2. /\ Exporting /\ ends' = ends /\ Ended' = Ended /\ step[e] \in Moments
      /\ temp[e] \in Directory \cup {Absent}
      /\ step \in [Exporter -> Moments] /\ temp \in [Exporter -> Directory \cup {Absent}]
  BY DEF ExportInv, Exporting, Export, vars, Ended, Finished, hasUnstartedGrantedWork
<1>3. /\ (step[e] = "off") <=> (temp[e] = Absent)
      /\ step[e] \in {"look", "rename"} => Verifies(temp[e])
      /\ step[e] # "off" => EndIn(temp[e]) \in ends
  BY <1>2 DEF Exporting
<1>4. SUFFICES /\ Exporting'
               /\ \/ target' = target
                  \/ /\ target = Absent /\ target' \in Directory /\ EndIn(target') \in ends
                     /\ Verifies(target')
  BY <1>2 DEF ExportInv
<1>5. CASE Begin(e, Exported)
  <2> DEFINE d == [written |-> 0, manifest |-> FALSE, session |-> Exported]
  <2>1. Exported.status \in {"completed", "failed"}
    BY <1>5 DEF Begin
  <2>2. /\ Exported = [status |-> st.terminal, turns |-> Len(st.conv), valid |-> Exported.valid]
        /\ Exported.valid \in BOOLEAN /\ Finished /\ Len(st.conv) \in Nat
        /\ st.terminal \in {"completed", "failed"}
    BY <2>1, ExportedTrue, Numbers
  <2>3. Exported \in [status : Shown, turns : Nat, valid : BOOLEAN]
    BY <2>2 DEF Shown
  <2>4. 0 \in 0..Payloads
    BY InputsAssumption DEF Payloads
  <2>5. d \in Directory
    BY <2>3, <2>4 DEF Directory
  <2>6. EndIn(d) = [status |-> st.terminal, turns |-> Len(st.conv)]
    BY <2>2 DEF EndIn
  <2>7. EndIn(d) \in ends
    BY <2>2, <2>6 DEF ExportInv, Ended
  <2>8. d # Absent
    BY <2>5, AbsentAssumption
  <2>9. /\ step' = [step EXCEPT ![e] = "write"] /\ temp' = [temp EXCEPT ![e] = d]
        /\ target' = target
    BY <1>5 DEF Begin, Moves
  <2> HIDE DEF d
  <2> QED
    BY <1>2, <2>5, <2>7, <2>8, <2>9, ExporterStep DEF Moments
<1>6. ASSUME step[e] # "off"
      PROVE  temp[e] \in Directory /\ temp[e] # Absent /\ EndIn(temp[e]) \in ends
  BY <1>2, <1>6, <1>3
<1>7. CASE WritePayload(e)
  <2> DEFINE d == [temp[e] EXCEPT !.written = temp[e].written + 1]
  <2>1. step[e] = "write" /\ temp[e].written < Payloads
    BY <1>7 DEF WritePayload
  <2>2. temp[e] \in Directory /\ Payloads \in Nat
    BY <1>6, <2>1, InputsAssumption DEF Payloads
  <2>3. temp[e].written + 1 \in 0..Payloads
    BY <2>1, <2>2 DEF Directory
  <2>4. d \in Directory /\ EndIn(d) = EndIn(temp[e])
    BY <2>2, <2>3 DEF Directory, EndIn
  <2>5. d # Absent /\ EndIn(d) \in ends
    BY <1>6, <2>1, <2>4, AbsentAssumption
  <2>6. temp' = [temp EXCEPT ![e] = d] /\ target' = target /\ step' = step
    BY <1>7 DEF WritePayload
  <2>7. step' = [step EXCEPT ![e] = "write"]
    BY <1>2, <2>1, <2>6
  <2> HIDE DEF d
  <2> QED
    BY <1>2, <2>4, <2>5, <2>6, <2>7, ExporterStep DEF Moments
<1>8. CASE WriteManifest(e)
  <2> DEFINE d == [temp[e] EXCEPT !.manifest = TRUE]
  <2>1. step[e] = "write"
    BY <1>8 DEF WriteManifest, Moves
  <2>2. temp[e] \in Directory
    BY <1>6, <2>1
  <2>3. d \in Directory /\ EndIn(d) = EndIn(temp[e])
    BY <2>2 DEF Directory, EndIn
  <2>4. d # Absent /\ EndIn(d) \in ends
    BY <1>6, <2>1, <2>3, AbsentAssumption
  <2>5. /\ temp' = [temp EXCEPT ![e] = d] /\ target' = target
        /\ step' = [step EXCEPT ![e] = "verify"]
    BY <1>8 DEF WriteManifest, Moves
  <2> HIDE DEF d
  <2> QED
    BY <1>2, <2>3, <2>4, <2>5, ExporterStep DEF Moments
<1>9. temp' = temp => temp' = [temp EXCEPT ![e] = temp[e]]
  BY <1>2
<1>10. CASE VerifyTemp(e)
  <2>1. /\ step[e] # "off" /\ step' = [step EXCEPT ![e] = "look"] /\ temp' = temp
        /\ target' = target /\ Verifies(temp[e])
    BY <1>10 DEF VerifyTemp, Moves
  <2> QED
    BY <1>2, <1>6, <1>9, <2>1, ExporterStep DEF Moments
<1>11. CASE Look(e)
  <2>1. /\ step[e] = "look" /\ step' = [step EXCEPT ![e] = "rename"] /\ temp' = temp
        /\ target' = target
    BY <1>11 DEF Look, Moves
  <2>2. Verifies(temp[e])
    BY <1>3, <2>1
  <2> QED
    BY <1>2, <1>6, <1>9, <2>1, <2>2, ExporterStep DEF Moments
<1>12. CASE Rename(e)
  <2>1. /\ step[e] = "rename" /\ step' = [step EXCEPT ![e] = "off"] /\ target = Absent
        /\ target' = temp[e] /\ temp' = [temp EXCEPT ![e] = Absent]
    BY <1>12 DEF Rename, Moves
  <2>2. Verifies(temp[e])
    BY <1>3, <2>1
  <2>3. Exporting'
    BY <1>2, <2>1, ExporterStep DEF Moments
  <2> QED
    BY <1>6, <2>1, <2>2, <2>3
<1>13. CASE GiveUp(e)
  <2>1. /\ step' = [step EXCEPT ![e] = "off"] /\ temp' = [temp EXCEPT ![e] = Absent]
        /\ target' = target
    BY <1>13 DEF GiveUp
  <2> QED
    BY <1>2, <2>1, ExporterStep DEF Moments
<1> QED
  BY <1>1, <1>5, <1>7, <1>8, <1>10, <1>11, <1>12, <1>13

\* The other commands and the session leave the exports alone, and no end that
\* the session came to is forgotten.
LEMMA ExportKept ==
  ASSUME ExportInv, [ReadNext]_rvars
  PROVE  Export \/ (ExportInv' /\ target' = target)
<1>1. ASSUME evars' = evars, ends \subseteq ends', Ended' \subseteq ends'
      PROVE  ExportInv' /\ target' = target
  BY <1>1 DEF ExportInv, Exporting, evars
<1>2. CASE SessionStep
  BY <1>1, <1>2 DEF SessionStep
<1>3. CASE UNCHANGED <<vars, evars, ends>>
  <2>1. Ended' = Ended
    BY <1>3 DEF vars, Ended, Finished, hasUnstartedGrantedWork
  <2> QED BY <1>1, <1>3, <2>1 DEF ExportInv
<1>4. CASE \/ ReadLog \/ TellFromLog \/ Probe \/ Rest
           \/ \E p \in Probers : ProbeBegins(p) \/ ProbeEnds(p)
  BY <1>3, <1>4 DEF ReadLog, TellFromLog, Probe, Tell, Rest, ProbeBegins, ProbeEnds, Quiet
<1> QED
  BY <1>2, <1>3, <1>4 DEF ReadNext, rvars

LEMMA ExportsKept == ReadSpec => []ExportInv
<1>1. IInv /\ LogInv /\ ExportInv /\ [ReadNext]_rvars => ExportInv'
  BY ExportStep, ExportKept DEF IInv
<1> QED
  BY <1>1, ExportInit, EngineKept, LogKept, PTL DEF ReadSpec

\* A directory that is published is never replaced, whoever else makes the
\* same one, and it verifies.
THEOREM PublicationIsFinal == ReadSpec => PublishedOnce
<1> DEFINE A == /\ target # Absent => target' = target
                /\ target' # target => Verifies(target')
<1>1. IInv /\ LogInv /\ ExportInv /\ [ReadNext]_rvars => [A]_evars
  BY ExportStep, ExportKept DEF IInv
<1> QED
  BY <1>1, ExportsKept, EngineKept, LogKept, PTL DEF ReadSpec, PublishedOnce

\* A published directory tells an end that the session came to, with the turns
\* it had then.
THEOREM BundlesAreTrue == ReadSpec => []BundleTrue
<1>1. ExportInv => BundleTrue
  BY DEF ExportInv, BundleTrue, EndIn
<1> QED
  BY <1>1, ExportsKept, PTL

-----------------------------------------------------------------------------
(* What show and doctor tell.                                              *)

Tales == {"none", "awaiting_decision", "running", "interrupted", "completed", "failed",
          "invalid_result"}

\* What a told status may rest on.
Grounds == {"none", "log", "lease", "other", "error"}

Reader == [at : {"off", "read", "told"}, read : Nat, told : Tales, truths : SUBSET Tales,
           by : Grounds]

\* The statuses that are true of the session now are some, and of one kind.
LEMMA TruthsAre ==
  ASSUME Typed
  PROVE  /\ TrueStatuses \in SUBSET Tales /\ TrueStatuses # {}
         /\ Finished => TrueStatuses \cap {"running", "interrupted"} = {}
         /\ ~Finished =>
              /\ pc # "idle" => "running" \in TrueStatuses
              /\ Proposals # {} => "awaiting_decision" \in TrueStatuses
              /\ pc = "idle" /\ Proposals = {} => "interrupted" \in TrueStatuses
<1>1. st.terminal \in {"none", "completed", "failed"}
  BY DEF Typed, State
<1>2. CASE Finished
  <2> DEFINE how == IF st.validation = "invalid" THEN "invalid_result" ELSE "other"
  <2>1. st.terminal \in {"completed", "failed"}
    BY <1>1, <1>2 DEF Finished
  <2>2. PublicStatus(st.terminal, how) \in {"completed", "failed", "invalid_result"}
    BY <2>1 DEF PublicStatus
  <2>3. TrueStatuses = {PublicStatus(st.terminal, how)}
    BY <1>2 DEF TrueStatuses
  <2> HIDE DEF how
  <2> QED BY <1>2, <2>2, <2>3 DEF Tales
<1>3. CASE ~Finished
  <2>1. TrueStatuses = {how \in {"awaiting_decision", "running", "interrupted"} :
                          \/ how = "awaiting_decision" /\ Proposals # {}
                          \/ how = "running" /\ pc # "idle"
                          \/ how = "interrupted" /\ pc = "idle" /\ Proposals = {}}
    BY <1>3 DEF TrueStatuses
  <2> QED BY <1>3, <2>1 DEF Tales
<1> QED
  BY <1>2, <1>3

LEMMA TruthsAfter == Typed' => TrueStatuses' \in SUBSET Tales
<1>1. Typed => TrueStatuses \in SUBSET Tales
  BY TruthsAre
<1>2. (Typed => TrueStatuses \in SUBSET Tales)'
  BY <1>1, PTL
<1> QED
  BY <1>2

\* What a command may tell that has read s, while the statuses in truths were
\* true: if the log decides, that; if the lease has to, one that the lease may
\* tell was true.
MayTell(s, truths) ==
  /\ NeedsProbe(s) => truths \cap {"running", "interrupted"} # {}
  /\ ~NeedsProbe(s) => \/ Status(s) \in truths
                       \/ Status(s) = "awaiting_decision" /\ plan.mode # "ask"

\* The log tells what is true, when it is read.
LEMMA LogTells ==
  ASSUME IInv, LogInv, st.started
  PROVE  MayTell(log, TrueStatuses)
<1>1. CASE endOf(log) # 0
  <2>1. /\ Finished /\ log[endOf(log)].status = st.terminal
        /\ st.terminal = "failed" =>
             ((log[endOf(log)].reason = "invalid_result") <=> (st.validation = "invalid"))
    BY <1>1 DEF LogInv, EndTold
  <2>2. Status(log) = PublicStatus(log[endOf(log)].status, log[endOf(log)].reason)
    BY <1>1 DEF Status
  <2>3. TrueStatuses =
          {PublicStatus(st.terminal,
                        IF st.validation = "invalid" THEN "invalid_result" ELSE "other")}
    BY <2>1 DEF TrueStatuses
  <2>4. Status(log) \in TrueStatuses
    BY <2>1, <2>2, <2>3 DEF PublicStatus
  <2> QED
    BY <1>1, <2>4 DEF MayTell, NeedsProbe
<1>2. CASE endOf(log) = 0
  <2>1. ~Finished /\ pendingChildren(log) = Undecided
    BY <1>2 DEF LogInv, EndTold
  <2>2. CASE Undecided # {}
    <3>1. Status(log) = "awaiting_decision" /\ ~NeedsProbe(log)
      BY <1>2, <2>1, <2>2 DEF Status, NeedsProbe
    <3>2. st.terminal = "none"
      BY <2>1, <2>2 DEF Finished, hasUnstartedGrantedWork, IInv, Result, childrenDone
    <3>3. plan.mode = "ask" => Proposals # {}
      BY <2>2, <3>2 DEF Proposals, mayDecide, Undecided
    <3> QED
      BY <2>1, <3>1, <3>3, TruthsAre DEF MayTell, IInv
  <2>3. CASE Undecided = {}
    <3>1. Status(log) \in {"running", "interrupted"}
      BY <1>2, <2>1, <2>3 DEF Status
    <3>2. Proposals = {}
      BY <2>3 DEF Proposals, mayDecide
    <3>3. TrueStatuses \cap {"running", "interrupted"} # {}
      BY <2>1, <3>2, TruthsAre DEF IInv
    <3> QED
      BY <1>2, <3>1, <3>3 DEF MayTell, NeedsProbe
  <2> QED BY <2>2, <2>3
<1> QED
  BY <1>1, <1>2

\* What was read is still there.
LEMMA ReadStays ==
  ASSUME NEW s, IsLog(s), NEW e, NEW n \in 1..Len(s)
  PROVE  SubSeq(Append(s, e), 1, n) = SubSeq(s, 1, n) /\ n \in 1..Len(Append(s, e))
<1>1. PICK X : s \in Seq(X)
  BY DEF IsLog
<1> DEFINE Y == X \cup {e}
<1>2. s \in Seq(Y) /\ e \in Y /\ n \in Nat
  BY <1>1
<1> HIDE DEF Y
<1>3. Append(s, e) \in Seq(Y) /\ Len(Append(s, e)) = Len(s) + 1
  BY <1>2
<1>4. /\ SubSeq(s, 1, n) = [i \in 1..n |-> s[i]]
      /\ SubSeq(Append(s, e), 1, n) = [i \in 1..n |-> Append(s, e)[i]]
  BY <1>2, <1>3
<1>5. \A i \in 1..n : Append(s, e)[i] = s[i]
  BY <1>2
<1> QED
  BY <1>2, <1>3, <1>4, <1>5

\* To read up to the end is to read all.
LEMMA ReadAll ==
  ASSUME NEW s, IsLog(s)
  PROVE  SubSeq(s, 1, Len(s)) = s
<1>1. PICK X : s \in Seq(X)
  BY DEF IsLog
<1> QED
  BY <1>1

ReaderInv ==
  /\ reader \in Reader
  /\ reader.at # "off" => reader.read \in 1..Len(log)
  /\ reader.at = "read" => TrueStatuses \subseteq reader.truths /\ MayTell(Read, reader.truths)
  /\ StatusTold
  /\ probing # {} => pc = "idle"

LEMMA ReaderInit == ReadInit => ReaderInv
  BY DEF ReadInit, ReaderInv, Resting, Reader, Tales, Grounds, StatusTold

\* What a command knows of the log stays true when the log grows and more
\* statuses have been true.
LEMMA KnownStays ==
  ASSUME IsLog(log), NEW e, log' = log \/ log' = Append(log, e), plan' = plan,
         reader.read \in 1..Len(log), reader'.read = reader.read,
         MayTell(Read, reader.truths), reader.truths \subseteq reader'.truths
  PROVE  reader'.read \in 1..Len(log') /\ MayTell(Read, reader.truths)'
<1> DEFINE n == reader.read
<1>1. SubSeq(log', 1, n) = SubSeq(log, 1, n) /\ n \in 1..Len(log')
  BY ReadStays
<1>2. Read' = Read
  BY <1>1 DEF Read
<1>3. /\ NeedsProbe(Read)' = NeedsProbe(Read) /\ Status(Read)' = Status(Read)
  BY <1>2
<1> QED
  BY <1>1, <1>3 DEF MayTell

\* Who runs the session is not idle.
LEMMA RunnerIsUp == Runner \/ Fault \/ Cancel \/ Crash => pc # "idle"
<1>1. \A id : InChild(id) => pc # "idle"
  BY DEF InChild, At
<1>2. Turn => pc # "idle"
  BY DEF Turn, serviceActiveTurn, Proceed, reportFailure, waitForRetry, applySteering,
         callActiveAttempt, attemptAbandoned, attemptSucceeds, attemptFails, attemptFailed,
         persistChildRequests, finishActiveTurn, At
<1>3. Children => pc # "idle"
  BY <1>1 DEF Children, serviceChildren, Proceed, decideChild, childFailed, childError,
              awaitDecision, createChild, childInterrupted, childFails, recordFailed, childAwaits,
              childCompletes, staticChildForTurn, admitStaticChild, staticChildFails,
              staticChildFinishes, At
<1>4. Fault => pc # "idle"
  BY <1>1 DEF Fault, backendFails, localFailure, childUnrunnable, recordFailed, At
<1> QED
  BY <1>2, <1>3, <1>4 DEF Runner, loopInterrupted, stopExecution, startTurn, childrenServed,
                          produceResult, finishSuccess, Cancel, Crash, At

\* The session goes on while a command looks at it.
LEMMA MeanwhileStep ==
  ASSUME IInv, LogInv, ReaderInv, SessionStep
  PROVE  ReaderInv'
<1>1. /\ IsLog(log) /\ plan' = plan /\ Typed'
  BY NextStep DEF SessionStep, Next, Step, LogInv
<1>2. log' = log \/ log' = Append(log, Appended)
  BY DEF SessionStep
<1>3. probing' # {} => pc' = "idle"
  <2>1. ASSUME probing # {} PROVE pc' = "idle"
    <3>1. pc = "idle"
      BY <2>1 DEF ReaderInv
    <3>2. ChildSession \/ \E id \in DOMAIN kids : childAnswered(id)
      BY <2>1, <3>1, RunnerIsUp DEF SessionStep
    <3> QED BY <3>1, <3>2 DEF ChildSession, childRuns, childAnswered
  <2> QED BY <2>1 DEF SessionStep
<1>4. TrueStatuses' \in SUBSET Tales
  BY <1>1, TruthsAfter
<1>5. CASE reader.at = "read"
  <2> DEFINE all == reader.truths \cup TrueStatuses'
  <2>1. /\ reader' = [reader EXCEPT !.truths = all] /\ reader.truths \subseteq all
        /\ TrueStatuses' \subseteq all /\ reader \in Reader
    BY <1>5 DEF SessionStep, ReaderInv
  <2>2. all \in SUBSET Tales
    BY <1>4, <2>1 DEF Reader
  <2> HIDE DEF all
  <2>3. /\ reader' \in Reader /\ reader'.at = "read" /\ reader'.read = reader.read
        /\ reader'.truths = all
    BY <1>5, <2>1, <2>2 DEF Reader
  <2>4. reader'.read \in 1..Len(log') /\ MayTell(Read, reader.truths)'
    BY <1>1, <1>2, <1>5, <2>1, <2>3, KnownStays DEF ReaderInv
  <2> QED
    BY <1>3, <2>1, <2>3, <2>4 DEF ReaderInv, StatusTold
<1>6. CASE reader.at # "read"
  <2>1. reader' = reader
    BY <1>6 DEF SessionStep
  <2>2. reader.at # "off" => reader.read \in 1..Len(log')
    BY <1>1, <1>2, ReadStays DEF ReaderInv
  <2>3. StatusTold'
    BY <1>1, <2>1 DEF ReaderInv, StatusTold
  <2> QED
    BY <1>3, <1>6, <2>1, <2>2, <2>3 DEF ReaderInv
<1> QED
  BY <1>5, <1>6

\* A command begins: it reads the log, in which something is.
LEMMA ReadLogStep ==
  ASSUME IInv, LogInv, ReaderInv, ReadLog
  PROVE  ReaderInv'
<1>1. /\ reader' = [at |-> "read", read |-> Len(log), told |-> "none", truths |-> TrueStatuses,
                    by |-> "none"]
      /\ st.started /\ UNCHANGED <<vars, log, probing>>
  BY DEF ReadLog, Resting, Quiet
<1>2. Len(log) \in Nat /\ Len(log) \in 1..Len(log)
  <2>1. PICK X : log \in Seq(X)
    BY DEF LogInv, IsLog
  <2>2. log # <<>>
    BY <1>1 DEF LogInv
  <2> QED BY <2>1, <2>2
<1>3. TrueStatuses \in SUBSET Tales
  BY TruthsAre DEF IInv
<1>4. /\ reader' \in Reader /\ reader'.at = "read" /\ reader'.read = Len(log)
      /\ reader'.truths = TrueStatuses
  BY <1>1, <1>2, <1>3 DEF Reader, Tales, Grounds
<1>5. TrueStatuses' = TrueStatuses
  BY <1>1 DEF vars, TrueStatuses, Finished, hasUnstartedGrantedWork, Proposals, mayDecide,
              Undecided, Decided
<1>6. Read' = log
  BY <1>1, <1>4, ReadAll DEF Read, LogInv
<1>7. MayTell(log, TrueStatuses)
  BY <1>1, LogTells
<1>8. MayTell(Read, reader.truths)'
  BY <1>1, <1>4, <1>6, <1>7 DEF MayTell, vars
<1> QED
  BY <1>1, <1>2, <1>4, <1>5, <1>8 DEF ReaderInv, StatusTold, vars

\* What is told may be told.
MayBeTold(how, by) ==
  \/ how \in reader.truths
  \/ /\ by = "lease" /\ how = "interrupted"
     /\ "running" \in reader.truths /\ reader.truths \ {"running", "interrupted"} # {}
  \/ by = "other" /\ how = "running"
  \/ by = "log" /\ how = "awaiting_decision" /\ plan.mode # "ask"
  \/ /\ by = "error" /\ how \in {"running", "interrupted"}
     /\ reader.truths \cap {"running", "interrupted"} # {}

LEMMA TellIs ==
  ASSUME ReaderInv, reader.at = "read", NEW how, NEW by \in Grounds, Tell(how, by),
         MayBeTold(how, by)
  PROVE  ReaderInv'
<1>1. /\ reader' = [reader EXCEPT !.at = "told", !.told = how, !.by = by]
      /\ UNCHANGED <<vars, log, probing>>
  BY DEF Tell, Quiet
<1>2. /\ reader \in Reader /\ reader.truths \in SUBSET Tales /\ reader.read \in 1..Len(log)
      /\ probing # {} => pc = "idle"
  BY DEF ReaderInv, Reader
<1>3. how \in Tales
  BY <1>2 DEF MayBeTold, Tales
<1>4. /\ reader' \in Reader /\ reader'.at = "told" /\ reader'.read = reader.read
      /\ reader'.told = how /\ reader'.truths = reader.truths /\ reader'.by = by
  BY <1>1, <1>2, <1>3 DEF Reader
<1>5. StatusTold'
  BY <1>1, <1>4 DEF StatusTold, MayBeTold, vars
<1> QED
  BY <1>1, <1>2, <1>4, <1>5 DEF ReaderInv, vars

\* It tells, from the log alone or after a question for the lease.
LEMMA TellStep ==
  ASSUME IInv, LogInv, ReaderInv, TellFromLog \/ Probe
  PROVE  ReaderInv'
<1>1. /\ reader.at = "read" /\ MayTell(Read, reader.truths)
      /\ TrueStatuses \subseteq reader.truths
  BY DEF TellFromLog, Probe, ReaderInv
<1>2. CASE TellFromLog
  <2>1. ~NeedsProbe(Read) /\ Tell(Status(Read), "log")
    BY <1>2 DEF TellFromLog
  <2>2. MayBeTold(Status(Read), "log")
    BY <1>1, <2>1 DEF MayTell, MayBeTold
  <2> QED
    BY <1>1, <2>1, <2>2, TellIs DEF Grounds
<1>3. CASE Probe
  <2>1. reader.truths \cap {"running", "interrupted"} # {} /\ NeedsProbe(Read)
    BY <1>1, <1>3 DEF Probe, MayTell
  <2>2. /\ Alive(Read, "locked") = "running" /\ Alive(Read, "free") = "interrupted"
        /\ Alive(Read, "error") = Status(Read)
    BY DEF Alive
  <2>3. CASE pc # "idle" /\ Tell("running", "lease")
    <3>1. ~Finished
      BY <2>3 DEF IInv, Control, Knows
    <3>2. "running" \in reader.truths
      BY <1>1, <2>3, <3>1, TruthsAre DEF IInv
    <3> QED BY <1>1, <2>3, <3>2, TellIs DEF MayBeTold, Grounds
  <2>4. CASE Tell("running", "other")
    BY <1>1, <2>4, TellIs DEF MayBeTold, Grounds
  <2>5. CASE pc = "idle" /\ Tell("interrupted", "lease")
    <3>1. CASE "interrupted" \in reader.truths
      BY <1>1, <2>5, <3>1, TellIs DEF MayBeTold, Grounds
    <3>2. CASE "interrupted" \notin reader.truths
      <4>1. "running" \in reader.truths
        BY <2>1, <3>2
      <4>2. TrueStatuses \ {"running", "interrupted"} # {}
        BY <1>1, <2>5, <3>2, TruthsAre DEF IInv
      <4>3. MayBeTold("interrupted", "lease")
        BY <1>1, <4>1, <4>2 DEF MayBeTold
      <4> QED BY <1>1, <2>5, <4>3, TellIs DEF Grounds
    <3> QED BY <3>1, <3>2
  <2>6. CASE Tell(Status(Read), "error")
    <3>1. Status(Read) \in {"running", "interrupted"}
      BY <2>1 DEF NeedsProbe, Status
    <3>2. MayBeTold(Status(Read), "error")
      BY <2>1, <3>1 DEF MayBeTold
    <3> QED BY <1>1, <2>6, <3>2, TellIs DEF Grounds
  <2> QED
    BY <1>3, <2>2, <2>3, <2>4, <2>5, <2>6 DEF Probe
<1> QED
  BY <1>2, <1>3

\* What commands know, they go on knowing.
LEMMA ReaderStep == IInv /\ LogInv /\ ReaderInv /\ [ReadNext]_rvars => ReaderInv'
<1> SUFFICES ASSUME IInv, LogInv, ReaderInv, [ReadNext]_rvars PROVE ReaderInv'
  OBVIOUS
<1>1. ASSUME reader' = reader \/ reader' = Resting, UNCHANGED <<vars, log>>,
             probing' # {} => pc = "idle"
      PROVE  ReaderInv'
  <2>1. TrueStatuses' = TrueStatuses
    BY <1>1 DEF vars, TrueStatuses, Finished, hasUnstartedGrantedWork, Proposals, mayDecide,
                Undecided, Decided
  <2>2. CASE reader' = Resting
    <3>1. reader' \in Reader /\ reader'.at = "off"
      BY <2>2 DEF Resting, Reader, Tales, Grounds
    <3> QED BY <1>1, <3>1 DEF ReaderInv, StatusTold, vars
  <2>3. CASE reader' = reader
    <3>1. MayTell(Read, reader.truths)' = MayTell(Read, reader.truths)
      BY <1>1, <2>3 DEF vars, MayTell, Read
    <3>2. StatusTold'
      BY <1>1, <2>3 DEF ReaderInv, StatusTold, vars
    <3> QED BY <1>1, <2>1, <2>3, <3>1, <3>2 DEF ReaderInv, vars
  <2> QED BY <1>1, <2>2, <2>3
<1>2. CASE Export \/ UNCHANGED rvars
  BY <1>1, <1>2 DEF Export, rvars, ReaderInv
<1>3. CASE Rest \/ \E p \in Probers : ProbeBegins(p) \/ ProbeEnds(p)
  BY <1>1, <1>3 DEF Rest, ProbeBegins, ProbeEnds, Quiet, ReaderInv
<1> QED
  BY <1>2, <1>3, MeanwhileStep, ReadLogStep, TellStep DEF ReadNext

LEMMA ReadersKnow == ReadSpec => []ReaderInv
  BY ReaderInit, ReaderStep, EngineKept, LogKept, PTL DEF ReadSpec

\* show and doctor tell a status that was true at some moment between their
\* reading of the log and their answer, or one of the four that StatusTold
\* excuses: the race of the reading with the end of a run is one of them, so a
\* false "interrupted" is told only of a session that was running at the
\* reading and has come to rest since.
THEOREM StatusIsTold == ReadSpec => []StatusTold
<1>1. ReaderInv => StatusTold
  BY DEF ReaderInv
<1> QED
  BY <1>1, ReadersKnow, PTL

\* The readers and the exporters are where they may be, and nobody asks for a
\* lease that a runner holds.
THEOREM ReadTypes == ReadSpec => []ReadTypeOK
<1>1. IInv /\ ExportInv /\ ReaderInv => ReadTypeOK
  BY TypesHold DEF ReadTypeOK, ExportInv, Exporting, ReaderInv, Reader
<1> QED
  BY <1>1, EngineKept, ExportsKept, ReadersKnow, PTL

-----------------------------------------------------------------------------
(* Reading a log from its first event to its last.                         *)

\* f goes from b through the elements 1 to n, by the steps h.
Runs(f, n, b, h) == f[0] = b /\ \A i \in 1..n : f[i] = h[<<i, f[i - 1]>>]

\* There is such a function.
LEMMA RunExists ==
  ASSUME NEW N \in Nat, NEW V, NEW b \in V, NEW h \in [(1..N) \X V -> V]
  PROVE  \E f \in [0..N -> V] : Runs(f, N, b, h)
<1> DEFINE Missing == {k \in 0..N : ~(\E f \in [0..k -> V] : Runs(f, k, b, h))}
<1>1. SUFFICES ASSUME Missing # {} PROVE FALSE
  <2>1. N \in 0..N
    OBVIOUS
  <2> QED BY <2>1
<1>2. Missing \in SUBSET Nat
  OBVIOUS
<1> DEFINE m == First(Missing)
<1>3. m \in Missing /\ \A i \in Missing : m <= i
  <2> HIDE DEF Missing
  <2> QED BY <1>1, <1>2, LeastOf
<1> HIDE DEF m
<1>4. m \in 0..N /\ ~(\E f \in [0..m -> V] : Runs(f, m, b, h))
  BY <1>3
<1>5. m # 0
  <2> DEFINE f == [i \in 0..0 |-> b]
  <2>1. f \in [0..0 -> V] /\ f[0] = b
    OBVIOUS
  <2> HIDE DEF f
  <2>2. Runs(f, 0, b, h)
    BY <2>1 DEF Runs
  <2> QED BY <1>4, <2>1, <2>2
<1>6. m - 1 \in 0..N /\ m - 1 \notin Missing
  <2>1. m - 1 \in 0..N /\ ~(m <= m - 1)
    BY <1>4, <1>5
  <2> QED BY <1>3, <2>1
<1>7. PICK f \in [0..(m - 1) -> V] : Runs(f, m - 1, b, h)
  BY <1>6
<1> DEFINE last == h[<<m, f[m - 1]>>]
           g == [i \in 0..m |-> IF i = m THEN last ELSE f[i]]
<1>8. last \in V
  <2>1. m - 1 \in 0..(m - 1) /\ m \in 1..N
    BY <1>4, <1>5
  <2> QED BY <2>1
<1> HIDE DEF last
<1>9. \A i \in 0..(m - 1) : g[i] = f[i] /\ i # m /\ i \in 0..m
  BY <1>4
<1>10. g \in [0..m -> V] /\ g[m] = last
  BY <1>4, <1>8
<1> HIDE DEF g
<1>11. g[0] = b
  <2>1. 0 \in 0..(m - 1)
    BY <1>4, <1>5
  <2> QED BY <1>7, <1>9, <2>1 DEF Runs
<1>12. ASSUME NEW i \in 1..m PROVE g[i] = h[<<i, g[i - 1]>>]
  <2>1. i - 1 \in 0..(m - 1)
    BY <1>4
  <2>2. CASE i = m
    BY <1>9, <1>10, <2>1, <2>2 DEF last
  <2>3. CASE i # m
    <3>1. i \in 0..(m - 1) /\ i \in 1..(m - 1)
      BY <1>4, <2>3
    <3> QED BY <1>7, <1>9, <2>1, <3>1 DEF Runs
  <2> QED BY <2>2, <2>3
<1> QED
  BY <1>4, <1>10, <1>11, <1>12 DEF Runs

\* Two functions that go the same steps from the same beginning are the same.
LEMMA RunIsOne ==
  ASSUME NEW N \in Nat, NEW f, NEW g, f[0] = g[0],
         \A n \in 1..N : f[n - 1] = g[n - 1] => f[n] = g[n]
  PROVE  f[N] = g[N]
<1> DEFINE Apart == {n \in 0..N : f[n] # g[n]}
<1>1. SUFFICES ASSUME Apart # {} PROVE FALSE
  OBVIOUS
<1>2. Apart \in SUBSET Nat
  OBVIOUS
<1> DEFINE m == First(Apart)
<1>3. m \in Apart /\ \A i \in Apart : m <= i
  <2> HIDE DEF Apart
  <2> QED BY <1>1, <1>2, LeastOf
<1> HIDE DEF m
<1>4. m \in 0..N /\ f[m] # g[m]
  BY <1>3
<1>5. m # 0
  BY <1>4
<1>6. m - 1 \in 0..N /\ m - 1 \notin Apart /\ m \in 1..N
  <2>1. m - 1 \in 0..N /\ ~(m <= m - 1) /\ m \in 1..N
    BY <1>4, <1>5
  <2> QED BY <1>3, <2>1
<1> QED
  BY <1>4, <1>6

\* What Those goes through.
Picks(f, q, S) ==
  f[0] = <<>> /\ \A n \in 1..Len(q) : f[n] = IF n \in S THEN Append(f[n - 1], q[n]) ELSE f[n - 1]

LEMMA ThoseIs ==
  ASSUME NEW q, IsLog(q), NEW S
  PROVE  /\ \E f : Picks(f, q, S) /\ Those(q, S) = f[Len(q)]
         /\ Those(q, S) \in Seq({q[j] : j \in S \cap (1..Len(q))})
<1> DEFINE N == Len(q)
           E == {q[j] : j \in S \cap (1..N)}
           V == Seq(E)
           Is(f) == f = [n \in 0..N |-> IF n = 0 THEN <<>>
                                        ELSE IF n \in S THEN Append(f[n - 1], q[n]) ELSE f[n - 1]]
           h == [p \in (1..N) \X V |-> IF p[1] \in S THEN Append(p[2], q[p[1]]) ELSE p[2]]
<1>1. N \in Nat
  BY Appending
<1>2. Those(q, S) = (CHOOSE f : Is(f))[N]
  BY DEF Those
<1> HIDE DEF N
<1>3. <<>> \in V
  OBVIOUS
<1>4. ASSUME NEW n \in 1..N, NEW v \in V
      PROVE  /\ h[<<n, v>>] = IF n \in S THEN Append(v, q[n]) ELSE v
             /\ (IF n \in S THEN Append(v, q[n]) ELSE v) \in V
  <2>1. n \in S => Append(v, q[n]) \in V
    OBVIOUS
  <2> HIDE DEF V
  <2> QED BY <2>1
<1>5. h \in [(1..N) \X V -> V]
  <2>1. ASSUME NEW p \in (1..N) \X V
        PROVE  (IF p[1] \in S THEN Append(p[2], q[p[1]]) ELSE p[2]) \in V
    <3>1. p[1] \in 1..N /\ p[2] \in V
      OBVIOUS
    <3> HIDE DEF V, h
    <3> QED BY <1>4, <3>1
  <2> HIDE DEF V
  <2> QED BY <2>1
<1> HIDE DEF V, h
<1>6. PICK f \in [0..N -> V] : Runs(f, N, <<>>, h)
  BY <1>1, <1>3, <1>5, RunExists
<1>7. Is(f)
  <2>1. ASSUME NEW n \in 0..N
        PROVE  f[n] = IF n = 0 THEN <<>>
                      ELSE IF n \in S THEN Append(f[n - 1], q[n]) ELSE f[n - 1]
    <3>1. CASE n = 0
      BY <1>6, <3>1 DEF Runs
    <3>2. CASE n # 0
      <4>1. n \in 1..N /\ n - 1 \in 0..N
        BY <1>1, <3>2
      <4>2. f[n - 1] \in V /\ f[n] = h[<<n, f[n - 1]>>]
        BY <1>6, <4>1 DEF Runs
      <4> QED BY <1>4, <3>2, <4>1, <4>2
    <3> QED BY <3>1, <3>2
  <2> QED BY <2>1
<1> DEFINE c == CHOOSE g : Is(g)
<1>8. Is(c)
  BY <1>7
<1>9. Those(q, S) = c[N]
  BY <1>2
<1> HIDE DEF c
<1>10. c[0] = <<>> /\ \A n \in 1..N : c[n] = IF n \in S THEN Append(c[n - 1], q[n]) ELSE c[n - 1]
  <2>1. \A n \in 0..N : c[n] = IF n = 0 THEN <<>>
                               ELSE IF n \in S THEN Append(c[n - 1], q[n]) ELSE c[n - 1]
    BY <1>8
  <2>2. 0 \in 0..N /\ \A n \in 1..N : n \in 0..N /\ n # 0
    BY <1>1
  <2> HIDE DEF Is
  <2> QED BY <2>1, <2>2
<1>11. f[0] = <<>> /\ \A n \in 1..N : f[n] = IF n \in S THEN Append(f[n - 1], q[n]) ELSE f[n - 1]
  <2>1. \A n \in 0..N : f[n] = IF n = 0 THEN <<>>
                               ELSE IF n \in S THEN Append(f[n - 1], q[n]) ELSE f[n - 1]
    BY <1>7
  <2>2. 0 \in 0..N /\ \A n \in 1..N : n \in 0..N /\ n # 0
    BY <1>1
  <2> HIDE DEF Is
  <2> QED BY <2>1, <2>2
<1>12. c[N] = f[N]
  <2> HIDE DEF Is
  <2>1. c[0] = f[0] /\ \A n \in 1..N : c[n - 1] = f[n - 1] => c[n] = f[n]
    BY <1>10, <1>11
  <2> QED BY <1>1, <2>1, RunIsOne
<1>13. Those(q, S) \in V
  BY <1>1, <1>9, <1>12
<1> QED
  BY <1>9, <1>10, <1>13 DEF Picks, V, N

\* Another event is added, if it is one of those.
LEMMA ThoseAppend ==
  ASSUME NEW q, IsLog(q), NEW e, NEW S \in SUBSET (1..Len(q))
  PROVE  /\ Those(Append(q, e), S) = Those(q, S)
         /\ Those(Append(q, e), S \cup {Len(q) + 1}) = Append(Those(q, S), e)
<1> DEFINE t == Append(q, e)
           N == Len(q)
<1>1. /\ N \in Nat /\ IsLog(t) /\ Len(t) = N + 1 /\ t[N + 1] = e
      /\ \A i \in 1..N : t[i] = q[i]
  BY Appending
<1>2. PICK f : Picks(f, q, S) /\ Those(q, S) = f[N]
  BY ThoseIs
<1> HIDE DEF t, N
<1>3. ASSUME NEW W, \A n \in 1..N : n \in W <=> n \in S
      PROVE  Those(t, W) = IF N + 1 \in W THEN Append(Those(q, S), e) ELSE Those(q, S)
  <2>1. PICK g : Picks(g, t, W) /\ Those(t, W) = g[N + 1]
    BY <1>1, ThoseIs
  <2>2. \A n \in 1..N : f[n - 1] = g[n - 1] => f[n] = g[n]
    <3>1. ASSUME NEW n \in 1..N PROVE n \in 1..(N + 1)
      BY <1>1
    <3> QED BY <1>1, <1>2, <1>3, <2>1, <3>1 DEF Picks, N
  <2>3. f[N] = g[N]
    <3>1. f[0] = g[0]
      BY <1>2, <2>1 DEF Picks
    <3> QED BY <1>1, <2>2, <3>1, RunIsOne
  <2>4. N + 1 \in 1..(N + 1) /\ (N + 1) - 1 = N
    BY <1>1
  <2>5. g[N + 1] = IF N + 1 \in W THEN Append(g[N], e) ELSE g[N]
    BY <1>1, <2>1, <2>4 DEF Picks
  <2> QED
    BY <1>2, <2>1, <2>3, <2>5
<1>4. N + 1 \notin S /\ S \subseteq 1..N
  BY <1>1 DEF N
<1>5. Those(t, S) = Those(q, S)
  BY <1>3, <1>4
<1>6. \A n \in 1..N : n # N + 1
  BY <1>1
<1>7. Those(t, S \cup {N + 1}) = Append(Those(q, S), e)
  BY <1>3, <1>6
<1> QED
  BY <1>5, <1>7 DEF t, N

\* The grants in a log name numbers.
GrantsTyped(q) == \A i \in Indexes(q, {"turn_budget.granted"}) : q[i].turns \in Nat

\* The turns that the n-th event grants.
Granted(q, n) == IF q[n].type = "turn_budget.granted" THEN q[n].turns ELSE 0

LEMMA GrantedIs ==
  ASSUME NEW q, IsLog(q), GrantsTyped(q)
  PROVE  /\ grantedTurns(q) \in Nat
         /\ \E f : /\ f[0] = 0 /\ \A n \in 1..Len(q) : f[n] = f[n - 1] + Granted(q, n)
                   /\ grantedTurns(q) = f[Len(q)]
<1> DEFINE N == Len(q)
           Is(f) == f = [n \in 0..N |-> IF n = 0 THEN 0 ELSE f[n - 1] + Granted(q, n)]
           h == [p \in (1..N) \X Nat |-> p[2] + Granted(q, p[1])]
<1>1. N \in Nat /\ DOMAIN q = 1..N
  BY Appending
<1>2. grantedTurns(q) = (CHOOSE f : Is(f))[N]
  BY DEF grantedTurns, Granted
<1>3. \A n \in 1..N : Granted(q, n) \in Nat
  BY <1>1 DEF Granted, GrantsTyped, Indexes
<1> HIDE DEF N
<1>4. h \in [(1..N) \X Nat -> Nat] /\ \A n \in 1..N, v \in Nat : h[<<n, v>>] = v + Granted(q, n)
  BY <1>3
<1> HIDE DEF h
<1>5. PICK f \in [0..N -> Nat] : Runs(f, N, 0, h)
  BY <1>1, <1>4, RunExists
<1>6. Is(f)
  <2>1. ASSUME NEW n \in 0..N PROVE f[n] = IF n = 0 THEN 0 ELSE f[n - 1] + Granted(q, n)
    <3>1. CASE n = 0
      BY <1>5, <3>1 DEF Runs
    <3>2. CASE n # 0
      <4>1. n \in 1..N /\ n - 1 \in 0..N
        BY <1>1, <3>2
      <4>2. f[n - 1] \in Nat /\ f[n] = h[<<n, f[n - 1]>>]
        BY <1>5, <4>1 DEF Runs
      <4> QED BY <1>4, <3>2, <4>1, <4>2
    <3> QED BY <3>1, <3>2
  <2> QED BY <2>1
<1> DEFINE c == CHOOSE g : Is(g)
<1>7. Is(c)
  BY <1>6
<1>8. grantedTurns(q) = c[N]
  BY <1>2
<1> HIDE DEF c
<1>9. ASSUME NEW g, Is(g) PROVE g[0] = 0 /\ \A n \in 1..N : g[n] = g[n - 1] + Granted(q, n)
  <2>1. \A n \in 0..N : g[n] = IF n = 0 THEN 0 ELSE g[n - 1] + Granted(q, n)
    BY <1>9
  <2>2. 0 \in 0..N /\ \A n \in 1..N : n \in 0..N /\ n # 0
    BY <1>1
  <2> HIDE DEF Is
  <2> QED BY <2>1, <2>2
<1>10. /\ c[0] = 0 /\ \A n \in 1..N : c[n] = c[n - 1] + Granted(q, n)
       /\ f[0] = 0 /\ \A n \in 1..N : f[n] = f[n - 1] + Granted(q, n)
  <2> HIDE DEF Is
  <2> QED BY <1>6, <1>7, <1>9
<1> HIDE DEF Is
<1>11. c[0] = f[0] /\ \A n \in 1..N : c[n - 1] = f[n - 1] => c[n] = f[n]
  BY <1>10
<1>12. c[N] = f[N]
  BY <1>1, <1>11, RunIsOne
<1> QED
  BY <1>1, <1>8, <1>10, <1>12 DEF N

\* Another event grants what it grants.
LEMMA GrantedAppend ==
  ASSUME NEW q, IsLog(q), GrantsTyped(q), NEW e, e.type = "turn_budget.granted" => e.turns \in Nat
  PROVE  /\ GrantsTyped(Append(q, e))
         /\ grantedTurns(Append(q, e)) =
              grantedTurns(q) + (IF e.type = "turn_budget.granted" THEN e.turns ELSE 0)
<1> DEFINE t == Append(q, e)
           N == Len(q)
           x == IF e.type = "turn_budget.granted" THEN e.turns ELSE 0
<1>1. /\ N \in Nat /\ IsLog(t) /\ Len(t) = N + 1 /\ t[N + 1] = e
      /\ \A i \in 1..N : t[i] = q[i]
  BY Appending
<1>2. GrantsTyped(t)
  <2>1. /\ Indexes(t, {"turn_budget.granted"}) =
             Indexes(q, {"turn_budget.granted"}) \cup
             {i \in {N + 1} : e.type \in {"turn_budget.granted"}}
        /\ \A i \in Indexes(q, {"turn_budget.granted"}) : t[i] = q[i]
    BY AppendIndexes
  <2> HIDE DEF t, N
  <2> QED BY <1>1, <2>1 DEF GrantsTyped
<1>3. PICK f : /\ f[0] = 0 /\ \A n \in 1..N : f[n] = f[n - 1] + Granted(q, n)
               /\ grantedTurns(q) = f[N]
  BY GrantedIs
<1> HIDE DEF t, N
<1>4. PICK g : /\ g[0] = 0 /\ \A n \in 1..(N + 1) : g[n] = g[n - 1] + Granted(t, n)
               /\ grantedTurns(t) = g[N + 1]
  BY <1>1, <1>2, GrantedIs
<1>5. Granted(t, N + 1) = x /\ \A n \in 1..N : Granted(t, n) = Granted(q, n) /\ n \in 1..(N + 1)
  BY <1>1 DEF Granted
<1>6. f[0] = g[0] /\ \A n \in 1..N : f[n - 1] = g[n - 1] => f[n] = g[n]
  BY <1>3, <1>4, <1>5
<1>7. f[N] = g[N]
  BY <1>1, <1>6, RunIsOne
<1>8. N + 1 \in 1..(N + 1) /\ (N + 1) - 1 = N
  BY <1>1
<1>9. grantedTurns(t) = grantedTurns(q) + x
  BY <1>3, <1>4, <1>5, <1>7, <1>8
<1> QED
  BY <1>2, <1>9 DEF t

\* A line of the transcript, an entry and the page that is made of them.
Line  == [actor : Actors, role : Roles, round : Nat \ {0}, reply : Reply]
Entry == [round : Nat \ {0}, from : Actors, text : Text, ledger : Ledger]
Page  == [entries : Seq(Entry), ledger : Ledger]

\* What a line adds to the page.
LEMMA AddEntryIs ==
  ASSUME NEW p \in Page, NEW e \in Line
  PROVE  /\ AddEntry(p, e) \in Page
         /\ Len(AddEntry(p, e).entries) =
              Len(p.entries) + (IF e.role = "participant" THEN 1 ELSE 0)
         /\ AddEntry(p, e).ledger =
              IF e.role = "facilitator" THEN LedgerAfter(p, e) ELSE p.ledger
<1>1. /\ p.entries \in Seq(Entry) /\ p.ledger \in Ledger /\ e.reply \in Reply
      /\ e.reply.ledger \in Ledger /\ e.reply.text \in Text /\ e.round \in Nat \ {0}
      /\ e.actor \in Actors /\ e.role \in Roles
  BY DEF Page, Line, Reply
<1> DEFINE entry == [round |-> e.round, from |-> e.actor, text |-> e.reply.text,
                     ledger |-> p.ledger]
           l == LedgerAfter(p, e)
           same == {i \in DOMAIN p.entries : p.entries[i].round = e.round}
           at == IF same # {} THEN same ELSE {Len(p.entries)}
           r == [i \in DOMAIN p.entries |->
                   IF i \in at THEN [p.entries[i] EXCEPT !.ledger = l] ELSE p.entries[i]]
<1>2. l \in Ledger
  BY <1>1 DEF LedgerAfter, Ledger
<1>3. CASE e.role = "participant"
  <2>1. AddEntry(p, e) = [p EXCEPT !.entries = Append(p.entries, entry)]
    BY <1>3, Zenon DEF AddEntry
  <2>2. entry \in Entry
    BY <1>1 DEF Entry
  <2> HIDE DEF entry
  <2>3. Append(p.entries, entry) \in Seq(Entry)
        /\ Len(Append(p.entries, entry)) = Len(p.entries) + 1
    BY <1>1, <2>2
  <2>4. p = [entries |-> p.entries, ledger |-> p.ledger]
    BY DEF Page
  <2>5. /\ AddEntry(p, e).entries = Append(p.entries, entry) /\ AddEntry(p, e).ledger = p.ledger
        /\ AddEntry(p, e) \in Page
    BY <1>1, <2>1, <2>3, <2>4 DEF Page
  <2> QED BY <1>3, <2>3, <2>5
<1>4. CASE e.role = "facilitator"
  <2>1. AddEntry(p, e) = [ledger |-> l, entries |-> r]
    BY <1>4, Zenon DEF AddEntry
  <2> HIDE DEF l, at
  <2> DEFINE q == p.entries
  <2>2. \A x \in Entry : [x EXCEPT !.ledger = l] \in Entry
    BY <1>2 DEF Entry
  <2>3. DOMAIN q = 1..Len(q) /\ Len(q) \in Nat /\ \A i \in DOMAIN q : q[i] \in Entry
    BY <1>1
  <2>4. r \in Seq(Entry) /\ Len(r) = Len(q)
    <3>1. r = [i \in DOMAIN q |-> IF i \in at THEN [q[i] EXCEPT !.ledger = l] ELSE q[i]]
      OBVIOUS
    <3> HIDE DEF q, r
    <3>2. \A i \in DOMAIN q : (IF i \in at THEN [q[i] EXCEPT !.ledger = l] ELSE q[i]) \in Entry
      BY <2>2, <2>3 DEF q
    <3>3. r \in [1..Len(q) -> Entry]
      BY <2>3, <3>1, <3>2
    <3> QED BY <2>3, <3>3, FunctionIsSeq
  <2> HIDE DEF r
  <2>5. /\ AddEntry(p, e).entries = r /\ AddEntry(p, e).ledger = l
        /\ AddEntry(p, e) \in Page
    BY <1>2, <2>1, <2>4 DEF Page
  <2> QED BY <1>1, <1>4, <2>4, <2>5 DEF l
<1>5. CASE e.role = "reducer"
  <2>1. AddEntry(p, e) = p
    BY <1>5, Zenon DEF AddEntry
  <2> QED BY <1>1, <1>5, <2>1
<1> QED
  BY <1>1, <1>3, <1>4, <1>5 DEF Roles

EmptyPage == [entries |-> <<>>, ledger |-> NoLedger]

LEMMA EnteredIs ==
  ASSUME NEW s \in Seq(Line)
  PROVE  /\ Entered(s) \in Page
         /\ \E f : /\ f[0] = EmptyPage /\ \A n \in 1..Len(s) : f[n] = AddEntry(f[n - 1], s[n])
                   /\ Entered(s) = f[Len(s)]
<1> DEFINE N == Len(s)
           Is(f) == f = [n \in 0..N |-> IF n = 0 THEN EmptyPage ELSE AddEntry(f[n - 1], s[n])]
           h == [p \in (1..N) \X Page |-> AddEntry(p[2], s[p[1]])]
<1>1. N \in Nat /\ \A n \in 1..N : s[n] \in Line
  OBVIOUS
<1>2. Entered(s) = (CHOOSE f : Is(f))[N]
  BY DEF Entered, EmptyPage
<1>3. EmptyPage \in Page
  BY DEF EmptyPage, Page, NoLedger, Ledger
<1> HIDE DEF N
<1>4. h \in [(1..N) \X Page -> Page] /\ \A n \in 1..N, v \in Page : h[<<n, v>>] = AddEntry(v, s[n])
  <2>1. \A n \in 1..N, v \in Page : AddEntry(v, s[n]) \in Page
    BY <1>1, AddEntryIs
  <2> QED BY <2>1
<1> HIDE DEF h
<1>5. PICK f \in [0..N -> Page] : Runs(f, N, EmptyPage, h)
  BY <1>1, <1>3, <1>4, RunExists
<1>6. Is(f)
  <2>1. ASSUME NEW n \in 0..N PROVE f[n] = IF n = 0 THEN EmptyPage ELSE AddEntry(f[n - 1], s[n])
    <3>1. CASE n = 0
      BY <1>5, <3>1 DEF Runs
    <3>2. CASE n # 0
      <4>1. n \in 1..N /\ n - 1 \in 0..N
        BY <1>1, <3>2
      <4>2. f[n - 1] \in Page /\ f[n] = h[<<n, f[n - 1]>>]
        BY <1>5, <4>1 DEF Runs
      <4> QED BY <1>4, <3>2, <4>1, <4>2
    <3> QED BY <3>1, <3>2
  <2> QED BY <2>1
<1> DEFINE c == CHOOSE g : Is(g)
<1>7. Is(c)
  BY <1>6
<1>8. Entered(s) = c[N]
  BY <1>2
<1> HIDE DEF c
<1>9. ASSUME NEW g, Is(g) PROVE g[0] = EmptyPage /\ \A n \in 1..N : g[n] = AddEntry(g[n - 1], s[n])
  <2>1. \A n \in 0..N : g[n] = IF n = 0 THEN EmptyPage ELSE AddEntry(g[n - 1], s[n])
    BY <1>9
  <2>2. 0 \in 0..N /\ \A n \in 1..N : n \in 0..N /\ n # 0
    BY <1>1
  <2> HIDE DEF Is
  <2> QED BY <2>1, <2>2
<1>10. /\ c[0] = EmptyPage /\ \A n \in 1..N : c[n] = AddEntry(c[n - 1], s[n])
       /\ f[0] = EmptyPage /\ \A n \in 1..N : f[n] = AddEntry(f[n - 1], s[n])
  <2> HIDE DEF Is
  <2> QED BY <1>6, <1>7, <1>9
<1> HIDE DEF Is
<1>11. c[0] = f[0] /\ \A n \in 1..N : c[n - 1] = f[n - 1] => c[n] = f[n]
  BY <1>10
<1>12. c[N] = f[N]
  BY <1>1, <1>11, RunIsOne
<1> QED
  BY <1>1, <1>8, <1>10, <1>12 DEF N

\* Another line is added to the page of those before.
LEMMA EnteredAppend ==
  ASSUME NEW s \in Seq(Line), NEW e \in Line
  PROVE  Entered(Append(s, e)) = AddEntry(Entered(s), e)
<1> DEFINE t == Append(s, e)
           N == Len(s)
<1>1. /\ N \in Nat /\ t \in Seq(Line) /\ Len(t) = N + 1 /\ t[N + 1] = e
      /\ \A i \in 1..N : t[i] = s[i]
  OBVIOUS
<1>2. PICK f : /\ f[0] = EmptyPage /\ \A n \in 1..N : f[n] = AddEntry(f[n - 1], s[n])
               /\ Entered(s) = f[N]
  BY EnteredIs
<1> HIDE DEF t, N
<1>3. PICK g : /\ g[0] = EmptyPage /\ \A n \in 1..(N + 1) : g[n] = AddEntry(g[n - 1], t[n])
               /\ Entered(t) = g[N + 1]
  BY <1>1, EnteredIs
<1>4. f[0] = g[0] /\ \A n \in 1..N : f[n - 1] = g[n - 1] => f[n] = g[n]
  <2>1. \A n \in 1..N : n \in 1..(N + 1)
    BY <1>1
  <2> QED BY <1>1, <1>2, <1>3, <2>1
<1>5. f[N] = g[N]
  BY <1>1, <1>4, RunIsOne
<1>6. N + 1 \in 1..(N + 1) /\ (N + 1) - 1 = N
  BY <1>1
<1>7. g[N + 1] = AddEntry(g[N], e)
  BY <1>1, <1>3, <1>6
<1> QED
  BY <1>2, <1>3, <1>5, <1>7 DEF t

-----------------------------------------------------------------------------
(* What an event tells of the step that appends it.                        *)

\* The event that is appended, by its type: what it says, and what the step
\* does.
LEMMA EventIs ==
  ASSUME Logged, AdmittedFirst
  PROVE
    \/ Appended.type = "session.finished" /\ \E how \in {"completed", "failed"} : Ends(how)
    \/ /\ Appended.type = "turn_budget.granted" /\ Appended.turns \in Nat
       /\ \E p : Grants(Appended.turns, p)
    \/ Appended.type = "result.produced" /\ Validates(Appended.outcome)
    \/ /\ Appended.type = "turn.started"
       /\ Appended.actor \in Actors /\ Appended.round \in Nat /\ Appended.role \in Roles
       /\ TurnStarts(Appended.actor, Appended.round, Appended.role)
    \/ /\ Appended.type = "turn.finished" /\ Appended.reply \in Reply
       /\ Appended.actor = st.turn.actor /\ Appended.round = st.turn.round
       /\ TurnEnds(Appended.reply)
    \/ Appended.type = "attempt.started" /\ Tries
    \/ /\ Appended.type \in Closing /\ Appended.actor = st.turn.actor
       /\ \E a \in Attempt : Marks(a) /\ (a.closed <=> Appended.type = "attempt.finished")
    \/ Appended.type = "child.requested" /\ Asks(Appended.id)
    \/ /\ Appended.type = "child.decided"
       /\ \E verdict, turns : /\ Decides(Appended.id, verdict, turns)
                              /\ Appended.admitted <=> verdict = "admitted"
    \/ /\ Appended.type = "child.completed" /\ Appended.status \in {"completed", "failed"}
       /\ \E reply : Completes(Appended.id, Appended.status, reply)
    \/ /\ Appended.type = "other"
       /\ Readies \/ (\E p \in Prompts : Queues(p)) \/ \E i \in Nat : Applies(i)
<1> DEFINE e == Appended
<1> USE DEF Logged
<1>1. ASSUME NEW how \in {"completed", "failed"}, Ends(how) PROVE e.type = "session.finished"
  BY <1>1, EndsEvent
<1>2. ASSUME NEW n \in Nat, NEW p, Grants(n, p)
      PROVE  e.type = "turn_budget.granted" /\ e.turns = n
  BY <1>2, GrantsEvent
<1>3. ASSUME NEW v \in {"valid", "invalid"}, Validates(v)
      PROVE  e.type = "result.produced" /\ e.outcome = v
  BY <1>3, ValidatesEvent
<1>4. ASSUME NEW actor, NEW round, NEW role \in Roles, TurnStarts(actor, round, role)
      PROVE  e.type = "turn.started" /\ e.actor = actor /\ e.round = round /\ e.role = role
  BY <1>4, TurnStartsEvent
<1>5. ASSUME NEW reply, TurnEnds(reply)
      PROVE  /\ e.type = "turn.finished" /\ e.reply = reply
             /\ e.actor = st.turn.actor /\ e.round = st.turn.round
  BY <1>5, TurnEndsEvent
<1>6. Tries => e.type = "attempt.started"
  BY TriesEvent
<1>7. ASSUME NEW a \in Attempt, Marks(a)
      PROVE  /\ e.type \in Closing /\ e.actor = st.turn.actor
             /\ a.closed <=> e.type = "attempt.finished"
  BY <1>7, MarksEvent DEF Attempt
<1>8. ASSUME NEW id, Asks(id) PROVE e.type = "child.requested" /\ e.id = id
  BY <1>8, AsksEvent
<1>9. ASSUME NEW id, NEW verdict, NEW turns, Decides(id, verdict, turns)
      PROVE  /\ e.type = "child.decided" /\ e.id = id
             /\ e.admitted <=> verdict = "admitted"
  BY <1>9, DecidesEvent DEF AdmittedFirst, Admitted, Decides, Undecided, Decided
<1>10. ASSUME NEW id, NEW status \in {"completed", "failed"}, NEW reply,
              Completes(id, status, reply)
       PROVE  e.type = "child.completed" /\ e.id = id /\ e.status = status
  BY <1>10, CompletesEvent
<1>11. ASSUME Readies \/ (\E p \in Prompts : Queues(p)) \/ \E i \in Nat : Applies(i)
       PROVE  e.type = "other"
  BY <1>11, OtherEvent
<1> HIDE DEF e, Logged
<1>12. Effect /\ ~Unmoved
  BY DEF Logged, Unmoved
<1> SUFFICES
    \/ e.type = "session.finished" /\ \E how \in {"completed", "failed"} : Ends(how)
    \/ e.type = "turn_budget.granted" /\ e.turns \in Nat /\ \E p : Grants(e.turns, p)
    \/ e.type = "result.produced" /\ Validates(e.outcome)
    \/ /\ e.type = "turn.started"
       /\ e.actor \in Actors /\ e.round \in Nat /\ e.role \in Roles
       /\ TurnStarts(e.actor, e.round, e.role)
    \/ /\ e.type = "turn.finished" /\ e.reply \in Reply
       /\ e.actor = st.turn.actor /\ e.round = st.turn.round /\ TurnEnds(e.reply)
    \/ e.type = "attempt.started" /\ Tries
    \/ /\ e.type \in Closing /\ e.actor = st.turn.actor
       /\ \E a \in Attempt : Marks(a) /\ (a.closed <=> e.type = "attempt.finished")
    \/ e.type = "child.requested" /\ Asks(e.id)
    \/ /\ e.type = "child.decided"
       /\ \E verdict, turns : /\ Decides(e.id, verdict, turns)
                              /\ e.admitted <=> verdict = "admitted"
    \/ /\ e.type = "child.completed" /\ e.status \in {"completed", "failed"}
       /\ \E reply : Completes(e.id, e.status, reply)
    \/ /\ e.type = "other"
       /\ Readies \/ (\E p \in Prompts : Queues(p)) \/ \E i \in Nat : Applies(i)
  BY DEF e
<1>13. (\E how \in {"completed", "failed"} : Ends(how)) => e.type = "session.finished"
  BY <1>1
<1>14. (\E n \in Nat, p \in Prompts \cup {None} : Grants(n, p)) =>
         e.type = "turn_budget.granted" /\ e.turns \in Nat /\ \E p : Grants(e.turns, p)
  BY <1>2
<1>15. (\E v \in {"valid", "invalid"} : Validates(v)) =>
         e.type = "result.produced" /\ Validates(e.outcome)
  BY <1>3
<1>16. (\E actor \in Actors, round \in Nat, role \in Roles : TurnStarts(actor, round, role)) =>
         /\ e.type = "turn.started" /\ e.actor \in Actors /\ e.round \in Nat /\ e.role \in Roles
         /\ TurnStarts(e.actor, e.round, e.role)
  BY <1>4
<1>17. (\E reply \in Reply : TurnEnds(reply)) =>
         /\ e.type = "turn.finished" /\ e.reply \in Reply
         /\ e.actor = st.turn.actor /\ e.round = st.turn.round /\ TurnEnds(e.reply)
  BY <1>5
<1>18. (\E id \in Ids : Asks(id)) => e.type = "child.requested" /\ Asks(e.id)
  BY <1>8
<1>19. (\E id \in Ids, verdict \in Verdicts, turns \in Nat : Decides(id, verdict, turns)) =>
         /\ e.type = "child.decided"
         /\ \E verdict, turns : /\ Decides(e.id, verdict, turns)
                                /\ e.admitted <=> verdict = "admitted"
  BY <1>9
<1>20. (\E id \in Ids, status \in {"completed", "failed"}, reply \in Reply \cup {None} :
          Completes(id, status, reply)) =>
         /\ e.type = "child.completed" /\ e.status \in {"completed", "failed"}
         /\ \E reply : Completes(e.id, e.status, reply)
  BY <1>10
<1>21. (\E a \in Attempt : Marks(a)) =>
         /\ e.type \in Closing /\ e.actor = st.turn.actor
         /\ \E a \in Attempt : Marks(a) /\ (a.closed <=> e.type = "attempt.finished")
  BY <1>7
<1> QED
  BY <1>6, <1>11, <1>12, <1>13, <1>14, <1>15, <1>16, <1>17, <1>18, <1>19, <1>20, <1>21 DEF Effect

-----------------------------------------------------------------------------
(* The transcript, the conversation and the page.                          *)

\* The events of the types, in their order.
Of(q, T) == Those(q, Indexes(q, T))

LEMMA OfAppend ==
  ASSUME NEW q, IsLog(q), NEW e, NEW T
  PROVE  /\ Of(Append(q, e), T) = IF e.type \in T THEN Append(Of(q, T), e) ELSE Of(q, T)
         /\ IsLog(Of(q, T))
<1>1. /\ Indexes(Append(q, e), T) = Indexes(q, T) \cup {i \in {Len(q) + 1} : e.type \in T}
      /\ Indexes(q, T) \in SUBSET (1..Len(q))
  BY AppendIndexes
<1>2. /\ Those(Append(q, e), Indexes(q, T)) = Those(q, Indexes(q, T))
      /\ Those(Append(q, e), Indexes(q, T) \cup {Len(q) + 1}) = Append(Those(q, Indexes(q, T)), e)
  BY <1>1, ThoseAppend
<1>3. IsLog(Of(q, T))
  BY ThoseIs DEF IsLog, Of
<1>4. CASE e.type \in T
  <2>1. Indexes(Append(q, e), T) = Indexes(q, T) \cup {Len(q) + 1}
    BY <1>1, <1>4
  <2> QED BY <1>2, <1>3, <1>4, <2>1 DEF Of
<1>5. CASE e.type \notin T
  <2>1. Indexes(Append(q, e), T) = Indexes(q, T)
    BY <1>1, <1>5
  <2> QED BY <1>2, <1>3, <1>5, <2>1 DEF Of
<1> QED
  BY <1>4, <1>5

\* A log is what it has at each place.
LEMMA LogIs ==
  ASSUME NEW v, IsLog(v), NEW u, DOMAIN u = 1..Len(v), u = [i \in DOMAIN u |-> u[i]],
         \A i \in 1..Len(v) : u[i] = v[i]
  PROVE  u = v
<1>1. PICK X : v \in Seq(X)
  BY DEF IsLog
<1>2. v = [i \in 1..Len(v) |-> v[i]]
  BY <1>1
<1>3. u = [i \in 1..Len(v) |-> u[i]]
  OBVIOUS
<1> QED
  BY <1>2, <1>3

\* What the transcript makes of an event, and the conversation of a line.
LineOf(e) == [actor |-> e.actor, role |-> RoleOf(e.actor), round |-> e.round, reply |-> e.reply]
Spoke(x)  == [actor |-> x.actor, text |-> x.reply.text]

Lines(s)  == [i \in DOMAIN s |-> LineOf(s[i])]
Spokes(s) == [i \in DOMAIN s |-> Spoke(s[i])]

LEMMA LinesAppend ==
  ASSUME NEW s, IsLog(s), NEW e
  PROVE  IsLog(Lines(s)) /\ Lines(Append(s, e)) = Append(Lines(s), LineOf(e))
<1> DEFINE t == Append(s, e)
           w == Lines(s)
           X == {LineOf(s[i]) : i \in 1..Len(s)}
<1>1. /\ Len(s) \in Nat /\ DOMAIN s = 1..Len(s) /\ DOMAIN t = 1..(Len(s) + 1)
      /\ t[Len(s) + 1] = e /\ \A i \in 1..Len(s) : t[i] = s[i]
  BY Appending
<1>2. w \in [1..Len(s) -> X] /\ \A i \in 1..Len(s) : w[i] = LineOf(s[i])
  BY <1>1 DEF Lines
<1> HIDE DEF w, X, t
<1>3. w \in Seq(X) /\ Len(w) = Len(s)
  BY <1>1, <1>2
<1>4. IsLog(w)
  BY <1>3 DEF IsLog
<1> DEFINE v == Append(w, LineOf(e))
           u == Lines(t)
<1>5. /\ IsLog(v) /\ Len(v) = Len(s) + 1 /\ v[Len(s) + 1] = LineOf(e)
      /\ \A i \in 1..Len(s) : v[i] = w[i]
  BY <1>3, <1>4, Appending
<1> HIDE DEF v
<1>6. /\ DOMAIN u = 1..Len(v) /\ u = [i \in DOMAIN u |-> u[i]]
      /\ \A i \in 1..Len(v) : u[i] = LineOf(t[i])
  BY <1>1, <1>5 DEF Lines
<1>7. \A i \in 1..Len(v) : i = Len(s) + 1 \/ i \in 1..Len(s)
  BY <1>1, <1>5
<1>8. \A i \in 1..Len(v) : u[i] = v[i]
  BY <1>1, <1>2, <1>5, <1>6, <1>7
<1> HIDE DEF u
<1>9. u = v
  BY <1>5, <1>6, <1>8, LogIs
<1> QED
  BY <1>4, <1>9 DEF u, v, w, t

LEMMA SpokesAppend ==
  ASSUME NEW s, IsLog(s), NEW e
  PROVE  Spokes(Append(s, e)) = Append(Spokes(s), Spoke(e))
<1> DEFINE t == Append(s, e)
           w == Spokes(s)
           X == {Spoke(s[i]) : i \in 1..Len(s)}
<1>1. /\ Len(s) \in Nat /\ DOMAIN s = 1..Len(s) /\ DOMAIN t = 1..(Len(s) + 1)
      /\ t[Len(s) + 1] = e /\ \A i \in 1..Len(s) : t[i] = s[i]
  BY Appending
<1>2. w \in [1..Len(s) -> X] /\ \A i \in 1..Len(s) : w[i] = Spoke(s[i])
  BY <1>1 DEF Spokes
<1> HIDE DEF w, X, t
<1>3. w \in Seq(X) /\ Len(w) = Len(s)
  BY <1>1, <1>2
<1>4. IsLog(w)
  BY <1>3 DEF IsLog
<1> DEFINE v == Append(w, Spoke(e))
           u == Spokes(t)
<1>5. /\ IsLog(v) /\ Len(v) = Len(s) + 1 /\ v[Len(s) + 1] = Spoke(e)
      /\ \A i \in 1..Len(s) : v[i] = w[i]
  BY <1>3, <1>4, Appending
<1> HIDE DEF v
<1>6. /\ DOMAIN u = 1..Len(v) /\ u = [i \in DOMAIN u |-> u[i]]
      /\ \A i \in 1..Len(v) : u[i] = Spoke(t[i])
  BY <1>1, <1>5 DEF Spokes
<1>7. \A i \in 1..Len(v) : i = Len(s) + 1 \/ i \in 1..Len(s)
  BY <1>1, <1>5
<1>8. \A i \in 1..Len(v) : u[i] = v[i]
  BY <1>1, <1>2, <1>5, <1>6, <1>7
<1> HIDE DEF u
<1>9. u = v
  BY <1>5, <1>6, <1>8, LogIs
<1> QED
  BY <1>9 DEF u, v, w, t

\* The lines of the participants.
Parts(talk) == Those(talk, {i \in DOMAIN talk : talk[i].role = "participant"})

LEMMA PartsAppend ==
  ASSUME NEW q, IsLog(q), NEW e
  PROVE  /\ IsLog(Parts(q))
         /\ Parts(Append(q, e)) =
              IF e.role = "participant" THEN Append(Parts(q), e) ELSE Parts(q)
<1> DEFINE t == Append(q, e)
           n == Len(q)
           S == {i \in DOMAIN q : q[i].role = "participant"}
           W == {i \in DOMAIN t : t[i].role = "participant"}
<1>1. /\ n \in Nat /\ DOMAIN q = 1..n /\ DOMAIN t = 1..(n + 1)
      /\ t[n + 1] = e /\ \A i \in 1..n : t[i] = q[i]
  BY Appending
<1>2. IsLog(Parts(q))
  BY ThoseIs DEF IsLog, Parts
<1>3. Parts(q) = Those(q, S) /\ Parts(t) = Those(t, W) /\ S \in SUBSET (1..n)
  BY <1>1 DEF Parts
<1>4. W = IF e.role = "participant" THEN S \cup {n + 1} ELSE S
  <2> HIDE DEF t, n
  <2> QED BY <1>1
<1> HIDE DEF S, W
<1>5. Those(t, S) = Those(q, S) /\ Those(t, S \cup {n + 1}) = Append(Those(q, S), e)
  BY <1>3, ThoseAppend
<1> QED
  BY <1>2, <1>3, <1>4, <1>5

\* The transcript of a log in which each turn that is finished was started.
Told(q) == Lines(Of(q, {"turn.finished"}))

LEMMA TranscriptIs ==
  ASSUME IsLog(log), TalkTold
  PROVE  Transcript(log) = Told(log)
<1> DEFINE S == Indexes(log, {"turn.finished"})
           said == Those(log, S)
           line(i) == [actor |-> said[i].actor, role |-> roleOf(log, said[i]),
                       round |-> said[i].round, reply |-> said[i].reply]
<1>1. Transcript(log) = [i \in DOMAIN said |-> line(i)]
  BY DEF Transcript
<1>2. Told(log) = [i \in DOMAIN said |-> LineOf(said[i])]
  BY DEF Told, Lines, Of
<1>3. ASSUME NEW i \in DOMAIN said PROVE line(i) = LineOf(said[i])
  <2>1. said \in Seq({log[j] : j \in S \cap (1..Len(log))})
    BY ThoseIs
  <2> HIDE DEF said
  <2>2. said[i] \in {log[j] : j \in S \cap (1..Len(log))}
    BY <2>1
  <2>3. PICK j \in S : said[i] = log[j]
    BY <2>2
  <2>4. roleOf(log, said[i]) = RoleOf(said[i].actor)
    BY <2>3, RoleTold
  <2> QED BY <2>4 DEF LineOf
<1> HIDE DEF said, line
<1> QED
  BY <1>1, <1>2, <1>3

LEMMA ToldAppend ==
  ASSUME NEW q, IsLog(q), NEW e
  PROVE  /\ IsLog(Told(q))
         /\ Told(Append(q, e)) =
              IF e.type = "turn.finished" THEN Append(Told(q), LineOf(e)) ELSE Told(q)
<1> DEFINE T == {"turn.finished"}
<1>1. Of(Append(q, e), T) = (IF e.type \in T THEN Append(Of(q, T), e) ELSE Of(q, T)) /\ IsLog(Of(q, T))
  BY OfAppend
<1>2. IsLog(Lines(Of(q, T))) /\ Lines(Append(Of(q, T), e)) = Append(Lines(Of(q, T)), LineOf(e))
  BY <1>1, LinesAppend
<1> QED
  BY <1>1, <1>2 DEF Told

\* The conversation and the page made of it are those of the engine.
TalkTrue ==
  /\ Told(log) \in Seq(Line)
  /\ Spokes(Parts(Told(log))) = st.conv
  /\ Len(Entered(Told(log)).entries) = Len(st.conv)
  /\ ~Facilitated => Entered(Told(log)).ledger = st.ledger
  /\ Len(st.conv) < 2 => st.ledger.contested = {}

\* A facilitator that says more or less than a ledger is told.
LEMMA FacilitatedAfter ==
  ASSUME Logged
  PROVE  /\ Facilitated => Facilitated'
         /\ Appended.type = "turn.finished" /\ Appended.actor = "facilitator"
              /\ Appended.reply.parses # Appended.reply.reads => Facilitated'
<1>1. log'[Len(log) + 1] = Appended
  BY Appending DEF Logged
<1>2. /\ Appended.type \in {"turn.finished"} =>
           Indexes(log', {"turn.finished"}) = Indexes(log, {"turn.finished"}) \cup {Len(log) + 1}
      /\ Appended.type \notin {"turn.finished"} =>
           Indexes(log', {"turn.finished"}) = Indexes(log, {"turn.finished"})
      /\ \A i \in Indexes(log, {"turn.finished"}) : log'[i] = log[i]
  BY LoggedIndexes
<1> QED
  BY <1>1, <1>2 DEF Facilitated

\* A turn that ends adds the same to the conversation and to the page.
LEMMA TalkTrueEnds ==
  ASSUME Logged, TalkTrue, Appended.type = "turn.finished", Appended.reply \in Reply,
         Appended.actor = st.turn.actor, Appended.round = st.turn.round, TurnEnds(Appended.reply)
  PROVE  TalkTrue'
<1> DEFINE e == Appended
           x == LineOf(e)
           q == Told(log)
           p == Entered(q)
           n == Len(st.conv)
<1>1. /\ IsLog(log) /\ log' = Append(log, e) /\ Typed /\ TurnInv
      /\ st.ledger \in Ledger /\ n \in Nat /\ Active(st)
      /\ st.conv \in Seq([actor : Actors, text : Text])
  BY Numbers DEF Logged, Typed, State, TurnEnds
<1>2. st.turn.role = RoleOf(st.turn.actor) /\ st.turn.role \in Roles
  BY <1>1, TurnRole, RoleOfTurn
<1>3. e.actor \in Actors /\ e.round \in Nat \ {0}
  BY <1>1, Numbers DEF TurnInv, TurnRec
<1>4. x \in Line /\ x.role = st.turn.role /\ x.reply = e.reply /\ x.actor = st.turn.actor
  BY <1>2, <1>3 DEF LineOf, Line
<1>5. Told(log') = Append(q, x)
  BY <1>1, ToldAppend
<1>6. /\ q \in Seq(Line) /\ Spokes(Parts(q)) = st.conv /\ Len(p.entries) = n
      /\ ~Facilitated => p.ledger = st.ledger
      /\ n < 2 => st.ledger.contested = {}
  BY DEF TalkTrue
<1>7. p \in Page /\ IsLog(q)
  BY <1>6, EnteredIs DEF IsLog
<1>8. Entered(Told(log')) = AddEntry(p, x)
  BY <1>4, <1>5, <1>6, EnteredAppend
<1> HIDE DEF x, q, p
<1>9. /\ Len(AddEntry(p, x).entries) = n + (IF x.role = "participant" THEN 1 ELSE 0)
      /\ AddEntry(p, x).ledger = IF x.role = "facilitator" THEN LedgerAfter(p, x) ELSE p.ledger
  BY <1>4, <1>6, <1>7, AddEntryIs
<1>10. Append(q, x) \in Seq(Line)
  BY <1>4, <1>6
<1>11. IsLog(Parts(q)) /\ Parts(Append(q, x)) = IF x.role = "participant" THEN Append(Parts(q), x)
                                                ELSE Parts(q)
  BY <1>7, PartsAppend
<1>12. Spokes(Append(Parts(q), x)) = Append(st.conv, Spoke(x))
  BY <1>6, <1>11, SpokesAppend
<1>13. /\ st'.conv = IF st.turn.role = "participant"
                     THEN Append(st.conv, [actor |-> st.turn.actor, text |-> e.reply.text])
                     ELSE st.conv
       /\ st'.ledger = IF st.turn.role = "facilitator" THEN NewLedger(e.reply) ELSE st.ledger
  BY DEF TurnEnds
<1> HIDE DEF e
<1>14. Spokes(Parts(Append(q, x))) = st'.conv
  BY <1>4, <1>6, <1>11, <1>12, <1>13 DEF Spoke
<1>15. Len(st'.conv) = n + (IF st.turn.role = "participant" THEN 1 ELSE 0)
  <2>1. Len(Append(st.conv, [actor |-> st.turn.actor, text |-> e.reply.text])) = n + 1
    BY <1>1, Appending DEF IsLog
  <2>2. CASE st.turn.role = "participant"
    <3>1. st'.conv = Append(st.conv, [actor |-> st.turn.actor, text |-> e.reply.text])
      BY <1>13, <2>2
    <3> QED BY <2>1, <2>2, <3>1
  <2>3. CASE st.turn.role # "participant"
    <3>1. st'.conv = st.conv
      BY <1>13, <2>3
    <3> QED BY <1>1, <2>3, <3>1
  <2> QED BY <2>2, <2>3
<1>16. e.reply \in Reply /\ e.reply.ledger \in Ledger /\ e.reply.parses \in BOOLEAN
       /\ e.reply.reads \in BOOLEAN
  BY DEF Reply, e
<1>17. ASSUME NEW l \in Ledger, l.contested = {} PROVE [l EXCEPT !.contested = {}] = l
  BY <1>17 DEF Ledger
<1>18. ASSUME ~Facilitated' PROVE AddEntry(p, x).ledger = st'.ledger
  <2>1. p.ledger = st.ledger
    BY <1>6, <1>18, FacilitatedAfter
  <2>2. CASE st.turn.role = "facilitator"
    <3>1. e.actor = "facilitator"
      BY <1>1, <2>2 DEF TurnInv, e
    <3>2. e.reply.parses = e.reply.reads
      BY <1>18, <3>1, FacilitatedAfter DEF e
    <3>3. LedgerAfter(p, x) =
            IF ~e.reply.reads THEN p.ledger
            ELSE IF n < 2 THEN [e.reply.ledger EXCEPT !.contested = {}] ELSE e.reply.ledger
      BY <1>4, <1>6 DEF LedgerAfter, e
    <3>4. NewLedger(e.reply) =
            IF n < 2 THEN [(IF e.reply.parses THEN e.reply.ledger ELSE st.ledger)
                             EXCEPT !.contested = {}]
            ELSE IF e.reply.parses THEN e.reply.ledger ELSE st.ledger
      BY DEF NewLedger
    <3>5. n < 2 => [st.ledger EXCEPT !.contested = {}] = st.ledger
      BY <1>1, <1>6, <1>17
    <3>6. LedgerAfter(p, x) = NewLedger(e.reply)
      <4>1. CASE e.reply.reads
        <5>1. e.reply.parses
          BY <3>2, <4>1
        <5>2. LedgerAfter(p, x) =
                IF n < 2 THEN [e.reply.ledger EXCEPT !.contested = {}] ELSE e.reply.ledger
          <6> HIDE DEF n
          <6> QED BY <3>3, <4>1, Zenon
        <5>3. NewLedger(e.reply) =
                IF n < 2 THEN [e.reply.ledger EXCEPT !.contested = {}] ELSE e.reply.ledger
          <6>1. (IF e.reply.parses THEN e.reply.ledger ELSE st.ledger) = e.reply.ledger
            BY <5>1
          <6> HIDE DEF n
          <6> QED BY <3>4, <6>1
        <5> QED BY <5>2, <5>3
      <4>2. CASE ~e.reply.reads
        <5>1. ~e.reply.parses
          BY <3>2, <4>2
        <5>2. LedgerAfter(p, x) = st.ledger
          BY <2>1, <3>3, <4>2, Zenon
        <5>3. NewLedger(e.reply) = IF n < 2 THEN [st.ledger EXCEPT !.contested = {}] ELSE st.ledger
          BY <3>4, <5>1, Zenon
        <5> QED BY <3>5, <5>2, <5>3, Zenon
      <4> QED BY <4>1, <4>2
    <3> QED BY <1>4, <1>9, <1>13, <2>2, <3>6
  <2>3. CASE st.turn.role # "facilitator"
    BY <1>4, <1>9, <1>13, <2>1, <2>3
  <2> QED BY <2>2, <2>3
<1>19. ASSUME Len(st'.conv) < 2 PROVE st'.ledger.contested = {}
  <2>1. n < 2
    <3> DEFINE m == Len(st'.conv)
    <3>1. m = n + (IF st.turn.role = "participant" THEN 1 ELSE 0) /\ n \in Nat /\ m < 2
      BY <1>1, <1>15, <1>19
    <3> HIDE DEF n, m
    <3>2. m = n \/ m = n + 1
      <4>1. CASE st.turn.role = "participant"
        BY <3>1, <4>1
      <4>2. CASE st.turn.role # "participant"
        BY <3>1, <4>2
      <4> QED BY <4>1, <4>2
    <3> QED BY <3>1, <3>2
  <2>2. \A l \in Ledger : [l EXCEPT !.contested = {}].contested = {}
    BY DEF Ledger
  <2>3. NewLedger(e.reply).contested = {}
    BY <1>1, <1>16, <2>1, <2>2 DEF NewLedger
  <2> QED BY <1>6, <1>13, <2>1, <2>3
<1> HIDE DEF n
<1> QED
  BY <1>4, <1>5, <1>8, <1>9, <1>10, <1>14, <1>15, <1>18, <1>19 DEF TalkTrue

\* The other events add nothing to it.
LEMMA TalkTrueStep ==
  ASSUME Logged, TalkTrue, AdmittedFirst
  PROVE  TalkTrue'
<1>1. CASE Appended.type # "turn.finished"
  <2>1. st'.conv = st.conv /\ st'.ledger = st.ledger
    BY <1>1, EventIs
       DEF Ends, Grants, Validates, TurnStarts, Tries, Marks, SameButAttempts, Asks, Decides,
           Completes, SameButAccount, Readies, Queues, Applies, SameButSteering, SameTalk
  <2>2. Told(log') = Told(log)
    BY <1>1, ToldAppend DEF Logged
  <2>3. Facilitated => Facilitated'
    BY FacilitatedAfter
  <2> QED BY <2>1, <2>2, <2>3 DEF TalkTrue
<1>2. CASE Appended.type = "turn.finished"
  BY <1>2, EventIs, TalkTrueEnds DEF Closing
<1> QED
  BY <1>1, <1>2

-----------------------------------------------------------------------------
(* The budget, the verdict, the turn in hand and the attempts.             *)

\* The turns granted in the log are those of the session.
BudgetTrue == GrantsTyped(log) /\ grantedTurns(log) = st.granted

LEMMA BudgetStep ==
  ASSUME Logged, BudgetTrue, AdmittedFirst
  PROVE  BudgetTrue'
<1> DEFINE e == Appended
<1>1. IsLog(log) /\ log' = Append(log, e) /\ st.granted \in Nat
  BY Numbers DEF Logged
<1>2. CASE e.type = "turn_budget.granted"
  <2>1. e.turns \in Nat /\ st'.granted = st.granted + e.turns
    BY <1>2, EventIs DEF Grants, Closing
  <2> HIDE DEF e
  <2>2. GrantsTyped(log') /\ grantedTurns(log') = grantedTurns(log) + e.turns
    BY <1>1, <1>2, <2>1, GrantedAppend DEF BudgetTrue
  <2> QED BY <2>1, <2>2 DEF BudgetTrue
<1>3. CASE e.type # "turn_budget.granted"
  <2>1. st'.granted = st.granted
    BY <1>3, EventIs
       DEF Ends, Validates, TurnStarts, TurnEnds, Tries, Marks, SameButAttempts, Asks, Decides,
           Completes, SameButAccount, Readies, Queues, Applies, SameButSteering, SameGrant
  <2> HIDE DEF e
  <2>2. GrantsTyped(log') /\ grantedTurns(log') = grantedTurns(log) + 0
    BY <1>1, <1>3, GrantedAppend DEF BudgetTrue
  <2>3. st.granted + 0 = st.granted
    BY <1>1
  <2> QED BY <2>1, <2>2, <2>3 DEF BudgetTrue
<1> QED
  BY <1>2, <1>3

\* The verdict on the result is the last one of the log.
VerdictTrue ==
  st.validation # "none" =>
    /\ LastIndex(log, {"result.produced"}) \in 1..Len(log)
    /\ log[LastIndex(log, {"result.produced"})].outcome = st.validation

LEMMA VerdictStep ==
  ASSUME Logged, VerdictTrue, AdmittedFirst
  PROVE  VerdictTrue'
<1> DEFINE e == Appended
           T == {"result.produced"}
           k == LastIndex(log, T)
<1>1. IsLog(log) /\ log' = Append(log, e)
  BY DEF Logged
<1>2. /\ Len(log) \in Nat /\ Len(log') = Len(log) + 1 /\ log'[Len(log) + 1] = e
      /\ \A i \in 1..Len(log) : log'[i] = log[i]
  BY <1>1, Appending
<1>3. LastIndex(log', T) = IF e.type \in T THEN Len(log) + 1 ELSE k
  BY <1>1, AppendLast
<1>4. CASE e.type = "result.produced"
  <2>1. st'.validation = e.outcome
    BY <1>4, EventIs DEF Validates, Closing
  <2>2. Len(log) + 1 \in 1..Len(log')
    BY <1>2
  <2> HIDE DEF e
  <2> QED BY <1>2, <1>3, <1>4, <2>1, <2>2 DEF VerdictTrue
<1>5. CASE e.type # "result.produced"
  <2>1. st'.validation # "none" => st'.validation = st.validation
    BY <1>5, EventIs
       DEF Ends, Grants, TurnStarts, TurnEnds, Tries, Marks, SameButAttempts, Asks, Decides,
           Completes, SameButAccount, Readies, Queues, Applies, SameButSteering, SameResult
  <2>2. ASSUME st.validation # "none" PROVE k \in 1..Len(log') /\ log'[k] = log[k]
    BY <1>2, <2>2 DEF VerdictTrue
  <2> HIDE DEF e
  <2> QED BY <1>3, <1>5, <2>1, <2>2 DEF VerdictTrue
<1> QED
  BY <1>4, <1>5

\* The events of the types about turn x.
Turned(s, T, x) == {i \in Indexes(s, T) : turnKey(s[i]) = x}

LEMMA AppendTurned ==
  ASSUME NEW s, IsLog(s), NEW e, NEW T, NEW x
  PROVE  /\ e.type \in T /\ turnKey(e) = x =>
              Turned(Append(s, e), T, x) = Turned(s, T, x) \cup {Len(s) + 1}
         /\ ~(e.type \in T /\ turnKey(e) = x) => Turned(Append(s, e), T, x) = Turned(s, T, x)
         /\ Turned(s, T, x) \in SUBSET (1..Len(s)) /\ Len(s) \in Nat
<1> DEFINE t == Append(s, e)
           n == Len(s)
<1>1. /\ Indexes(t, T) = Indexes(s, T) \cup {i \in {n + 1} : e.type \in T}
      /\ Indexes(s, T) \subseteq 1..n /\ \A i \in Indexes(s, T) : t[i] = s[i]
      /\ n \in Nat /\ t[n + 1] = e
  BY Appending, AppendIndexes
<1> HIDE DEF t, n
<1>2. Turned(s, T, x) \in SUBSET (1..n)
  BY <1>1 DEF Turned
<1>3. Turned(t, T, x) = Turned(s, T, x) \cup {i \in {n + 1} : e.type \in T /\ turnKey(e) = x}
  BY <1>1 DEF Turned
<1> QED
  BY <1>1, <1>2, <1>3 DEF t, n

LEMMA StartedIs ==
  ASSUME NEW s, IsLog(s), NEW x
  PROVE  x \in startedTurns(s) <=>
           Stands(Turned(s, {"turn.started"}, x), Turned(s, {"turn.finished"}, x))
<1>1. x \in startedTurns(s) <=>
        \E i \in Indexes(s, {"turn.started"}) :
           /\ \A j \in Indexes(s, {"turn.finished"}) : j > i => turnKey(s[j]) # turnKey(s[i])
           /\ turnKey(s[i]) = x
  BY DEF startedTurns, Open
<1>2. Stands(Turned(s, {"turn.started"}, x), Turned(s, {"turn.finished"}, x)) <=>
        \E i \in Indexes(s, {"turn.started"}) :
           /\ \A j \in Indexes(s, {"turn.finished"}) : j > i => turnKey(s[j]) # turnKey(s[i])
           /\ turnKey(s[i]) = x
  BY DEF Stands, Turned
<1> QED
  BY <1>1, <1>2

\* A turn is shown as started from turn.started to turn.finished.
LEMMA AppendStarted ==
  ASSUME NEW s, IsLog(s), NEW e
  PROVE  /\ e.type \notin {"turn.started", "turn.finished"} =>
              startedTurns(Append(s, e)) = startedTurns(s)
         /\ e.type = "turn.started" =>
              startedTurns(Append(s, e)) = startedTurns(s) \cup {turnKey(e)}
         /\ e.type = "turn.finished" =>
              startedTurns(Append(s, e)) = startedTurns(s) \ {turnKey(e)}
<1>1. IsLog(Append(s, e))
  BY Appending
<1> DEFINE p == startedTurns(s)
           r == startedTurns(Append(s, e))
           k == turnKey(e)
<1>2. ASSUME NEW x
      PROVE  /\ e.type \notin {"turn.started", "turn.finished"} => (x \in r <=> x \in p)
             /\ e.type = "turn.started" => (x \in r <=> x \in p \/ x = k)
             /\ e.type = "turn.finished" => (x \in r <=> x \in p /\ x # k)
  <2> DEFINE A == Turned(s, {"turn.started"}, x)
             B == Turned(s, {"turn.finished"}, x)
             C == Turned(Append(s, e), {"turn.started"}, x)
             D == Turned(Append(s, e), {"turn.finished"}, x)
  <2>1. (x \in p <=> Stands(A, B)) /\ (x \in r <=> Stands(C, D))
    BY <1>1, StartedIs
  <2>2. /\ e.type \in {"turn.started"} /\ k = x => C = A \cup {Len(s) + 1}
        /\ ~(e.type \in {"turn.started"} /\ k = x) => C = A
    BY AppendTurned
  <2>3. /\ e.type \in {"turn.finished"} /\ k = x => D = B \cup {Len(s) + 1}
        /\ ~(e.type \in {"turn.finished"} /\ k = x) => D = B
    BY AppendTurned
  <2>4. Stands(A \cup {Len(s) + 1}, B) /\ ~Stands(A, B \cup {Len(s) + 1})
    BY AppendTurned, StandsAfter
  <2> HIDE DEF A, B, C, D, p, r, k
  <2> QED BY <2>1, <2>2, <2>3, <2>4
<1> HIDE DEF p, r, k
<1>3. /\ e.type \notin {"turn.started", "turn.finished"} => r = p
      /\ e.type = "turn.started" => r = p \cup {k}
      /\ e.type = "turn.finished" => r = p \ {k}
  BY <1>2
<1> QED
  BY <1>3 DEF p, r, k

\* The graph shows the turn in hand as started, and no other.
StartedTrue == startedTurns(log) = IF Active(st) THEN {turnKey(st.turn)} ELSE {}

LEMMA StartedStep ==
  ASSUME Logged, StartedTrue, AdmittedFirst
  PROVE  StartedTrue'
<1> DEFINE e == Appended
<1>1. /\ e.type \notin {"turn.started", "turn.finished"} => startedTurns(log') = startedTurns(log)
      /\ e.type = "turn.started" => startedTurns(log') = startedTurns(log) \cup {turnKey(e)}
      /\ e.type = "turn.finished" => startedTurns(log') = startedTurns(log) \ {turnKey(e)}
  BY AppendStarted DEF Logged
<1>2. CASE e.type = "turn.started"
  <2>1. ~Active(st) /\ Active(st') /\ e.actor = st'.turn.actor /\ e.round = st'.turn.round
    BY <1>2, EventIs DEF TurnStarts, Active, NoTurn, Roles, Closing
  <2> HIDE DEF e
  <2> QED BY <1>1, <1>2, <2>1 DEF StartedTrue, turnKey
<1>3. CASE e.type = "turn.finished"
  <2>1. Active(st) /\ ~Active(st') /\ e.actor = st.turn.actor /\ e.round = st.turn.round
    BY <1>3, EventIs DEF TurnEnds, Active, Closing
  <2> HIDE DEF e
  <2> QED BY <1>1, <1>3, <2>1 DEF StartedTrue, turnKey
<1>4. CASE e.type \notin {"turn.started", "turn.finished"}
  <2>1. SameButAttempts => Active(st) /\ Active(st')
    BY RoleOfTurn DEF SameButAttempts, Active, NoTurn, Roles, Logged
  <2>2. /\ Active(st') <=> Active(st)
        /\ Active(st) => st'.turn.actor = st.turn.actor /\ st'.turn.round = st.turn.round
    BY <1>4, <2>1, EventIs
       DEF Ends, Grants, Validates, Tries, Marks, SameButAttempts, Asks, Decides,
           Completes, SameButAccount, Readies, Queues, Applies, SameButSteering, SameTurn, Active
  <2> HIDE DEF e
  <2> QED BY <1>1, <1>4, <2>2 DEF StartedTrue, turnKey
<1> QED
  BY <1>2, <1>3, <1>4

\* An event that marks no attempt leaves the turn, starts an attempt, or clears
\* the attempts.
LEMMA AttemptsElse ==
  ASSUME Logged, AdmittedFirst, Appended.type \notin Closing
  PROVE  Tries \/ st'.turn.attempts = <<>> \/ st'.turn = st.turn
<1>1. ASSUME NEW actor, NEW round, NEW role, TurnStarts(actor, round, role)
      PROVE  st'.turn.attempts = <<>>
  BY <1>1 DEF TurnStarts
<1>2. ASSUME NEW reply, TurnEnds(reply) PROVE st'.turn.attempts = <<>>
  BY <1>2 DEF TurnEnds, NoTurn
<1>3. ASSUME Readies \/ (\E p \in Prompts : Queues(p)) \/ \E i \in Nat : Applies(i)
      PROVE  st'.turn = st.turn
  BY <1>3 DEF Readies, Queues, Applies, SameButSteering, SameTurn
<1>4. ASSUME NEW id, Asks(id) \/ (\E verdict, turns : Decides(id, verdict, turns))
                       \/ \E status, reply : Completes(id, status, reply)
      PROVE  st'.turn = st.turn
  BY <1>4 DEF Asks, Decides, Completes, SameButAccount, SameTurn
<1>5. ASSUME \/ \E how : Ends(how) \/ \E n, p : Grants(n, p) \/ \E v : Validates(v)
      PROVE  st'.turn = st.turn
  BY <1>5 DEF Ends, Grants, Validates, SameTurn
<1> QED
  BY <1>1, <1>2, <1>3, <1>4, <1>5, EventIs

\* A failure of the turn in hand is one of those that the report counts.
FailuresTrue == Cardinality(Occurs(st.turn, "failed")) <= Len(Of(log, {"provider.failed"}))

LEMMA FailuresStep ==
  ASSUME Logged, FailuresTrue, AdmittedFirst
  PROVE  FailuresTrue'
<1> DEFINE e == Appended
           T == {"provider.failed"}
           q == Of(log, T)
           n == Len(st.turn.attempts)
           P == Occurs(st.turn, "failed")
           F == Occurs(st'.turn, "failed")
<1>1. /\ Of(log', T) = IF e.type \in T THEN Append(q, e) ELSE q
      /\ IsLog(q)
  BY OfAppend DEF Logged
<1>2. /\ Len(q) \in Nat /\ Len(Append(q, e)) = Len(q) + 1
  BY <1>1, Appending
<1>3. IsFiniteSet(P) /\ Cardinality(P) \in Nat /\ Cardinality(P) <= Len(q)
  <2>1. st.turn.attempts \in Seq(Attempt) /\ n \in Nat
    BY Numbers DEF Logged
  <2>2. P \subseteq 1..n
    BY <2>1 DEF Occurs
  <2>3. IsFiniteSet(1..n)
    BY <2>1, FS_Interval
  <2>4. IsFiniteSet(P)
    BY <2>2, <2>3, FS_Subset
  <2> QED BY <2>4, FS_CardinalityType DEF FailuresTrue
<1>4. e.type \in T => Len(Of(log', T)) = Len(q) + 1
  BY <1>1, <1>2
<1>5. e.type \notin T => Len(Of(log', T)) = Len(q)
  BY <1>1
<1>6. Len(Of(log', T)) >= Len(q)
  BY <1>2, <1>4, <1>5
<1> DEFINE m == Len(Of(log', T))
<1>7. ASSUME F \subseteq P PROVE Cardinality(F) <= m
  <2>1. Cardinality(F) <= Cardinality(P) /\ Cardinality(F) \in Nat
    BY <1>3, <1>7, FS_Subset, FS_CardinalityType
  <2>2. m \in Nat
    BY <1>2, <1>4, <1>5
  <2> HIDE DEF m, q, P, F
  <2> QED BY <1>2, <1>3, <1>6, <2>1, <2>2 DEF m
<1>8. CASE e.type = "provider.failed"
  <2>1. F \subseteq P \cup {n}
    <3>1. PICK a \in Attempt : Marks(a)
      BY <1>8, EventIs
    <3> QED BY <3>1, MarksOccurs DEF Logged
  <2>2. IsFiniteSet(P \cup {n}) /\ Cardinality(P \cup {n}) <= Cardinality(P) + 1
    <3>1. CASE n \in P
      <4>1. P \cup {n} = P
        BY <3>1
      <4> DEFINE c == Cardinality(P)
      <4>2. c \in Nat
        BY <1>3
      <4> HIDE DEF P, n, c
      <4>3. c <= c + 1
        BY <4>2
      <4> QED BY <1>3, <4>1, <4>3, Zenon DEF c
    <3>2. CASE n \notin P
      <4>1. IsFiniteSet(P \cup {n}) /\ Cardinality(P \cup {n}) = Cardinality(P) + 1
        BY <1>3, <3>2, FS_AddElement
      <4> HIDE DEF P, n
      <4> QED BY <1>3, <4>1
    <3> QED BY <3>1, <3>2
  <2>3. Cardinality(F) <= Cardinality(P \cup {n}) /\ Cardinality(F) \in Nat
    BY <2>1, <2>2, FS_Subset, FS_CardinalityType
  <2>4. Cardinality(P \cup {n}) \in Nat /\ m = Len(q) + 1
    BY <1>4, <1>8, <2>2, FS_CardinalityType
  <2>5. Cardinality(F) <= m
    <3> HIDE DEF m, q, P, F, n
    <3> QED BY <1>2, <1>3, <2>2, <2>3, <2>4
  <2> QED BY <2>5 DEF FailuresTrue
<1>9. CASE e.type = "attempt.finished"
  <2>1. PICK a \in Attempt : Marks(a) /\ a.closed
    BY <1>9, EventIs DEF Closing
  <2>2. a.outcome = "failed" => n \in P
    <3>1. n \in DOMAIN st.turn.attempts
      BY <2>1, MarksOccurs DEF Logged
    <3>2. a.outcome = "failed" => st.turn.attempts[n].outcome = "failed"
      BY <2>1 DEF Marks, Last
    <3> QED BY <3>1, <3>2 DEF Occurs
  <2>3. F \subseteq P
    BY <2>1, <2>2, MarksOccurs DEF Logged
  <2> QED BY <1>7, <2>3 DEF FailuresTrue
<1>10. CASE e.type \notin Closing
  <2>1. Tries => F \subseteq P
    BY TriesOccurs DEF Logged
  <2>2. st'.turn.attempts = <<>> => F \subseteq P
    BY DEF Occurs
  <2>3. st'.turn = st.turn => F \subseteq P
    OBVIOUS
  <2>4. Tries \/ st'.turn.attempts = <<>> \/ st'.turn = st.turn
    BY <1>10, AttemptsElse
  <2> QED BY <1>7, <2>1, <2>2, <2>3, <2>4 DEF FailuresTrue
<1> QED
  BY <1>8, <1>9, <1>10 DEF Closing

\* An attempt of the actor is finished in the log.
Finishes(s, actor) ==
  \E i \in DOMAIN Of(s, {"attempt.finished"}) : Of(s, {"attempt.finished"})[i].actor = actor

LEMMA FinishesAppend ==
  ASSUME NEW s, IsLog(s), NEW e, NEW actor
  PROVE  /\ Finishes(s, actor) => Finishes(Append(s, e), actor)
         /\ e.type = "attempt.finished" /\ e.actor = actor => Finishes(Append(s, e), actor)
<1> DEFINE T == {"attempt.finished"}
           q == Of(s, T)
           r == Of(Append(s, e), T)
<1>1. r = (IF e.type \in T THEN Append(q, e) ELSE q) /\ IsLog(q)
  BY OfAppend
<1> DEFINE t == Append(q, e)
<1>2. /\ Len(q) \in Nat /\ DOMAIN q = 1..Len(q) /\ DOMAIN t = 1..(Len(q) + 1)
      /\ t[Len(q) + 1] = e /\ \A i \in 1..Len(q) : t[i] = q[i]
  BY <1>1, Appending
<1>3. Finishes(s, actor) <=> \E i \in DOMAIN q : q[i].actor = actor
  BY DEF Finishes
<1>4. Finishes(Append(s, e), actor) <=> \E i \in DOMAIN r : r[i].actor = actor
  BY DEF Finishes
<1> HIDE DEF q, r, t
<1>5. Len(q) + 1 \in DOMAIN t /\ \A i \in DOMAIN q : i \in DOMAIN t
  BY <1>2
<1>6. CASE e.type = "attempt.finished"
  <2>1. r = t
    BY <1>1, <1>6 DEF t
  <2> QED BY <1>2, <1>3, <1>4, <1>5, <2>1
<1>7. CASE e.type # "attempt.finished"
  <2>1. r = q
    BY <1>1, <1>7
  <2> QED BY <1>3, <1>4, <1>7, <2>1
<1> QED
  BY <1>6, <1>7

\* An answer is in the log with its actor, and so is that of the reducer when
\* the result is its.
AnswersTrue ==
  /\ Active(st) /\ Answered => Finishes(log, st.turn.actor)
  /\ st.result.by = "reducer" => Finishes(log, "reducer")

LEMMA AnswersStep ==
  ASSUME Logged, AnswersTrue, AdmittedFirst
  PROVE  AnswersTrue'
<1> DEFINE e == Appended
           F(s, x) == Finishes(s, x)
<1>1. \A x : /\ F(log, x) => F(log', x)
             /\ e.type = "attempt.finished" /\ e.actor = x => F(log', x)
  BY FinishesAppend DEF Logged
<1>2. /\ Active(st) /\ Answered => F(log, st.turn.actor)
      /\ st.result.by = "reducer" => F(log, "reducer")
  BY DEF AnswersTrue
<1>3. CASE e.type \in Closing
  <2>1. PICK a \in Attempt : Marks(a) /\ (a.closed <=> e.type = "attempt.finished")
    BY <1>3, EventIs DEF Closing
  <2>2. e.actor = st.turn.actor
    BY <1>3, EventIs DEF Closing
  <2>3. st'.turn.actor = st.turn.actor /\ st'.result = st.result
    BY <2>1 DEF Marks, SameButAttempts, SameTalk
  <2>4. Answered' => e.type = "attempt.finished"
    <3>1. Answered' => a.outcome = "success"
      BY <2>1, MarksOccurs DEF Logged, Answered
    <3> QED BY <2>1, <3>1 DEF Marks
  <2> HIDE DEF e, F
  <2>5. Answered' => F(log', st'.turn.actor)
    BY <1>1, <2>2, <2>3, <2>4
  <2>6. st'.result.by = "reducer" => F(log', "reducer")
    BY <1>1, <1>2, <2>3
  <2> QED BY <2>5, <2>6 DEF AnswersTrue, F
<1>4. CASE e.type = "turn.finished"
  <2>1. TurnEnds(e.reply)
    BY <1>4, EventIs DEF Closing
  <2>2. ~Active(st')
    BY <2>1 DEF TurnEnds, Active
  <2>3. st.turn.role = "reducer" => F(log, "reducer")
    <3> SUFFICES ASSUME st.turn.role = "reducer" PROVE F(log, "reducer")
      OBVIOUS
    <3>1. st.turn.actor = "reducer" /\ "reducer" \notin plan.static
      BY PlanAssumption DEF Logged, Typed, TurnInv, ValidPlan
    <3>2. Active(st) /\ Answered
      BY <2>1, <3>1 DEF TurnEnds, TurnReply
    <3> QED BY <1>2, <3>1, <3>2
  <2>4. st'.result.by = "reducer" => F(log', "reducer")
    BY <1>1, <1>2, <2>1, <2>3 DEF TurnEnds
  <2> QED BY <2>2, <2>4 DEF AnswersTrue
<1>5. CASE e.type \notin Closing \cup {"turn.finished"}
  <2>1. st'.result = st.result
    BY <1>5, EventIs
       DEF Ends, Grants, Validates, TurnStarts, Tries, SameButAttempts, Asks, Decides, Completes,
           SameButAccount, Readies, Queues, Applies, SameButSteering, SameTalk
  <2>2. Answered' /\ Active(st') => /\ Answered /\ Active(st)
                                    /\ st'.turn.actor = st.turn.actor
    <3>1. Tries => ~Answered'
      BY TriesOccurs DEF Logged, Tries, Answered
    <3>2. st'.turn.attempts = <<>> => ~Answered'
      BY DEF Answered, Occurs
    <3>3. st'.turn = st.turn => (Answered' <=> Answered) /\ (Active(st') <=> Active(st))
      BY DEF Answered, Active
    <3>4. Tries \/ st'.turn.attempts = <<>> \/ st'.turn = st.turn
      BY <1>5, AttemptsElse
    <3> QED BY <3>1, <3>2, <3>3, <3>4
  <2> HIDE DEF F
  <2>3. /\ st'.result.by = "reducer" => F(log', "reducer")
        /\ Answered' /\ Active(st') => F(log', st'.turn.actor)
    BY <1>1, <1>2, <2>1, <2>2
  <2> QED BY <2>3 DEF AnswersTrue, F
<1> QED
  BY <1>3, <1>4, <1>5

\* The events about a request, and the status that the node has after one.
AboutChild == {"child.requested", "child.decided", "child.completed"}

NodeOf(e) == CASE e.type = "child.requested" -> "requested"
               [] e.type = "child.decided"   -> IF e.admitted THEN "admitted" ELSE "rejected"
               [] e.type = "child.completed" -> e.status

\* The last event about a request gives its node the status.
LEMMA AppendNode ==
  ASSUME NEW s, IsLog(s), NEW e, NEW id
  PROVE  /\ e.type \in AboutChild /\ e.id = id => childNode(Append(s, e), id) = NodeOf(e)
         /\ ~(e.type \in AboutChild /\ e.id = id) /\ About(s, AboutChild, id) # {} =>
              childNode(Append(s, e), id) = childNode(s, id)
<1> DEFINE t == Append(s, e)
           n == Len(s)
           A == About(s, AboutChild, id)
           B == About(t, AboutChild, id)
<1>1. /\ e.type \in AboutChild /\ e.id = id => B = A \cup {n + 1}
      /\ ~(e.type \in AboutChild /\ e.id = id) => B = A
      /\ A \in SUBSET (1..n) /\ n \in Nat
  <2>1. e.type \in AboutChild /\ e.id = id => B = A \cup {n + 1}
    BY AppendAbout
  <2>2. ~(e.type \in AboutChild /\ e.id = id) => B = A
    BY AppendAbout
  <2>3. A \in SUBSET (1..n)
    BY AppendAbout
  <2>4. n \in Nat
    BY Appending
  <2> QED BY <2>1, <2>2, <2>3, <2>4
<1> DEFINE k == CHOOSE i \in A : \A j \in A : j <= i
           m == CHOOSE i \in B : \A j \in B : j <= i
<1>2. childNode(s, id) = NodeOf(s[k]) /\ childNode(t, id) = NodeOf(t[m])
  BY DEF childNode, NodeOf, About, AboutChild
<1>3. t[n + 1] = e /\ \A i \in 1..n : t[i] = s[i]
  BY Appending
<1>4. A # {} => k \in A
  <2>1. A # {} => \E i \in A : \A j \in A : j <= i
    BY <1>1, GreatestOf
  <2> QED BY <2>1
<1>5. B = A \cup {n + 1} => m = n + 1
  <2> SUFFICES ASSUME B = A \cup {n + 1} PROVE m = n + 1
    OBVIOUS
  <2>1. n + 1 \in B /\ \A j \in B : j <= n + 1 /\ j \in Nat
    BY <1>1
  <2>2. m \in B /\ \A j \in B : j <= m
    BY <2>1
  <2> HIDE DEF B, m, n
  <2> QED BY <1>1, <2>1, <2>2
<1>6. B = A => m = k
  OBVIOUS
<1> HIDE DEF t, n, A, B, k, m
<1>7. CASE e.type \in AboutChild /\ e.id = id
  <2>1. t[m] = e
    BY <1>1, <1>3, <1>5, <1>7
  <2> QED BY <1>2, <1>7, <2>1 DEF t
<1>8. CASE ~(e.type \in AboutChild /\ e.id = id)
  <2>1. A # {} => t[m] = s[k]
    BY <1>1, <1>3, <1>4, <1>6, <1>8
  <2> QED BY <1>2, <1>8, <2>1 DEF t, A
<1> QED
  BY <1>7, <1>8

\* What the node of a request has to say.
NodeTrue(r) ==
  CASE r.status # "none"                            -> r.status
    [] r.status = "none" /\ r.verdict = "none"      -> "requested"
    [] r.status = "none" /\ r.verdict = "admitted"  -> "admitted"
    [] OTHER                                        -> "rejected"

Requested(s) == {s[i].id : i \in Indexes(s, {"child.requested"})}

\* The requests of the log are those of the session, and their nodes say how
\* each one stands.
RequestsTrue ==
  /\ Requested(log) = DOMAIN st.requests
  /\ \A id \in DOMAIN st.requests : childNode(log, id) = NodeTrue(st.requests[id])

LEMMA RequestsStep ==
  ASSUME Logged, RequestsTrue, AdmittedFirst
  PROVE  RequestsTrue'
<1> DEFINE e == Appended
           D == DOMAIN st.requests
<1>1. IsLog(log) /\ log' = Append(log, e)
  BY DEF Logged
<1>2. ASSUME NEW id \in D PROVE About(log, AboutChild, id) # {}
  <2>1. PICK i \in Indexes(log, {"child.requested"}) : log[i].id = id
    BY <1>2 DEF RequestsTrue, Requested
  <2>2. i \in Indexes(log, AboutChild)
    BY <2>1 DEF Indexes, AboutChild
  <2> QED BY <2>1, <2>2 DEF About
<1>3. \A id : /\ e.type \in AboutChild /\ e.id = id => childNode(log', id) = NodeOf(e)
              /\ ~(e.type \in AboutChild /\ e.id = id) /\ id \in D =>
                   childNode(log', id) = childNode(log, id)
  BY <1>1, <1>2, AppendNode
<1>4. /\ e.type = "child.requested" => Requested(log') = Requested(log) \cup {e.id}
      /\ e.type # "child.requested" => Requested(log') = Requested(log)
  <2> DEFINE T == {"child.requested"}
  <2>1. /\ e.type \in T => Indexes(log', T) = Indexes(log, T) \cup {Len(log) + 1}
        /\ e.type \notin T => Indexes(log', T) = Indexes(log, T)
        /\ \A i \in Indexes(log, T) : log'[i] = log[i]
    BY LoggedIndexes
  <2>2. log'[Len(log) + 1] = e
    BY <1>1, Appending
  <2>3. CASE e.type = "child.requested"
    BY <2>1, <2>2, <2>3 DEF Requested
  <2>4. CASE e.type # "child.requested"
    BY <2>1, <2>4 DEF Requested
  <2> QED BY <2>3, <2>4
<1>5. Requested(log) = D /\ \A id \in D : childNode(log, id) = NodeTrue(st.requests[id])
  BY DEF RequestsTrue
<1>6. CASE e.type = "child.requested"
  <2>1. /\ e.id \notin D /\ DOMAIN st'.requests = D \cup {e.id}
        /\ \A id \in D : st'.requests[id] = st.requests[id]
        /\ st'.requests[e.id] = Asked
    BY <1>6, EventIs DEF Asks, Closing
  <2>2. NodeTrue(Asked) = "requested" /\ NodeOf(e) = "requested"
    BY <1>6 DEF NodeTrue, NodeOf, Asked
  <2> HIDE DEF e, D
  <2>3. \A id \in D \cup {e.id} : childNode(log', id) = NodeTrue(st'.requests[id])
    BY <1>3, <1>5, <1>6, <2>1, <2>2 DEF AboutChild
  <2> QED BY <1>4, <1>5, <1>6, <2>1, <2>3 DEF RequestsTrue
<1>7. ASSUME e.type \in {"child.decided", "child.completed"}, e.id \in D, NEW b,
             st'.requests = [st.requests EXCEPT ![e.id] = b], NodeOf(e) = NodeTrue(b)
      PROVE  RequestsTrue'
  <2>1. /\ DOMAIN st'.requests = D /\ st'.requests[e.id] = b
        /\ \A x \in D \ {e.id} : st'.requests[x] = st.requests[x]
    BY <1>7, RequestStep DEF Logged
  <2> HIDE DEF e, D
  <2>2. \A id \in D : childNode(log', id) = NodeTrue(st'.requests[id])
    BY <1>3, <1>5, <1>7, <2>1 DEF AboutChild
  <2> QED BY <1>4, <1>5, <1>7, <2>1, <2>2 DEF RequestsTrue
<1>8. CASE e.type = "child.decided"
  <2> DEFINE id == e.id
  <2>1. PICK verdict, turns : Decides(id, verdict, turns) /\ (e.admitted <=> verdict = "admitted")
    BY <1>8, EventIs DEF Closing
  <2> HIDE DEF id
  <2> DEFINE b == [st.requests[id] EXCEPT !.verdict = verdict, !.turns = turns]
  <2>2. /\ id \in D /\ verdict # "none" /\ st.requests[id].verdict = "none"
        /\ st'.requests = [st.requests EXCEPT ![id] = b]
    BY <2>1 DEF Decides, Undecided, Decided
  <2>3. st.requests[id] \in Request /\ st.requests[id].status = "none"
    BY <2>2 DEF Logged, Typed, State, AdmittedFirst, Completed, Admitted
  <2>4. b.status = "none" /\ b.verdict = verdict
    BY <2>3 DEF Request
  <2> HIDE DEF b
  <2>5. NodeTrue(b) = IF verdict = "admitted" THEN "admitted" ELSE "rejected"
    BY <2>2, <2>4 DEF NodeTrue
  <2>6. NodeOf(e) = IF verdict = "admitted" THEN "admitted" ELSE "rejected"
    <3> HIDE DEF e
    <3> QED BY <1>8, <2>1 DEF NodeOf
  <2> HIDE DEF e
  <2> QED BY <1>7, <1>8, <2>2, <2>5, <2>6 DEF id
<1>9. CASE e.type = "child.completed"
  <2> DEFINE id == e.id
             status == e.status
  <2>1. status \in {"completed", "failed"}
    BY <1>9, EventIs DEF Closing
  <2>2. PICK reply : Completes(id, status, reply)
    BY <1>9, EventIs DEF Closing
  <2> HIDE DEF id
  <2> DEFINE b == [st.requests[id] EXCEPT !.status = status, !.reply = reply]
  <2>3. id \in D /\ st'.requests = [st.requests EXCEPT ![id] = b]
    BY <2>2 DEF Completes, Unfinished
  <2>4. st.requests[id] \in Request
    BY <2>3 DEF Logged, Typed, State
  <2>5. b.status = status
    BY <2>4 DEF Request
  <2> HIDE DEF b
  <2>6. NodeTrue(b) = status
    BY <2>1, <2>5 DEF NodeTrue
  <2>7. NodeOf(e) = status
    <3> HIDE DEF e
    <3> QED BY <1>9 DEF NodeOf
  <2> HIDE DEF e, status
  <2> QED BY <1>7, <1>9, <2>3, <2>6, <2>7 DEF id
<1>10. CASE e.type \notin AboutChild
  <2>1. st'.requests = st.requests
    BY <1>10, EventIs
       DEF Ends, Grants, Validates, TurnStarts, TurnEnds, Tries, Marks, SameButAttempts,
           Readies, Queues, Applies, SameButSteering, SameAccount, AboutChild
  <2> HIDE DEF e
  <2> QED BY <1>3, <1>4, <1>5, <1>10, <2>1 DEF RequestsTrue, AboutChild
<1> QED
  BY <1>6, <1>8, <1>9, <1>10 DEF AboutChild

-----------------------------------------------------------------------------
(* The views and the engine.                                               *)

\* What the log says of the session besides its end and its roles.
ViewInv == /\ TalkTrue /\ BudgetTrue /\ VerdictTrue /\ StartedTrue
           /\ FailuresTrue /\ AnswersTrue /\ RequestsTrue

LEMMA ViewInit == ReadInit => ViewInv
<1> SUFFICES ASSUME ReadInit PROVE ViewInv
  OBVIOUS
<1>1. /\ log = <<>> /\ st.requests = <<>> /\ st.turn = NoTurn /\ st.conv = <<>>
      /\ st.granted = 0 /\ st.ledger = NoLedger /\ st.validation = "none"
      /\ st.result.by = "none"
  BY DEF ReadInit, Init, newExecutionState
<1>2. IsLog(log) /\ DOMAIN log = {} /\ Len(log) = 0 /\ DOMAIN st.requests = {}
  <2>1. <<>> \in Seq({}) /\ Len(<<>>) = 0 /\ DOMAIN <<>> = {}
    OBVIOUS
  <2> QED BY <1>1, <2>1 DEF IsLog
<1>3. \A T : Indexes(log, T) = {}
  BY <1>2 DEF Indexes
<1>4. ASSUME NEW T PROVE Of(log, T) = <<>>
  <2>1. PICK f : Picks(f, log, {}) /\ Those(log, {}) = f[Len(log)]
    BY <1>2, ThoseIs
  <2>2. Those(log, {}) = <<>>
    BY <1>2, <2>1 DEF Picks
  <2> QED BY <1>3, <2>2 DEF Of
<1>5. TalkTrue
  <2>1. Told(log) = <<>>
    BY <1>4 DEF Told, Lines
  <2>2. <<>> \in Seq(Line) /\ Len(<<>>) = 0
    OBVIOUS
  <2>3. PICK f : f[0] = EmptyPage /\ Entered(<<>>) = f[0]
    BY <2>2, EnteredIs
  <2>4. Entered(<<>>) = EmptyPage
    BY <2>3
  <2>5. Spokes(Parts(<<>>)) = <<>>
    <3>1. IsLog(<<>>) /\ DOMAIN <<>> = {}
      BY <1>1, <1>2
    <3>2. PICK g : Picks(g, <<>>, {}) /\ Those(<<>>, {}) = g[Len(<<>>)]
      BY <3>1, ThoseIs
    <3>3. Those(<<>>, {}) = <<>>
      BY <2>2, <3>2 DEF Picks
    <3>4. Parts(<<>>) = <<>>
      BY <3>1, <3>3 DEF Parts
    <3> QED BY <3>4 DEF Spokes
  <2>6. /\ EmptyPage.ledger = NoLedger /\ EmptyPage.entries = <<>>
        /\ NoLedger.contested = {}
    BY DEF EmptyPage, NoLedger
  <2>7. /\ Told(log) \in Seq(Line) /\ Spokes(Parts(Told(log))) = st.conv
        /\ Len(Entered(Told(log)).entries) = Len(st.conv)
        /\ Entered(Told(log)).ledger = st.ledger /\ st.ledger.contested = {}
    BY <1>1, <2>1, <2>2, <2>4, <2>5, <2>6, Zenon
  <2> QED BY <2>7 DEF TalkTrue
<1>6. BudgetTrue
  <2>1. GrantsTyped(log)
    BY <1>3 DEF GrantsTyped
  <2>2. grantedTurns(log) = 0
    BY <1>2, <2>1, GrantedIs
  <2> QED BY <1>1, <2>1, <2>2 DEF BudgetTrue
<1>7. VerdictTrue /\ StartedTrue
  BY <1>1, <1>3 DEF VerdictTrue, StartedTrue, startedTurns, Open, Active
<1>8. FailuresTrue
  <2>1. Occurs(st.turn, "failed") = {}
    BY <1>1 DEF Occurs, NoTurn
  <2>2. Len(Of(log, {"provider.failed"})) = 0
    BY <1>1, <1>2, <1>4
  <2> QED BY <2>1, <2>2, FS_EmptySet DEF FailuresTrue
<1>9. AnswersTrue
  BY <1>1 DEF AnswersTrue, Active
<1>10. RequestsTrue
  BY <1>2, <1>3 DEF RequestsTrue, Requested
<1> QED
  BY <1>5, <1>6, <1>7, <1>8, <1>9, <1>10 DEF ViewInv

LEMMA ViewStep == IInv /\ LogInv /\ ViewInv /\ [ReadNext]_rvars => ViewInv'
<1> SUFFICES ASSUME IInv, LogInv, ViewInv, [ReadNext]_rvars PROVE ViewInv'
  OBVIOUS
<1>1. CASE Logged
  BY <1>1, TalkTrueStep, BudgetStep, VerdictStep, StartedStep, FailuresStep, AnswersStep,
     RequestsStep DEF ViewInv, LogInv
<1>2. CASE st' = st /\ log' = log /\ plan' = plan
  <2>1. TalkTrue'
    BY <1>2 DEF ViewInv, TalkTrue, Facilitated
  <2>2. BudgetTrue' /\ VerdictTrue' /\ StartedTrue' /\ FailuresTrue'
    BY <1>2 DEF ViewInv, BudgetTrue, VerdictTrue, StartedTrue, FailuresTrue, Active
  <2>3. AnswersTrue' /\ RequestsTrue'
    BY <1>2 DEF ViewInv, AnswersTrue, RequestsTrue, Active, Answered
  <2> QED BY <2>1, <2>2, <2>3 DEF ViewInv
<1> QED
  BY <1>1, <1>2, StepIsLogged

LEMMA ViewKept == ReadSpec => []ViewInv
  BY ViewInit, ViewStep, EngineKept, LogKept, PTL DEF ReadSpec

\* The report that is shown, from its parts.
LEMMA ReportIs ==
  /\ BuildReport(log).validation = validationShown(log)
  /\ BuildReport(log).entries = publicTranscript(log).entries
  /\ BuildReport(log).ledger = publicTranscript(log).ledger
  /\ BuildReport(log).turns = participantTurnCount(log)
  /\ BuildReport(log).maxRounds = plan.turns + grantedTurns(log)
  /\ BuildReport(log).failures = Len(Of(log, {"provider.failed"}))
  /\ BuildReport(log).reducerAttempts =
       Cardinality({i \in DOMAIN Of(log, {"attempt.finished"}) :
                      Of(log, {"attempt.finished"})[i].actor = "reducer"})
<1>1. /\ LedgerView(log).failures = Of(log, {"provider.failed"})
      /\ LedgerView(log).attempts = Of(log, {"attempt.finished"})
  BY DEF LedgerView, Of
<1>2. reducerAttemptCount(LedgerView(log)) =
        Cardinality({i \in DOMAIN Of(log, {"attempt.finished"}) :
                       Of(log, {"attempt.finished"})[i].actor = "reducer"})
  BY <1>1 DEF reducerAttemptCount
<1> QED
  BY <1>1, <1>2 DEF BuildReport

\* The entries are those of the participants, and one for each child that
\* completed with the count of turns as its round.
LEMMA PageIs ==
  ASSUME Typed, IsLog(log), TalkTold, TalkTrue
  PROVE  /\ publicTranscript(log).ledger = Entered(Told(log)).ledger
         /\ st.conv # <<>> =>
              \A i \in DOMAIN publicTranscript(log).entries :
                 publicTranscript(log).entries[i].round >= 1
<1> DEFINE p == Entered(Told(log))
           S == {i \in Indexes(log, {"child.completed"}) : log[i].status = "completed"}
           kid == Those(log, S)
           n == participantTurnCount(log)
           entry(i) == [round |-> n, from |-> "child", text |-> kid[i].reply.text,
                        ledger |-> p.ledger]
           show == [i \in DOMAIN kid |-> entry(i)]
<1>1. Transcript(log) = Told(log)
  BY TranscriptIs
<1>2. publicTranscript(log) = [p EXCEPT !.entries = @ \o show]
  BY <1>1 DEF publicTranscript
<1>3. p \in Page
  BY EnteredIs DEF TalkTrue
<1>4. kid \in Seq({log[j] : j \in S \cap (1..Len(log))})
  BY ThoseIs
<1>5. n = Len(st.conv)
  BY CountIs
<1> HIDE DEF p, kid, n
<1>6. show \in Seq({entry(i) : i \in DOMAIN kid})
  <2> HIDE DEF entry
  <2> QED BY <1>4
<1>7. \A i \in DOMAIN show : show[i].round = n
  OBVIOUS
<1> HIDE DEF show
<1>8. /\ publicTranscript(log).entries = p.entries \o show
      /\ publicTranscript(log).ledger = p.ledger
  BY <1>2, <1>3 DEF Page
<1>9. ASSUME st.conv # <<>>, NEW i \in DOMAIN (p.entries \o show)
      PROVE  (p.entries \o show)[i].round >= 1
  <2> DEFINE X == Entry \cup {entry(j) : j \in DOMAIN kid}
             a == p.entries
  <2>1. a \in Seq(Entry) /\ a \in Seq(X) /\ show \in Seq(X)
    BY <1>3, <1>6 DEF Page
  <2> HIDE DEF X
  <2>2. n >= 1
    <3>1. st.conv \in Seq([actor : Actors, text : Text])
      BY Numbers
    <3>2. Len(st.conv) \in Nat /\ Len(st.conv) # 0
      BY <1>9, <3>1
    <3> QED BY <1>5, <3>2
  <2> HIDE DEF a
  <2>3. \A j \in DOMAIN a : a[j].round >= 1
    <3>1. \A j \in DOMAIN a : a[j] \in Entry
      BY <2>1
    <3> QED BY <3>1 DEF Entry
  <2>4. i \in DOMAIN a \/ (i - Len(a) \in DOMAIN show /\ (a \o show)[i] = show[i - Len(a)])
    BY <1>9, <2>1 DEF a
  <2>5. i \in DOMAIN a => (a \o show)[i] = a[i]
    BY <2>1
  <2> QED BY <1>7, <2>2, <2>3, <2>4, <2>5 DEF a
<1> QED
  BY <1>8, <1>9 DEF p

\* What the reports, the graph and the transcript say of a session, whatever
\* crashes, cancellations, retries and grants came before, is what the engine
\* makes of the same log.
THEOREM ViewsAreTrue == ReadSpec => []ViewsAgree
<1>1. ASSUME IInv, LogInv, ViewInv PROVE ViewsAgree
  <2> USE DEF LogInv, ViewInv
  <2> DEFINE r == BuildReport(log)
             g == Graph(log)
             talk == Transcript(log)
             said == Those(talk, {i \in DOMAIN talk : talk[i].role = "participant"})
  <2>1. /\ Typed /\ Schedule /\ Result /\ Budget(st) \in Nat /\ Len(st.conv) \in Nat
    BY <1>1, Numbers DEF IInv
  <2>2. (endOf(log) # 0) <=> Finished
    BY <1>1 DEF EndTold
  <2>3. st.conv = [i \in DOMAIN said |-> [actor |-> said[i].actor, text |-> said[i].reply.text]]
    <3>1. talk = Told(log)
      BY <1>1, TranscriptIs
    <3>2. said = Parts(Told(log))
      BY <3>1 DEF Parts
    <3>3. Spokes(said) = [i \in DOMAIN said |-> [actor |-> said[i].actor, text |-> said[i].reply.text]]
      BY DEF Spokes, Spoke
    <3> QED BY <1>1, <3>2, <3>3 DEF TalkTrue
  <2>4. r.maxRounds = Budget(st) /\ r.turns <= r.maxRounds
    <3>1. r.maxRounds = Budget(st)
      BY <1>1, ReportIs DEF BudgetTrue, Budget
    <3>2. r.turns = Len(st.conv)
      BY <1>1, ReportIs, CountIs
    <3> QED BY <2>1, <3>1, <3>2 DEF Schedule
  <2>5. g.started = IF Active(st) THEN {turnKey(st.turn)} ELSE {}
    BY <1>1 DEF StartedTrue, Graph
  <2>6. pendingChildren(log) = Undecided /\ DOMAIN proposals(log) = DOMAIN st.requests
    BY <1>1 DEF RequestsTrue, Requested, proposals
  <2>7. \A id \in Unfinished : proposal(log, id) = "admitted"
    BY <1>1 DEF RequestsTrue, NodeTrue, Unfinished, Admitted, Completed, proposal
  <2>8. \A id \in Failures : g.children[id] = "failed" /\ proposal(log, id) = "failed"
    <3>1. \A id \in Failures : id \in DOMAIN st.requests /\ childNode(log, id) = "failed"
      BY <1>1 DEF RequestsTrue, NodeTrue, Failures
    <3>2. \A id \in DOMAIN st.requests : g.children[id] = childNode(log, id)
      BY <1>1 DEF RequestsTrue, Requested, Graph
    <3> QED BY <3>1, <3>2 DEF proposal
  <2>9. Cardinality(Occurs(st.turn, "failed")) <= r.failures
    BY <1>1, ReportIs DEF FailuresTrue
  <2>10. ~Facilitated => r.ledger = st.ledger
    BY <1>1, <2>1, ReportIs, PageIs DEF TalkTrue
  <2>11. st.terminal = "completed" => r.validation = "validated"
    BY <1>1, <2>1, ReportIs DEF VerdictTrue, Result, validationShown
  <2>12. st.result.by = "reducer" => r.reducerAttempts > 0
    <3> DEFINE q == Of(log, {"attempt.finished"})
               N == {i \in DOMAIN q : q[i].actor = "reducer"}
    <3>1. IsLog(q)
      BY <1>1, OfAppend
    <3>2. Len(q) \in Nat /\ DOMAIN q = 1..Len(q)
      BY <3>1, Appending
    <3>3. IsFiniteSet(1..Len(q))
      BY <3>2, FS_Interval
    <3>4. IsFiniteSet(N) /\ Cardinality(N) \in Nat
      BY <3>2, <3>3, FS_Subset, FS_CardinalityType
    <3>5. st.result.by = "reducer" => N # {}
      BY <1>1 DEF AnswersTrue, Finishes
    <3>6. N # {} => Cardinality(N) > 0
      <4> HIDE DEF N
      <4> QED BY <3>4, FS_EmptySet
    <3>7. r.reducerAttempts = Cardinality(N)
      BY ReportIs
    <3> QED BY <3>5, <3>6, <3>7
  <2>13. st.conv # <<>> => ValidReport(r)
    BY <1>1, <2>1, ReportIs, PageIs DEF ValidReport
  <2> HIDE DEF r, g, said
  <2> QED
    BY <2>2, <2>3, <2>4, <2>5, <2>6, <2>7, <2>8, <2>9, <2>10, <2>11, <2>12, <2>13
       DEF ViewsAgree, r, g, said
<1> QED
  BY <1>1, EngineKept, LogKept, ViewKept, PTL
=============================================================================
