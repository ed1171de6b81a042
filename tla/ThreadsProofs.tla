--------------------------- MODULE ThreadsProofs ---------------------------
(***************************************************************************)
(* Proofs about Threads, for any number of requests, customers, accounts,  *)
(* creates, runs and faults.                                               *)
(*                                                                         *)
(* A create commits its session row before its thread row, with the        *)
(* session's id in a local in between; IInv says that this id is the       *)
(* request's own until then.  OnlyInScope is about the last step alone,    *)
(* but needs OwnSession: a route checks a customer's name in the thread    *)
(* row and then works on a session row.  RaceInv adds that a thread given  *)
(* up while nobody was on it has no checkpoint and never gets one.         *)
(***************************************************************************)
EXTENDS Threads, TLAPS

-----------------------------------------------------------------------------
(* The inductive invariant. *)

\* The session a create has stored and not bound to a thread yet.
HasSession(r) ==
  /\ req[r].id \in DOMAIN sessions
  /\ sessions[req[r].id].customer = req[r].customer
  /\ \A t \in DOMAIN threads : threads[t].session # req[r].id

InHand(r) ==
  /\ req[r].pc \in {"mark", "load", "run"} => req[r].id \in DOMAIN threads
  /\ req[r].pc \in {"mark", "session", "bind"} => req[r].customer \in Customers
  /\ req[r].pc = "bind" => HasSession(r)

\* No two creates bind the same session.
NotShared ==
  \A r, q \in Requests :
    req[r].pc = "bind" /\ req[q].pc = "bind" /\ req[r].id = req[q].id => r = q

Bound == (\A r \in Requests : InHand(r)) /\ NotShared

IInv == TypeOK /\ OwnSession /\ Bound /\ OnlyInScope /\ OrphanOnlyByFault

-----------------------------------------------------------------------------
(* Who asks and what is noted of it. *)

\* A caller is an account's principal, or the local operator of a development
\* server.
LEMMA CallerKnown ==
  ASSUME NEW who \in Callers
  PROVE  who \in Who /\ (who.subject = Nobody => IsDevelopment(env))
<1>1. ASSUME NEW a \in Accounts, NEW token, token.subject = a, token # NoToken,
             who \in PrincipalsFor(token, Account, env)
      PROVE  who \in Who /\ who.subject # Nobody
  <2>1. PICK b \in Accounts : who = PrincipalOf(b, Account[b])
    BY <1>1, AccountAssumption DEF PrincipalsFor
  <2>2. Account[b].role \in Roles /\ Account[b].customer \in Customers \cup {Nobody}
    BY AccountAssumption
  <2> QED  BY <2>1, <2>2, AccountAssumption DEF PrincipalOf, Who, Principals
<1>2. ASSUME who \in PrincipalsFor(NoToken, Account, env)
      PROVE  who \in Who /\ IsDevelopment(env)
  <2>1. who = LocalOperator /\ IsDevelopment(env)
    BY <1>2 DEF PrincipalsFor
  <2> QED  BY <2>1 DEF LocalOperator, Who, Principals, Roles
<1>3. CASE \E a \in Accounts :
             who \in PrincipalsFor([subject |-> a, expired |-> FALSE], Account, env)
  <2>1. PICK a \in Accounts :
          who \in PrincipalsFor([subject |-> a, expired |-> FALSE], Account, env)
    BY <1>3
  <2> DEFINE token == [subject |-> a, expired |-> FALSE]
  <2>2. token.subject = a /\ token # NoToken
    BY AccountAssumption DEF NoToken
  <2> HIDE DEF token
  <2>3. who \in PrincipalsFor(token, Account, env)
    BY <2>1 DEF token
  <2> QED  BY <1>1, <2>2, <2>3
<1> QED  BY <1>2, <1>3 DEF Callers

LEMMA DeedTyped ==
  ASSUME TypeOK, NEW who \in Callers, NEW t \in DOMAIN threads,
         NEW what \in {"reuse", "view", "debug", "reply", "message", "event", "decision"}
  PROVE  /\ Done(who, what, t) \in Deed
         /\ Done(who, what, t).by = who /\ Done(who, what, t).what = what
         /\ Done(who, what, t).thread = t
<1>1. t \in Nat
  BY DEF TypeOK
<1>2. who \in Who
  BY CallerKnown
<1> QED  BY <1>1, <1>2 DEF Done, Deed

\* Access to the customer of a thread is access to the session behind it.
LEMMA InScope ==
  ASSUME TypeOK, OwnSession, NEW who \in Callers, NEW t \in DOMAIN threads,
         NEW what \in {"reuse", "view", "debug", "reply", "message", "event", "decision"},
         HasAccess(who, threads[t].customer),
         what \in {"event", "debug"} => IsOperator(who),
         what = "debug" => IsDevelopment(env),
         deed' = Done(who, what, t),
         sessions' = sessions, threads' = threads, env' = env
  PROVE  deed' \in Deed /\ OnlyInScope'
<1>1. /\ deed' \in Deed
      /\ deed'.by = who /\ deed'.what = what /\ deed'.thread = t
  BY DeedTyped
<1>2. sessions[threads[t].session].customer = threads[t].customer
  BY DEF OwnSession
<1>3. who.subject = Nobody => IsDevelopment(env)
  BY CallerKnown
<1> QED  BY <1>1, <1>2, <1>3 DEF OnlyInScope

LEMMA NothingShown ==
  ASSUME deed' = NoDeed PROVE OnlyInScope'
  BY DEF OnlyInScope

-----------------------------------------------------------------------------
(* Steps that leave the rows alone. *)

LEMMA RowsAlone ==
  ASSUME IInv, TypeOK', OnlyInScope', NEW r \in Requests,
         sessions' = sessions, threads' = threads, faults' >= faults,
         \A q \in Requests : q # r => req'[q] = req[q],
         InHand(r)',
         req'[r].pc = "bind" => req'[r] = req[r],
         req[r].pc = "bind" => req'[r] = req[r] \/ faults' > 0
  PROVE  IInv'
<1>1. OwnSession'
  BY DEF IInv, OwnSession, ScopeOf
<1>2. Bound'
  <2>1. ASSUME NEW q \in Requests PROVE InHand(q)'
    BY DEF IInv, Bound, InHand, HasSession
  <2>2. NotShared'
    BY DEF IInv, Bound, NotShared
  <2> QED  BY <2>1, <2>2 DEF Bound
<1>3. OrphanOnlyByFault'
  <2>1. faults \in Nat /\ faults' \in Nat
    BY BoundsAssumption DEF IInv, TypeOK
  <2> QED  BY <2>1 DEF IInv, OrphanOnlyByFault
<1> QED  BY <1>1, <1>2, <1>3 DEF IInv

\* The same where not even the locals of a request change.
LEMMA OnlyShown ==
  ASSUME IInv, OnlyInScope', deed' \in Deed, creates' \in 0..MaxCreates,
         UNCHANGED <<env, sessions, threads, live, req, runs, faults>>
  PROVE  IInv'
<1>1. TypeOK'
  BY DEF IInv, TypeOK
<1> QED
  BY <1>1 DEF IInv, OwnSession, ScopeOf, Bound, InHand, HasSession, NotShared, OrphanOnlyByFault

LEMMA InvInit == Init => IInv
<1> SUFFICES ASSUME Init PROVE IInv
  OBVIOUS
<1>1. TypeOK
  <2>1. req \in [Requests -> Locals]
    BY DEF Init, Idle, Locals, PCs, None
  <2>2. creates \in 0..MaxCreates /\ runs \in 0..MaxRuns /\ faults \in 0..MaxFaults
    BY BoundsAssumption DEF Init
  <2>3. sessions \in Seq(SessionRow) /\ threads \in Seq(ThreadRow) /\ live \subseteq DOMAIN threads
    BY DEF Init
  <2> QED  BY <2>1, <2>2, <2>3 DEF Init, TypeOK
<1>2. OwnSession /\ Bound /\ OnlyInScope /\ OrphanOnlyByFault
  BY DEF Init, OwnSession, Bound, InHand, NotShared, OnlyInScope, OrphanOnlyByFault, Idle
<1> QED  BY <1>1, <1>2 DEF IInv

-----------------------------------------------------------------------------
(* Every step keeps the invariant. *)

\* MarkStale rewrites a thread row, but not what it belongs to.
LEMMA MarkStaleSafe ==
  ASSUME IInv, NEW r \in Requests, MarkStale(r)
  PROVE  IInv'
<1> DEFINE i == req[r].id
           row == [threads[i] EXCEPT !.status = "stale",
                                     !.raced = @ \/ InUse(i) \/ i \in live]
<1>1. i \in DOMAIN threads /\ threads[i] \in ThreadRow /\ req[r] \in Locals
  BY DEF IInv, TypeOK, Bound, InHand, MarkStale
<1>2. /\ row \in ThreadRow
      /\ row.customer = threads[i].customer /\ row.session = threads[i].session
      /\ row.scope = threads[i].scope
  <2> DEFINE late == threads[i].raced \/ InUse(i) \/ i \in live
  <2>1. late \in BOOLEAN
    OBVIOUS
  <2>2. row = [threads[i] EXCEPT !.status = "stale", !.raced = late]
    OBVIOUS
  <2> HIDE DEF late, i
  <2> QED  BY <1>1, <2>1, <2>2 DEF ThreadRow
<1>3. threads' = [threads EXCEPT ![i] = row]
  BY <1>1 DEF MarkStale
<1> HIDE DEF row, i
<1>4. /\ threads' \in Seq(ThreadRow) /\ DOMAIN threads' = DOMAIN threads
      /\ \A t \in DOMAIN threads :
           /\ threads'[t].customer = threads[t].customer
           /\ threads'[t].session = threads[t].session
           /\ threads'[t].scope = threads[t].scope
  BY <1>1, <1>2, <1>3 DEF IInv, TypeOK
<1>5. /\ req' \in [Requests -> Locals]
      /\ req'[r].pc = "session" /\ req'[r].customer = req[r].customer
      /\ req[r].pc = "mark"
      /\ \A q \in Requests : q # r => req'[q] = req[q]
  BY <1>1 DEF MarkStale, IInv, TypeOK, Locals, PCs, None
<1>6. TypeOK'
  BY <1>4, <1>5 DEF IInv, TypeOK, MarkStale
<1>7. sessions' = sessions /\ faults' = faults /\ deed' = NoDeed
  BY DEF MarkStale
<1>8. OwnSession'
  BY <1>4, <1>7 DEF IInv, OwnSession, ScopeOf
<1>9. Bound'
  BY <1>4, <1>5, <1>7 DEF IInv, Bound, InHand, HasSession, NotShared
<1>10. OnlyInScope'
  BY <1>7, NothingShown
<1>11. OrphanOnlyByFault'
  BY <1>4, <1>5, <1>7 DEF IInv, OrphanOnlyByFault
<1> QED  BY <1>6, <1>8, <1>9, <1>10, <1>11 DEF IInv

\* CommitSession: the new row is nobody else's.
LEMMA CommitSessionSafe ==
  ASSUME IInv, NEW r \in Requests, CommitSession(r)
  PROVE  IInv'
<1> DEFINE new == Len(sessions) + 1
           row == [customer |-> req[r].customer, waiting |-> FALSE]
<1>1. row \in SessionRow /\ req[r] \in Locals /\ req[r].pc = "session"
  BY DEF IInv, TypeOK, Bound, InHand, CommitSession, SessionRow
<1>2. sessions' = Append(sessions, row) /\ row.customer = req[r].customer
  BY DEF CommitSession
<1> HIDE DEF row
<1>3. /\ sessions' \in Seq(SessionRow) /\ new \in Nat
      /\ new \notin DOMAIN sessions /\ DOMAIN sessions' = DOMAIN sessions \cup {new}
      /\ sessions'[new] = row
      /\ \A s \in DOMAIN sessions : sessions'[s] = sessions[s]
  BY <1>1, <1>2 DEF IInv, TypeOK
<1>4. /\ req' \in [Requests -> Locals]
      /\ req'[r].pc = "bind" /\ req'[r].customer = req[r].customer /\ req'[r].id = new
      /\ \A q \in Requests : q # r => req'[q] = req[q]
  BY <1>1, <1>3 DEF CommitSession, IInv, TypeOK, Locals, PCs
<1> HIDE DEF new
<1>5. TypeOK'
  BY <1>3, <1>4 DEF IInv, TypeOK, CommitSession
<1>6. OwnSession'
  BY <1>3 DEF IInv, OwnSession, ScopeOf, CommitSession
<1>7. \A t \in DOMAIN threads : threads[t].session # new
  BY <1>3 DEF IInv, OwnSession
<1>8. Bound'
  <2>1. ASSUME NEW q \in Requests PROVE InHand(q)'
    BY <1>1, <1>2, <1>3, <1>4, <1>7 DEF IInv, Bound, InHand, HasSession, CommitSession
  <2>2. NotShared'
    BY <1>3, <1>4 DEF IInv, Bound, InHand, HasSession, NotShared
  <2> QED  BY <2>1, <2>2 DEF Bound
<1>9. OnlyInScope'
  BY NothingShown DEF CommitSession
<1>10. OrphanOnlyByFault'
  BY <1>1, <1>3, <1>4 DEF IInv, OrphanOnlyByFault, CommitSession
<1> QED  BY <1>5, <1>6, <1>8, <1>9, <1>10 DEF IInv

\* CommitThread: the thread gets the session its own request stored.
LEMMA CommitThreadSafe ==
  ASSUME IInv, NEW r \in Requests, CommitThread(r)
  PROVE  IInv'
<1> DEFINE new == Len(threads) + 1
           row == NewThread(req[r].customer, req[r].id, new)
<1>1. req[r] \in Locals /\ req[r].pc = "bind" /\ req[r].customer \in Customers /\ HasSession(r)
  BY DEF IInv, TypeOK, Bound, InHand, CommitThread
<1>2. /\ new \in Nat /\ row \in ThreadRow
      /\ row.customer = req[r].customer /\ row.session = req[r].id
      /\ row.scope = [customer |-> req[r].customer, session |-> req[r].id, thread |-> new]
  BY <1>1 DEF NewThread, ThreadRow, Locals, IInv, TypeOK
<1>3. threads' = Append(threads, row)
  BY DEF CommitThread
<1> HIDE DEF row
<1>4. /\ threads' \in Seq(ThreadRow)
      /\ new \notin DOMAIN threads /\ DOMAIN threads' = DOMAIN threads \cup {new}
      /\ threads'[new] = row
      /\ \A t \in DOMAIN threads : threads'[t] = threads[t]
  BY <1>2, <1>3 DEF IInv, TypeOK
<1>5. /\ req' \in [Requests -> Locals] /\ req'[r].pc = "idle"
      /\ \A q \in Requests : q # r => req'[q] = req[q]
  BY DEF CommitThread, IInv, TypeOK, Idle, Locals, PCs, None
<1> HIDE DEF new
<1>6. TypeOK'
  BY <1>4, <1>5 DEF IInv, TypeOK, CommitThread
<1>7. OwnSession'
  <2>1. ASSUME NEW t \in DOMAIN threads'
        PROVE  /\ threads'[t].session \in DOMAIN sessions
               /\ sessions[threads'[t].session].customer = threads'[t].customer
               /\ threads'[t].scope = ScopeOf(threads'[t], t)
    BY <1>1, <1>2, <1>4 DEF IInv, OwnSession, ScopeOf, HasSession
  <2>2. ASSUME NEW t \in DOMAIN threads', NEW u \in DOMAIN threads',
               threads'[t].session = threads'[u].session
        PROVE  t = u
    BY <1>1, <1>2, <1>4, <2>2 DEF IInv, OwnSession, HasSession
  <2>3. sessions' = sessions
    BY DEF CommitThread
  <2> QED  BY <2>1, <2>2, <2>3 DEF OwnSession, ScopeOf
<1>8. Bound'
  <2>1. ASSUME NEW q \in Requests PROVE InHand(q)'
    BY <1>1, <1>2, <1>4, <1>5 DEF IInv, Bound, InHand, HasSession, NotShared, CommitThread
  <2>2. NotShared'
    BY <1>5 DEF IInv, Bound, NotShared
  <2> QED  BY <2>1, <2>2 DEF Bound
<1>9. OnlyInScope'
  BY NothingShown DEF CommitThread
<1>10. OrphanOnlyByFault'
  BY <1>2, <1>4, <1>5 DEF IInv, OrphanOnlyByFault, CommitThread
<1> QED  BY <1>6, <1>7, <1>8, <1>9, <1>10 DEF IInv

\* EndRun changes what the session waits for, not whose it is.
LEMMA EndRunSafe ==
  ASSUME IInv, NEW r \in Requests, EndRun(r)
  PROVE  IInv'
<1> DEFINE s == threads[req[r].id].session
<1>1. PICK waiting \in BOOLEAN : sessions' = [sessions EXCEPT ![s].waiting = waiting]
  BY DEF EndRun
<1> DEFINE row == [sessions[s] EXCEPT !.waiting = waiting]
<1>2. s \in DOMAIN sessions /\ sessions[s] \in SessionRow
  BY DEF IInv, TypeOK, OwnSession, Bound, InHand, EndRun
<1> HIDE DEF s
<1>3. row \in SessionRow /\ row.customer = sessions[s].customer
  BY <1>2 DEF SessionRow
<1>4. sessions' = [sessions EXCEPT ![s] = row]
  BY <1>1
<1> HIDE DEF row
<1>5. /\ sessions' \in Seq(SessionRow) /\ DOMAIN sessions' = DOMAIN sessions
      /\ \A u \in DOMAIN sessions : sessions'[u].customer = sessions[u].customer
  BY <1>2, <1>3, <1>4 DEF IInv, TypeOK
<1>6. /\ req' \in [Requests -> Locals] /\ req'[r].pc = "idle" /\ req[r].pc = "run"
      /\ \A q \in Requests : q # r => req'[q] = req[q]
  BY DEF EndRun, IInv, TypeOK, Idle, Locals, PCs, None
<1>7. threads' = threads /\ faults' = faults /\ deed' = NoDeed
  BY DEF EndRun
<1>8. TypeOK'
  BY <1>5, <1>6 DEF IInv, TypeOK, EndRun
<1>9. OwnSession'
  BY <1>5, <1>7 DEF IInv, OwnSession, ScopeOf
<1>10. Bound'
  BY <1>5, <1>6, <1>7 DEF IInv, Bound, InHand, HasSession, NotShared
<1>11. OnlyInScope'
  BY <1>7, NothingShown
<1>12. OrphanOnlyByFault'
  BY <1>5, <1>6, <1>7 DEF IInv, OrphanOnlyByFault
<1> QED  BY <1>8, <1>9, <1>10, <1>11, <1>12 DEF IInv

\* A request that lets a caller into the graph notes the thread it resolved.
LEMMA EnterGraphSafe ==
  ASSUME IInv, NEW r \in Requests, NEW who \in Callers, NEW t \in DOMAIN threads,
         NEW what \in {"event", "message", "decision"},
         what = "event" => IsOperator(who),
         EnterGraph(r, who, t, what)
  PROVE  IInv'
<1>1. HasAccess(who, threads[t].customer)
  BY DEF EnterGraph, Resolves
<1>2. deed' \in Deed /\ OnlyInScope'
  BY <1>1, InScope DEF IInv, EnterGraph
<1> DEFINE decision == what = "decision"
           new == [pc |-> "load", customer |-> Nobody, id |-> t, decision |-> decision]
<1>3. decision \in BOOLEAN /\ t \in Nat
  BY DEF IInv, TypeOK
<1>4. req' = [req EXCEPT ![r] = new] /\ req[r].pc = "idle"
  BY DEF EnterGraph
<1> HIDE DEF decision
<1>5. new \in Locals /\ new.pc = "load" /\ new.id = t
  BY <1>3 DEF Locals, PCs
<1> HIDE DEF new
<1>6. /\ req' \in [Requests -> Locals] /\ req'[r] = new
      /\ \A q \in Requests : q # r => req'[q] = req[q]
  BY <1>4, <1>5 DEF IInv, TypeOK
<1>7. /\ sessions' = sessions /\ threads' = threads /\ live' = live /\ env' = env
      /\ creates' = creates /\ faults' = faults /\ runs' \in 0..MaxRuns
  BY BoundsAssumption DEF EnterGraph, IInv, TypeOK
<1>8. TypeOK'
  BY <1>2, <1>6, <1>7 DEF IInv, TypeOK
<1>9. InHand(r)' /\ faults' >= faults
  BY <1>5, <1>6, <1>7, BoundsAssumption DEF InHand, IInv, TypeOK
<1> QED  BY <1>2, <1>4, <1>5, <1>6, <1>7, <1>8, <1>9, RowsAlone

LEMMA InvNext == IInv /\ [Next]_vars => IInv'
<1> SUFFICES ASSUME IInv, [Next]_vars PROVE IInv'
  OBVIOUS
<1>0. TypeOK /\ OwnSession /\ Bound
  BY DEF IInv
<1>1. ASSUME NEW r \in Requests, NEW who \in Callers, NEW customer \in Customers,
             Reuse(r, who, customer)
      PROVE  IInv'
  <2>1. PICK t \in ActiveOf(customer) : deed' = Done(who, "reuse", t)
    BY <1>1 DEF Reuse
  <2>2. t \in DOMAIN threads /\ HasAccess(who, threads[t].customer)
    BY <1>1, <2>1 DEF ActiveOf, Reuse, MayCreate
  <2>3. deed' \in Deed /\ OnlyInScope'
    BY <1>0, <1>1, <2>1, <2>2, InScope DEF Reuse
  <2>4. creates' \in 0..MaxCreates
    BY <1>0, <1>1, BoundsAssumption DEF Reuse, MayCreate, TypeOK
  <2> QED  BY <1>1, <2>3, <2>4, OnlyShown DEF Reuse
<1>2. ASSUME NEW r \in Requests, NEW who \in Callers, NEW customer \in Customers,
             FindStale(r, who, customer) \/ StartNew(r, who, customer)
      PROVE  IInv'
  <2>1. PICK place \in {"mark", "session"}, id \in Nat :
          /\ req' = [req EXCEPT ![r] = [pc |-> place, customer |-> customer,
                                        id |-> id, decision |-> FALSE]]
          /\ place = "mark" => id \in DOMAIN threads
    BY <1>0, <1>2 DEF FindStale, StartNew, ActiveOf, None, TypeOK
  <2>2. /\ req' \in [Requests -> Locals] /\ req'[r].pc = place
        /\ req'[r].customer = customer /\ req'[r].id = id
        /\ \A q \in Requests : q # r => req'[q] = req[q]
    BY <1>0, <2>1 DEF TypeOK, Locals, PCs
  <2>3. /\ creates' \in 0..MaxCreates /\ deed' = NoDeed /\ req[r].pc = "idle"
        /\ UNCHANGED <<env, sessions, threads, live, runs, faults>>
    BY <1>0, <1>2, BoundsAssumption DEF FindStale, StartNew, MayCreate, TypeOK
  <2>4. TypeOK' /\ faults' >= faults
    BY <1>0, <2>2, <2>3, BoundsAssumption DEF TypeOK
  <2>5. OnlyInScope' /\ InHand(r)'
    BY <2>1, <2>2, <2>3, NothingShown DEF InHand
  <2> QED  BY <2>2, <2>3, <2>4, <2>5, RowsAlone
<1>3. ASSUME NEW r \in Requests, MarkStale(r) PROVE IInv'
  BY <1>3, MarkStaleSafe
<1>4. ASSUME NEW r \in Requests, CommitSession(r) PROVE IInv'
  BY <1>4, CommitSessionSafe
<1>5. ASSUME NEW r \in Requests, CommitThread(r) PROVE IInv'
  BY <1>5, CommitThreadSafe
<1>6. ASSUME NEW who \in Callers, NEW t \in DOMAIN threads,
             View(who, t) \/ Debug(who, t) \/ RecordUserMessage(who, t)
      PROVE  IInv'
  <2>1. PICK what \in {"view", "debug", "reply"} :
          /\ deed' = Done(who, what, t)
          /\ what = "debug" => IsOperator(who) /\ IsDevelopment(env)
    BY <1>6 DEF View, Debug, Read, RecordUserMessage
  <2>2. /\ UNCHANGED <<env, sessions, threads, live, req, creates, runs, faults>>
        /\ HasAccess(who, threads[t].customer)
    BY <1>6 DEF View, Debug, Read, RecordUserMessage, Resolves
  <2>3. deed' \in Deed /\ OnlyInScope'
    BY <1>0, <2>1, <2>2, InScope
  <2> QED  BY <1>0, <2>2, <2>3, OnlyShown DEF TypeOK
<1>7. ASSUME NEW r \in Requests, NEW who \in Callers, NEW t \in DOMAIN threads,
             PostEvent(r, who, t) \/ PostMessage(r, who, t) \/ PostDecision(r, who, t)
      PROVE  IInv'
  BY <1>7, EnterGraphSafe DEF PostEvent, PostMessage, PostDecision
<1>8. ASSUME NEW r \in Requests, LoadGraph(r) PROVE IInv'
  <2>1. /\ req' \in [Requests -> Locals] /\ req'[r].pc = "run" /\ req'[r].id = req[r].id
        /\ req[r].pc = "load"
        /\ \A q \in Requests : q # r => req'[q] = req[q]
    BY <1>0, <1>8 DEF LoadGraph, TypeOK, Locals, PCs
  <2>2. /\ req[r].id \in DOMAIN threads /\ live' = live \cup {req[r].id} /\ deed' = NoDeed
        /\ UNCHANGED <<env, sessions, threads, creates, runs, faults>>
    BY <1>0, <1>8 DEF LoadGraph, Bound, InHand
  <2>3. TypeOK' /\ faults' >= faults
    BY <1>0, <2>1, <2>2, BoundsAssumption DEF TypeOK
  <2>4. OnlyInScope' /\ InHand(r)'
    BY <2>1, <2>2, NothingShown DEF InHand
  <2> QED  BY <2>1, <2>2, <2>3, <2>4, RowsAlone
<1>9. ASSUME NEW r \in Requests, LoadNothing(r) \/ BreakOff(r) PROVE IInv'
  <2>1. /\ req' \in [Requests -> Locals] /\ req'[r].pc = "idle"
        /\ \A q \in Requests : q # r => req'[q] = req[q]
    <3>1. Idle \in Locals /\ Idle.pc = "idle"
      BY DEF Idle, Locals, PCs, None
    <3>2. req' = [req EXCEPT ![r] = Idle]
      BY <1>9 DEF LoadNothing, BreakOff
    <3> QED  BY <1>0, <3>1, <3>2 DEF TypeOK
  <2>2. /\ faults' \in 0..MaxFaults /\ faults' >= faults
        /\ req[r].pc = "bind" => faults' > 0
    BY <1>0, <1>9, BoundsAssumption DEF LoadNothing, BreakOff, TypeOK
  <2>3. deed' = NoDeed /\ UNCHANGED <<env, sessions, threads, live, creates, runs>>
    BY <1>9 DEF LoadNothing, BreakOff
  <2>4. TypeOK'
    BY <1>0, <2>1, <2>2, <2>3 DEF TypeOK
  <2>5. OnlyInScope' /\ InHand(r)'
    BY <2>1, <2>3, NothingShown DEF InHand
  <2> QED  BY <2>1, <2>2, <2>3, <2>4, <2>5, RowsAlone
<1>10. ASSUME NEW r \in Requests, EndRun(r) PROVE IInv'
  BY <1>10, EndRunSafe
<1>11. CASE Restart
  <2>1. /\ req' \in [Requests -> Locals] /\ \A r \in Requests : req'[r].pc = "idle"
        /\ faults' \in 0..MaxFaults /\ faults' # 0
    BY <1>0, <1>11, BoundsAssumption DEF Restart, TypeOK, Idle, Locals, PCs, None
  <2>2. /\ live' = {} /\ deed' = NoDeed
        /\ UNCHANGED <<env, sessions, threads, creates, runs>>
    BY <1>11 DEF Restart
  <2>3. TypeOK'
    BY <1>0, <2>1, <2>2 DEF TypeOK
  <2>4. OwnSession' /\ OnlyInScope'
    BY <1>0, <2>2, NothingShown DEF OwnSession, ScopeOf
  <2>5. Bound' /\ OrphanOnlyByFault'
    BY <2>1, <2>2 DEF Bound, InHand, NotShared, OrphanOnlyByFault
  <2> QED  BY <2>3, <2>4, <2>5 DEF IInv
<1>12. CASE NoMoreRequests \/ UNCHANGED vars
  <2>1. UNCHANGED vars
    BY <1>12 DEF NoMoreRequests
  <2> QED
    BY <2>1 DEF vars, IInv, TypeOK, OwnSession, ScopeOf, Bound, InHand, HasSession, NotShared,
                OnlyInScope, OrphanOnlyByFault
<1> QED
  BY <1>1, <1>2, <1>3, <1>4, <1>5, <1>6, <1>7, <1>8, <1>9, <1>10, <1>11, <1>12
  DEF Next, CreateStep, ThreadStep, RequestStep

LEMMA InvCorrect == Spec => []IInv
  BY InvInit, InvNext, PTL DEF Spec

\* Every variable keeps its type.
THEOREM ThreadsTypeCorrect == Spec => []TypeOK
<1>1. IInv => TypeOK
  BY DEF IInv
<1> QED  BY <1>1, InvCorrect, PTL

\* However many creates interleave and break off, a thread, its session and its
\* scope are of one customer, and no two threads share a session.
THEOREM ThreadsOwnSessions == Spec => []OwnSession
<1>1. IInv => OwnSession
  BY DEF IInv
<1> QED  BY <1>1, InvCorrect, PTL

\* Nobody is shown or does anything on a session of a customer he has no access to,
\* whatever the accounts hold.
THEOREM NobodyBeyondScope == Spec => []OnlyInScope
<1>1. IInv => OnlyInScope
  BY DEF IInv
<1> QED  BY <1>1, InvCorrect, PTL

\* Without a fault every session row has its thread, or the create that is about
\* to store it.
THEOREM OrphansAreFaults == Spec => []OrphanOnlyByFault
<1>1. IInv => OrphanOnlyByFault
  BY DEF IInv
<1> QED  BY <1>1, InvCorrect, PTL

-----------------------------------------------------------------------------
(* What a create takes away. *)

\* A thread given up with nobody on it is never used again: no request resolves
\* it any more, and whoever had resolved it before would have been seen.
LeftAlone(t) ==
  threads[t].status = "stale" /\ ~threads[t].raced => t \notin live /\ ~InUse(t)

RaceInv == IInv /\ \A t \in DOMAIN threads : LeftAlone(t)

LEMMA RaceInit == Init => RaceInv
  BY InvInit DEF Init, RaceInv

\* A step that leaves the rows alone and puts nothing into use.
LEMMA NotUsed ==
  ASSUME RaceInv, threads' = threads, live' \subseteq live,
         \A q \in Requests : req'[q].pc \in {"load", "run"} =>
           req[q].pc \in {"load", "run"} /\ req'[q].id = req[q].id
  PROVE  \A t \in DOMAIN threads' : LeftAlone(t)'
  BY DEF RaceInv, LeftAlone, InUse

LEMMA RaceNext == RaceInv /\ [Next]_vars => RaceInv'
<1> SUFFICES ASSUME RaceInv, [Next]_vars PROVE \A t \in DOMAIN threads' : LeftAlone(t)'
  BY InvNext DEF RaceInv
<1>0. TypeOK /\ Bound /\ threads \in Seq(ThreadRow) /\ req \in [Requests -> Locals]
  BY DEF RaceInv, IInv, TypeOK
<1>1. ASSUME NEW r \in Requests, NEW who \in Callers, NEW customer \in Customers,
             CreateStep(r, who, customer)
      PROVE  \A t \in DOMAIN threads' : LeftAlone(t)'
  <2>1. /\ threads' = threads /\ live' = live
        /\ \A q \in Requests : req'[q] = req[q] \/ req'[q].pc \in {"mark", "session"}
    BY <1>0, <1>1 DEF CreateStep, Reuse, FindStale, StartNew
  <2> QED  BY <2>1, NotUsed
<1>2. ASSUME NEW who \in Callers, NEW t \in DOMAIN threads,
             View(who, t) \/ Debug(who, t) \/ RecordUserMessage(who, t)
      PROVE  \A u \in DOMAIN threads' : LeftAlone(u)'
  BY <1>2, NotUsed DEF View, Debug, Read, RecordUserMessage
<1>3. ASSUME NEW r \in Requests, NEW who \in Callers, NEW t \in DOMAIN threads,
             PostEvent(r, who, t) \/ PostMessage(r, who, t) \/ PostDecision(r, who, t)
      PROVE  \A u \in DOMAIN threads' : LeftAlone(u)'
  <2>1. /\ threads' = threads /\ live' = live /\ threads[t].status = "active"
        /\ req'[r].id = t /\ \A q \in Requests : q # r => req'[q] = req[q]
    BY <1>0, <1>3 DEF PostEvent, PostMessage, PostDecision, EnterGraph, Resolves
  <2> QED  BY <2>1 DEF RaceInv, LeftAlone, InUse
<1>4. ASSUME NEW r \in Requests, MarkStale(r)
      PROVE  \A t \in DOMAIN threads' : LeftAlone(t)'
  <2> DEFINE i == req[r].id
             late == threads[i].raced \/ InUse(i) \/ i \in live
  <2>1. i \in DOMAIN threads /\ threads[i] \in ThreadRow
    BY <1>0, <1>4 DEF Bound, InHand, MarkStale
  <2>2. threads' = [threads EXCEPT ![i].status = "stale", ![i].raced = late]
    BY <1>4 DEF MarkStale
  <2>3. ~late => i \notin live /\ ~InUse(i)
    OBVIOUS
  <2>4. /\ live' = live /\ req'[r].pc = "session"
        /\ \A q \in Requests : q # r => req'[q] = req[q]
    BY <1>0, <1>4 DEF MarkStale, Locals
  <2>5. \A t : InUse(t)' => InUse(t)
    BY <2>4 DEF InUse
  <2> HIDE DEF late
  <2>6. /\ DOMAIN threads' = DOMAIN threads
        /\ \A t \in DOMAIN threads : t # i => threads'[t] = threads[t]
        /\ threads'[i].raced = late
    BY <1>0, <2>1, <2>2 DEF ThreadRow
  <2> HIDE DEF i
  <2>7. ASSUME NEW t \in DOMAIN threads PROVE LeftAlone(t)'
    <3>1. CASE t = i
      BY <2>3, <2>4, <2>5, <2>6, <3>1 DEF LeftAlone
    <3>2. CASE t # i
      BY <2>4, <2>5, <2>6, <3>2 DEF RaceInv, LeftAlone
    <3> QED  BY <3>1, <3>2
  <2> QED  BY <2>6, <2>7
<1>5. ASSUME NEW r \in Requests, CommitThread(r)
      PROVE  \A t \in DOMAIN threads' : LeftAlone(t)'
  <2> DEFINE new == Len(threads) + 1
             row == NewThread(req[r].customer, req[r].id, new)
  <2>1. threads' = Append(threads, row) /\ row.status = "active"
    BY <1>5 DEF CommitThread, NewThread
  <2> HIDE DEF row
  <2>2. /\ DOMAIN threads' = DOMAIN threads \cup {new} /\ threads'[new] = row
        /\ \A t \in DOMAIN threads : threads'[t] = threads[t]
    BY <1>0, <2>1
  <2>3. live' = live /\ \A q \in Requests : req'[q] = req[q] \/ req'[q].pc = "idle"
    BY <1>0, <1>5 DEF CommitThread, Idle
  <2> QED  BY <2>1, <2>2, <2>3 DEF RaceInv, LeftAlone, InUse
<1>6. ASSUME NEW r \in Requests,
             CommitSession(r) \/ LoadNothing(r) \/ EndRun(r) \/ BreakOff(r)
      PROVE  \A t \in DOMAIN threads' : LeftAlone(t)'
  <2>1. /\ threads' = threads /\ live' = live
        /\ \A q \in Requests : req'[q] = req[q] \/ req'[q].pc \in {"idle", "bind"}
    BY <1>0, <1>6 DEF CommitSession, LoadNothing, EndRun, BreakOff, Idle, Locals
  <2> QED  BY <2>1, NotUsed
<1>7. ASSUME NEW r \in Requests, LoadGraph(r)
      PROVE  \A t \in DOMAIN threads' : LeftAlone(t)'
  <2>1. /\ threads' = threads /\ live' = live \cup {req[r].id} /\ InUse(req[r].id)
        /\ req[r].pc = "load" /\ req'[r].id = req[r].id
        /\ \A q \in Requests : q # r => req'[q] = req[q]
    BY <1>0, <1>7 DEF LoadGraph, Locals, InUse
  <2>2. \A t : InUse(t)' => InUse(t)
    BY <2>1 DEF InUse
  <2> QED  BY <2>1, <2>2 DEF RaceInv, LeftAlone
<1>8. CASE Restart
  <2>1. threads' = threads /\ live' = {} /\ \A q \in Requests : req'[q].pc = "idle"
    BY <1>8 DEF Restart, Idle
  <2> QED  BY <2>1, NotUsed
<1>9. CASE NoMoreRequests \/ UNCHANGED vars
  BY <1>9, NotUsed DEF NoMoreRequests, vars
<1> QED
  BY <1>1, <1>2, <1>3, <1>4, <1>5, <1>6, <1>7, <1>8, <1>9
  DEF Next, ThreadStep, RequestStep

\* An approval that can still be answered is lost to its customer only in a race:
\* a create had looked at the thread when it had no checkpoint, and gave it up
\* while a run that came in meanwhile was in progress or over.
THEOREM LostInRaces == Spec => []LostOnlyInRace
<1>1. RaceInv => LostOnlyInRace
  BY DEF RaceInv, IInv, TypeOK, LeftAlone, LostOnlyInRace
<1>2. RaceInv /\ [Next]_vars => RaceInv'
  BY RaceNext
<1> QED  BY <1>1, <1>2, RaceInit, PTL DEF Spec

=============================================================================
