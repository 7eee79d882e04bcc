------------------------- MODULE SubscriptionProofs -------------------------
(***************************************************************************)
(* NothingSkipped and AttemptedOrTold for any number of subscriptions,     *)
(* repositories, generations and faults.                                   *)
(*                                                                         *)
(* The mark of a subscription is safe because every number that may become *)
(* a mark is: the one a pass listed, the one its catch-up has reached, the *)
(* one in a patch it has sent and the one in a patch a dead controller     *)
(* left behind.  The times play no part in this, so their types are left   *)
(* out of the first invariant.                                             *)
(***************************************************************************)
EXTENDS Subscription, TLAPS, FiniteSetTheorems

\* Nearly all of it is first-order; the leaves about arithmetic or records name SMT.
USE Zenon

\* Generations 1 to n of repository r have reached the webhook of s.
Reached(s, r, n) == n \in Nat /\ 1 .. n \subseteq received[s][r]

\* A pass as far as the marks are concerned.
PassShape(p) ==
  /\ DOMAIN p = {"version", "now", "spent", "owed", "current", "delivered", "events", "patch"}
  /\ \A e \in p.owed : e.sub \in Subscriptions
  /\ p.current # None \/ p.patch # None => p.current.sub \in Subscriptions

Shape ==
  /\ DOMAIN status = Subscriptions
  /\ status = [s \in Subscriptions |-> status[s]]
  /\ \A s \in Subscriptions :
       /\ DOMAIN status[s] = {"delivered", "lastAttempt", "ready"}
       /\ status[s].delivered \in [Repositories -> Nat]
  /\ received \in [Subscriptions -> [Repositories -> SUBSET Nat]]
  /\ pass = [r \in Repositories |-> pass[r]]
  /\ \A p \in late : /\ DOMAIN p = {"sub", "repository", "now", "patch"}
                     /\ p.sub \in Subscriptions /\ p.repository \in Repositories

\* No event reached a webhook before its predecessors.
InOrder ==
  \A s \in Subscriptions, r \in Repositories :
    \A v \in received[s][r] : 1 .. v \subseteq received[s][r]

\* Every number of a pass of r that is on its way to becoming a mark.
PassMarks(p, r) ==
  /\ \A e \in p.owed : Reached(e.sub, r, e.mark)
  /\ p.current # None =>
       /\ Reached(p.current.sub, r, p.current.mark)
       /\ Reached(p.current.sub, r, p.delivered)
  /\ p.patch # None => Reached(p.current.sub, r, p.patch.delivered)

SafePass(p, r) == p = None \/ (PassShape(p) /\ PassMarks(p, r))

Marks ==
  /\ \A s \in Subscriptions, r \in Repositories : Reached(s, r, status[s].delivered[r])
  /\ \A r \in Repositories : SafePass(pass[r], r)
  /\ \A p \in late : Reached(p.sub, p.repository, p.patch.delivered)

IInv == Shape /\ InOrder /\ Marks

-----------------------------------------------------------------------------
\* Before anything happens every mark is 0 and nothing was received.
LEMMA InitMarks == Init => IInv
  BY SMT DEF Init, IInv, Shape, InOrder, Marks, Reached, Subscriptions, SafePass

\* Steps of a pass that only change what the pass knows keep every mark safe: taking
\* and deferring subscriptions, running out of budget, ending, failing to patch.
LEMMA PassOnly ==
  ASSUME IInv, NEW r \in Repositories, NEW q,
         pass' = [pass EXCEPT ![r] = q], SafePass(q, r),
         UNCHANGED <<status, received, late>>
  PROVE  IInv'
<1>1. \A s, t, n : Reached(s, t, n)' <=> Reached(s, t, n)
  BY DEF Reached
<1>2. \A p, t : SafePass(p, t)' <=> SafePass(p, t)
  BY <1>1 DEF SafePass, PassShape, PassMarks
<1>3. Shape'
  BY DEF IInv, Shape
<1>4. Marks'
  BY <1>1, <1>2 DEF IInv, Shape, Marks
<1> QED
  BY <1>3, <1>4 DEF IInv, InOrder

\* An event that follows the ones its webhook has seen takes nothing away from any
\* mark, and the webhook has still seen events in order.
LEMMA ReceiveKeeps ==
  ASSUME IInv, NEW s \in Subscriptions, NEW r \in Repositories, NEW n, Reached(s, r, n),
         received' = [received EXCEPT ![s][r] = @ \cup {n + 1}]
  PROVE  /\ received' \in [Subscriptions -> [Repositories -> SUBSET Nat]]
         /\ InOrder'
         /\ Reached(s, r, n + 1)'
         /\ \A t \in Subscriptions, q \in Repositories : \A m : Reached(t, q, m) => Reached(t, q, m)'
<1>1. /\ n \in Nat
      /\ received \in [Subscriptions -> [Repositories -> SUBSET Nat]]
      /\ 1 .. n \subseteq received[s][r]
  BY DEF IInv, Shape, Reached
<1>2. received' \in [Subscriptions -> [Repositories -> SUBSET Nat]]
  BY SMT, <1>1
<1>3. \A t \in Subscriptions, q \in Repositories :
        received'[t][q] = IF t = s /\ q = r THEN received[s][r] \cup {n + 1} ELSE received[t][q]
  BY <1>1
<1>4. 1 .. n + 1 \subseteq received'[s][r]
  <2>1. \A k \in 1 .. n + 1 : k \in 1 .. n \/ k = n + 1
    BY SMT, <1>1
  <2> QED
    BY <1>1, <1>3, <2>1
<1>5. InOrder'
  BY SMT, <1>1, <1>3, <1>4 DEF IInv, InOrder
<1> QED
  BY <1>1, <1>2, <1>3, <1>4, <1>5 DEF Reached

\* A patch whose mark is safe leaves every mark safe when it lands, however late.
LEMMA LandingKeeps ==
  ASSUME IInv, NEW s \in Subscriptions, NEW r \in Repositories, NEW now, NEW patch,
         Reached(s, r, patch.delivered),
         status' = status_document(s, r, now, patch), received' = received
  PROVE  /\ DOMAIN status' = Subscriptions
         /\ status' = [t \in Subscriptions |-> status'[t]]
         /\ \A t \in Subscriptions :
              /\ DOMAIN status'[t] = {"delivered", "lastAttempt", "ready"}
              /\ status'[t].delivered \in [Repositories -> Nat]
         /\ \A t \in Subscriptions, q \in Repositories : Reached(t, q, status[t].delivered[q])'
<1>1. DOMAIN status' = Subscriptions /\ status' = [t \in Subscriptions |-> status'[t]]
  BY DEF IInv, Shape, status_document
<1>2. \A t \in Subscriptions : t # s => status'[t] = status[t]
  BY DEF IInv, Shape, status_document
<1>3. /\ DOMAIN status'[s] = {"delivered", "lastAttempt", "ready"}
      /\ status'[s].delivered = [status[s].delivered EXCEPT ![r] = patch.delivered]
  BY DEF IInv, Shape, status_document
<1>4. patch.delivered \in Nat
  BY DEF Reached
<1>5. \A t \in Subscriptions : status'[t].delivered \in [Repositories -> Nat]
  <2>1. \A t \in Subscriptions : status[t].delivered \in [Repositories -> Nat]
    BY DEF IInv, Shape
  <2>2. status'[s].delivered \in [Repositories -> Nat]
    BY <1>3, <1>4, <2>1
  <2> QED
    BY <1>2, <2>1, <2>2
<1>6. \A t \in Subscriptions, q \in Repositories :
        status'[t].delivered[q] =
          IF t = s /\ q = r THEN patch.delivered ELSE status[t].delivered[q]
  BY SMT, <1>2, <1>3 DEF IInv, Shape
<1>7. \A t \in Subscriptions, q \in Repositories : Reached(t, q, status[t].delivered[q])'
  BY <1>6 DEF IInv, Marks, Reached
<1> QED
  BY <1>1, <1>2, <1>3, <1>5, <1>7 DEF IInv, Shape

\* A pass that takes a subscription it listed knows only safe marks afterwards.
LEMMA TakeSafe ==
  ASSUME IInv, NEW r \in Repositories, pass[r] # None, NEW e \in pass[r].owed,
         NEW patch, patch = None \/ patch.delivered = e.mark,
         Take(r, e, patch),
         UNCHANGED <<status, received, late>>
  PROVE  IInv'
<1> DEFINE q == [pass[r] EXCEPT !.owed = @ \ {e}, !.current = e, !.delivered = e.mark,
                                !.events = 0, !.patch = patch]
<1>1. PassShape(pass[r]) /\ PassMarks(pass[r], r)
  BY DEF IInv, Marks, SafePass
<1>2. /\ DOMAIN q = DOMAIN pass[r] /\ q.owed = pass[r].owed \ {e}
      /\ q.current = e /\ q.delivered = e.mark /\ q.patch = patch
  BY <1>1 DEF PassShape
<1>3. \A f \in pass[r].owed : f.sub \in Subscriptions /\ Reached(f.sub, r, f.mark)
  BY <1>1 DEF PassShape, PassMarks
<1>4. e \in pass[r].owed /\ (patch # None => patch.delivered = e.mark)
  OBVIOUS
<1>5. PassShape(q)
  <2>1. DOMAIN q = {"version", "now", "spent", "owed", "current", "delivered", "events", "patch"}
    BY <1>1, <1>2 DEF PassShape
  <2> HIDE DEF q
  <2> QED
    BY <1>2, <1>3, <1>4, <2>1 DEF PassShape
<1>6. pass' = [pass EXCEPT ![r] = q]
  BY DEF Take
<1> HIDE DEF q
<1>7. PassMarks(q, r)
  BY <1>2, <1>3, <1>4 DEF PassMarks
<1> QED
  BY <1>5, <1>6, <1>7, PassOnly DEF SafePass

\* A pass that is done with its current subscription knows only safe marks.
LEMMA RestSafe ==
  ASSUME IInv, NEW r \in Repositories, pass[r] # None, NEW rest \in SUBSET pass[r].owed
  PROVE  SafePass(Rest(r, rest), r)
<1> DEFINE q == [pass[r] EXCEPT !.owed = rest, !.current = None, !.delivered = 0, !.events = 0,
                                !.patch = None]
<1>1. PassShape(pass[r]) /\ PassMarks(pass[r], r)
  BY DEF IInv, Marks, SafePass
<1>2. DOMAIN q = DOMAIN pass[r] /\ q.owed = rest /\ q.current = None /\ q.patch = None
  BY <1>1 DEF PassShape
<1>3. Rest(r, rest) = None \/ Rest(r, rest) = q
  BY DEF Rest
<1> HIDE DEF q
<1> QED
  BY <1>1, <1>2, <1>3 DEF SafePass, PassShape, PassMarks

\* A patch about the current subscription with a safe mark keeps the invariant.
LEMMA RecordSafe ==
  ASSUME IInv, NEW r \in Repositories, Posting(r), NEW n, NEW reason,
         Reached(pass[r].current.sub, r, n),
         record(r, n, reason),
         UNCHANGED <<status, received, late>>
  PROVE  IInv'
<1> DEFINE patch == [delivered |-> n, ready |-> reason]
           q == [pass[r] EXCEPT !.patch = patch]
<1>1. PassShape(pass[r]) /\ PassMarks(pass[r], r) /\ pass[r].current # None
  BY DEF IInv, Marks, SafePass, Posting
<1>2. /\ DOMAIN q = DOMAIN pass[r] /\ q.owed = pass[r].owed /\ q.current = pass[r].current
      /\ q.delivered = pass[r].delivered /\ q.patch = patch
  BY <1>1 DEF PassShape
<1>3. pass' = [pass EXCEPT ![r] = q]
  BY DEF record
<1>4. patch.delivered = n
  OBVIOUS
<1> HIDE DEF q, patch
<1>5. SafePass(q, r)
  BY <1>1, <1>2, <1>4 DEF SafePass, PassShape, PassMarks
<1> QED
  BY <1>3, <1>5, PassOnly

\* A generation is published: no pass of its repository is running.
LEMMA PublishStep ==
  ASSUME IInv, NEW r \in Repositories, Publish(r)
  PROVE  IInv'
  BY DEF Publish, IInv, Shape, InOrder, Marks, SafePass, PassShape, PassMarks, Reached

\* The budget runs out.
LEMMA ExpireStep ==
  ASSUME IInv, NEW r \in Repositories, Expire(r)
  PROVE  IInv'
<1> DEFINE q == [pass[r] EXCEPT !.spent = TRUE]
<1>1. PassShape(pass[r]) /\ PassMarks(pass[r], r)
  BY DEF IInv, Marks, SafePass, Expire
<1>2. /\ DOMAIN q = DOMAIN pass[r] /\ q.owed = pass[r].owed /\ q.current = pass[r].current
      /\ q.delivered = pass[r].delivered /\ q.patch = pass[r].patch
  BY <1>1 DEF PassShape
<1>3. pass' = [pass EXCEPT ![r] = q] /\ UNCHANGED <<status, received, late>>
  BY DEF Expire
<1> HIDE DEF q
<1> QED
  BY <1>1, <1>2, <1>3, PassOnly DEF SafePass, PassShape, PassMarks

\* Taking, refusing and deferring subscriptions.
LEMMA ChooseStep ==
  ASSUME IInv, NEW r \in Repositories, Serve(r) \/ Refuse(r) \/ DeferRest(r)
  PROVE  IInv'
<1>1. CASE Serve(r)
  <2>1. PICK e \in pass[r].owed : Take(r, e, None)
    BY <1>1 DEF Serve, First
  <2> QED
    BY <1>1, <2>1, TakeSafe DEF Serve, Choosing
<1>2. CASE Refuse(r)
  <2>1. PICK e \in pass[r].owed : Take(r, e, [delivered |-> e.mark, ready |-> "DeliveryFailed"])
    BY <1>2 DEF Refuse, First
  <2> QED
    BY <1>2, <2>1, TakeSafe DEF Refuse, Choosing
<1>3. CASE DeferRest(r)
  <2>1. PICK e \in pass[r].owed :
          \/ pass' = [pass EXCEPT ![r] = Rest(r, pass[r].owed \ {e})]
          \/ Take(r, e, [delivered |-> e.mark, ready |-> "DeliveryDeferred"])
    BY <1>3 DEF DeferRest, First
  <2>2. pass[r] # None /\ UNCHANGED <<status, received, late>>
    BY <1>3 DEF DeferRest, Choosing
  <2>3. SafePass(Rest(r, pass[r].owed \ {e}), r)
    BY <2>2, RestSafe
  <2>4. CASE pass' = [pass EXCEPT ![r] = Rest(r, pass[r].owed \ {e})]
    BY <2>2, <2>3, <2>4, PassOnly
  <2>5. CASE Take(r, e, [delivered |-> e.mark, ready |-> "DeliveryDeferred"])
    BY <2>2, <2>5, TakeSafe
  <2> QED
    BY <2>1, <2>4, <2>5
<1> QED
  BY <1>1, <1>2, <1>3

\* The catch-up loop ends: what it recorded is what was acknowledged.
LEMMA ConcludeStep ==
  ASSUME IInv, NEW r \in Repositories, Conclude(r)
  PROVE  IInv'
<1>1. /\ pass[r] # None /\ Posting(r) /\ UNCHANGED <<status, received, late>>
      /\ Reached(pass[r].current.sub, r, pass[r].delivered)
      /\ Reached(pass[r].current.sub, r, pass[r].current.mark)
  BY DEF Conclude, Posting, IInv, Marks, SafePass, PassMarks
<1>2. SafePass(Rest(r, pass[r].owed), r)
  BY <1>1, RestSafe
<1>3. \/ record(r, pass[r].delivered, "Delivered")
      \/ record(r, pass[r].current.mark, "DeliveryDeferred")
      \/ pass' = [pass EXCEPT ![r] = Rest(r, pass[r].owed)]
  BY DEF Conclude
<1> QED
  BY <1>1, <1>2, <1>3, RecordSafe, PassOnly

\* Every mark that was safe before a POST is safe after it, and every pass with it.
LEMMA PostedSafe ==
  ASSUME IInv, NEW r \in Repositories, Posting(r), Receive(r)
  PROVE  /\ 1 .. pass[r].delivered + 1 \subseteq received'[pass[r].current.sub][r]
         /\ pass[r].delivered + 1 \in Nat
         /\ received' \in [Subscriptions -> [Repositories -> SUBSET Nat]]
         /\ InOrder'
         /\ \A t \in Subscriptions, q \in Repositories : \A m : Reached(t, q, m) => Reached(t, q, m)'
         /\ \A q \in Repositories : \A p : SafePass(p, q) => SafePass(p, q)'
<1>1. /\ pass[r].current.sub \in Subscriptions
      /\ Reached(pass[r].current.sub, r, pass[r].delivered)
  BY DEF Posting, IInv, Marks, SafePass, PassMarks, PassShape
<1>2. received' = [received EXCEPT ![pass[r].current.sub][r] = @ \cup {pass[r].delivered + 1}]
  BY DEF Receive
<1> DEFINE s == pass[r].current.sub
           n == pass[r].delivered
<1>3. s \in Subscriptions /\ Reached(s, r, n)
      /\ received' = [received EXCEPT ![s][r] = @ \cup {n + 1}]
  BY <1>1, <1>2
<1> HIDE DEF s, n
<1>4. /\ received' \in [Subscriptions -> [Repositories -> SUBSET Nat]]
      /\ InOrder'
      /\ n + 1 \in Nat /\ 1 .. n + 1 \subseteq received'[s][r]
      /\ \A t \in Subscriptions, q \in Repositories : \A m : Reached(t, q, m) => Reached(t, q, m)'
  BY <1>3, ReceiveKeeps DEF Reached
<1>5. \A q \in Repositories : \A p : SafePass(p, q) => SafePass(p, q)'
  BY <1>4 DEF SafePass, PassShape, PassMarks
<1> QED
  BY <1>4, <1>5 DEF s, n

\* A pass that sent a POST, and whatever it noted about it, keeps the invariant.
LEMMA PostedStep ==
  ASSUME IInv, NEW r \in Repositories, Posting(r), Receive(r), NEW q,
         pass' = [pass EXCEPT ![r] = q], SafePass(q, r)',
         UNCHANGED <<status, late>>
  PROVE  IInv'
<1>1. /\ received' \in [Subscriptions -> [Repositories -> SUBSET Nat]]
      /\ InOrder'
      /\ \A t \in Subscriptions, u \in Repositories : \A m : Reached(t, u, m) => Reached(t, u, m)'
      /\ \A u \in Repositories : \A p : SafePass(p, u) => SafePass(p, u)'
  BY PostedSafe
<1>2. Shape'
  BY <1>1 DEF IInv, Shape
<1>3. \A u \in Repositories : pass'[u] = IF u = r THEN q ELSE pass[u]
  BY DEF IInv, Shape
<1>4. \A u \in Repositories : SafePass(pass[u], u)'
  <2>1. ASSUME NEW u \in Repositories PROVE SafePass(pass[u], u)'
    <3>1. SafePass(pass[u], u)
      BY DEF IInv, Marks
    <3>2. PICK p : p = pass[u]
      OBVIOUS
    <3>3. SafePass(p, u)'
      BY <1>1, <3>1, <3>2
    <3>4. \A x : SafePass(x, u)' /\ pass'[u] = x => SafePass(pass[u], u)'
      BY DEF SafePass, PassShape, PassMarks, Reached
    <3> QED
      BY <1>3, <3>2, <3>3, <3>4
  <2> QED
    BY <2>1
<1>5. /\ \A s \in Subscriptions, u \in Repositories : Reached(s, u, status[s].delivered[u])'
      /\ \A p \in late : Reached(p.sub, p.repository, p.patch.delivered)'
  BY <1>1 DEF IInv, Shape, Marks
<1> QED
  BY <1>1, <1>2, <1>4, <1>5 DEF IInv, Marks

\* An acknowledged POST advances the catch-up by the event that was received.
LEMMA AcknowledgeStep ==
  ASSUME IInv, NEW r \in Repositories, Acknowledge(r)
  PROVE  IInv'
<1>0. PICK q : q = [pass[r] EXCEPT !.delivered = @ + 1, !.events = @ + 1]
  OBVIOUS
<1>1. Posting(r) /\ Receive(r) /\ UNCHANGED <<status, late>>
  BY DEF Acknowledge
<1>2. /\ PassShape(pass[r]) /\ PassMarks(pass[r], r)
      /\ pass[r].patch = None /\ pass[r].current # None
  BY <1>1 DEF Posting, IInv, Marks, SafePass
<1>3. /\ DOMAIN q = DOMAIN pass[r] /\ q.owed = pass[r].owed /\ q.current = pass[r].current
      /\ q.delivered = pass[r].delivered + 1 /\ q.patch = None
  BY <1>0, <1>2 DEF PassShape
<1>4. pass' = [pass EXCEPT ![r] = q]
  BY <1>0 DEF Acknowledge
<1>5. /\ 1 .. pass[r].delivered + 1 \subseteq received'[pass[r].current.sub][r]
      /\ pass[r].delivered + 1 \in Nat
      /\ \A t \in Subscriptions, u \in Repositories : \A m : Reached(t, u, m) => Reached(t, u, m)'
  BY <1>1, PostedSafe
<1>6. Reached(q.current.sub, r, q.delivered)'
  BY <1>3, <1>5 DEF Reached
<1>7. PassShape(q)'
  BY <1>2, <1>3 DEF PassShape
<1>8. /\ \A e \in q.owed : Reached(e.sub, r, e.mark)'
      /\ Reached(q.current.sub, r, q.current.mark)'
  <2>1. /\ \A e \in q.owed : e.sub \in Subscriptions /\ Reached(e.sub, r, e.mark)
        /\ q.current.sub \in Subscriptions /\ Reached(q.current.sub, r, q.current.mark)
    BY <1>2, <1>3 DEF PassShape, PassMarks
  <2> QED
    BY <1>5, <2>1
<1>9. SafePass(q, r)'
  BY <1>3, <1>6, <1>7, <1>8 DEF SafePass, PassMarks
<1> QED
  BY <1>1, <1>4, <1>9, PostedStep

\* A failed POST leaves the mark at what was acknowledged, whether it arrived or not.
LEMMA PostFailsStep ==
  ASSUME IInv, NEW r \in Repositories, PostFails(r)
  PROVE  IInv'
<1>1. /\ Posting(r) /\ UNCHANGED <<status, late>>
      /\ record(r, pass[r].delivered, "DeliveryFailed")
      /\ Reached(pass[r].current.sub, r, pass[r].delivered)
  BY DEF PostFails, Posting, IInv, Marks, SafePass, PassMarks
<1>2. CASE UNCHANGED received
  BY <1>1, <1>2, RecordSafe
<1>3. CASE Receive(r)
  <2>0. PICK q, patch : /\ patch = [delivered |-> pass[r].delivered, ready |-> "DeliveryFailed"]
                        /\ q = [pass[r] EXCEPT !.patch = patch]
    OBVIOUS
  <2>1. PassShape(pass[r]) /\ PassMarks(pass[r], r) /\ pass[r].current # None
    BY <1>1 DEF IInv, Marks, SafePass, Posting
  <2>2. /\ DOMAIN q = DOMAIN pass[r] /\ q.owed = pass[r].owed /\ q.current = pass[r].current
        /\ q.delivered = pass[r].delivered /\ q.patch = patch
        /\ patch.delivered = pass[r].delivered
    BY <2>0, <2>1 DEF PassShape
  <2>3. pass' = [pass EXCEPT ![r] = q]
    BY <1>1, <2>0 DEF record
  <2>4. SafePass(q, r)
    BY <2>1, <2>2 DEF SafePass, PassShape, PassMarks
  <2>5. SafePass(q, r)'
    BY <1>1, <1>3, <2>4, PostedSafe
  <2> QED
    BY <1>1, <1>3, <2>3, <2>5, PostedStep
<1> QED
  BY <1>2, <1>3 DEF PostFails

\* A patch that lands writes a mark the pass knew to be safe.
LEMMA PatchLandsStep ==
  ASSUME IInv, NEW r \in Repositories, PatchLands(r)
  PROVE  IInv'
<1>1. /\ pass[r] # None /\ UNCHANGED <<received, late>>
      /\ pass[r].current.sub \in Subscriptions
      /\ Reached(pass[r].current.sub, r, pass[r].patch.delivered)
      /\ status' = status_document(pass[r].current.sub, r, pass[r].now, pass[r].patch)
  BY DEF PatchLands, IInv, Marks, SafePass, PassShape, PassMarks
<1>2. PICK q : q = Rest(r, pass[r].owed)
  OBVIOUS
<1>3. SafePass(q, r) /\ pass' = [pass EXCEPT ![r] = q]
  BY <1>1, <1>2, RestSafe DEF PatchLands
<1>4. /\ DOMAIN status' = Subscriptions
      /\ status' = [t \in Subscriptions |-> status'[t]]
      /\ \A t \in Subscriptions :
           /\ DOMAIN status'[t] = {"delivered", "lastAttempt", "ready"}
           /\ status'[t].delivered \in [Repositories -> Nat]
      /\ \A t \in Subscriptions, u \in Repositories : Reached(t, u, status[t].delivered[u])'
  BY <1>1, LandingKeeps
<1>5. Shape'
  BY <1>1, <1>3, <1>4 DEF IInv, Shape
<1>6. \A u \in Repositories : SafePass(pass[u], u)'
  BY <1>1, <1>3 DEF IInv, Shape, Marks, SafePass, PassShape, PassMarks, Reached
<1>7. \A p \in late' : Reached(p.sub, p.repository, p.patch.delivered)'
  BY <1>1 DEF IInv, Marks, Reached
<1> QED
  BY <1>1, <1>4, <1>5, <1>6, <1>7 DEF IInv, InOrder, Marks

\* A late patch of a dead controller writes a mark that was safe when it was sent.
LEMMA LateLandsStep ==
  ASSUME IInv, NEW p \in late, LateLands(p)
  PROVE  IInv'
<1>1. /\ p.sub \in Subscriptions /\ p.repository \in Repositories
      /\ Reached(p.sub, p.repository, p.patch.delivered)
      /\ status' = status_document(p.sub, p.repository, p.now, p.patch)
      /\ UNCHANGED <<received, pass>> /\ late' \subseteq late
  BY DEF LateLands, IInv, Shape, Marks
<1>4. /\ DOMAIN status' = Subscriptions
      /\ status' = [t \in Subscriptions |-> status'[t]]
      /\ \A t \in Subscriptions :
           /\ DOMAIN status'[t] = {"delivered", "lastAttempt", "ready"}
           /\ status'[t].delivered \in [Repositories -> Nat]
      /\ \A t \in Subscriptions, u \in Repositories : Reached(t, u, status[t].delivered[u])'
  BY <1>1, LandingKeeps
<1>5. Shape'
  BY <1>1, <1>4 DEF IInv, Shape
<1>6. \A u \in Repositories : SafePass(pass[u], u)'
  BY <1>1 DEF IInv, Marks, SafePass, PassShape, PassMarks, Reached
<1>7. \A l \in late' : Reached(l.sub, l.repository, l.patch.delivered)'
  BY <1>1 DEF IInv, Marks, Reached
<1> QED
  BY <1>1, <1>4, <1>5, <1>6, <1>7 DEF IInv, InOrder, Marks

\* A patch fails: the pass drops it and goes on.
LEMMA PatchFailsStep ==
  ASSUME IInv, NEW r \in Repositories, PatchFails(r)
  PROVE  IInv'
<1>1. /\ pass[r] # None /\ UNCHANGED <<status, received, late>>
      /\ pass' = [pass EXCEPT ![r] = Rest(r, pass[r].owed)]
  BY DEF PatchFails
<1> QED
  BY <1>1, RestSafe, PassOnly

\* A controller dies; the patch it leaves behind has a safe mark.
LEMMA DieStep ==
  ASSUME IInv, NEW r \in Repositories, Die(r)
  PROVE  IInv'
<1>1. PICK l : l = [sub |-> pass[r].current.sub, repository |-> r,
                    now |-> pass[r].now, patch |-> pass[r].patch]
  OBVIOUS
<1>2. /\ pass[r] # None /\ pass' = [pass EXCEPT ![r] = None] /\ UNCHANGED <<status, received>>
      /\ late' = late \/ (pass[r].patch # None /\ late' = late \cup {l})
  BY <1>1 DEF Die
<1>3. pass[r].patch # None => /\ DOMAIN l = {"sub", "repository", "now", "patch"}
                              /\ l.sub \in Subscriptions /\ l.repository \in Repositories
                              /\ Reached(l.sub, l.repository, l.patch.delivered)
  BY <1>1, <1>2 DEF IInv, Marks, SafePass, PassShape, PassMarks
<1>4. Shape'
  BY <1>2, <1>3 DEF IInv, Shape
<1>5. \A u \in Repositories : SafePass(pass[u], u)'
  BY <1>2 DEF IInv, Shape, Marks, SafePass, PassShape, PassMarks, Reached
<1>6. \A p \in late' : Reached(p.sub, p.repository, p.patch.delivered)'
  BY <1>2, <1>3 DEF IInv, Marks, Reached
<1>7. \A s \in Subscriptions, u \in Repositories : Reached(s, u, status[s].delivered[u])'
  BY <1>2 DEF IInv, Marks, Reached
<1> QED
  BY <1>2, <1>4, <1>5, <1>6, <1>7 DEF IInv, InOrder, Marks

\* A pass starts from marks it read in the status.
LEMMA StartStep ==
  ASSUME IInv, NEW r \in Repositories, deliver_updates(r)
  PROVE  IInv'
<1>1. UNCHANGED received
  BY DEF deliver_updates
<1>2. \A s \in Subscriptions : /\ DOMAIN status'[s] = {"delivered", "lastAttempt", "ready"}
                               /\ status'[s].delivered = status[s].delivered
  BY DEF deliver_updates, Renumbered
<1>3. \A p \in late' : \E l \in late : /\ DOMAIN p = DOMAIN l /\ p.sub = l.sub
                                        /\ p.repository = l.repository /\ p.patch = l.patch
  <2>1. late' = {[p EXCEPT !.now = Rank(@)] : p \in late}
    BY DEF deliver_updates, Renumbered
  <2>2. \A l \in late : DOMAIN l = {"sub", "repository", "now", "patch"}
    BY DEF IInv, Shape
  <2> QED
    BY <2>1, <2>2
<1>4. \A e \in Owed(r) : e.sub \in Subscriptions /\ Reached(e.sub, r, e.mark)
  <2>1. \A s \in Behind(r) : s \in Subscriptions /\ Reached(s, r, status[s].delivered[r])
    BY DEF Behind, IInv, Marks
  <2> QED
    BY SMT, <2>1 DEF Owed
<1>5. Shape'
  <2>1. DOMAIN status' = Subscriptions /\ status' = [s \in Subscriptions |-> status'[s]]
    BY DEF deliver_updates, Renumbered
  <2>2. pass' = [u \in Repositories |-> pass'[u]]
    BY DEF deliver_updates
  <2> QED
    BY <1>1, <1>2, <1>3, <2>1, <2>2 DEF IInv, Shape
<1>6. ASSUME NEW u \in Repositories PROVE SafePass(pass[u], u)'
  <2>1. CASE u = r
    <3>1. /\ DOMAIN pass'[u] = {"version", "now", "spent", "owed", "current", "delivered", "events", "patch"}
          /\ pass'[u].owed = Owed(r) /\ pass'[u].current = None /\ pass'[u].patch = None
      BY <2>1 DEF deliver_updates
    <3> QED
      BY <1>1, <1>4, <2>1, <3>1 DEF SafePass, PassShape, PassMarks, Reached
  <2>2. CASE u # r /\ pass[u] = None
    BY <2>2 DEF deliver_updates, SafePass
  <2>3. CASE u # r /\ pass[u] # None
    <3>1. PassShape(pass[u]) /\ PassMarks(pass[u], u)
      BY <2>3 DEF IInv, Marks, SafePass
    <3>2. pass'[u] = [pass[u] EXCEPT !.now = Rank(@)]
      BY <2>3 DEF deliver_updates
    <3>3. /\ DOMAIN pass'[u] = DOMAIN pass[u]
          /\ pass'[u].owed = pass[u].owed /\ pass'[u].current = pass[u].current
          /\ pass'[u].delivered = pass[u].delivered /\ pass'[u].patch = pass[u].patch
      BY <3>1, <3>2 DEF PassShape
    <3> QED
      BY <1>1, <3>1, <3>3 DEF SafePass, PassShape, PassMarks, Reached
  <2> QED
    BY <2>1, <2>2, <2>3
<1>7. \A s \in Subscriptions, u \in Repositories : Reached(s, u, status[s].delivered[u])'
  BY <1>1, <1>2 DEF IInv, Marks, Reached
<1>8. \A p \in late' : Reached(p.sub, p.repository, p.patch.delivered)'
  BY <1>1, <1>3 DEF IInv, Marks, Reached
<1> QED
  BY <1>1, <1>5, <1>6, <1>7, <1>8 DEF IInv, InOrder, Marks

-----------------------------------------------------------------------------
\* The invariant is inductive.
LEMMA StepMarks == IInv /\ [Next]_vars => IInv'
<1> SUFFICES ASSUME IInv, [Next]_vars PROVE IInv'
  OBVIOUS
<1>1. CASE UNCHANGED vars
  BY <1>1 DEF vars, IInv, Shape, InOrder, Marks, SafePass, PassShape, PassMarks, Reached
<1>2. ASSUME NEW r \in Repositories, PassStep(r) PROVE IInv'
  BY <1>2, StartStep, ChooseStep, AcknowledgeStep, PostFailsStep, ConcludeStep, PatchLandsStep
     DEF PassStep
<1>3. ASSUME NEW r \in Repositories, Expire(r) \/ PatchFails(r) \/ Die(r) \/ Publish(r) PROVE IInv'
  BY <1>3, ExpireStep, PatchFailsStep, DieStep, PublishStep
<1>4. ASSUME NEW p \in late, LateLands(p) PROVE IInv'
  BY <1>4, LateLandsStep
<1> QED
  BY <1>1, <1>2, <1>3, <1>4 DEF Next

\* For any number of subscriptions, repositories, generations and faults: every
\* generation up to a mark was received, and no event before its predecessors.
THEOREM NothingIsSkipped == Spec => []NothingSkipped
<1>1. IInv => NothingSkipped
  BY DEF IInv, InOrder, Marks, Reached, NothingSkipped
<1> QED
  BY <1>1, InitMarks, StepMarks, PTL DEF Spec

-----------------------------------------------------------------------------
(***************************************************************************)
(* AttemptedOrTold.  It rests on the types of the state, among them that   *)
(* ranks are numbers: the times in use stay below a bound, so there are    *)
(* finitely many of them to count.                                         *)
(***************************************************************************)

\* No time in use is above n.
Below(n) ==
  /\ \A s \in Subscriptions : status[s].lastAttempt <= n
  /\ \A r \in Repositories : pass[r] # None => pass[r].now <= n
  /\ \A p \in late : p.now <= n

Typed == TypeOK /\ \E n \in Nat : Below(n)

\* A pass is in its own types, and its fields in theirs.
LEMMA PassFields ==
  ASSUME NEW p \in Pass
  PROVE  /\ p.version \in Versions /\ p.now \in Nat /\ p.spent \in BOOLEAN
         /\ p.owed \in SUBSET Entry /\ p.current \in Entry \cup {None}
         /\ p.delivered \in Versions /\ p.events \in Nat /\ p.patch \in Patch \cup {None}
  BY SMT DEF Pass, Times

\* The pass of a controller that is in one.
LEMMA PassOf ==
  ASSUME TypeOK, NEW r \in Repositories, pass[r] # None
  PROVE  pass[r] \in Pass
  BY DEF TypeOK

\* Counting numbers up to t yields a number, at most t.
LEMMA Counted ==
  ASSUME NEW S, NEW t \in Nat, \A u \in S : u \in Nat \ {0} /\ u <= t
  PROVE  Cardinality(S) \in Nat /\ Cardinality(S) <= t
<1>1. S \subseteq 1 .. t
  BY SMT
<1>2. IsFiniteSet(1 .. t) /\ Cardinality(1 .. t) = t
  BY SMT, FS_Interval
<1>3. IsFiniteSet(S) /\ Cardinality(S) <= t
  BY <1>1, <1>2, FS_Subset
<1> QED
  BY <1>3, FS_CardinalityType

\* Ranks are numbers no larger than the times they stand for, and a new pass gets a
\* number too.
LEMMA Ranks ==
  ASSUME TypeOK, NEW n \in Nat, Below(n)
  PROVE  /\ \A t \in Nat : Rank(t) \in Nat /\ Rank(t) <= t
         /\ Cardinality(TimesInUse \ {0}) \in Nat
         /\ Cardinality(TimesInUse \ {0}) <= n
<1>1. \A s \in Subscriptions : status[s].lastAttempt \in Nat
  BY SMT DEF TypeOK, Status, Times
<1>2. \A r \in Repositories : pass[r] # None => pass[r].now \in Nat
  BY PassOf, PassFields
<1>3. \A p \in late : p.now \in Nat
  BY SMT DEF TypeOK, Late, Times
<1>4. \A u \in TimesInUse : u \in Nat /\ u <= n
  BY <1>1, <1>2, <1>3 DEF TimesInUse, Below
<1>5. ASSUME NEW t \in Nat PROVE Rank(t) \in Nat /\ Rank(t) <= t
  <2>1. \A u \in {v \in TimesInUse \ {0} : v <= t} : u \in Nat \ {0} /\ u <= t
    BY <1>4
  <2> QED
    BY <2>1, Counted DEF Rank
<1>6. \A u \in TimesInUse \ {0} : u \in Nat \ {0} /\ u <= n
  BY <1>4
<1> QED
  BY <1>5, <1>6, Counted

\* Before anything happens all times are 0.
LEMMA TypedInit == Init => Typed
<1> SUFFICES ASSUME Init PROVE Typed
  OBVIOUS
<1>1. 0 \in Versions /\ 0 \in 0 .. MaxFaults
  BY SMT, SubscriptionAssumption DEF Versions
<1>2. TypeOK
  BY SMT, <1>1 DEF Init, TypeOK, Status, Times
<1>3. Below(0)
  BY SMT DEF Init, Below
<1> QED
  BY SMT, <1>2, <1>3 DEF Typed

\* A step that only changes what one pass knows, and perhaps what a webhook received,
\* keeps the types.
LEMMA TypedPassOnly ==
  ASSUME Typed, NEW r \in Repositories, NEW q \in Pass \cup {None},
         pass' = [pass EXCEPT ![r] = q],
         q # None => pass[r] # None /\ q.now = pass[r].now,
         UNCHANGED <<version, status, late>>,
         faults' \in 0 .. MaxFaults,
         received' \in [Subscriptions -> [Repositories -> SUBSET Versions]]
  PROVE  Typed'
<1>1. PICK n \in Nat : Below(n)
  BY DEF Typed
<1>2. pass \in [Repositories -> Pass \cup {None}]
  BY DEF Typed, TypeOK
<1>3. \A u \in Repositories : pass'[u] = IF u = r THEN q ELSE pass[u]
  BY <1>2
<1>4. pass' \in [Repositories -> Pass \cup {None}]
  BY SMT, <1>2
<1>5. TypeOK'
  BY <1>4 DEF Typed, TypeOK
<1>6. Below(n)'
  BY <1>1, <1>3 DEF Below
<1> QED
  BY <1>5, <1>6 DEF Typed

\* A patch that lands, in time or late, keeps the status well formed.
LEMMA TypedLanding ==
  ASSUME TypeOK, NEW n \in Nat, Below(n), NEW s \in Subscriptions, NEW r \in Repositories,
         NEW now \in Nat, now <= n, NEW patch \in Patch,
         status' = status_document(s, r, now, patch)
  PROVE  /\ status' \in [Subscriptions -> Status]
         /\ \A t \in Subscriptions : status'[t].lastAttempt <= n
         /\ \A t \in Subscriptions : t # s => status'[t] = status[t]
         /\ status'[s].ready = patch.ready
         /\ patch.ready # "DeliveryDeferred" => status'[s].lastAttempt = now
<1> DEFINE d == [delivered   |-> [status[s].delivered EXCEPT ![r] = patch.delivered],
                 lastAttempt |-> IF patch.ready = "DeliveryDeferred"
                                 THEN status[s].lastAttempt ELSE now,
                 ready       |-> patch.ready]
<1>1. status' = [status EXCEPT ![s] = d]
  BY DEF status_document
<1>2. status \in [Subscriptions -> Status]
  BY DEF TypeOK
<1>3. /\ status[s].delivered \in [Repositories -> Versions]
      /\ status[s].lastAttempt \in Nat
      /\ patch.delivered \in Versions /\ patch.ready \in Reasons
  BY SMT, <1>2 DEF Status, Patch, Times
<1>4. d \in Status
  BY SMT, <1>3 DEF Status, Times
<1>5. /\ d.ready = patch.ready
      /\ patch.ready # "DeliveryDeferred" => d.lastAttempt = now
      /\ d.lastAttempt = status[s].lastAttempt \/ d.lastAttempt = now
  BY SMT
<1> HIDE DEF d
<1>6. \A t \in Subscriptions : status'[t] = IF t = s THEN d ELSE status[t]
  BY <1>1, <1>2
<1>7. status' \in [Subscriptions -> Status]
  BY SMT, <1>1, <1>2, <1>4
<1> QED
  BY <1>5, <1>6, <1>7 DEF Below

-----------------------------------------------------------------------------
\* Controller r goes on from the pass it is in to q: every entry that it drops on the
\* way was listed as told.
Walk(r, q) ==
  /\ pass[r] # None /\ pass' = [pass EXCEPT ![r] = q] /\ q \in Pass \cup {None}
  /\ q # None => q.now = pass[r].now /\ (q.patch # None => q.current # None)
  /\ Entries(q) \subseteq Entries(pass[r])
  /\ \A e \in Entries(pass[r]) \ Entries(q) : e.ready \in Told
  /\ UNCHANGED <<version, status, late, faults>>

\* A patch is about the entry a pass is at.
Addressed == \A r \in Repositories : pass[r] # None /\ pass[r].patch # None => pass[r].current # None

\* A function with the fields of a pass, each of its type, is a pass.
LEMMA PassOfFields ==
  ASSUME NEW q, q = [x \in DOMAIN q |-> q[x]],
         DOMAIN q = {"version", "now", "spent", "owed", "current", "delivered", "events", "patch"},
         q.version \in Versions, q.now \in Nat, q.spent \in BOOLEAN,
         q.owed \in SUBSET Entry, q.current \in Entry \cup {None},
         q.delivered \in Versions, q.events \in Nat, q.patch \in Patch \cup {None}
  PROVE  q \in Pass
  BY SMT DEF Pass, Times

\* The fields of a pass.
LEMMA PassDomain ==
  ASSUME NEW p \in Pass
  PROVE  DOMAIN p = {"version", "now", "spent", "owed", "current", "delivered", "events", "patch"}
  BY SMT DEF Pass

\* The pass that remains once the current entry is dealt with.
LEMMA RestFields ==
  ASSUME TypeOK, NEW r \in Repositories, pass[r] # None, NEW rest \in SUBSET pass[r].owed
  PROVE  /\ Rest(r, rest) \in Pass \cup {None}
         /\ Entries(Rest(r, rest)) = rest
         /\ Rest(r, rest) # None => Rest(r, rest).now = pass[r].now /\ Rest(r, rest).patch = None
<1>0. PICK q : q = [pass[r] EXCEPT !.owed = rest, !.current = None, !.delivered = 0, !.events = 0,
                                   !.patch = None]
  OBVIOUS
<1>1. pass[r] \in Pass
  BY PassOf
<1>2. 0 \in Versions
  BY SMT, SubscriptionAssumption DEF Versions
<1>3. rest \in SUBSET Entry
  BY <1>1, PassFields
<1>4. /\ q \in Pass
      /\ q.owed = rest /\ q.current = None /\ q.patch = None /\ q.now = pass[r].now
  <2>1. DOMAIN pass[r] = {"version", "now", "spent", "owed", "current", "delivered", "events", "patch"}
    BY <1>1, PassDomain
  <2>2. /\ q.version = pass[r].version /\ q.now = pass[r].now /\ q.spent = pass[r].spent
        /\ q.owed = rest /\ q.current = None /\ q.delivered = 0 /\ q.events = 0 /\ q.patch = None
    BY <1>0, <2>1
  <2>3. DOMAIN q = DOMAIN pass[r]
    BY <1>0
  <2>4. PICK g : q = [g EXCEPT !.patch = None]
    BY <1>0
  <2>5. q = [x \in DOMAIN q |-> q[x]] /\ 0 \in Nat
    BY <2>4
  <2> QED
    BY <1>1, <1>2, <1>3, <2>1, <2>2, <2>3, <2>5, PassFields, PassOfFields
<1>5. Rest(r, rest) = IF rest = {} THEN None ELSE q
  BY <1>0 DEF Rest
<1>6. q # None
  BY <1>4, NoneAssumption
<1> QED
  BY <1>4, <1>5, <1>6 DEF Entries

\* A pass that takes a listed entry drops none.
LEMMA TakeWalk ==
  ASSUME TypeOK, NEW r \in Repositories, Choosing(r), NEW e \in pass[r].owed,
         NEW patch \in Patch \cup {None}, Take(r, e, patch),
         UNCHANGED <<version, status, late, faults>>
  PROVE  \E q : Walk(r, q)
<1>0. PICK q : q = [pass[r] EXCEPT !.owed = @ \ {e}, !.current = e, !.delivered = e.mark,
                                   !.events = 0, !.patch = patch]
  OBVIOUS
<1>1. pass[r] # None /\ pass[r].current = None /\ pass[r] \in Pass
  BY PassOf DEF Choosing
<1>2. e \in Entry /\ e # None /\ e.mark \in Versions
  <2>1. e \in Entry
    BY <1>1, PassFields
  <2> QED
    BY SMT, <2>1, NoneAssumption DEF Entry
<1>3. /\ q \in Pass
      /\ q.owed = pass[r].owed \ {e} /\ q.current = e /\ q.now = pass[r].now
  <2>1. DOMAIN pass[r] = {"version", "now", "spent", "owed", "current", "delivered", "events", "patch"}
    BY <1>1, PassDomain
  <2>2. /\ q.version = pass[r].version /\ q.now = pass[r].now /\ q.spent = pass[r].spent
        /\ q.owed = pass[r].owed \ {e} /\ q.current = e /\ q.delivered = e.mark
        /\ q.events = 0 /\ q.patch = patch
    BY <1>0, <2>1
  <2>3. DOMAIN q = DOMAIN pass[r]
    BY <1>0
  <2>4. PICK g : q = [g EXCEPT !.patch = patch]
    BY <1>0
  <2>5. q = [x \in DOMAIN q |-> q[x]] /\ 0 \in Nat
    BY <2>4
  <2>6. q.owed \in SUBSET Entry
    BY <1>1, <2>2, PassFields
  <2> QED
    BY <1>1, <1>2, <2>1, <2>2, <2>3, <2>5, <2>6, PassFields, PassOfFields
<1>4. pass' = [pass EXCEPT ![r] = q]
  BY <1>0 DEF Take
<1>5. q # None
  BY <1>3, NoneAssumption
<1>6. Entries(q) = Entries(pass[r])
  BY <1>1, <1>2, <1>3, <1>5 DEF Entries
<1> QED
  BY <1>1, <1>2, <1>3, <1>4, <1>6 DEF Walk

\* A pass that changes neither its queue nor its current entry drops none.
LEMMA StayWalk ==
  ASSUME TypeOK, NEW r \in Repositories, pass[r] # None, NEW q \in Pass,
         pass' = [pass EXCEPT ![r] = q],
         q.owed = pass[r].owed, q.current = pass[r].current, q.now = pass[r].now,
         q.patch # None => q.current # None,
         UNCHANGED <<version, status, late, faults>>
  PROVE  \E p : Walk(r, p)
<1>1. q # None
  BY NoneAssumption
<1>2. Entries(q) = Entries(pass[r])
  BY <1>1 DEF Entries
<1> QED
  BY <1>2 DEF Walk

\* A pass that sends a patch about its current entry drops none.
LEMMA RecordWalk ==
  ASSUME TypeOK, NEW r \in Repositories, Posting(r), NEW n \in Versions, NEW reason \in Reasons,
         record(r, n, reason),
         UNCHANGED <<version, status, late, faults>>
  PROVE  \E q : Walk(r, q)
<1>0. PICK q : q = [pass[r] EXCEPT !.patch = [delivered |-> n, ready |-> reason]]
  OBVIOUS
<1>1. pass[r] # None /\ pass[r].current # None /\ pass[r] \in Pass
  BY PassOf DEF Posting
<1>2. [delivered |-> n, ready |-> reason] \in Patch
  BY SMT DEF Patch
<1>3. /\ q \in Pass
      /\ q.owed = pass[r].owed /\ q.current = pass[r].current /\ q.now = pass[r].now
  <2>1. DOMAIN pass[r] = {"version", "now", "spent", "owed", "current", "delivered", "events", "patch"}
    BY <1>1, PassDomain
  <2>2. /\ q.version = pass[r].version /\ q.now = pass[r].now /\ q.spent = pass[r].spent
        /\ q.owed = pass[r].owed /\ q.current = pass[r].current
        /\ q.delivered = pass[r].delivered /\ q.events = pass[r].events
        /\ q.patch = [delivered |-> n, ready |-> reason]
    BY <1>0, <2>1
  <2>3. DOMAIN q = DOMAIN pass[r] /\ q = [x \in DOMAIN q |-> q[x]]
    BY <1>0
  <2> QED
    BY <1>1, <1>2, <2>1, <2>2, <2>3, PassFields, PassOfFields
<1>4. pass' = [pass EXCEPT ![r] = q]
  BY <1>0 DEF record, TypeOK
<1> QED
  BY <1>1, <1>3, <1>4, StayWalk

\* A pass that leaves an entry without a word had it listed as told.
LEMMA DropWalk ==
  ASSUME TypeOK, NEW r \in Repositories, pass[r] # None, NEW rest \in SUBSET pass[r].owed,
         \A e \in Entries(pass[r]) \ rest : e.ready \in Told,
         pass' = [pass EXCEPT ![r] = Rest(r, rest)],
         UNCHANGED <<version, status, late, faults>>
  PROVE  \E q : Walk(r, q)
<1>1. rest \subseteq Entries(pass[r])
  BY DEF Entries
<1> QED
  BY <1>1, RestFields DEF Walk

\* The steps of a pass that write nothing to a status.
WalkStep(r) ==
  Expire(r) \/ Serve(r) \/ Refuse(r) \/ DeferRest(r) \/ Acknowledge(r) \/ PostFails(r) \/ Conclude(r)

\* The budget running out and an acknowledged POST change neither queue nor current entry.
LEMMA ProgressWalk ==
  ASSUME TypeOK, Addressed, NEW r \in Repositories, Expire(r) \/ Acknowledge(r)
  PROVE  \E q : Walk(r, q)
<1>1. pass[r] # None /\ UNCHANGED <<version, status, late, faults>>
  BY DEF Expire, Acknowledge, Posting
<1>2. pass[r] \in Pass
  BY <1>1, PassOf
<1>3. DOMAIN pass[r] = {"version", "now", "spent", "owed", "current", "delivered", "events", "patch"}
  BY <1>2, PassDomain
<1>4. CASE Expire(r)
  <2>0. PICK q : q = [pass[r] EXCEPT !.spent = TRUE]
    OBVIOUS
  <2>1. /\ q.version = pass[r].version /\ q.now = pass[r].now /\ q.spent = TRUE
        /\ q.owed = pass[r].owed /\ q.current = pass[r].current
        /\ q.delivered = pass[r].delivered /\ q.events = pass[r].events
        /\ q.patch = pass[r].patch
    BY <1>3, <2>0
  <2>2. DOMAIN q = DOMAIN pass[r] /\ q = [x \in DOMAIN q |-> q[x]]
    BY <2>0
  <2>3. q \in Pass
    BY <1>2, <1>3, <2>1, <2>2, PassFields, PassOfFields
  <2>4. pass' = [pass EXCEPT ![r] = q]
    BY <1>4, <2>0 DEF Expire
  <2> QED
    BY <1>1, <2>1, <2>3, <2>4, StayWalk DEF Addressed
<1>5. CASE Acknowledge(r)
  <2>0. PICK q : q = [pass[r] EXCEPT !.delivered = @ + 1, !.events = @ + 1]
    OBVIOUS
  <2>1. /\ q.version = pass[r].version /\ q.now = pass[r].now /\ q.spent = pass[r].spent
        /\ q.owed = pass[r].owed /\ q.current = pass[r].current
        /\ q.delivered = pass[r].delivered + 1 /\ q.events = pass[r].events + 1
        /\ q.patch = pass[r].patch
    BY <1>3, <2>0
  <2>2. DOMAIN q = DOMAIN pass[r]
    BY <2>0
  <2>3. q = [x \in DOMAIN q |-> q[x]]
    <3>1. PICK g : q = [g EXCEPT !.events = @ + 1]
      BY <2>0
    <3> QED
      BY <3>1
  <2>4. pass[r].delivered + 1 \in Versions /\ pass[r].events + 1 \in Nat
    BY SMT, <1>2, <1>5, SubscriptionAssumption, PassFields DEF Acknowledge, MorePosts, pending, Versions
  <2>5. q \in Pass
    BY <1>2, <1>3, <2>1, <2>2, <2>3, <2>4, PassFields, PassOfFields
  <2>6. pass' = [pass EXCEPT ![r] = q]
    BY <1>5, <2>0 DEF Acknowledge
  <2> QED
    BY <1>1, <2>1, <2>5, <2>6, StayWalk DEF Addressed
<1> QED
  BY <1>4, <1>5

\* Every step of a pass that writes no status goes on from the pass it was in.
LEMMA StepsWalk ==
  ASSUME TypeOK, Addressed, NEW r \in Repositories, WalkStep(r)
  PROVE  \E q : Walk(r, q)
<1>1. pass[r] # None /\ pass[r] \in Pass /\ UNCHANGED <<version, status, late, faults>>
  <2>1. pass[r] # None /\ UNCHANGED <<version, status, late, faults>>
    BY DEF WalkStep, Expire, Serve, Refuse, DeferRest, Acknowledge, PostFails, Conclude, Choosing, Posting
  <2> QED
    BY <2>1, PassOf
<1>2. /\ pass[r].owed \subseteq Entry /\ pass[r].delivered \in Versions
      /\ pass[r].current \in Entry \cup {None}
  BY <1>1, PassFields
<1>3. \A e \in Entry : e.mark \in Versions
  BY SMT DEF Entry
<1>4. \A n \in Versions : \A w \in Reasons : [delivered |-> n, ready |-> w] \in Patch
  BY SMT DEF Patch
<1>5. CASE Expire(r) \/ Acknowledge(r)
  BY <1>5, ProgressWalk
<1>6. CASE Serve(r)
  <2>1. PICK e \in pass[r].owed : Take(r, e, None)
    BY <1>6 DEF Serve, First
  <2>2. Choosing(r)
    BY <1>6 DEF Serve
  <2> QED
    BY <1>1, <2>1, <2>2, TakeWalk
<1>7. CASE Refuse(r)
  <2>1. PICK e \in pass[r].owed : Take(r, e, [delivered |-> e.mark, ready |-> "DeliveryFailed"])
    BY <1>7 DEF Refuse, First
  <2>2. Choosing(r)
    BY <1>7 DEF Refuse
  <2>3. [delivered |-> e.mark, ready |-> "DeliveryFailed"] \in Patch
    BY <1>2, <1>3, <1>4 DEF Reasons
  <2> QED
    BY <1>1, <2>1, <2>2, <2>3, TakeWalk
<1>8. CASE DeferRest(r)
  <2>1. PICK e \in pass[r].owed :
          IF deferral_says_nothing_new(e)
          THEN pass' = [pass EXCEPT ![r] = Rest(r, pass[r].owed \ {e})]
          ELSE Take(r, e, [delivered |-> e.mark, ready |-> "DeliveryDeferred"])
    BY <1>8 DEF DeferRest, First
  <2>2. Choosing(r)
    BY <1>8 DEF DeferRest
  <2>3. [delivered |-> e.mark, ready |-> "DeliveryDeferred"] \in Patch
    BY <1>2, <1>3, <1>4 DEF Reasons
  <2>4. CASE deferral_says_nothing_new(e)
    <3>1. \A f \in Entries(pass[r]) \ (pass[r].owed \ {e}) : f = e
      BY <1>1, <2>2 DEF Choosing, Entries
    <3>2. e.ready \in Told
      BY <2>4 DEF deferral_says_nothing_new, Told
    <3>3. pass' = [pass EXCEPT ![r] = Rest(r, pass[r].owed \ {e})]
      BY <2>1, <2>4
    <3>4. pass[r].owed \ {e} \in SUBSET pass[r].owed
      OBVIOUS
    <3> QED
      BY <1>1, <3>1, <3>2, <3>3, <3>4, DropWalk
  <2>5. CASE ~deferral_says_nothing_new(e)
    BY <1>1, <2>1, <2>2, <2>3, <2>5, TakeWalk
  <2> QED
    BY <2>4, <2>5
<1>9. CASE PostFails(r)
  <2>1. Posting(r) /\ record(r, pass[r].delivered, "DeliveryFailed")
    BY <1>9 DEF PostFails
  <2>2. "DeliveryFailed" \in Reasons
    BY DEF Reasons
  <2> QED
    BY <1>1, <1>2, <2>1, <2>2, RecordWalk
<1>10. CASE Conclude(r)
  <2>1. Posting(r) /\ pass[r].current # None
    BY <1>10 DEF Conclude, Posting
  <2>2. pass[r].current.mark \in Versions /\ "Delivered" \in Reasons /\ "DeliveryDeferred" \in Reasons
    BY <1>2, <1>3, <2>1 DEF Reasons
  <2>3. CASE record(r, pass[r].delivered, "Delivered") \/ record(r, pass[r].current.mark, "DeliveryDeferred")
    BY <1>1, <1>2, <2>1, <2>2, <2>3, RecordWalk
  <2>4. CASE /\ deferral_says_nothing_new(pass[r].current)
             /\ pass' = [pass EXCEPT ![r] = Rest(r, pass[r].owed)]
    <3>1. \A f \in Entries(pass[r]) \ pass[r].owed : f = pass[r].current
      BY <1>1 DEF Entries
    <3>2. pass[r].current.ready \in Told
      BY <2>4 DEF deferral_says_nothing_new, Told
    <3>3. pass[r].owed \in SUBSET pass[r].owed
      OBVIOUS
    <3> QED
      BY <1>1, <2>4, <3>1, <3>2, <3>3, DropWalk
  <2> QED
    BY <1>10, <2>3, <2>4 DEF Conclude
<1> QED
  BY <1>5, <1>6, <1>7, <1>8, <1>9, <1>10 DEF WalkStep

-----------------------------------------------------------------------------
\* The types are kept by the steps that write no status.
LEMMA TypedWalk ==
  ASSUME Typed, Addressed, NEW r \in Repositories, WalkStep(r)
  PROVE  Typed'
<1>1. PICK q : Walk(r, q)
  BY StepsWalk DEF Typed
<1>2. received' \in [Subscriptions -> [Repositories -> SUBSET Versions]]
  <2>1. received \in [Subscriptions -> [Repositories -> SUBSET Versions]]
    BY DEF Typed, TypeOK
  <2>2. CASE Receive(r) /\ Posting(r) /\ MorePosts(r)
    <3>1. pass[r] \in Pass /\ pass[r].current # None
      BY <2>2, PassOf DEF Posting, Typed
    <3>2. pass[r].current \in Entry
      BY <3>1, PassFields
    <3>3. pass[r].current.sub \in Subscriptions
      BY SMT, <3>2 DEF Entry
    <3>4. pass[r].delivered + 1 \in Versions
      BY SMT, <2>2, <3>1, SubscriptionAssumption, PassFields DEF MorePosts, pending, Versions
    <3>5. PICK s \in Subscriptions, n \in Versions :
             received' = [received EXCEPT ![s][r] = @ \cup {n}]
      BY <2>2, <3>3, <3>4 DEF Receive
    <3> QED
      BY SMT, <2>1, <3>5
  <2>3. UNCHANGED received \/ (Receive(r) /\ Posting(r) /\ MorePosts(r))
    BY DEF WalkStep, Expire, Serve, Refuse, DeferRest, Acknowledge, PostFails, Conclude
  <2> QED
    BY <2>1, <2>2, <2>3
<1>3. faults' \in 0 .. MaxFaults
  BY <1>1 DEF Walk, Typed, TypeOK
<1> QED
  BY <1>1, <1>2, <1>3, TypedPassOnly DEF Walk

\* What a pass knows when its patch lands.
LEMMA PatchFacts ==
  ASSUME TypeOK, Addressed, NEW r \in Repositories, pass[r] # None, pass[r].patch # None
  PROVE  /\ pass[r] \in Pass /\ pass[r].now \in Nat /\ pass[r].patch \in Patch
         /\ pass[r].current # None /\ pass[r].current \in Entry
         /\ pass[r].current.sub \in Subscriptions /\ pass[r].current \in Entries(pass[r])
<1>1. pass[r] \in Pass /\ pass[r].current # None
  BY PassOf DEF Addressed
<1>2. pass[r].now \in Nat /\ pass[r].patch \in Patch /\ pass[r].current \in Entry
  BY <1>1, PassFields
<1>3. pass[r].current.sub \in Subscriptions
  BY SMT, <1>2 DEF Entry
<1> QED
  BY <1>1, <1>2, <1>3 DEF Entries

\* A landing patch, a failing one and a death keep the types.
LEMMA TypedPatch ==
  ASSUME Typed, Addressed, NEW r \in Repositories, PatchLands(r) \/ PatchFails(r) \/ Die(r)
  PROVE  Typed'
<1>1. PICK n \in Nat : Below(n)
  BY DEF Typed
<1>2. TypeOK /\ pass[r] # None
  BY DEF Typed, PatchLands, PatchFails, Die
<1>3. PICK q : q = Rest(r, pass[r].owed)
  OBVIOUS
<1>4. q \in Pass \cup {None} /\ (q # None => q.now = pass[r].now)
  BY <1>2, <1>3, RestFields
<1>5. faults + 1 \in 0 .. MaxFaults \/ ~(faults < MaxFaults)
  BY SMT, <1>2, SubscriptionAssumption DEF TypeOK
<1>6. CASE PatchFails(r)
  <2>1. /\ pass' = [pass EXCEPT ![r] = q] /\ faults' \in 0 .. MaxFaults
        /\ UNCHANGED <<version, status, received, late>>
    BY <1>3, <1>5, <1>6 DEF PatchFails
  <2>2. received' \in [Subscriptions -> [Repositories -> SUBSET Versions]]
    BY <1>2, <2>1 DEF TypeOK
  <2> QED
    BY <1>2, <1>4, <2>1, <2>2, TypedPassOnly
<1>7. CASE PatchLands(r)
  <2>1. /\ pass[r].patch \in Patch /\ pass[r].current.sub \in Subscriptions /\ pass[r].now \in Nat
        /\ pass[r].now <= n
    BY <1>1, <1>2, <1>7, PatchFacts DEF PatchLands, Below
  <2>2. status' \in [Subscriptions -> Status] /\ \A t \in Subscriptions : status'[t].lastAttempt <= n
    BY <1>1, <1>2, <1>7, <2>1, TypedLanding DEF PatchLands
  <2>3. pass \in [Repositories -> Pass \cup {None}] /\ pass' = [pass EXCEPT ![r] = q]
    BY <1>2, <1>3, <1>7 DEF PatchLands, TypeOK
  <2>4. pass' \in [Repositories -> Pass \cup {None}]
    BY SMT, <1>4, <2>3
  <2>5. \A u \in Repositories : pass'[u] = IF u = r THEN q ELSE pass[u]
    BY <2>3
  <2>6. UNCHANGED <<version, received, late, faults>>
    BY <1>7 DEF PatchLands
  <2>7. Below(n)'
    BY <1>1, <1>2, <1>4, <2>2, <2>5, <2>6 DEF Below
  <2>8. TypeOK'
    BY <1>2, <2>2, <2>4, <2>6 DEF TypeOK
  <2> QED
    BY <2>7, <2>8 DEF Typed
<1>8. CASE Die(r)
  <2>1. PICK l : l = [sub |-> pass[r].current.sub, repository |-> r,
                      now |-> pass[r].now, patch |-> pass[r].patch]
    OBVIOUS
  <2>2. late' = late \/ (pass[r].patch # None /\ late' = late \cup {l})
    BY <1>8, <2>1 DEF Die
  <2>3. pass[r].patch # None => l \in Late /\ l.now <= n
    <3>1. ASSUME pass[r].patch # None PROVE l \in Late
      <4>1. /\ pass[r].patch \in Patch /\ pass[r].current.sub \in Subscriptions
            /\ pass[r].now \in Nat
        BY <1>2, <3>1, PatchFacts
      <4> QED
        BY SMT, <2>1, <4>1 DEF Late, Times
    <3>2. l.now = pass[r].now
      BY <2>1
    <3> QED
      BY <1>1, <1>2, <3>1, <3>2 DEF Below
  <2>4. late' \subseteq Late /\ \A p \in late' : p.now <= n
    BY <1>1, <1>2, <2>2, <2>3 DEF TypeOK, Below
  <2>5. pass \in [Repositories -> Pass \cup {None}] /\ pass' = [pass EXCEPT ![r] = None]
    BY <1>2, <1>8 DEF Die, TypeOK
  <2>6. pass' \in [Repositories -> Pass \cup {None}]
    BY SMT, <2>5
  <2>7. \A u \in Repositories : pass'[u] = IF u = r THEN None ELSE pass[u]
    BY <2>5
  <2>8. faults' \in 0 .. MaxFaults /\ UNCHANGED <<version, status, received>>
    BY <1>5, <1>8 DEF Die
  <2>9. Below(n)'
    BY <1>1, <2>4, <2>7, <2>8 DEF Below
  <2>10. TypeOK'
    BY <1>2, <2>4, <2>6, <2>8 DEF TypeOK
  <2> QED
    BY <2>9, <2>10 DEF Typed
<1> QED
  BY <1>6, <1>7, <1>8

\* A late patch and a publication keep the types.
LEMMA TypedOutside ==
  ASSUME Typed, (\E p \in late : LateLands(p)) \/ (\E r \in Repositories : Publish(r))
  PROVE  Typed'
<1>1. PICK n \in Nat : Below(n)
  BY DEF Typed
<1>2. TypeOK
  BY DEF Typed
<1>3. ASSUME NEW p \in late, LateLands(p) PROVE Typed'
  <2>1. p \in Late /\ p.now <= n
    BY <1>1, <1>2 DEF TypeOK, Below
  <2>2. /\ p.sub \in Subscriptions /\ p.repository \in Repositories
        /\ p.now \in Nat /\ p.patch \in Patch
    BY SMT, <2>1 DEF Late, Times
  <2>3. status' = status_document(p.sub, p.repository, p.now, p.patch)
    BY <1>3 DEF LateLands
  <2>4. status' \in [Subscriptions -> Status] /\ \A t \in Subscriptions : status'[t].lastAttempt <= n
    BY <1>1, <1>2, <2>1, <2>2, <2>3, TypedLanding
  <2>5. late' \subseteq late /\ UNCHANGED <<version, received, pass, faults>>
    BY <1>3 DEF LateLands
  <2>6. Below(n)'
    BY <1>1, <2>4, <2>5 DEF Below
  <2>7. TypeOK'
    BY <1>2, <2>4, <2>5 DEF TypeOK
  <2> QED
    BY <2>6, <2>7 DEF Typed
<1>4. ASSUME NEW r \in Repositories, Publish(r) PROVE Typed'
  <2>1. version' = [version EXCEPT ![r] = @ + 1] /\ UNCHANGED <<status, received, pass, late, faults>>
    BY <1>4 DEF Publish
  <2>2. version \in [Repositories -> Versions]
    BY <1>2 DEF TypeOK
  <2>3. version[r] + 1 \in Versions
    BY SMT, <1>4, <2>2, SubscriptionAssumption DEF Publish, Versions
  <2>4. version' \in [Repositories -> Versions]
    BY <2>1, <2>2, <2>3
  <2>5. Below(n)'
    BY <1>1, <2>1 DEF Below
  <2>6. TypeOK'
    BY <1>2, <2>1, <2>4 DEF TypeOK
  <2> QED
    BY <2>5, <2>6 DEF Typed
<1> QED
  BY <1>3, <1>4

\* The entries a pass starts with.
LEMMA OwedTyped ==
  ASSUME TypeOK, NEW r \in Repositories
  PROVE  /\ Owed(r) \subseteq Entry
         /\ \A e \in Owed(r) : covers(e.sub, r) /\ e.ready = status[e.sub].ready
<1> SUFFICES ASSUME NEW e \in Owed(r)
             PROVE  e \in Entry /\ covers(e.sub, r) /\ e.ready = status[e.sub].ready
  OBVIOUS
<1>1. PICK s \in Behind(r) : e = [sub |-> s, mark |-> status[s].delivered[r],
                                  ready |-> status[s].ready, turn |-> Turn(s, r)]
  BY DEF Owed
<1>2. s \in Subscriptions /\ covers(s, r)
  BY DEF Behind
<1>3. status[s] \in Status
  BY <1>2 DEF TypeOK
<1>4. status[s].delivered[r] \in Versions /\ status[s].ready \in Reasons \cup {None}
  BY SMT, <1>3 DEF Status
<1>5. Turn(s, r) \in Nat
  <2>1. IsFiniteSet(Subscriptions)
    BY SMT, SubscriptionAssumption, FS_Interval DEF Subscriptions
  <2>2. {t \in Behind(r) : delivery_order(t, s)} \in SUBSET Subscriptions
    BY DEF Behind
  <2>3. IsFiniteSet({t \in Behind(r) : delivery_order(t, s)})
    BY <2>1, <2>2, FS_Subset
  <2> QED
    BY <2>3, FS_CardinalityType DEF Turn
<1>6. PICK k \in Nat, m \in Versions, w \in Reasons \cup {None} :
        e = [sub |-> s, mark |-> m, ready |-> w, turn |-> k] /\ w = status[s].ready
  BY <1>1, <1>4, <1>5
<1>7. e \in Entry /\ e.sub = s /\ e.ready = w
  BY SMT, <1>2, <1>6 DEF Entry
<1> QED
  BY <1>2, <1>6, <1>7

\* What starting a pass makes of the status and of the passes: only the times change,
\* all by the same map, and the new pass lists what the status says.
LEMMA StartFacts ==
  ASSUME Typed, NEW r \in Repositories, deliver_updates(r)
  PROVE  /\ \A s \in Subscriptions : /\ status'[s].ready = status[s].ready
                                     /\ status'[s].lastAttempt = Rank(status[s].lastAttempt)
         /\ pass[r] = None /\ Entries(pass'[r]) = Owed(r)
         /\ pass'[r] # None /\ pass'[r] \in Pass /\ pass'[r].patch = None
         /\ pass'[r].now = Cardinality(TimesInUse \ {0}) + 1
         /\ \A u \in Repositories : u # r /\ pass[u] = None => pass'[u] = None
         /\ \A u \in Repositories : u # r /\ pass[u] # None =>
              /\ pass'[u] # None /\ pass'[u] \in Pass /\ pass'[u].now = Rank(pass[u].now)
              /\ Entries(pass'[u]) = Entries(pass[u])
              /\ pass'[u].current = pass[u].current /\ pass'[u].patch = pass[u].patch
<1>0. PICK n \in Nat : Below(n)
  BY DEF Typed
<1>1. /\ TypeOK /\ \A t \in Nat : Rank(t) \in Nat
      /\ Cardinality(TimesInUse \ {0}) \in Nat
  BY <1>0, Ranks DEF Typed
<1>2. \A s \in Subscriptions : /\ status'[s].ready = status[s].ready
                               /\ status'[s].lastAttempt = Rank(status[s].lastAttempt)
  BY DEF deliver_updates, Renumbered
<1>3. PICK c : c = Cardinality(TimesInUse \ {0})
  OBVIOUS
<1>4. /\ pass[r] = None
      /\ pass'[r] = [version |-> version[r], now |-> c + 1, spent |-> FALSE, owed |-> Owed(r),
                     current |-> None, delivered |-> 0, events |-> 0, patch |-> None]
  BY <1>3 DEF deliver_updates
<1>5. Owed(r) \in SUBSET Entry /\ version[r] \in Versions
  BY <1>1, OwedTyped DEF TypeOK
<1>6. c + 1 \in Nat /\ 0 \in Versions
  BY SMT, <1>1, <1>3, SubscriptionAssumption DEF Versions
<1>7. PICK o \in SUBSET Entry, v \in Versions, t \in Nat :
        /\ o = Owed(r) /\ t = c + 1
        /\ pass'[r] = [version |-> v, now |-> t, spent |-> FALSE, owed |-> o,
                       current |-> None, delivered |-> 0, events |-> 0, patch |-> None]
  BY <1>4, <1>5, <1>6
<1>8. /\ pass'[r] \in Pass /\ pass'[r].owed = o /\ pass'[r].current = None
      /\ pass'[r].patch = None /\ pass'[r].now = t
  BY SMT, <1>6, <1>7 DEF Pass, Times
<1>9. pass'[r] # None /\ Entries(pass'[r]) = Owed(r)
  BY <1>7, <1>8, NoneAssumption DEF Entries
<1>10. \A u \in Repositories : u # r /\ pass[u] = None => pass'[u] = None
  BY DEF deliver_updates
<1>11. ASSUME NEW u \in Repositories, u # r, pass[u] # None
       PROVE  /\ pass'[u] # None /\ pass'[u] \in Pass /\ pass'[u].now = Rank(pass[u].now)
              /\ Entries(pass'[u]) = Entries(pass[u])
              /\ pass'[u].current = pass[u].current /\ pass'[u].patch = pass[u].patch
  <2>1. pass[u] \in Pass
    BY <1>1, <1>11, PassOf
  <2>2. DOMAIN pass[u] = {"version", "now", "spent", "owed", "current", "delivered", "events", "patch"}
    BY <2>1, PassDomain
  <2>3. PICK q : q = pass'[u] /\ q = [pass[u] EXCEPT !.now = Rank(@)]
    BY <1>11 DEF deliver_updates
  <2>4. /\ q.version = pass[u].version /\ q.now = Rank(pass[u].now) /\ q.spent = pass[u].spent
        /\ q.owed = pass[u].owed /\ q.current = pass[u].current
        /\ q.delivered = pass[u].delivered /\ q.events = pass[u].events
        /\ q.patch = pass[u].patch
    BY <2>2, <2>3
  <2>5. DOMAIN q = DOMAIN pass[u] /\ q = [x \in DOMAIN q |-> q[x]]
    BY <2>3
  <2>6. Rank(pass[u].now) \in Nat
    BY <1>1, <2>1, PassFields
  <2>7. q \in Pass
    BY <2>1, <2>2, <2>4, <2>5, <2>6, PassFields, PassOfFields
  <2>8. q # None
    BY <2>7, NoneAssumption
  <2> QED
    BY <1>11, <2>3, <2>4, <2>7, <2>8 DEF Entries
<1> QED
  BY <1>2, <1>3, <1>4, <1>7, <1>8, <1>9, <1>10, <1>11

\* Starting a pass keeps the types: the times stay bounded, by one more.
LEMMA TypedStart ==
  ASSUME Typed, NEW r \in Repositories, deliver_updates(r)
  PROVE  Typed'
<1>1. PICK n \in Nat : Below(n)
  BY DEF Typed
<1>2. TypeOK
  BY DEF Typed
<1>3. /\ \A t \in Nat : Rank(t) \in Nat /\ Rank(t) <= t
      /\ Cardinality(TimesInUse \ {0}) \in Nat /\ Cardinality(TimesInUse \ {0}) <= n
  BY <1>1, <1>2, Ranks
<1>4. n + 1 \in Nat /\ \A t \in Nat : t <= n => Rank(t) <= n + 1
  BY SMT, <1>3
<1>5. \A s \in Subscriptions : status[s].lastAttempt \in Nat /\ status[s].lastAttempt <= n
  BY SMT, <1>1, <1>2 DEF TypeOK, Status, Times, Below
<1>6. status' \in [Subscriptions -> Status]
  <2>1. \A s \in Subscriptions : [delivered |-> status[s].delivered,
                                  lastAttempt |-> Rank(status[s].lastAttempt),
                                  ready |-> status[s].ready] \in Status
    <3>1. \A s \in Subscriptions : /\ status[s].delivered \in [Repositories -> Versions]
                                   /\ status[s].ready \in Reasons \cup {None}
      BY SMT, <1>2 DEF TypeOK, Status
    <3>2. \A d \in [Repositories -> Versions] : \A t \in Nat : \A w \in Reasons \cup {None} :
            [delivered |-> d, lastAttempt |-> t, ready |-> w] \in Status
      BY SMT DEF Status, Times
    <3> QED
      BY <1>3, <1>5, <3>1, <3>2
  <2> QED
    BY <2>1 DEF deliver_updates, Renumbered
<1>7. \A s \in Subscriptions : status'[s].lastAttempt <= n + 1
  BY <1>4, <1>5, StartFacts
<1>8. late' \subseteq Late /\ \A p \in late' : p.now <= n + 1
  <2>1. \A l \in late : l \in Late /\ l.now <= n
    BY <1>1, <1>2 DEF TypeOK, Below
  <2>2. ASSUME NEW p \in late' PROVE p \in Late /\ p.now <= n + 1
    <3>1. PICK l \in late : p = [l EXCEPT !.now = Rank(@)]
      BY DEF deliver_updates, Renumbered
    <3>2. l \in Late /\ l.now <= n
      BY <2>1
    <3>3. /\ l.sub \in Subscriptions /\ l.repository \in Repositories /\ l.patch \in Patch
          /\ l.now \in Nat /\ DOMAIN l = {"sub", "repository", "now", "patch"}
      BY SMT, <3>2 DEF Late, Times
    <3>4. PICK t \in Nat : t = Rank(l.now)
      BY <1>3, <3>3
    <3>5. /\ p.sub = l.sub /\ p.repository = l.repository /\ p.patch = l.patch /\ p.now = t
          /\ DOMAIN p = DOMAIN l /\ p = [x \in DOMAIN p |-> p[x]]
      BY <3>1, <3>3, <3>4
    <3>6. \A q : /\ q = [x \in DOMAIN q |-> q[x]] /\ DOMAIN q = {"sub", "repository", "now", "patch"}
                 /\ q.sub \in Subscriptions /\ q.repository \in Repositories
                 /\ q.now \in Nat /\ q.patch \in Patch
                 => q \in Late
      BY SMT DEF Late, Times
    <3> QED
      BY <1>4, <3>2, <3>3, <3>4, <3>5, <3>6
  <2> QED
    BY <2>2
<1>9. \A u \in Repositories : /\ pass'[u] \in Pass \cup {None}
                              /\ pass'[u] # None => pass'[u].now <= n + 1
  <2>1. \A u \in Repositories : pass[u] # None => pass[u].now \in Nat /\ pass[u].now <= n
    BY <1>1, <1>2, PassOf, PassFields DEF Below
  <2>2. pass'[r].now <= n + 1 /\ pass'[r] \in Pass
    <3>1. Cardinality(TimesInUse \ {0}) + 1 <= n + 1
      BY SMT, <1>3
    <3> QED
      BY <3>1, StartFacts
  <2>3. ASSUME NEW u \in Repositories, u # r
        PROVE  pass'[u] \in Pass \cup {None} /\ (pass'[u] # None => pass'[u].now <= n + 1)
    BY <1>4, <2>1, <2>3, StartFacts
  <2> QED
    BY <2>2, <2>3
<1>10. pass' \in [Repositories -> Pass \cup {None}]
  <2>1. pass' = [u \in Repositories |-> pass'[u]]
    BY DEF deliver_updates
  <2> QED
    BY <1>9, <2>1
<1>11. UNCHANGED <<version, received, faults>>
  BY DEF deliver_updates
<1>12. TypeOK'
  BY <1>2, <1>6, <1>8, <1>10, <1>11 DEF TypeOK
<1>13. Below(n + 1)'
  BY <1>7, <1>8, <1>9 DEF Below
<1> QED
  BY <1>4, <1>12, <1>13 DEF Typed

-----------------------------------------------------------------------------
\* An entry that was listed as told has still been told, or was attempted by this pass,
\* if it follows this repository alone and nothing has failed.
Standing(e, r) ==
  RefOf[e.sub] = r /\ faults = 0 /\ e.ready \in Told =>
    status[e.sub].ready \in Told \/ status[e.sub].lastAttempt = pass[r].now

Tells ==
  /\ faults = 0 => late = {}
  /\ Addressed
  /\ \A r \in Repositories : \A e \in Entries(pass[r]) : covers(e.sub, r) /\ Standing(e, r)

ToldInv == Typed /\ Tells

\* The entries of a pass are entries.
LEMMA EntriesTyped ==
  ASSUME TypeOK, NEW r \in Repositories
  PROVE  /\ \A e \in Entries(pass[r]) : e \in Entry /\ e.sub \in Subscriptions
         /\ Entries(pass[r]) # {} => pass[r] # None
<1>1. \A e \in Entry : e.sub \in Subscriptions
  BY SMT DEF Entry
<1>2. Entries(pass[r]) # {} => pass[r] # None
  BY DEF Entries
<1>3. pass[r] # None => pass[r].owed \subseteq Entry /\ pass[r].current \in Entry \cup {None}
  BY PassOf, PassFields
<1> QED
  BY <1>1, <1>2, <1>3 DEF Entries

\* A pass that goes on without writing leaves what it still knows standing, and what it
\* dropped had been told.
LEMMA TellsWalk ==
  ASSUME ToldInv, NEW r \in Repositories, NEW q, Walk(r, q)
  PROVE  Tells' /\ NobodyPassedOver
<1>1. TypeOK /\ pass \in [Repositories -> Pass \cup {None}]
  BY DEF ToldInv, Typed, TypeOK
<1>2. /\ pass[r] # None /\ pass' = [pass EXCEPT ![r] = q]
      /\ q # None => q.now = pass[r].now /\ (q.patch # None => q.current # None)
      /\ Entries(q) \subseteq Entries(pass[r])
      /\ \A e \in Entries(pass[r]) \ Entries(q) : e.ready \in Told
      /\ status' = status /\ late' = late /\ faults' = faults
  BY DEF Walk
<1>3. \A u \in Repositories : pass'[u] = IF u = r THEN q ELSE pass[u]
  BY <1>1, <1>2
<1>4. \A e : e \in Entries(q) => q # None
  BY DEF Entries
<1>5. Addressed'
  BY <1>2, <1>3 DEF ToldInv, Tells, Addressed
<1>6. \A u \in Repositories : Entries(pass[u])' = Entries(pass'[u])
  BY DEF Entries
<1>7. ASSUME NEW u \in Repositories, NEW e \in Entries(pass'[u])
      PROVE  covers(e.sub, u) /\ Standing(e, u)'
  <2>1. e \in Entries(pass[u]) /\ pass'[u].now = pass[u].now
    BY <1>2, <1>3, <1>4, <1>7
  <2> QED
    BY <1>2, <2>1 DEF ToldInv, Tells, Standing
<1>8. Tells'
  BY <1>2, <1>5, <1>6, <1>7 DEF ToldInv, Tells, covers
<1>9. ASSUME NEW u \in Repositories, NEW s \in Concerned(u) \ Concerned(u)', RefOf[s] = u, faults' = 0
      PROVE  status'[s].lastAttempt = pass[u].now \/ status'[s].ready \in Told
  <2>1. PICK e \in Entries(pass[u]) : s = e.sub
    BY <1>9 DEF Concerned
  <2>2. e \notin Entries(pass'[u])
    BY <1>6, <1>9, <2>1 DEF Concerned
  <2>3. u = r /\ e.ready \in Told
    BY <1>2, <1>3, <2>1, <2>2
  <2> QED
    BY <1>2, <1>9, <2>1, <2>3 DEF ToldInv, Tells, Standing
<1> QED
  BY <1>8, <1>9 DEF NobodyPassedOver

\* A patch that lands tells its subscription or stamps the attempt; no other pass has to
\* do with a subscription that follows this repository alone.
LEMMA TellsLands ==
  ASSUME ToldInv, NEW r \in Repositories, PatchLands(r)
  PROVE  Tells' /\ NobodyPassedOver
<1>1. TypeOK /\ pass \in [Repositories -> Pass \cup {None}] /\ Addressed
  BY DEF ToldInv, Typed, TypeOK, Tells
<1>2. /\ pass[r] # None /\ pass[r].patch # None
      /\ status' = status_document(pass[r].current.sub, r, pass[r].now, pass[r].patch)
      /\ late' = late /\ faults' = faults
  BY DEF PatchLands
<1>3. /\ pass[r].patch \in Patch /\ pass[r].now \in Nat /\ pass[r].current.sub \in Subscriptions
      /\ pass[r].current \in Entries(pass[r])
  BY <1>1, <1>2, PatchFacts
<1>4. PICK s \in Subscriptions : s = pass[r].current.sub
  BY <1>3
<1>5. PICK n \in Nat : Below(n)
  BY DEF ToldInv, Typed
<1>6. /\ \A t \in Subscriptions : t # s => status'[t] = status[t]
      /\ status'[s].ready \in Told \/ status'[s].lastAttempt = pass[r].now
  <2>1. pass[r].now <= n
    BY <1>2, <1>5 DEF Below
  <2>2. /\ \A t \in Subscriptions : t # s => status'[t] = status[t]
        /\ status'[s].ready = pass[r].patch.ready
        /\ pass[r].patch.ready # "DeliveryDeferred" => status'[s].lastAttempt = pass[r].now
    <3>1. PICK now \in Nat, patch \in Patch : now = pass[r].now /\ patch = pass[r].patch
      BY <1>3
    <3>2. status' = status_document(s, r, now, patch) /\ now <= n
      BY <1>2, <1>4, <2>1, <3>1
    <3>3. /\ \A t \in Subscriptions : t # s => status'[t] = status[t]
          /\ status'[s].ready = patch.ready
          /\ patch.ready # "DeliveryDeferred" => status'[s].lastAttempt = now
      BY SMT, <1>1, <1>5, <3>2, TypedLanding
    <3> QED
      BY <3>1, <3>3
  <2> QED
    BY <2>2 DEF Told
<1>7. PICK q : q = Rest(r, pass[r].owed)
  OBVIOUS
<1>8. /\ pass' = [pass EXCEPT ![r] = q]
      /\ Entries(q) = pass[r].owed /\ (q # None => q.now = pass[r].now /\ q.patch = None)
  BY <1>1, <1>2, <1>7, RestFields DEF PatchLands
<1>9. \A u \in Repositories : pass'[u] = IF u = r THEN q ELSE pass[u]
  BY <1>1, <1>8
<1>10. \A u \in Repositories : Entries(pass[u])' = Entries(pass'[u])
  BY DEF Entries
<1>11. \A e : e \in Entries(q) => q # None /\ e \in Entries(pass[r])
  BY <1>2, <1>8 DEF Entries
<1>12. Addressed'
  BY <1>1, <1>8, <1>9 DEF Addressed
<1>13. covers(s, r) /\ \A u \in Repositories : RefOf[s] = u => u = r
  BY <1>3, <1>4, NoneAssumption DEF ToldInv, Tells, covers
<1>14. ASSUME NEW u \in Repositories, NEW e \in Entries(pass'[u])
       PROVE  covers(e.sub, u) /\ Standing(e, u)'
  <2>1. e \in Entries(pass[u]) /\ pass'[u].now = pass[u].now
    BY <1>8, <1>9, <1>11, <1>14
  <2>2. e.sub \in Subscriptions /\ covers(e.sub, u) /\ Standing(e, u)
    BY <1>1, <2>1, EntriesTyped DEF ToldInv, Tells
  <2>3. CASE e.sub # s
    BY <1>2, <1>6, <2>1, <2>2, <2>3 DEF Standing
  <2>4. CASE e.sub = s
    BY <1>6, <1>13, <2>1, <2>2, <2>4 DEF Standing
  <2> QED
    BY <2>2, <2>3, <2>4
<1>15. Tells'
  BY <1>2, <1>10, <1>12, <1>14 DEF ToldInv, Tells, covers
<1>16. ASSUME NEW u \in Repositories, NEW t \in Concerned(u) \ Concerned(u)', RefOf[t] = u
       PROVE  status'[t].lastAttempt = pass[u].now \/ status'[t].ready \in Told
  <2>1. PICK e \in Entries(pass[u]) : t = e.sub
    BY <1>16 DEF Concerned
  <2>2. e \notin Entries(pass'[u])
    BY <1>10, <1>16, <2>1 DEF Concerned
  <2>3. u = r /\ e \notin pass[r].owed
    BY <1>8, <1>9, <2>1, <2>2
  <2>4. e = pass[r].current
    BY <1>2, <2>1, <2>3 DEF Entries
  <2> QED
    BY <1>4, <1>6, <2>1, <2>3, <2>4
<1> QED
  BY <1>15, <1>16 DEF NobodyPassedOver

\* After a fault nothing is promised any more; before one no late patch exists.
LEMMA TellsFault ==
  ASSUME ToldInv, NEW r \in Repositories, PatchFails(r) \/ Die(r)
  PROVE  Tells' /\ NobodyPassedOver
<1>1. TypeOK /\ pass \in [Repositories -> Pass \cup {None}] /\ Addressed
  BY DEF ToldInv, Typed, TypeOK, Tells
<1>2. pass[r] # None /\ faults' = faults + 1
  BY DEF PatchFails, Die
<1>3. faults' # 0
  BY SMT, <1>1, <1>2, SubscriptionAssumption DEF TypeOK
<1>4. PICK q : /\ pass' = [pass EXCEPT ![r] = q] /\ Entries(q) \subseteq Entries(pass[r])
               /\ q # None => q.patch = None
  <2>1. CASE PatchFails(r)
    <3>1. PICK q : q = Rest(r, pass[r].owed)
      OBVIOUS
    <3>2. pass' = [pass EXCEPT ![r] = q]
      BY <2>1, <3>1 DEF PatchFails
    <3>3. Entries(q) = pass[r].owed /\ (q # None => q.patch = None)
      BY <1>1, <1>2, <3>1, RestFields
    <3>4. pass[r].owed \subseteq Entries(pass[r])
      BY <1>2 DEF Entries
    <3> QED
      BY <3>2, <3>3, <3>4
  <2>2. CASE Die(r)
    <3>1. pass' = [pass EXCEPT ![r] = None]
      BY <2>2 DEF Die
    <3>2. Entries(None) = {}
      BY DEF Entries
    <3> QED
      BY <3>1, <3>2
  <2> QED
    BY <2>1, <2>2
<1>5. \A u \in Repositories : pass'[u] = IF u = r THEN q ELSE pass[u]
  BY <1>1, <1>4
<1>6. Addressed'
  BY <1>1, <1>4, <1>5 DEF Addressed
<1>7. \A u \in Repositories : Entries(pass[u])' = Entries(pass'[u])
  BY DEF Entries
<1>8. \A u \in Repositories : \A e \in Entries(pass'[u]) : covers(e.sub, u)
  BY <1>4, <1>5 DEF ToldInv, Tells
<1>9. \A u, e : Standing(e, u)'
  BY <1>3 DEF Standing
<1>10. Tells'
  BY <1>3, <1>6, <1>7, <1>8, <1>9 DEF Tells, covers
<1> QED
  BY <1>3, <1>10 DEF NobodyPassedOver

\* A pass starts from what the status says; renumbering the times moves the stamps and
\* the times of the passes alike.
LEMMA TellsStart ==
  ASSUME ToldInv, NEW r \in Repositories, deliver_updates(r)
  PROVE  Tells' /\ NobodyPassedOver
<1>1. TypeOK /\ Typed
  BY DEF ToldInv, Typed
<1>2. /\ \A s \in Subscriptions : /\ status'[s].ready = status[s].ready
                                  /\ status'[s].lastAttempt = Rank(status[s].lastAttempt)
      /\ pass[r] = None /\ Entries(pass'[r]) = Owed(r) /\ pass'[r].patch = None
      /\ \A u \in Repositories : u # r /\ pass[u] = None => pass'[u] = None
      /\ \A u \in Repositories : u # r /\ pass[u] # None =>
           /\ pass'[u].now = Rank(pass[u].now) /\ Entries(pass'[u]) = Entries(pass[u])
           /\ pass'[u].current = pass[u].current /\ pass'[u].patch = pass[u].patch
  BY <1>1, StartFacts
<1>3. faults' = faults /\ (late = {} => late' = {})
  BY DEF deliver_updates, Renumbered
<1>4. Addressed'
  BY <1>2 DEF ToldInv, Tells, Addressed
<1>5. \A u \in Repositories : Entries(pass[u])' = Entries(pass'[u])
  BY DEF Entries
<1>6. \A u \in Repositories : u # r => Entries(pass'[u]) = Entries(pass[u])
  BY <1>2 DEF Entries
<1>7. ASSUME NEW u \in Repositories, NEW e \in Entries(pass'[u])
      PROVE  covers(e.sub, u) /\ Standing(e, u)'
  <2>1. CASE u = r
    <3>1. /\ e \in Owed(r) /\ e \in Entry /\ covers(e.sub, r) /\ e.ready = status[e.sub].ready
      BY <1>1, <1>2, <1>7, <2>1, OwedTyped
    <3>2. e.sub \in Subscriptions
      BY SMT, <3>1 DEF Entry
    <3> QED
      BY <1>2, <2>1, <3>1, <3>2 DEF Standing
  <2>2. CASE u # r
    <3>1. e \in Entries(pass[u]) /\ e.sub \in Subscriptions /\ pass[u] # None
      BY <1>1, <1>6, <1>7, <2>2, EntriesTyped
    <3>2. covers(e.sub, u) /\ Standing(e, u)
      BY <3>1 DEF ToldInv, Tells
    <3> QED
      BY <1>2, <1>3, <2>2, <3>1, <3>2 DEF Standing
  <2> QED
    BY <2>1, <2>2
<1>8. Tells'
  BY <1>3, <1>4, <1>5, <1>7 DEF ToldInv, Tells, covers
<1>9. \A u \in Repositories : Concerned(u) \subseteq Concerned(u)'
  <2>1. Entries(pass[r]) = {}
    BY <1>2 DEF Entries
  <2> QED
    BY <1>5, <1>6, <2>1 DEF Concerned
<1> QED
  BY <1>8, <1>9 DEF NobodyPassedOver

\* Without a fault there is no late patch, so a late one breaks no promise; a
\* publication and a step that changes nothing do not touch any pass.
LEMMA TellsOutside ==
  ASSUME ToldInv, \/ \E p \in late : LateLands(p)
                  \/ \E r \in Repositories : Publish(r)
                  \/ UNCHANGED vars
  PROVE  Tells' /\ NobodyPassedOver
<1>1. pass' = pass /\ faults' = faults
  BY DEF LateLands, Publish, vars
<1>2. \A u \in Repositories : Entries(pass[u])' = Entries(pass[u])
  BY <1>1 DEF Entries
<1>3. Addressed'
  BY <1>1 DEF ToldInv, Tells, Addressed
<1>4. (faults = 0 => late' = {}) /\ (faults = 0 => status' = status)
  BY DEF ToldInv, Tells, LateLands, Publish, vars
<1>5. \A u \in Repositories : \A e \in Entries(pass[u]) : covers(e.sub, u) /\ Standing(e, u)'
  BY <1>1, <1>4 DEF ToldInv, Tells, Standing
<1>6. Tells'
  BY <1>1, <1>2, <1>3, <1>4, <1>5 DEF Tells, covers
<1>7. \A u \in Repositories : Concerned(u)' = Concerned(u)
  BY <1>2 DEF Concerned
<1> QED
  BY <1>6, <1>7 DEF NobodyPassedOver

\* The promise is inductive, and every step keeps it.
LEMMA ToldStep ==
  ASSUME ToldInv, [Next]_vars
  PROVE  ToldInv' /\ NobodyPassedOver
<1>1. Typed /\ Addressed
  BY DEF ToldInv, Tells
<1>2. ASSUME NEW r \in Repositories, WalkStep(r) PROVE ToldInv' /\ NobodyPassedOver
  <2>1. PICK q : Walk(r, q)
    BY <1>1, <1>2, StepsWalk DEF Typed
  <2>2. Typed'
    BY <1>1, <1>2, TypedWalk
  <2> QED
    BY <2>1, <2>2, TellsWalk DEF ToldInv
<1>3. ASSUME NEW r \in Repositories, PatchLands(r) \/ PatchFails(r) \/ Die(r)
      PROVE  ToldInv' /\ NobodyPassedOver
  <2>1. Typed'
    BY <1>1, <1>3, TypedPatch
  <2> QED
    BY <1>3, <2>1, TellsLands, TellsFault DEF ToldInv
<1>4. ASSUME NEW r \in Repositories, deliver_updates(r) PROVE ToldInv' /\ NobodyPassedOver
  BY <1>1, <1>4, TypedStart, TellsStart DEF ToldInv
<1>5. CASE (\E p \in late : LateLands(p)) \/ (\E r \in Repositories : Publish(r))
  <2>1. Typed'
    BY <1>1, <1>5, TypedOutside
  <2> QED
    BY <1>5, <2>1, TellsOutside DEF ToldInv
<1>6. CASE UNCHANGED vars
  <2>1. Typed'
    BY <1>1, <1>6 DEF vars, Typed, TypeOK, Below
  <2> QED
    BY <1>6, <2>1, TellsOutside DEF ToldInv
<1>7. CASE Next
  BY <1>2, <1>3, <1>4, <1>5, <1>7 DEF Next, PassStep, WalkStep
<1> QED
  BY <1>6, <1>7

\* Nothing is listed before the first pass.
LEMMA ToldInit == Init => ToldInv
<1> SUFFICES ASSUME Init PROVE ToldInv
  OBVIOUS
<1>1. Typed
  BY TypedInit
<1>2. late = {} /\ \A r \in Repositories : pass[r] = None
  BY DEF Init
<1>3. Tells
  BY <1>2 DEF Tells, Addressed, Entries
<1> QED
  BY <1>1, <1>3 DEF ToldInv

\* For any number of subscriptions, repositories, generations and faults the state keeps
\* its types: marks stay within the published generations, and times are numbers.
THEOREM TypeCorrect == Spec => []TypeOK
<1>1. ToldInv => TypeOK
  BY DEF ToldInv, Typed
<1>2. ToldInv /\ [Next]_vars => ToldInv'
  BY ToldStep
<1> QED
  BY <1>1, <1>2, ToldInit, PTL DEF Spec

\* For any number of subscriptions and repositories: a subscription to one repository
\* that leaves a pass was attempted or has been told that it waits, unless a patch failed
\* or a controller died.
THEOREM NobodyIsForgotten == Spec => AttemptedOrTold
<1>1. ToldInv /\ [Next]_vars => ToldInv'
  BY ToldStep
<1>2. ToldInv /\ [Next]_vars => [NobodyPassedOver]_vars
  BY ToldStep
<1> QED
  BY <1>1, <1>2, ToldInit, PTL DEF Spec, AttemptedOrTold

=============================================================================
