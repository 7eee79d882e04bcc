--------------------------- MODULE Subscription ---------------------------
(***************************************************************************)
(* Delivery of update events to UpdateSubscriptions: the at-least-once     *)
(* webhook push the controller runs at the end of every reconcile          *)
(* (updatec/src/subscription.rs).  Each repository has a controller of its *)
(* own, so the delivery passes of two repositories run concurrently and    *)
(* meet in the status of a subscription that covers both.                  *)
(*                                                                         *)
(* A pass lists the subscriptions, orders the ones that are owed an event  *)
(* by the time of their last attempt, and serves them in that order until  *)
(* its budget is spent.  Everything it knows of a subscription is what the *)
(* listing said; everything it learns goes into a status patch that may    *)
(* fail, and that a dying process may leave behind to land late.           *)
(***************************************************************************)
EXTENDS Naturals, FiniteSets

CONSTANTS
  NumSubscriptions,     \* subscriptions, numbered in the order of their names
  Repositories,         \* one controller each
  RefOf,                \* spec.repositoryRef of each subscription, or None
  Reliable,             \* subscriptions with a valid webhook that answers again and again
  MAX_EVENTS_PER_PASS,  \* catch-up events per subscription and pass
  MaxVersion,           \* bound: published generations
  MaxFaults,            \* bound: failed status patches and controller deaths
  None

Subscriptions == 1 .. NumSubscriptions

ASSUME SubscriptionAssumption ==
  /\ NumSubscriptions \in Nat \ {0}
  /\ RefOf \in [Subscriptions -> Repositories \cup {None}]
  /\ Reliable \subseteq Subscriptions
  /\ MAX_EVENTS_PER_PASS \in Nat \ {0}
  /\ MaxVersion \in Nat /\ MaxFaults \in Nat

VARIABLES
  version,    \* [Repositories -> Nat]: the generation each repository serves
  status,     \* [Subscriptions -> Status]: the status of each CR
  received,   \* [Subscriptions -> [Repositories -> SUBSET Nat]]: events that reached the webhook
  pass,       \* [Repositories -> pass record or None]: the pass each controller is in
  late,       \* patches of dead controllers that have not landed yet
  faults      \* Nat: faults so far

vars == <<version, status, received, pass, late, faults>>

Versions == 0 .. MaxVersion
Reasons  == {"Delivered", "DeliveryFailed", "DeliveryDeferred"}

(***************************************************************************)
(* Times are only ever compared, so they are kept as ranks: 0 is "never",  *)
(* and a new pass gets a time above every other (see Renumbered).          *)
(***************************************************************************)
Times  == Nat
Status == [delivered : [Repositories -> Versions], lastAttempt : Times, ready : Reasons \cup {None}]
Patch  == [delivered : Versions, ready : Reasons]
Late   == [sub : Subscriptions, repository : Repositories, now : Times, patch : Patch]

\* What a pass keeps of a listed subscription; turn is its place in the order.
Entry  == [sub : Subscriptions, mark : Versions, ready : Reasons \cup {None}, turn : Nat]

\* A pass: the entries it has not come to, the one it is at, how far the catch-up
\* of that one is, and the patch it has sent.
Pass   == [version : Versions, now : Times, spent : BOOLEAN,
           owed : SUBSET Entry, current : Entry \cup {None},
           delivered : Versions, events : Nat, patch : Patch \cup {None}]

\* None is none of the values it stands in for.
ASSUME NoneAssumption == None \notin Repositories /\ None \notin Entry /\ None \notin Pass

TypeOK ==
  /\ version \in [Repositories -> Versions]
  /\ status \in [Subscriptions -> Status]
  /\ received \in [Subscriptions -> [Repositories -> SUBSET Versions]]
  /\ pass \in [Repositories -> Pass \cup {None}]
  /\ late \subseteq Late
  /\ faults \in 0 .. MaxFaults

Init ==
  /\ version = [r \in Repositories |-> 0]
  /\ status = [s \in Subscriptions |->
                 [delivered |-> [r \in Repositories |-> 0], lastAttempt |-> 0, ready |-> None]]
  /\ received = [s \in Subscriptions |-> [r \in Repositories |-> {}]]
  /\ pass = [r \in Repositories |-> None]
  /\ late = {}
  /\ faults = 0

-----------------------------------------------------------------------------
(* Listing and ordering the subscriptions of a pass. *)

covers(s, r) == RefOf[s] \in {None, r}

\* The generations still owed at a mark.
pending(mark, v) == mark + 1 .. v

\* Mutant: every pass starts at the first name.
MutByName(s, t) == s < t

\* The least recently attempted subscription comes first, the name breaks ties.
delivery_order(s, t) ==
  \/ status[s].lastAttempt < status[t].lastAttempt
  \/ status[s].lastAttempt = status[t].lastAttempt /\ s < t

\* The subscriptions that are owed an event of r, and what the pass keeps of them.
Behind(r) ==
  {s \in Subscriptions : covers(s, r) /\ pending(status[s].delivered[r], version[r]) # {}}

Turn(s, r) == Cardinality({t \in Behind(r) : delivery_order(t, s)})

Owed(r) ==
  {[sub |-> s, mark |-> status[s].delivered[r], ready |-> status[s].ready, turn |-> Turn(s, r)] :
     s \in Behind(r)}

TimesInUse ==
  {status[s].lastAttempt : s \in Subscriptions}
    \cup {pass[r].now : r \in {q \in Repositories : pass[q] # None}}
    \cup {p.now : p \in late}

\* The rank of a time among the times in use.
Rank(t) == Cardinality({u \in TimesInUse \ {0} : u <= t})

\* Closes the gaps in the numbering of the times; their order is what it was.
Renumbered ==
  /\ status' = [s \in Subscriptions |->
       [delivered |-> status[s].delivered, lastAttempt |-> Rank(status[s].lastAttempt),
        ready |-> status[s].ready]]
  /\ late' = {[p EXCEPT !.now = Rank(@)] : p \in late}

\* Starts a pass: the generation, the time and the listing it works from.  The
\* passes of the other controllers go on.
deliver_updates(r) ==
  /\ pass[r] = None
  /\ version[r] > 0
  /\ Owed(r) # {}
  /\ Renumbered
  /\ pass' = [q \in Repositories |->
       IF q = r
       THEN [version |-> version[r], now |-> Cardinality(TimesInUse \ {0}) + 1, spent |-> FALSE,
             owed |-> Owed(r), current |-> None, delivered |-> 0, events |-> 0, patch |-> None]
       ELSE IF pass[q] = None THEN None ELSE [pass[q] EXCEPT !.now = Rank(@)]]
  /\ UNCHANGED <<version, received, faults>>

\* The budget runs out.  The clock does not ask what the pass is doing.
Expire(r) ==
  /\ pass[r] # None /\ ~pass[r].spent
  /\ pass' = [pass EXCEPT ![r].spent = TRUE]
  /\ UNCHANGED <<version, status, received, late, faults>>

-----------------------------------------------------------------------------
(* Serving one subscription. *)

Choosing(r) == pass[r] # None /\ pass[r].current = None
Posting(r)  == pass[r] # None /\ pass[r].current # None /\ pass[r].patch = None

\* The subscription whose turn it is.
First(r) == {e \in pass[r].owed : \A f \in pass[r].owed : e.turn <= f.turn}

\* Takes an entry from the queue, and sends a patch at once unless it is None.
Take(r, e, patch) ==
  pass' = [pass EXCEPT ![r] = [pass[r] EXCEPT !.owed = @ \ {e}, !.current = e, !.delivered = e.mark,
                                              !.events = 0, !.patch = patch]]

\* The pass r is in once it is done with its current entry, rest being to come.
Rest(r, rest) ==
  IF rest = {} THEN None
  ELSE [pass[r] EXCEPT !.owed = rest, !.current = None, !.delivered = 0, !.events = 0,
                       !.patch = None]

\* The status patch for the current entry.
record(r, delivered, reason) ==
  pass' = [pass EXCEPT ![r].patch = [delivered |-> delivered, ready |-> reason]]

\* Whether the listed condition already says as much as a deferral would.
deferral_says_nothing_new(e) == e.ready \in {"DeliveryDeferred", "DeliveryFailed"}

\* deliver_pass takes the next subscription while the budget lasts, and
\* deliver_one finds its webhook and its signing key usable.
Serve(r) ==
  /\ Choosing(r) /\ ~pass[r].spent
  /\ \E e \in First(r) : Take(r, e, None)
  /\ UNCHANGED <<version, status, received, late, faults>>

\* deliver_one finds the webhook URL or the signing key unusable.
Refuse(r) ==
  /\ Choosing(r) /\ ~pass[r].spent
  /\ \E e \in First(r) :
       /\ e.sub \notin Reliable
       /\ Take(r, e, [delivered |-> e.mark, ready |-> "DeliveryFailed"])
  /\ UNCHANGED <<version, status, received, late, faults>>

\* Mutant: a pass that runs out of budget just ends.
MutForgetRest(r) ==
  /\ Choosing(r) /\ pass[r].spent
  /\ pass' = [pass EXCEPT ![r] = None]
  /\ UNCHANGED <<version, status, received, late, faults>>

\* deliver_pass tells a subscription it did not reach, unless its condition says enough.
DeferRest(r) ==
  /\ Choosing(r) /\ pass[r].spent
  /\ \E e \in First(r) :
       IF deferral_says_nothing_new(e)
       THEN pass' = [pass EXCEPT ![r] = Rest(r, pass[r].owed \ {e})]
       ELSE Take(r, e, [delivered |-> e.mark, ready |-> "DeliveryDeferred"])
  /\ UNCHANGED <<version, status, received, late, faults>>

\* Whether the catch-up loop goes round once more.
MorePosts(r) ==
  /\ pending(pass[r].delivered, pass[r].version) # {}
  /\ pass[r].events < MAX_EVENTS_PER_PASS
  /\ ~pass[r].spent

Receive(r) ==
  received' = [received EXCEPT ![pass[r].current.sub][r] = @ \cup {pass[r].delivered + 1}]

\* The webhook answers a POST with success.
Acknowledge(r) ==
  /\ Posting(r) /\ MorePosts(r)
  /\ Receive(r)
  /\ pass' = [pass EXCEPT ![r].delivered = @ + 1, ![r].events = @ + 1]
  /\ UNCHANGED <<version, status, late, faults>>

\* The POST fails: it never arrived, or the answer is an error or was lost.
PostFails(r) ==
  /\ Posting(r) /\ MorePosts(r)
  /\ Receive(r) \/ UNCHANGED received
  /\ record(r, pass[r].delivered, "DeliveryFailed")
  /\ UNCHANGED <<version, status, late, faults>>

\* Mutant: a pass that ends without a failure counts as a complete catch-up.
MutConcludeAll(r) ==
  /\ Posting(r) /\ ~MorePosts(r)
  /\ IF pass[r].events > 0 THEN record(r, pass[r].version, "Delivered")
     ELSE IF deferral_says_nothing_new(pass[r].current)
     THEN pass' = [pass EXCEPT ![r] = Rest(r, pass[r].owed)]
     ELSE record(r, pass[r].current.mark, "DeliveryDeferred")
  /\ UNCHANGED <<version, status, received, late, faults>>

\* The catch-up loop ends without a failure.  With no attempt at all it is a deferral.
Conclude(r) ==
  /\ Posting(r) /\ ~MorePosts(r)
  /\ IF pass[r].events > 0 THEN record(r, pass[r].delivered, "Delivered")
     ELSE IF deferral_says_nothing_new(pass[r].current)
     THEN pass' = [pass EXCEPT ![r] = Rest(r, pass[r].owed)]
     ELSE record(r, pass[r].current.mark, "DeliveryDeferred")
  /\ UNCHANGED <<version, status, received, late, faults>>

-----------------------------------------------------------------------------
(* The status patch, and what can become of it. *)

\* The merge patch: this repository's mark and the condition always, the time of
\* the attempt unless it is a deferral.
status_document(s, r, now, patch) ==
  [status EXCEPT ![s] =
     [delivered   |-> [@.delivered EXCEPT ![r] = patch.delivered],
      lastAttempt |-> IF patch.ready = "DeliveryDeferred" THEN @.lastAttempt ELSE now,
      ready       |-> patch.ready]]

PatchLands(r) ==
  /\ pass[r] # None /\ pass[r].patch # None
  /\ status' = status_document(pass[r].current.sub, r, pass[r].now, pass[r].patch)
  /\ pass' = [pass EXCEPT ![r] = Rest(r, pass[r].owed)]
  /\ UNCHANGED <<version, received, late, faults>>

\* A failed patch is logged, and the pass goes on.
PatchFails(r) ==
  /\ faults < MaxFaults
  /\ pass[r] # None /\ pass[r].patch # None
  /\ pass' = [pass EXCEPT ![r] = Rest(r, pass[r].owed)]
  /\ faults' = faults + 1
  /\ UNCHANGED <<version, status, received, late>>

\* The controller dies; a patch on its way may still land, at any later time.
Die(r) ==
  /\ faults < MaxFaults
  /\ pass[r] # None
  /\ pass' = [pass EXCEPT ![r] = None]
  /\ late' = IF pass[r].patch = None THEN late
             ELSE late \cup {[sub |-> pass[r].current.sub, repository |-> r,
                              now |-> pass[r].now, patch |-> pass[r].patch]}
  /\ faults' = faults + 1
  /\ UNCHANGED <<version, status, received>>

LateLands(p) ==
  /\ status' = status_document(p.sub, p.repository, p.now, p.patch)
  /\ late' = late \ {p}
  /\ UNCHANGED <<version, received, pass, faults>>

\* The reconcile that publishes comes before the delivery, in the same process.
Publish(r) ==
  /\ pass[r] = None
  /\ version[r] < MaxVersion
  /\ version' = [version EXCEPT ![r] = @ + 1]
  /\ UNCHANGED <<status, received, pass, late, faults>>

PassStep(r) ==
  \/ deliver_updates(r) \/ Serve(r) \/ Refuse(r) \/ DeferRest(r)
  \/ Acknowledge(r) \/ PostFails(r) \/ Conclude(r) \/ PatchLands(r)

Next ==
  \/ \E r \in Repositories :
       PassStep(r) \/ Expire(r) \/ PatchFails(r) \/ Die(r) \/ Publish(r)
  \/ \E p \in late : LateLands(p)

Spec == Init /\ [][Next]_vars

(***************************************************************************)
(* The controller reconciles every second, and every await of a pass has a *)
(* deadline, so a pass goes on.  Listing and fetching a Secret do not use  *)
(* up the whole budget of every pass.  A reliable webhook answers again    *)
(* and again.                                                              *)
(***************************************************************************)
Fairness ==
  \A r \in Repositories :
    /\ WF_vars(PassStep(r))
    /\ SF_vars(Serve(r))
    /\ SF_vars(Acknowledge(r) \/ PostFails(r))
    /\ \A s \in Reliable : SF_vars(Acknowledge(r) /\ pass[r].current.sub = s)

FairSpec == Spec /\ Fairness

-----------------------------------------------------------------------------
\* "Nothing is skipped": every generation up to a subscription's mark reached its
\* webhook, and none reached it before its predecessors, whatever fails, dies or
\* lands late.
NothingSkipped ==
  \A s \in Subscriptions, r \in Repositories :
    /\ 1 .. status[s].delivered[r] \subseteq received[s][r]
    /\ \A v \in received[s][r] : 1 .. v \subseteq received[s][r]

\* The subscriptions a pass still has to do with.
Entries(p)   == IF p = None THEN {} ELSE p.owed \cup ({p.current} \ {None})
Concerned(r) == {e.sub : e \in Entries(pass[r])}

\* The conditions that tell a subscriber it is waiting.
Told == {"DeliveryDeferred", "DeliveryFailed"}

\* A subscription to r alone that leaves a pass of r was attempted or has been told.
NobodyPassedOver ==
  \A r \in Repositories : \A s \in Concerned(r) \ Concerned(r)' :
    RefOf[s] = r /\ faults' = 0 => \/ status'[s].lastAttempt = pass[r].now
                                  \/ status'[s].ready \in Told

\* A subscription to one repository that a pass is done with got an attempt or says that
\* it is waiting: nothing falls between the two halves of deliver_pass, as long as no
\* patch fails and no controller dies.  A subscription to every repository has one
\* condition for all of them: the listing of one controller can say that it is waiting
\* when the other one has since replaced that by Delivered, and nothing is written.
AttemptedOrTold == [][NobodyPassedOver]_vars

\* A reliable subscriber is caught up with every generation, however many others are
\* broken and eat the budget.
CaughtUp ==
  \A s \in Reliable, r \in Repositories, v \in Versions :
    (covers(s, r) /\ version[r] >= v) ~> status[s].delivered[r] >= v

=============================================================================
