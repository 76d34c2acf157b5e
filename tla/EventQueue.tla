----------------------------- MODULE EventQueue -----------------------------
(***************************************************************************)
(* The time ordered event queue of lab3/eventq.c (lab4 has the same file): *)
(* a sorted list of pending events and a list of free descriptors, linked  *)
(* by hand.  An event's action may be a callback, which may itself queue,  *)
(* remove or execute events while the event is still being served.         *)
(*                                                                         *)
(* A pointer is a sequence of at most one descriptor, NULL the empty one.  *)
(* What an action does to bits, flags and sums is left out.                *)
(***************************************************************************)
EXTENDS Integers, SequencesExt

CONSTANTS
  Descs,         \* descriptors that calloc may return
  Times,
  ID_SPACE,      \* identifiers (2^32 in an unsigned int)
  MAX_ID,        \* bound: events are queued until the next one has this id
  max_events,    \* argument of eventq_init; 0 is no limit
  DELAY          \* how long after its own time a callback queues events

ASSUME EventAssumption ==
  /\ IsFiniteSet(Descs)
  /\ Times \subseteq Nat /\ {ID_SPACE, MAX_ID, max_events, DELAY} \subseteq Nat

VARIABLES
  next, when, id,          \* of the descriptors
  eventq_pending, eventq_free, eventq_event_count, next_ID,
  calls,         \* calls in progress, innermost first
  agenda         \* history: what was queued and neither started nor removed

vars == <<next, when, id, eventq_pending, eventq_free, eventq_event_count,
          next_ID, calls, agenda>>
idleVars == <<eventq_event_count, next_ID>>

NULL == <<>>

\* The descriptors from list on, one more than there are if it is cyclic.
Linked(list, nexts) ==
  LET at[n \in 0 .. Cardinality(Descs)] ==
        IF n = 0 THEN list
        ELSE IF at[n - 1] = NULL THEN NULL ELSE nexts[at[n - 1][1]]
  IN [n \in {n \in 1 .. Cardinality(Descs) + 1 : at[n - 1] # NULL} |-> at[n - 1][1]]

Pending == Linked(eventq_pending, next)
Free == Linked(eventq_free, next)

Running == {calls[i].ev : i \in {i \in 1 .. Len(calls) : calls[i].op # "service"}}

\* What calloc has not returned yet.
Unallocated == Descs \ (ToSet(Pending) \cup ToSet(Free) \cup Running)

Init ==
  /\ next = [d \in Descs |-> NULL]
  /\ when = [d \in Descs |-> 0] /\ id = [d \in Descs |-> 0]
  /\ eventq_pending = NULL /\ eventq_free = NULL
  /\ eventq_event_count = 0 /\ next_ID = 1
  /\ calls = <<>>
  /\ agenda = {}

-----------------------------------------------------------------------------
(* Queueing *)

Servicing == calls # <<>> /\ Head(calls).op = "service"

\* The program calls, or an event's callback.
MayCall == ~Servicing

\* How many pending events are passed before the insertion point.
Earlier(w) ==
  LET later == {i \in 1 .. Len(Pending) : when[Pending[i]] >= w}
  IN IF later = {} THEN Len(Pending) ELSE Min(later) - 1

TooMany == max_events # 0 /\ eventq_event_count >= max_events

\* The descriptor is the first free one or a new one; the events already there
\* at that time come after it.
Queue(w) ==
  LET n == Earlier(w)
  IN /\ MayCall /\ next_ID < MAX_ID
     /\ eventq_free = NULL => ~TooMany
     /\ \E new \in IF eventq_free = NULL THEN Unallocated ELSE ToSet(eventq_free) :
          /\ eventq_free' = IF eventq_free = NULL THEN NULL ELSE next[new]
          /\ when' = [when EXCEPT ![new] = w]
          /\ id' = [id EXCEPT ![new] = next_ID]
          /\ IF n = 0
               THEN /\ next' = [next EXCEPT ![new] = eventq_pending]
                    /\ eventq_pending' = <<new>>
               ELSE /\ next' = [next EXCEPT ![new] = next[Pending[n]],
                                            ![Pending[n]] = <<new>>]
                    /\ UNCHANGED eventq_pending
     /\ agenda' = agenda \cup {[id |-> next_ID, when |-> w]}
     /\ next_ID' = (next_ID + 1) % ID_SPACE
     /\ UNCHANGED <<eventq_event_count, calls>>

\* A callback queues events some time after the event it belongs to.
CallbackTime(w) ==
  MayCall /\ w >= IF calls = <<>> THEN 0 ELSE when[Head(calls).ev] + DELAY

-----------------------------------------------------------------------------
(* Removing and executing by id *)

Event(d) == [id |-> id[d], when |-> when[d]]

\* Mutant: the event before the removed one still leads to it.
UnlinkedNext_Kept(n) == next

\* The links of the list without its n-th event.
UnlinkedNext(n) ==
  IF n = 1 THEN next ELSE [next EXCEPT ![Pending[n - 1]] = next[Pending[n]]]

Found(i) == {n \in 1 .. Len(Pending) : id[Pending[n]] = i}

eventq_remove(i) ==
  /\ MayCall /\ Found(i) # {}
  /\ LET n == Min(Found(i))
         ev == Pending[n]
     IN /\ eventq_pending' = IF n = 1 THEN next[ev] ELSE eventq_pending
        /\ next' = [UnlinkedNext(n) EXCEPT ![ev] = eventq_free]
        /\ eventq_free' = <<ev>>
        /\ agenda' = agenda \ {Event(ev)}
  /\ UNCHANGED <<when, id, idleVars, calls>>

\* The event is taken out before its action starts.
eventq_execute(i) ==
  /\ MayCall /\ Found(i) # {}
  /\ LET n == Min(Found(i))
         ev == Pending[n]
     IN /\ eventq_pending' = IF n = 1 THEN next[ev] ELSE eventq_pending
        /\ next' = UnlinkedNext(n)
        /\ calls' = <<[op |-> "execute", ev |-> ev]>> \o calls
        /\ agenda' = agenda \ {Event(ev)}
  /\ UNCHANGED <<when, id, eventq_free, idleVars>>

ExecuteReturn ==
  /\ calls # <<>> /\ Head(calls).op = "execute"
  /\ LET ev == Head(calls).ev
     IN next' = [next EXCEPT ![ev] = eventq_free] /\ eventq_free' = <<ev>>
  /\ calls' = Tail(calls)
  /\ UNCHANGED <<when, id, eventq_pending, idleVars, agenda>>

-----------------------------------------------------------------------------
(* eventq_service_events: not called from callbacks *)

Service(now) ==
  /\ calls = <<>>
  /\ calls' = <<[op |-> "service", now |-> now]>>
  /\ UNCHANGED <<next, when, id, eventq_pending, eventq_free, idleVars, agenda>>

Due(now) == eventq_pending # NULL /\ when[eventq_pending[1]] <= now

\* The event stays at the head of the list while its action runs.
ServeEvent ==
  /\ Servicing /\ Due(Head(calls).now)
  /\ calls' = <<[op |-> "serve", ev |-> eventq_pending[1]]>> \o calls
  /\ agenda' = agenda \ {Event(eventq_pending[1])}
  /\ UNCHANGED <<next, when, id, eventq_pending, eventq_free, idleVars>>

\* Mutant: the served event stays at the head.
ServeReturn_Stays ==
  /\ calls # <<>> /\ Head(calls).op = "serve"
  /\ calls' = Tail(calls)
  /\ UNCHANGED <<next, when, id, eventq_pending, eventq_free, idleVars, agenda>>

\* Whatever is at the head by now, the list goes on after the served event.
ServeReturn ==
  /\ calls # <<>> /\ Head(calls).op = "serve"
  /\ LET ev == Head(calls).ev
     IN /\ eventq_pending' = next[ev]
        /\ next' = [next EXCEPT ![ev] = eventq_free]
        /\ eventq_free' = <<ev>>
  /\ calls' = Tail(calls)
  /\ UNCHANGED <<when, id, idleVars, agenda>>

\* Mutant: events at now itself are left.
ServiceReturn_Before ==
  /\ Servicing /\ ~Due(Head(calls).now - 1)
  /\ calls' = Tail(calls)
  /\ UNCHANGED <<next, when, id, eventq_pending, eventq_free, idleVars, agenda>>

ServiceReturn ==
  /\ Servicing /\ ~Due(Head(calls).now)
  /\ calls' = Tail(calls)
  /\ UNCHANGED <<next, when, id, eventq_pending, eventq_free, idleVars, agenda>>

\* A callback may remove or execute any event but the one it belongs to.
Others == {id[d] : d \in ToSet(Pending) \ Running}

Next ==
  \/ \E w \in Times : CallbackTime(w) /\ Queue(w)
  \/ \E i \in Others : eventq_remove(i) \/ eventq_execute(i)
  \/ \E now \in Times : Service(now)
  \/ ServeEvent \/ ServeReturn \/ ServiceReturn \/ ExecuteReturn

\* A callback and a service call return.
Progress == ServeEvent \/ ServeReturn \/ ServiceReturn \/ ExecuteReturn
Spec == Init /\ [][Next]_vars /\ WF_vars(Progress)

-----------------------------------------------------------------------------
(* Properties *)

\* A descriptor is in one list once, or taken out for its action: no callback
\* makes the lists share descriptors or run in circles.
ListsSound ==
  /\ IsInjective(Pending) /\ IsInjective(Free)
  /\ ToSet(Pending) \cap ToSet(Free) = {}
  /\ Running \cap ToSet(Free) = {}

\* The list is sorted by time, also while callbacks insert into it.
Sorted ==
  \A i \in 1 .. Len(Pending) - 1 : when[Pending[i]] <= when[Pending[i + 1]]

\* Every event that was queued and not yet started or removed is in the list,
\* and nothing else is but the event being served: callbacks that change the
\* list under it lose no event and bring none back (eventq_service_events).
NothingLost ==
  /\ ListsSound /\ Sorted
  /\ {Event(d) : d \in ToSet(Pending) \ Running} = agenda

\* "service all events in order of occurrance until and at NOW" (eventq.h): an
\* event is started when none that is still to be done is earlier, and the call
\* returns when none at or before NOW is left.
ServedInOrder ==
  [][ /\ ServeEvent => \A e \in agenda : when[eventq_pending[1]] <= e.when
      /\ Servicing /\ calls' = <<>> =>
           \A e \in agenda : e.when > Head(calls).now ]_vars

\* A service call returns: callbacks queue later events only, and only so many.
ServiceReturns == calls # <<>> ~> calls = <<>>
=============================================================================
