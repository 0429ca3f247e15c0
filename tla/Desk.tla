--------------------------------- MODULE Desk ---------------------------------
(***************************************************************************)
(* What the drawer and the quotes of a team's tills share: the requests in *)
(* flight at each till, the clock they stamp rows with, and the team's     *)
(* feed.  A row is written and then, in a statement of its own, its event  *)
(* goes into the outbox; the event carries the row as it is by then.       *)
(* TeamSync is about how the outbox reaches the other tills: here it does, *)
(* in order and once.                                                      *)
(***************************************************************************)
EXTENDS Integers, FiniteSets, Sequences

CONSTANTS Tills,
          Requests,    \* requests that can be in flight at once, over all tills
          Clock(_, _), \* Clock(t, n): what the clock of till t shows at moment n
          MaxMoments,  \* bound on rows stamped
          MaxCrashes,  \* bound on process deaths
          None

ASSUME DeskAssumption ==
    /\ Tills \cap Requests = {}
    /\ MaxMoments \in Nat /\ MaxCrashes \in Nat
    /\ \A t \in Tills : \A n \in 0..MaxMoments : Clock(t, n) \in Nat
    /\ None \notin Tills \cup Nat

\* Stamps have milliseconds and people press the buttons: a till's clock moves on from
\* one row to the next, and no two tills stamp alike.  It may be ahead of another's.
ASSUME ClockAssumption ==
    \A t, o \in Tills : \A m, n \in 0..MaxMoments :
        /\ m < n => Clock(t, m) < Clock(t, n)
        /\ Clock(t, m) = Clock(o, n) => t = o

VARIABLES now,   \* moments passed; every stamped row takes one
          inbox, \* events on their way to each till
          req,   \* request slots; the slot of a till is its sync loop
          crashes

deskVars == <<now, inbox, req, crashes>>

\* A slot: the step a handler is at, its till, the row it is about, and what it has
\* read: a stamp, revision or moment (seen) and a set of payments (sum).
IdleSlot == [step |-> "idle", at |-> None, doc |-> None, seen |-> None, sum |-> {}]
Idle(q) == req[q] = IdleSlot
Put(q, slot) == req' = [req EXCEPT ![q] = slot]
Work(step, t, doc, seen) == [IdleSlot EXCEPT !.step = step, !.at = t, !.doc = doc, !.seen = seen]
AtStep(q, step) == req[q].step = step

DeskInit ==
    /\ now = 0
    /\ inbox = [t \in Tills |-> <<>>]
    /\ req = [q \in Requests \cup Tills |-> IdleSlot]
    /\ crashes = 0

nowStamp(t) == Clock(t, now')
Moment == now < MaxMoments /\ now' = now + 1

Emit(t, event) ==
    inbox' = [o \in Tills |-> IF o = t THEN inbox[o] ELSE Append(inbox[o], event)]
Arrived(t, kind) == inbox[t] # <<>> /\ Head(inbox[t]).kind = kind
Received(t) == inbox' = [inbox EXCEPT ![t] = Tail(@)]

\* The process of till t dies: what its requests had not written is gone.
ProcessDies(t) ==
    /\ crashes < MaxCrashes /\ crashes' = crashes + 1
    /\ \E q \in DOMAIN req : req[q].at = t
    /\ req' = [q \in DOMAIN req |-> IF req[q].at = t THEN IdleSlot ELSE req[q]]
    /\ UNCHANGED <<now, inbox>>

\* Nothing is in flight and no event is on its way.
Settled == (\A q \in DOMAIN req : Idle(q)) /\ (\A t \in Tills : inbox[t] = <<>>)
=============================================================================
