--------------------------- MODULE FetchCoalescing ---------------------------
(***************************************************************************)
(* What a project actor promises the callers that ask it for a project     *)
(* state (spec 4.6, "Fetch debouncing" and "Update"), with the fetch       *)
(* machinery left out.                                                     *)
(*                                                                         *)
(* A caller (a queued envelope or a get_state receiver) is either answered *)
(* at once with the held state, which must then be usable, or it waits.    *)
(* Waiting callers are answered only when a state is installed, all of     *)
(* them in the same step and with the state installed.  A usable held      *)
(* state is never replaced by an invalid one (P8).  The held state ages.   *)
(***************************************************************************)
CONSTANTS
    Waiters,    \* the callers: envelopes and get_state receivers
    Receivers,  \* the callers that are handed the state itself
    States,     \* the project states
    None

VARIABLES
    held,    \* the state the actor holds, or None
    wstatus, \* per caller: "idle", "waiting" or "done"
    got      \* per receiver: the state it was answered with, or None

avars == <<held, wstatus, got>>

\* A held state that may be handed out: present and not expired.
Usable(s) == s # None /\ s.age # "Expired"

Init ==
    /\ held = None
    /\ wstatus = [w \in Waiters |-> "idle"]
    /\ got = [r \in Receivers |-> None]

\* A caller is answered at once with the usable held state.
AnswerNow(w) ==
    /\ wstatus[w] = "idle"
    /\ Usable(held)
    /\ wstatus' = [wstatus EXCEPT ![w] = "done"]
    /\ got' = IF w \in Receivers THEN [got EXCEPT ![w] = held] ELSE got
    /\ UNCHANGED held

\* A caller starts waiting for the next installed state.
Wait(w) ==
    /\ wstatus[w] = "idle"
    /\ wstatus' = [wstatus EXCEPT ![w] = "waiting"]
    /\ UNCHANGED <<held, got>>

\* A state is installed and every waiting caller answered with it at once.
Install(s) ==
    /\ (Usable(held) /\ s.invalid) => s = held
    /\ held' = s
    /\ wstatus' = [w \in Waiters |-> IF wstatus[w] = "waiting" THEN "done" ELSE wstatus[w]]
    /\ got' = [r \in Receivers |-> IF wstatus[r] = "waiting" THEN s ELSE got[r]]

\* The held state grows older: Updated, then Stale, then Expired.
Age ==
    /\ held # None
    /\ held.age # "Expired"
    /\ held' = [held EXCEPT !.age = IF @ = "Updated" THEN "Stale" ELSE "Expired"]
    /\ UNCHANGED <<wstatus, got>>

Next ==
    \/ \E w \in Waiters : AnswerNow(w) \/ Wait(w)
    \/ \E s \in States : Install(s)
    \/ Age

Spec == Init /\ [][Next]_avars

=============================================================================
