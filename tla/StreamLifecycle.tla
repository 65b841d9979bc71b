-------------------------- MODULE StreamLifecycle --------------------------
(***************************************************************************)
(* What the client transport promises about every stream handle it obtains *)
(* from MsQuic, whatever threads and callbacks interleave:                 *)
(*                                                                         *)
(*   unused --> opening --> usable --> draining --> released               *)
(*                 |                                   ^                   *)
(*                 +-----------------------------------+                   *)
(*                                                                         *)
(* A handle is published to the application at most once, under an id that *)
(* was never issued before; it leaves the send-capable table before it is  *)
(* released; and it is released (StreamClose) once, after which it never   *)
(* comes back.                                                             *)
(***************************************************************************)
EXTENDS Naturals

CONSTANT Handle          \* the HQUIC stream handles

VARIABLES phase,         \* where each handle is in its life
          lastId         \* the largest stream id issued so far

vars == <<phase, lastId>>

Phase == {"unused", "opening", "usable", "draining", "released"}

Init == /\ phase = [h \in Handle |-> "unused"]
        /\ lastId = 0

Move(h, from, to) ==
    /\ phase[h] = from
    /\ phase' = [phase EXCEPT ![h] = to]

\* The next id to be issued is one that never was.
IssueId == lastId' \in Nat /\ lastId' > lastId

Acquire(h) == Move(h, "unused", "opening") /\ UNCHANGED lastId

\* The handle could not be started: it is released without being published.
Abandon(h) == Move(h, "opening", "released") /\ UNCHANGED lastId

Publish(h) == /\ Move(h, "opening", "usable")
              /\ IssueId

\* An id may be spent on a stream that never opens.
SpendId == /\ IssueId
           /\ UNCHANGED phase

\* The pre-allocated streams are obtained and published in one callback.
AcquireAndPublish(h) == /\ Move(h, "unused", "usable")
                        /\ IssueId

\* The same, but MsQuic refuses to start the stream: the id is spent.
AcquireAndSpend(h) == /\ Move(h, "unused", "opening")
                      /\ IssueId

Retire(h) == Move(h, "usable", "draining") /\ UNCHANGED lastId

Release(h) == Move(h, "draining", "released") /\ UNCHANGED lastId

Next == \/ SpendId
        \/ \E h \in Handle : \/ Acquire(h)
                             \/ Abandon(h)
                             \/ Publish(h)
                             \/ AcquireAndPublish(h)
                             \/ AcquireAndSpend(h)
                             \/ Retire(h)
                             \/ Release(h)

Spec == Init /\ [][Next]_vars
=============================================================================
